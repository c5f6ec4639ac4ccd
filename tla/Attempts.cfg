SPECIFICATION LogSpec
CHECK_DEADLOCK FALSE
CONSTANTS
  Attempts = {a1, a2}
  Tries = 3
PROPERTIES KeepsJournal AttemptsAnswered
