----------------------------- MODULE AttemptLog -----------------------------
(***************************************************************************)
(* An evidence attempt recorded on a connection of its own, so that it     *)
(* outlives the transaction that reports it: _record_attempt with          *)
(* isolated=True and _persist_attempt_independently (evidence_service.py). *)
(*                                                                         *)
(* The worker tries to INSERT one row, under a name it has generated, in   *)
(* autocommit mode.  Its connection may break at any point, the server may *)
(* execute a statement whose sender has given up waiting, and another row  *)
(* may hold the generated name.  Every try of an attempt sends the same    *)
(* row, which the table can hold once, the name being its key.  What the   *)
(* row says is left out.                                                   *)
(***************************************************************************)
EXTENDS Naturals

CONSTANTS
  Attempts,   \* logical attempts
  Tries       \* tries of an attempt to insert its row: 3 in the code

ASSUME AttemptAssumption == Tries \in Nat \ {0}

VARIABLES
  step,       \* where the worker of each attempt is
  try,        \* the number of its current try
  sent,       \* its tries whose INSERT the server has neither run nor lost
  reply,      \* what the server has answered its current try
  row         \* who holds the name of its row

logVars == <<step, try, sent, reply, row>>

Working == {"CONNECT", "INSERT", "WAIT", "PROBE"}
Answered == {"COMMITTED_INDEPENDENT", "CALLER_TRANSACTION_BOUND"}

LogTypeOK ==
  /\ step \in [Attempts -> Working \cup Answered \cup {"IDLE", "DEAD"}]
  /\ try \in [Attempts -> 0..Tries]
  /\ sent \in [Attempts -> SUBSET (1..Tries)]
  /\ reply \in [Attempts -> {"NONE", "INSERTED", "DUPLICATE"}]
  /\ row \in [Attempts -> {"FREE", "OWN", "OTHER"}]

LogInit ==
  /\ step = [a \in Attempts |-> "IDLE"]
  /\ try = [a \in Attempts |-> 0]
  /\ sent = [a \in Attempts |-> {}]
  /\ reply = [a \in Attempts |-> "NONE"]
  /\ row = [a \in Attempts |-> "FREE"]

-----------------------------------------------------------------------------
(* The worker.                                                             *)

Begin(a) ==
  /\ step[a] = "IDLE"
  /\ step' = [step EXCEPT ![a] = "CONNECT"]
  /\ try' = [try EXCEPT ![a] = 1]
  /\ UNCHANGED <<sent, reply, row>>

Connect(a) ==
  /\ step[a] = "CONNECT"
  /\ step' = [step EXCEPT ![a] = "INSERT"]
  /\ UNCHANGED <<try, sent, reply, row>>

Send(a) ==
  /\ step[a] = "INSERT"
  /\ step' = [step EXCEPT ![a] = "WAIT"]
  /\ sent' = [sent EXCEPT ![a] = @ \cup {try[a]}]
  /\ UNCHANGED <<try, reply, row>>

Acknowledged(a) ==
  /\ step[a] = "WAIT" /\ reply[a] = "INSERTED"
  /\ step' = [step EXCEPT ![a] = "COMMITTED_INDEPENDENT"]
  /\ UNCHANGED <<try, sent, reply, row>>

\* Error 1062: the worker goes on to read the row that holds the name.
Refused(a) ==
  /\ step[a] = "WAIT" /\ reply[a] = "DUPLICATE"
  /\ step' = [step EXCEPT ![a] = "PROBE"]
  /\ UNCHANGED <<try, sent, reply, row>>

\* Mutant: a duplicate name is taken for the attempt's own row.
OwnIfTaken(a) == row[a] # "FREE"

\* The row's audit_payload_sha256 is the one sent.
Own(a) == row[a] = "OWN"

Probe(a) ==
  /\ step[a] = "PROBE"
  /\ step' = [step EXCEPT ![a] = IF Own(a) THEN "COMMITTED_INDEPENDENT"
                                          ELSE "CALLER_TRANSACTION_BOUND"]
  /\ UNCHANGED <<try, sent, reply, row>>

\* Mutant: a third lost connection leaves the caller without an answer.
BreakWithoutEnd(a) ==
  /\ step[a] \in Working
  /\ step' = [step EXCEPT ![a] = "CONNECT"]
  /\ try' = [try EXCEPT ![a] = IF try[a] < Tries THEN try[a] + 1 ELSE try[a]]
  /\ reply' = [reply EXCEPT ![a] = "NONE"]
  /\ UNCHANGED <<sent, row>>

\* A transient error, of the connection or of any statement: try again from a
\* new connection, at most Tries times in all.
Break(a) ==
  /\ step[a] \in Working
  /\ IF try[a] < Tries
     THEN /\ step' = [step EXCEPT ![a] = "CONNECT"]
          /\ try' = [try EXCEPT ![a] = try[a] + 1]
     ELSE /\ step' = [step EXCEPT ![a] = "CALLER_TRANSACTION_BOUND"]
          /\ UNCHANGED try
  /\ reply' = [reply EXCEPT ![a] = "NONE"]
  /\ UNCHANGED <<sent, row>>

\* Any other error: not retried.
Fail(a) ==
  /\ step[a] \in Working
  /\ step' = [step EXCEPT ![a] = "CALLER_TRANSACTION_BOUND"]
  /\ UNCHANGED <<try, sent, reply, row>>

Work(a) ==
  Connect(a) \/ Send(a) \/ Acknowledged(a) \/ Refused(a) \/ Probe(a)
    \/ Break(a) \/ Fail(a)

Die(a) ==
  /\ step[a] \in Working
  /\ step' = [step EXCEPT ![a] = "DEAD"]
  /\ UNCHANGED <<try, sent, reply, row>>

-----------------------------------------------------------------------------
(* The server.                                                             *)

\* The INSERT of try t runs; only the sender of the current try hears of it.
Execute(a, t) ==
  /\ t \in sent[a]
  /\ sent' = [sent EXCEPT ![a] = @ \ {t}]
  /\ row' = [row EXCEPT ![a] = IF @ = "FREE" THEN "OWN" ELSE @]
  /\ reply' = IF step[a] = "WAIT" /\ try[a] = t
              THEN [reply EXCEPT ![a] = IF row[a] = "FREE" THEN "INSERTED"
                                                           ELSE "DUPLICATE"]
              ELSE reply
  /\ UNCHANGED <<step, try>>

\* It never arrives, or ends in an error.
Lose(a, t) ==
  /\ t \in sent[a]
  /\ sent' = [sent EXCEPT ![a] = @ \ {t}]
  /\ UNCHANGED <<step, try, reply, row>>

\* A row of someone else takes the generated name.
Take(a) ==
  /\ row[a] = "FREE"
  /\ row' = [row EXCEPT ![a] = "OTHER"]
  /\ UNCHANGED <<step, try, sent, reply>>

Serve(a) == Take(a) \/ \E t \in 1..Tries : Execute(a, t) \/ Lose(a, t)

-----------------------------------------------------------------------------
LogNext == \E a \in Attempts : Begin(a) \/ Work(a) \/ Die(a) \/ Serve(a)

\* Every wait of a worker is bounded by a timeout of its connection.
LogFair == \A a \in Attempts : WF_logVars(Work(a))

LogSpec == LogInit /\ [][LogNext]_logVars /\ LogFair

-----------------------------------------------------------------------------
(* Properties.                                                             *)

\* The journal the log stands for.
JournalAnswer(s) ==
  CASE s \in Working -> "ASKED"
    [] s = "CALLER_TRANSACTION_BOUND" -> "NOT_RECORDED"
    [] s = "DEAD" -> "DIED"
    [] OTHER -> s

Journal == INSTANCE AttemptJournal WITH
  recorded <- {a \in Attempts : row[a] = "OWN"},
  answer <- [a \in Attempts |-> JournalAnswer(step[a])]

\* Whatever is lost, delayed or retried, an attempt is recorded at most once
\* and for good, and its caller hears COMMITTED_INDEPENDENT only of a row that
\* is its own (_persist_attempt_independently, _record_attempt).
KeepsJournal == Journal!Init /\ [][Journal!Next]_(Journal!vars)

\* The caller of an attempt, which holds the lock of the message meanwhile, is
\* answered unless its process dies (the three tries and their timeouts).
AttemptsAnswered ==
  \A a \in Attempts : step[a] \in Working ~> step[a] \in Answered \cup {"DEAD"}

=============================================================================
