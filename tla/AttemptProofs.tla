--------------------------- MODULE AttemptProofs ---------------------------
(***************************************************************************)
(* What is proved of AttemptLog for any number of attempts and tries: its  *)
(* types, that it implements AttemptJournal, and that the caller is told   *)
(* COMMITTED_INDEPENDENT only of a row of its own that stays.              *)
(***************************************************************************)
EXTENDS AttemptLog, TLAPS

\* The row is the attempt's own once an INSERT of it was acknowledged or its
\* caller told so, and nothing is sent or inserted for one not begun.
Backed(a) ==
  /\ reply[a] = "INSERTED" => row[a] = "OWN"
  /\ step[a] = "COMMITTED_INDEPENDENT" => row[a] = "OWN"
  /\ step[a] = "IDLE" => sent[a] = {} /\ row[a] # "OWN"

\* The number of a try under way is one the log allows.
Counted(a) == step[a] \in Working => try[a] \in 1..Tries

LogInv == LogTypeOK /\ \A a \in Attempts : Backed(a) /\ Counted(a)

LEMMA InitInv == LogInit => LogInv
  BY AttemptAssumption DEF LogInit, LogInv, LogTypeOK, Backed, Counted, Working, Answered

-----------------------------------------------------------------------------
(* The invariant.                                                          *)

LEMMA WorkTyped ==
  ASSUME LogInv, NEW a \in Attempts, Begin(a) \/ Work(a) \/ Die(a)
  PROVE  LogTypeOK'
<1> USE AttemptAssumption DEF LogInv, LogTypeOK, Counted, Working, Answered
<1>1. CASE Begin(a) BY <1>1 DEF Begin
<1>2. CASE Connect(a) BY <1>2 DEF Connect
<1>3. CASE Send(a) BY <1>3 DEF Send
<1>4. CASE Acknowledged(a) BY <1>4 DEF Acknowledged
<1>5. CASE Refused(a) BY <1>5 DEF Refused
<1>6. CASE Probe(a) BY <1>6 DEF Probe
<1>7. CASE Break(a) BY <1>7 DEF Break
<1>8. CASE Fail(a) BY <1>8 DEF Fail
<1>9. CASE Die(a) BY <1>9 DEF Die
<1> QED BY <1>1, <1>2, <1>3, <1>4, <1>5, <1>6, <1>7, <1>8, <1>9 DEF Work

LEMMA WorkBacked ==
  ASSUME LogInv, NEW a \in Attempts, Begin(a) \/ Work(a) \/ Die(a)
  PROVE  \A b \in Attempts : Backed(b)' /\ Counted(b)'
<1> SUFFICES ASSUME NEW b \in Attempts PROVE Backed(b)' /\ Counted(b)'
    OBVIOUS
<1> USE AttemptAssumption DEF LogInv, LogTypeOK, Backed, Counted, Working, Answered
<1>1. CASE Begin(a) BY <1>1 DEF Begin
<1>2. CASE Connect(a) BY <1>2 DEF Connect
<1>3. CASE Send(a) BY <1>3 DEF Send
<1>4. CASE Acknowledged(a) BY <1>4 DEF Acknowledged
<1>5. CASE Refused(a) BY <1>5 DEF Refused
<1>6. CASE Probe(a) BY <1>6 DEF Probe, Own
<1>7. CASE Break(a) BY <1>7 DEF Break
<1>8. CASE Fail(a) BY <1>8 DEF Fail
<1>9. CASE Die(a) BY <1>9 DEF Die
<1> QED BY <1>1, <1>2, <1>3, <1>4, <1>5, <1>6, <1>7, <1>8, <1>9 DEF Work

LEMMA ServeInv ==
  ASSUME LogInv, NEW a \in Attempts, Serve(a)
  PROVE  LogInv'
<1> USE AttemptAssumption DEF LogInv, LogTypeOK, Backed, Counted, Working, Answered
<1>1. CASE Take(a) BY <1>1 DEF Take
<1>2. ASSUME NEW t \in 1..Tries, Execute(a, t) PROVE LogInv'
  <2>1. LogTypeOK' BY <1>2 DEF Execute
  <2>2. \A b \in Attempts : Backed(b)' /\ Counted(b)' BY <1>2 DEF Execute
  <2> QED BY <2>1, <2>2
<1>3. ASSUME NEW t \in 1..Tries, Lose(a, t) PROVE LogInv' BY <1>3 DEF Lose
<1> QED BY <1>1, <1>2, <1>3 DEF Serve

LEMMA StepInv == LogInv /\ [LogNext]_logVars => LogInv'
<1> SUFFICES ASSUME LogInv, [LogNext]_logVars PROVE LogInv'
    OBVIOUS
<1>1. CASE UNCHANGED logVars
  BY <1>1 DEF logVars, LogInv, LogTypeOK, Backed, Counted
<1>2. ASSUME NEW a \in Attempts, Begin(a) \/ Work(a) \/ Die(a) PROVE LogInv'
  BY <1>2, WorkTyped, WorkBacked DEF LogInv
<1>3. ASSUME NEW a \in Attempts, Serve(a) PROVE LogInv'
  BY <1>3, ServeInv
<1> QED BY <1>1, <1>2, <1>3 DEF LogNext

\* The inductive invariant of the log: its types, and what an acknowledgement
\* vouches for (_persist_attempt_independently).
THEOREM LogInvariant == LogSpec => []LogInv
  BY InitInv, StepInv, PTL DEF LogSpec

\* Every variable of the log keeps its type, the number of tries its bound.
THEOREM LogTypeCorrect == LogSpec => []LogTypeOK
<1>1. LogInv => LogTypeOK BY DEF LogInv
<1> QED BY <1>1, LogInvariant, PTL

-----------------------------------------------------------------------------
(* The log implements the journal.                                         *)

LEMMA JournalInit == LogInit => Journal!Init
  BY DEF LogInit, Journal!Init, JournalAnswer, Working

LEMMA JournalStep ==
  ASSUME LogInv, [LogNext]_logVars
  PROVE  [Journal!Next]_(Journal!vars)
<1> USE DEF JournalAnswer, Working, Answered
<1>1. CASE UNCHANGED logVars
  BY <1>1 DEF logVars, Journal!vars
<1>2. ASSUME NEW a \in Attempts, Begin(a) PROVE Journal!Ask(a)
  BY <1>2 DEF Begin, Journal!Ask, LogInv, LogTypeOK
<1>3. ASSUME NEW a \in Attempts, Work(a)
      PROVE Journal!Reply(a) \/ UNCHANGED Journal!vars
  <2> USE DEF Journal!Reply, Journal!vars, LogInv, LogTypeOK, Backed
  <2>1. CASE Connect(a) BY <2>1 DEF Connect
  <2>2. CASE Send(a) BY <2>2 DEF Send
  <2>3. CASE Acknowledged(a) BY <2>3 DEF Acknowledged
  <2>4. CASE Refused(a) BY <2>4 DEF Refused
  <2>5. CASE Probe(a) BY <2>5 DEF Probe, Own
  <2>6. CASE Break(a)
    <3>1. CASE try[a] < Tries
      <4>1. step' = [step EXCEPT ![a] = "CONNECT"] /\ row' = row
        BY <2>6, <3>1 DEF Break
      <4> QED BY <2>6, <4>1 DEF Break
    <3>2. CASE ~(try[a] < Tries)
      <4>1. step' = [step EXCEPT ![a] = "CALLER_TRANSACTION_BOUND"] /\ row' = row
        BY <2>6, <3>2 DEF Break
      <4>2. step[a] \in Working BY <2>6 DEF Break
      <4> HIDE DEF Backed
      <4> QED BY <4>1, <4>2
    <3> QED BY <3>1, <3>2
  <2>7. CASE Fail(a) BY <2>7 DEF Fail
  <2> QED BY <1>3, <2>1, <2>2, <2>3, <2>4, <2>5, <2>6, <2>7 DEF Work
<1>4. ASSUME NEW a \in Attempts, Die(a) PROVE Journal!Die(a)
  BY <1>4 DEF Die, Journal!Die, LogInv, LogTypeOK
<1>5. ASSUME NEW a \in Attempts, Serve(a)
      PROVE Journal!Record(a) \/ UNCHANGED Journal!vars
  <2> USE DEF Journal!Record, Journal!vars, LogInv, LogTypeOK, Backed
  <2>1. CASE Take(a) BY <2>1 DEF Take
  <2>2. ASSUME NEW t \in 1..Tries, Execute(a, t)
        PROVE Journal!Record(a) \/ UNCHANGED Journal!vars
    BY <2>2 DEF Execute
  <2>3. ASSUME NEW t \in 1..Tries, Lose(a, t) PROVE UNCHANGED Journal!vars
    BY <2>3 DEF Lose
  <2> QED BY <1>5, <2>1, <2>2, <2>3 DEF Serve
<1> QED BY <1>1, <1>2, <1>3, <1>4, <1>5 DEF LogNext, Journal!Next

\* Whatever is lost, delayed or retried, the log behaves as the journal says:
\* one row at most for an attempt, never taken back, and a caller is told
\* COMMITTED_INDEPENDENT only of its own row (_persist_attempt_independently).
THEOREM ImplementsJournal == LogSpec => KeepsJournal
<1>1. LogInv /\ [LogNext]_logVars => [Journal!Next]_(Journal!vars)
  BY JournalStep
<1> QED BY <1>1, JournalInit, LogInvariant, PTL DEF LogSpec, KeepsJournal

=============================================================================
