--------------------------- MODULE AttemptJournal ---------------------------
(***************************************************************************)
(* What recording an evidence attempt on a second connection promises its  *)
(* caller (_persist_attempt_independently): the attempt is recorded at     *)
(* most once and never taken back, the caller is told it is committed only *)
(* when it is recorded, and it is told something unless its process dies.  *)
(* An attempt may be recorded after its caller was told it was not: that   *)
(* answer says only that nothing may be built on the record.               *)
(***************************************************************************)
CONSTANT Attempts      \* attempts to record something

VARIABLES
  recorded,            \* attempts whose own row is in the table
  answer               \* what the caller of each attempt was told

vars == <<recorded, answer>>

Answers == {"IDLE", "ASKED", "COMMITTED_INDEPENDENT", "NOT_RECORDED", "DIED"}

Init ==
  /\ recorded = {}
  /\ answer = [a \in Attempts |-> "IDLE"]

Ask(a) ==
  /\ answer[a] = "IDLE"
  /\ answer' = [answer EXCEPT ![a] = "ASKED"]
  /\ UNCHANGED recorded

Record(a) ==
  /\ answer[a] # "IDLE"
  /\ recorded' = recorded \cup {a}
  /\ UNCHANGED answer

Reply(a) ==
  /\ answer[a] = "ASKED"
  /\ \/ a \in recorded /\ answer' = [answer EXCEPT ![a] = "COMMITTED_INDEPENDENT"]
     \/ answer' = [answer EXCEPT ![a] = "NOT_RECORDED"]
  /\ UNCHANGED recorded

Die(a) ==
  /\ answer[a] = "ASKED"
  /\ answer' = [answer EXCEPT ![a] = "DIED"]
  /\ UNCHANGED recorded

Next == \E a \in Attempts : Ask(a) \/ Record(a) \/ Reply(a) \/ Die(a)

Spec == Init /\ [][Next]_vars /\ \A a \in Attempts : WF_vars(Reply(a))

=============================================================================
