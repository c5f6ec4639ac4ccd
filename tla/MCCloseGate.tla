----------------------------- MODULE MCCloseGate -----------------------------
(* Instances of CloseGate for TLC.                                         *)
EXTENDS CloseGate, TLC

\* Types that block at every severity and one that blocks by severity.
Concerns == {[type |-> "OTHER", severity |-> "LOW"], [type |-> "OTHER", severity |-> "MATERIAL"],
             [type |-> "BUYER_UNRESOLVED", severity |-> "LOW"]}

\* Receipts of elsewhere, one in the bank and one not allocated in full, and one
\* of the container's own.
Received == {[type |-> t, source |-> "ELSEWHERE"] : t \in {"BANK_PENDING", "MONEY_UNALLOCATED"}}
              \cup {[type |-> "MONEY_UNALLOCATED", source |-> "HERE"]}

AtRest(r) == receipt[r].status = "RESOLVED" /\ receipt[r].allocation = "NONE"

\* The container moves between requests, a rejection needs no third assertion,
\* and what customs was told is asserted beside one other assertion at most.
Steady ==
  /\ (\E a \in Assertions : claim[a].basis = "CUSTOMS_DECLARED") =>
       \E a \in Assertions : claim[a].status = "ABSENT"
  /\ (phase = "CLOSING" /\ label = "OPEN") \/ \A j \in Jobs : job[j] = None
  /\ (\E a \in Assertions : claim[a].status = "REJECTED") =>
       \E a \in Assertions : claim[a].status = "ABSENT"

\* A run is one of two cases.  Assertions are made, reviewed and corrected while
\* nothing else is open; ...
Still ==
  /\ Steady /\ phase # "SELLING"
  /\ \A r \in Receipts : AtRest(r)
  /\ \A i \in Issues : issue[i] = [kind |-> CHOOSE k \in Kinds : TRUE, status |-> "RESOLVED"]

\* ... or exceptions of other parts move, of two receipts at most, and the
\* container goes back to selling, while there are no assertions: the gate asks
\* of each kind on its own that nothing is open.
Apart ==
  \/ Still
  \/ /\ \A a \in Assertions : claim[a].status = "ABSENT"
     /\ \A j \in Jobs : job[j] = None
     /\ \E r \in Receipts : AtRest(r)

\* Assertions and requests are interchangeable.
Symmetry == Permutations(Assertions) \cup Permutations(Jobs) \cup Permutations(Issues)

=============================================================================
