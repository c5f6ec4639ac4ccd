-------------------------- MODULE MCOutwardLedger --------------------------
(* Instances of OutwardLedger for TLC.                                     *)
EXTENDS OutwardLedger, TLC

CONSTANTS A, B, l1, l2

\* One crate of lot A with one crate of an unresolved lot.
Crates == {l1 :> [lot |-> A, qty |-> 1] @@ l2 :> [lot |-> Unmapped, qty |-> 1]}

\* Room in the container but not in A, in A but not in the container, in both.
Arrivals == {(A :> 1 @@ B :> 3), (A :> 2 @@ B :> 1), (A :> 2 @@ B :> 2)}

\* A third assertion is made only while there is a single outward: rivals need
\* one scope, and reversals and gatepasses need no third assertion.
FewRivals ==
  \/ Cardinality({a \in Claims : claim[a].status # "ABSENT"}) <= 2
  \/ Cardinality({o \in Outwards : doc[o].status # "ABSENT"}) <= 1

\* Source events and assertions are interchangeable.
Symmetry == Permutations(Outwards) \cup Permutations(Claims)

=============================================================================
