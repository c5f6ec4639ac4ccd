-------------------------- MODULE MCCommercialSale --------------------------
(* Instances of CommercialSale for TLC.                                    *)
EXTENDS CommercialSale, TLC

TwoSold == [s \in Sales |-> 2]
TwoLoaded == [o \in Outwards |-> 2]

MadeSales == {s \in Sales : sale[s].status # "ABSENT"}
MadeMappings == {m \in Mappings : mapping[m].status # "ABSENT"}
MadeLinks == {x \in Links : link[x].state # "ABSENT"}

\* A run is one of two cases.  The alias is mapped and mapped again over
\* sales and their corrections, three sales under one mapping or two under
\* two, or one document less and an outward with one allocation; ...
Remaps ==
  /\ Cardinality(MadeSales) + Cardinality(MadeMappings)
       <= IF \A o \in Outwards : outward[o] = "DRAFT" THEN 4 ELSE 3
  /\ Cardinality(MadeLinks) <= 1 /\ \A x \in MadeLinks : link[x].qty = 2
  /\ Cardinality({o \in Outwards : outward[o] # "DRAFT"}) <= 1

\* ... or allocations between two sales of their own, of unmapped aliases, and
\* two outwards are made, replaced and reversed.
Moves ==
  /\ Cardinality(MadeSales) <= 2 /\ \A s \in MadeSales : sale[s].supersedes = None
  /\ MadeMappings = {}

OneCase == Remaps \/ Moves

\* Documents are interchangeable.
Symmetry == Permutations(Sales) \cup Permutations(Mappings) \cup Permutations(Links)
              \cup Permutations(Outwards) \cup Permutations(Customers)

=============================================================================
