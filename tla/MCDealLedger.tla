---------------------------- MODULE MCDealLedger ----------------------------
(* Instances of DealLedger for TLC.                                        *)
EXTENDS DealLedger, TLC

CONSTANT l1     \* the first lot

ThreeAndTwo == [l \in Lots |-> IF l = l1 THEN 3 ELSE 2]
OneUnitMore == [l \in Lots |-> IF l = l1 THEN 2 ELSE 1]

Made == {r \in Revisions : rev[r].status # "Absent"}
Minted == {g \in Grants : grant[g].rev # None}

\* A run is one of two cases.  One revision of rate or customer moves through
\* a deal on the first lot, one request open at a time, whatever is decided,
\* countered or dispatched; ...
OneRevision ==
  /\ Cardinality(Made) <= 1 /\ Cardinality(Minted) <= 1
  /\ Cardinality({w \in Workers : txn[w] # None}) <= 1
  /\ \A r \in Made : rev[r].field # "lot_no"
  /\ \A d \in Deals : deal[d].status # "Absent" => deal[d].lot = l1

\* ... or two revisions, with an approval each or two for one, move a deal
\* approved automatically from lot to lot.
TwoRevisions ==
  /\ \A r \in Made : rev[r].field = "lot_no"
  /\ \A d \in Deals : deal[d].status # "Absent" =>
       /\ deal[d].proposed_rate \in FairRates /\ deal[d].customer = NoCustomer
       /\ deal[d].decision = "None" /\ deal[d].dispatched \in {0, deal[d].qty}

\* No lot is edited here, so a container save that only reads is over before
\* revisions are asked for.
OneCase ==
  /\ edit # None => Made = {}
  /\ OneRevision \/ TwoRevisions

Steady == inward = FirstInward /\ edit = None
Undecided == \A d \in Deals : deal[d].decision = "None"
Open(ops) == \A w \in Workers : txn[w] # None => txn[w].op \in ops
Entered == {d \in Deals : deal[d].status # "Absent"}
OneLot == \A d \in Entered : deal[d].lot = l1 /\ deal[d].qty # 2

\* Both deals are entered when a revision of one is asked for, with its
\* evidence, and neither is cancelled.
Revising(f) ==
  /\ Open({"mint", "apply"})
  /\ Made # {} => Entered = Deals
  /\ \A r \in Made : rev[r].field = f /\ rev[r].evidenced
  /\ \A d \in Deals : deal[d].status # "Cancelled"

\* The deals of the first lot are decided and dispatched while the operating
\* quantity moves; ...
OperatingMoves == Steady /\ OneLot /\ Made = {} /\ Open({})

\* ... or dispatched and cancelled while the inward of the lot is edited; ...
InwardMoves == OneLot /\ Made = {} /\ operating = NoFact /\ Undecided

\* ... or decided, dispatched and revised in quantity; ...
QuantityMoves == Steady /\ OneLot /\ operating = NoFact /\ Revising("qty")

\* ... or one moves from lot to lot while both are dispatched.
LotMoves ==
  /\ Steady /\ operating = NoFact /\ Undecided /\ Revising("lot_no")
  /\ \A d \in Entered : deal[d].qty # 1
  /\ \A d, e \in Entered : deal[d].qty = deal[e].qty => d = e

StockCase == OperatingMoves \/ InwardMoves \/ QuantityMoves \/ LotMoves

\* Rows are interchangeable.
Symmetry == Permutations(Deals) \cup Permutations(Revisions) \cup Permutations(Grants)
              \cup Permutations(Workers)

=============================================================================
