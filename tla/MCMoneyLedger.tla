---------------------------- MODULE MCMoneyLedger ----------------------------
(* Instances of MoneyLedger for TLC.                                       *)
EXTENDS MoneyLedger, TLC

TwoEach == [s \in Sales |-> 2]

Made(t) == {x \in DOMAIN t : t[x].status # "ABSENT"}
Draw == Cardinality(Made(alloc)) + Cardinality(Made(app))

Cash == \A c \in Made(coll) : coll[c].kind = "CASH" /\ coll[c].due
OneCashReceipt == Cash /\ Cardinality(Made(coll)) <= 1

Buyers == {sale[s].customer : s \in Sales} \cup {view[s].customer : s \in Sales}
            \cup {adj[j].customer : j \in Adjustments}
            \cup {alloc[x].customer : x \in Allocations}

OneBuyer ==
  /\ Cardinality(Buyers \ {NoCustomer}) <= 1
  /\ \A s \in Sales : view[s].status = "OPEN" /\ view[s].customer = NoCustomer

\* A run is one of four cases.  Three payments and discounts draw on
\* one receipt, one adjustment and one sale, of one buyer; ...
ManyDraws ==
  /\ OneCashReceipt /\ OneBuyer /\ Draw <= 3
  /\ Cardinality(Made(app)) = 3 => Made(coll) = {}
  /\ \A s \in Sales : sale[s].status # "CLOSED"
  /\ \A t \in {coll, adj} : \A x \in Made(t) :
       t[x].status # "REJECTED" /\ (Draw > 0 => t[x].status \notin Pending)
  /\ \A t \in {alloc, app} : \A x \in Made(t) : t[x].status # "REJECTED"
  /\ \A j \in Made(adj) : adj[j].classified

\* ... or two receipts of every kind correct each other and one becomes due,
\* with one allocation, to a sale of one buyer or to none; ...
ManyReceipts ==
  /\ Draw <= 1 /\ Made(adj) = {} /\ OneBuyer /\ Cardinality(Made(coll)) <= 2
  /\ Cardinality({c \in Made(coll) : ~coll[c].due \/ c \in lapsed}) <= 1
  /\ \A s \in Sales : IF Made(alloc) = {} THEN sale[s].status # "CLOSED"
                      ELSE sale[s].status = "APPROVED"
  /\ Draw > 0 => \A c \in Made(coll) : coll[c].status # "REJECTED"

\* ... or three receipts of one transaction correct and duplicate each other; ...
RivalReceipts ==
  /\ Cash /\ Draw = 0 /\ Made(adj) = {} /\ Buyers = {NoCustomer}

\* ... or the sale changes hands under a payment or a discount that was
\* proposed from what an older snapshot said.
ManyBuyers ==
  /\ OneCashReceipt /\ Draw <= 1
  /\ \A t \in {coll, adj} : \A x \in Made(t) :
       t[x].status # "REJECTED" /\ (Draw > 0 => t[x].status \notin Pending)
  /\ Made(adj) = {} \/ Made(alloc) = {}

\* Documents are interchangeable: applications, which are numbered, are used in
\* the order of their numbers; for the others TLC takes the symmetry.
InOrder == \A q \in Applications : \A p \in 1..(q - 1) :
             app[q].status # "ABSENT" => app[p].status # "ABSENT"

OneCase ==
  /\ InOrder
  /\ ManyDraws \/ ManyReceipts \/ RivalReceipts \/ ManyBuyers

Symmetry == Permutations(Collections) \cup Permutations(Allocations)
              \cup Permutations(Customers)

=============================================================================
