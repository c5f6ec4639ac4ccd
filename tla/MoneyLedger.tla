----------------------------- MODULE MoneyLedger -----------------------------
(***************************************************************************)
(* The money ledger of one Company: money_service.py.  Collections are     *)
(* receipts, Payment Allocations spend them on sales or park them on a     *)
(* container, Receivable Adjustments are debt discharged without cash and  *)
(* Adjustment Applications spend those on sales.                           *)
(*                                                                         *)
(* Every mutator takes the Company row lock before it reads the documents  *)
(* it acts on, and runs in a savepoint: one action each.  The exception is *)
(* propose_payment_allocation, whose sale comes from a plain read, of a    *)
(* snapshot that may be older than the lock.                               *)
(*                                                                         *)
(* Makers, verifiers and approvers, source event keys, evidence and        *)
(* currencies are left out: they only refuse steps the model allows.       *)
(***************************************************************************)
EXTENDS Totals, SaleRegister

CONSTANTS
  Collections, Allocations, Adjustments, Applications,   \* the documents
  Identities,        \* transaction identities (_collection_active_key)
  Receipts,          \* kinds of receipt that are entered
  MaxAmount,         \* bound on every amount, in currency units
  Amounts,           \* amounts of the receipts users enter
  Concessions,       \* amounts of the adjustments they enter
  Draws,             \* amounts of the allocations and applications they enter
  Gross,             \* approved gross of each sale; 0 while a line is unpriced
  SnapshotReads,     \* a proposal may read the sale before it locks
  None

ReceiptKinds == {"CASH", "CLEARED", "UNPROVEN", "PENDING", "UNKNOWN_AMOUNT",
                 "UNKNOWN_DIRECTION", "OUTFLOW"}

ASSUME MoneyAssumption ==
  /\ IsFiniteSet(Allocations) /\ IsFiniteSet(Applications)
  /\ MaxAmount \in Nat
  /\ Amounts \subseteq 1..MaxAmount /\ Concessions \subseteq 1..MaxAmount
  /\ Draws \subseteq 1..MaxAmount
  /\ Gross \in [Sales -> 0..MaxAmount]
  /\ Receipts \subseteq ReceiptKinds
  /\ SnapshotReads \in BOOLEAN
  /\ None \notin Collections \cup Allocations \cup Adjustments
                  \cup Applications \cup Sales \cup Identities

VARIABLES
  coll, alloc, adj, app,   \* the rows of the four doctypes
  exc,                     \* open money exceptions of each collection
  view,                    \* an old snapshot of the sales
  lapsed                   \* history: collections that have become effective
                           \* since they were last saved

vars == <<sale, coll, alloc, adj, app, exc, view, lapsed>>

-----------------------------------------------------------------------------
(* Rows.                                                                   *)

Pending == {"DRAFT", "REVIEW_PENDING", "VERIFIED"}
Statuses == Pending \cup {"ABSENT", "APPROVED", "REJECTED", "REVERSED",
                          "SUPERSEDED"}

MoneyExceptions == {"MONEY_UNALLOCATED", "BANK_PENDING",
                    "RECEIPT_AMOUNT_UNKNOWN", "RECEIPT_DIRECTION_UNKNOWN"}

\* active is the transaction identity the row holds as active_transaction_key;
\* unallocated_amount is written with allocated_amount, as the difference.
CollRow == [status: Statuses, kind: ReceiptKinds, identity: Identities \cup {None},
            due: BOOLEAN, amount: 0..MaxAmount, allocated: 0..MaxAmount,
            parked: 0..MaxAmount, active: Identities \cup {None},
            supersedes: Collections \cup {None},
            successor: Collections \cup {None}]

\* A row without a sale parks its amount on a container.
AllocRow == [status: Statuses, collection: Collections \cup {None},
             sale: Sales \cup {None}, customer: Customers \cup {NoCustomer},
             amount: 0..MaxAmount, supersedes: Allocations \cup {None},
             successor: Allocations \cup {None}]

AdjRow == [status: Statuses, customer: Customers \cup {NoCustomer},
           classified: BOOLEAN, amount: 0..MaxAmount, applied: 0..MaxAmount,
           supersedes: Adjustments \cup {None},
           successor: Adjustments \cup {None}]

AppRow == [status: Statuses, adjustment: Adjustments \cup {None},
           sale: Sales \cup {None}, customer: Customers \cup {NoCustomer},
           amount: 0..MaxAmount, supersedes: Applications \cup {None},
           successor: Applications \cup {None}]

-----------------------------------------------------------------------------
(* Sums over the approved rows.                                            *)

Approved(t) == {x \in DOMAIN t : t[x].status = "APPROVED"}

SumOf(S, t) == Total(S, [x \in S |-> t[x].amount], MaxAmount)

AllocsOf(a, c) == {x \in Approved(a) : a[x].collection = c}
ParkedOf(a, c) == {x \in AllocsOf(a, c) : a[x].sale = None}
PaymentsOf(a, s) == {x \in Approved(a) : a[x].sale = s}
AppsOf(p, j) == {x \in Approved(p) : p[x].adjustment = j}
DiscountsOf(p, s) == {x \in Approved(p) : p[x].sale = s}

-----------------------------------------------------------------------------
(* Receipts.                                                               *)

Known(c) == c.kind # "UNKNOWN_AMOUNT"
Inflow(c) == c.kind \notin {"UNKNOWN_DIRECTION", "OUTFLOW"}

\* _collection_eligible: cash declared, or cleared at the bank, and effective.
Eligible(c) == c.status = "APPROVED" /\ c.kind \in {"CASH", "CLEARED"} /\ c.due

\* The exceptions an approved receipt needs.
Flags(c) ==
  IF c.status # "APPROVED" THEN {}
  ELSE {e \in MoneyExceptions :
          \/ e = "RECEIPT_AMOUNT_UNKNOWN" /\ ~Known(c)
          \/ e = "RECEIPT_DIRECTION_UNKNOWN" /\ c.kind = "UNKNOWN_DIRECTION"
          \/ e = "BANK_PENDING" /\ c.kind = "PENDING"
          \/ e = "MONEY_UNALLOCATED" /\ Eligible(c) /\ c.allocated < c.amount}

\* Mutant: exceptions are opened and never closed again.
FlagsOnly(t, C) ==
  [c \in Collections |-> IF c \in C THEN exc[c] \cup Flags(t[c]) ELSE exc[c]]

\* _refresh_collection_exceptions for each collection in C.
Reflagged(t, C) ==
  [c \in Collections |-> IF c \in C THEN Flags(t[c]) ELSE exc[c]]

\* _save of the collections in C: every save refreshes their exceptions.
SaveColls(t, C) ==
  /\ coll' = t
  /\ exc' = Reflagged(t, C)
  /\ lapsed' = lapsed \ C

\* _sync_collection_allocated_amounts.
Synced(a, C) ==
  [c \in Collections |-> IF c \in C
     THEN [coll[c] EXCEPT !.allocated = SumOf(AllocsOf(a, c), a),
                          !.parked = SumOf(ParkedOf(a, c), a)]
     ELSE coll[c]]

\* _sync_adjustment_applied_amounts.
Applied(p, J) ==
  [j \in Adjustments |-> IF j \in J
     THEN [adj[j] EXCEPT !.applied = SumOf(AppsOf(p, j), p)] ELSE adj[j]]

\* The rows of S are reversed, without a successor.
Reversed(t, S) ==
  [x \in DOMAIN t |-> IF x \in S THEN [t[x] EXCEPT !.status = "REVERSED"]
                      ELSE t[x]]

-----------------------------------------------------------------------------
(* Steps every document takes on its way to approval.                      *)

Moves(t, x, from, to) ==
  /\ t[x].status \in from
  /\ t' = [t EXCEPT ![x].status = to]

Submit(t, x) == Moves(t, x, {"DRAFT"}, "REVIEW_PENDING")
Verify(t, x) == Moves(t, x, {"REVIEW_PENDING"}, "VERIFIED")
Reject(t, x) == Moves(t, x, Pending, "REJECTED")

\* Row p may still be replaced by its first approved successor.
Replaceable(t, p) ==
  t[p].status \in {"APPROVED", "REVERSED"} /\ t[p].successor = None

\* Row x is approved and replaces its predecessor, which ends up REVERSED.
Replacing(t, x) ==
  [y \in DOMAIN t |->
     IF y = x THEN [t[y] EXCEPT !.status = "APPROVED"]
     ELSE IF y = t[x].supersedes
          THEN [t[y] EXCEPT !.status = "REVERSED", !.successor = x]
          ELSE t[y]]

-----------------------------------------------------------------------------
(* Collections.                                                            *)

\* create_collection and supersede_collection, which adds that its
\* predecessor is APPROVED; create_collection takes any predecessor.
CreateCollection(c, kind, id, due, n, prior) ==
  /\ coll[c].status = "ABSENT"
  /\ prior # None => prior # c /\ coll[prior].status # "ABSENT"
  /\ SaveColls([coll EXCEPT ![c] =
       [status |-> "DRAFT", kind |-> kind, identity |-> id, due |-> due,
        amount |-> IF kind = "UNKNOWN_AMOUNT" THEN 0 ELSE n,
        allocated |-> 0, parked |-> 0, active |-> None,
        supersedes |-> prior, successor |-> None]], {c})
  /\ UNCHANGED <<alloc, adj, app, sale, view>>

\* submit_collection, verify_collection, reject_collection.
ReviewCollection(c) ==
  /\ \/ Submit(coll, c)
     \/ Verify(coll, c)
     \/ Moves(coll, c, Pending \ {"DRAFT"}, "REJECTED")
  /\ exc' = Reflagged(coll', {c})
  /\ lapsed' = lapsed \ {c}
  /\ UNCHANGED <<alloc, adj, app, sale, view>>

\* Mutant: the totals of the collection are left as they were.
RetiredWithTotals(p, status, successor) ==
  [coll[p] EXCEPT !.status = status, !.successor = successor,
                  !.active = None]

\* Collection p gives up its allocations and its transaction identity.
Retired(p, status, successor) ==
  [coll[p] EXCEPT !.status = status, !.successor = successor,
                  !.allocated = 0, !.parked = 0, !.active = None]

\* Mutant: a correction is taken to inherit the identity of its predecessor.
IdentityFreeIfFirst(c) ==
  coll[c].supersedes = None =>
    \A d \in Collections : coll[d].active # coll[c].identity

\* Nobody but the predecessor holds the transaction identity of c.
IdentityFree(c) ==
  \A d \in Collections \ {coll[c].supersedes} : coll[d].active # coll[c].identity

ApproveCollection(c) ==
  LET p == coll[c].supersedes
      held == {x \in Approved(alloc) : p # None /\ alloc[x].collection = p}
  IN
  /\ coll[c].status = "VERIFIED"
  /\ coll[c].kind # "UNPROVEN"
  /\ IdentityFree(c)
  /\ p # None => /\ coll[p].successor = None
                 /\ coll[p].status \notin {"SUPERSEDED", "REVERSED"}
  /\ alloc' = Reversed(alloc, held)
  /\ SaveColls([d \in Collections |->
       IF d = c THEN [coll[c] EXCEPT !.status = "APPROVED",
                                     !.active = coll[c].identity]
       ELSE IF d = p THEN Retired(p, "SUPERSEDED", c) ELSE coll[d]],
       {c, p} \cap Collections)
  /\ UNCHANGED <<adj, app, sale, view>>

ReverseCollection(c) ==
  /\ coll[c].status = "APPROVED"
  /\ alloc' = Reversed(alloc, AllocsOf(alloc, c))
  /\ SaveColls([coll EXCEPT ![c] = Retired(c, "REVERSED", None)], {c})
  /\ UNCHANGED <<adj, app, sale, view>>

\* The effective time of c passes; nothing is saved.
BecomesDue(c) ==
  /\ coll[c].status # "ABSENT" /\ ~coll[c].due
  /\ coll' = [coll EXCEPT ![c].due = TRUE]
  /\ lapsed' = lapsed \cup {c}
  /\ UNCHANGED <<alloc, adj, app, exc, sale, view>>

-----------------------------------------------------------------------------
(* Payment allocations.                                                    *)

\* The sale as of the request's snapshot.
Seen(s) == IF SnapshotReads THEN {sale[s], view[s]} ELSE {sale[s]}

ProposeAllocation(x, c, s, n, prior) ==
  /\ alloc[x].status = "ABSENT"
  /\ coll[c].status = "APPROVED" /\ Inflow(coll[c]) /\ Known(coll[c])
  /\ prior # None => /\ alloc[prior].collection = c
                     /\ alloc[prior].status \in {"APPROVED", "REVERSED"}
  /\ \E customer \in Customers \cup {NoCustomer} :
       /\ IF s = None THEN customer = NoCustomer
          ELSE /\ customer # NoCustomer
               /\ [status |-> "APPROVED", customer |-> customer] \in Seen(s)
       /\ alloc' = [alloc EXCEPT ![x] =
            [status |-> "DRAFT", collection |-> c, sale |-> s,
             customer |-> customer, amount |-> n, supersedes |-> prior,
             successor |-> None]]
  /\ UNCHANGED <<coll, adj, app, exc, sale, view, lapsed>>

ReviewAllocation(x) ==
  /\ Submit(alloc, x) \/ Verify(alloc, x)
  /\ UNCHANGED <<coll, adj, app, exc, sale, view, lapsed>>

RejectAllocation(x) ==
  /\ Reject(alloc, x)
  /\ UNCHANGED <<coll, adj, app, exc, sale, view, lapsed>>

\* Mutant: whose debt it is does not matter.
OwedByAnyone(s, customer) == sale[s].status = "APPROVED"

\* _sale_gross: the sale is approved and owed by this customer.
OwedBy(s, customer) ==
  sale[s] = [status |-> "APPROVED", customer |-> customer]

\* Mutant: only this row is compared with the gross.
WithinGrossAlone(s, payments, discounts, n) == n <= Gross[s]

\* Cap 2: payments and discounts of a sale, n included, stay within its gross.
WithinGross(s, payments, discounts, n) ==
  SumOf(payments, alloc) + SumOf(discounts, app) + n <= Gross[s]

\* Mutant: rows parked on containers do not count.
WithinReceiptUnparked(c, p, n) ==
  SumOf(AllocsOf(alloc, c) \ (ParkedOf(alloc, c) \cup {p}), alloc) + n
    <= coll[c].amount

\* Cap 1: what is allocated of c beside row p, and n, stays within the receipt.
WithinReceipt(c, p, n) ==
  SumOf(AllocsOf(alloc, c) \ {p}, alloc) + n <= coll[c].amount

ApproveAllocation(x) ==
  LET c == alloc[x].collection
      s == alloc[x].sale
      p == alloc[x].supersedes
      n == alloc[x].amount
      a == Replacing(alloc, x)
  IN
  /\ alloc[x].status = "VERIFIED"
  /\ Eligible(coll[c])
  /\ p # None => Replaceable(alloc, p)
  /\ WithinReceipt(c, p, n)
  /\ s # None =>
       /\ OwedBy(s, alloc[x].customer)
       /\ WithinGross(s, PaymentsOf(alloc, s) \ {p}, DiscountsOf(app, s), n)
  /\ alloc' = a
  /\ SaveColls(Synced(a, {c}), {c})
  /\ UNCHANGED <<adj, app, sale, view>>

ReverseAllocation(x) ==
  LET a == Reversed(alloc, {x})
      c == alloc[x].collection
  IN
  /\ alloc[x].status = "APPROVED"
  /\ alloc' = a
  /\ SaveColls(Synced(a, {c}), {c})
  /\ UNCHANGED <<adj, app, sale, view>>

-----------------------------------------------------------------------------
(* Receivable adjustments.                                                 *)

ProposeAdjustment(j, customer, classified, n, prior) ==
  /\ adj[j].status = "ABSENT"
  /\ prior # None => /\ adj[prior].customer = customer
                     /\ adj[prior].status \in {"APPROVED", "REVERSED"}
  /\ adj' = [adj EXCEPT ![j] =
       [status |-> "DRAFT", customer |-> customer, classified |-> classified,
        amount |-> n, applied |-> 0, supersedes |-> prior,
        successor |-> None]]
  /\ UNCHANGED <<coll, alloc, app, exc, sale, view, lapsed>>

ReviewAdjustment(j) ==
  /\ Submit(adj, j) \/ Verify(adj, j)
  /\ UNCHANGED <<coll, alloc, app, exc, sale, view, lapsed>>

RejectAdjustment(j) ==
  /\ Reject(adj, j)
  /\ UNCHANGED <<coll, alloc, app, exc, sale, view, lapsed>>

\* An APPROVED predecessor is superseded; a REVERSED one is left as it is.
ApproveAdjustment(j) ==
  LET p == adj[j].supersedes
      replaces == p # None /\ adj[p].status = "APPROVED"
  IN
  /\ adj[j].status = "VERIFIED" /\ adj[j].classified
  /\ p # None => Replaceable(adj, p)
  /\ app' = IF replaces THEN Reversed(app, AppsOf(app, p)) ELSE app
  /\ adj' = [k \in Adjustments |->
       IF k = j THEN [adj[j] EXCEPT !.status = "APPROVED"]
       ELSE IF k = p /\ replaces
            THEN [adj[p] EXCEPT !.status = "SUPERSEDED", !.successor = j,
                                !.applied = 0]
            ELSE adj[k]]
  /\ UNCHANGED <<coll, alloc, exc, sale, view, lapsed>>

ReverseAdjustment(j) ==
  /\ adj[j].status = "APPROVED"
  /\ app' = Reversed(app, AppsOf(app, j))
  /\ adj' = [adj EXCEPT ![j].status = "REVERSED", ![j].applied = 0]
  /\ UNCHANGED <<coll, alloc, exc, sale, view, lapsed>>

-----------------------------------------------------------------------------
(* Adjustment applications.                                                *)

ProposeApplication(x, j, s, n, prior) ==
  /\ app[x].status = "ABSENT"
  /\ adj[j].status = "APPROVED"
  /\ OwedBy(s, adj[j].customer)
  /\ prior # None => /\ app[prior].status # "ABSENT"
                     /\ app[prior].adjustment = j /\ app[prior].sale = s
  /\ app' = [app EXCEPT ![x] =
       [status |-> "DRAFT", adjustment |-> j, sale |-> s,
        customer |-> adj[j].customer, amount |-> n, supersedes |-> prior,
        successor |-> None]]
  /\ UNCHANGED <<coll, alloc, adj, exc, sale, view, lapsed>>

ReviewApplication(x) ==
  /\ Submit(app, x) \/ Verify(app, x)
  /\ UNCHANGED <<coll, alloc, adj, exc, sale, view, lapsed>>

RejectApplication(x) ==
  /\ Reject(app, x)
  /\ UNCHANGED <<coll, alloc, adj, exc, sale, view, lapsed>>

\* Mutant: only this application is compared with the adjustment.
WithinAdjustmentAlone(j, p, n) == n <= adj[j].amount

\* Cap 3: what is applied of j beside row p, and n, stays within j.
WithinAdjustment(j, p, n) ==
  SumOf(AppsOf(app, j) \ {p}, app) + n <= adj[j].amount

ApproveApplication(x) ==
  LET j == app[x].adjustment
      s == app[x].sale
      p == app[x].supersedes
      n == app[x].amount
      q == Replacing(app, x)
  IN
  /\ app[x].status = "VERIFIED"
  /\ adj[j].status = "APPROVED"
  /\ OwedBy(s, app[x].customer)
  /\ p # None => Replaceable(app, p)
  /\ WithinAdjustment(j, p, n)
  /\ WithinGross(s, PaymentsOf(alloc, s), DiscountsOf(app, s) \ {p}, n)
  /\ app' = q
  /\ adj' = Applied(q, {j})
  /\ UNCHANGED <<coll, alloc, exc, sale, view, lapsed>>

ReverseApplication(x) ==
  LET q == Reversed(app, {x}) IN
  /\ app[x].status = "APPROVED"
  /\ app' = q
  /\ adj' = Applied(q, {app[x].adjustment})
  /\ UNCHANGED <<coll, alloc, exc, sale, view, lapsed>>

-----------------------------------------------------------------------------
(* The sales, and what a change of theirs does to the money.               *)

\* compensate_for_sale_change: the payments and discounts of s are reversed.
Compensate(s) ==
  LET a == Reversed(alloc, PaymentsOf(alloc, s))
      q == Reversed(app, DiscountsOf(app, s))
      C == {alloc[x].collection : x \in PaymentsOf(alloc, s)}
      J == {app[x].adjustment : x \in DiscountsOf(app, s)}
  IN
  /\ alloc' = a /\ app' = q
  /\ SaveColls(Synced(a, C), C)
  /\ adj' = Applied(q, J)

\* approve_alias_mapping reopens the sale, approve_sale of a correction
\* closes it; both compensate.
ChangeSale(s) ==
  /\ \E n \in SaleRow :
       /\ Reopens(sale[s], n) \/ Closes(sale[s], n)
       /\ sale' = [sale EXCEPT ![s] = n]
  /\ Compensate(s)
  /\ UNCHANGED view

\* verify_sale, approve_sale and the approval of the sale's first alias.
SettleSale(s) ==
  /\ \E n \in SaleRow :
       /\ Approves(sale[s], n) \/ Resolves(sale[s], n)
       /\ sale' = [sale EXCEPT ![s] = n]
  /\ UNCHANGED <<coll, alloc, adj, app, exc, view, lapsed>>

\* A request takes the snapshot its later proposal reads.
TakeView ==
  /\ SnapshotReads
  /\ view' = sale
  /\ UNCHANGED <<coll, alloc, adj, app, exc, sale, lapsed>>

\* refresh_money_reconciliation.
Refresh ==
  /\ SaveColls(Synced(alloc, Approved(coll)), Approved(coll))
  /\ adj' = Applied(app, Approved(adj))
  /\ UNCHANGED <<alloc, app, sale, view>>

-----------------------------------------------------------------------------

Init ==
  /\ RegisterInit
  /\ view = sale
  /\ coll = [c \in Collections |->
       [status |-> "ABSENT", kind |-> "CASH", identity |-> None, due |-> FALSE,
        amount |-> 0, allocated |-> 0, parked |-> 0, active |-> None,
        supersedes |-> None, successor |-> None]]
  /\ alloc = [x \in Allocations |->
       [status |-> "ABSENT", collection |-> None, sale |-> None,
        customer |-> NoCustomer, amount |-> 0, supersedes |-> None,
        successor |-> None]]
  /\ adj = [j \in Adjustments |->
       [status |-> "ABSENT", customer |-> NoCustomer, classified |-> FALSE,
        amount |-> 0, applied |-> 0, supersedes |-> None, successor |-> None]]
  /\ app = [x \in Applications |->
       [status |-> "ABSENT", adjustment |-> None, sale |-> None,
        customer |-> NoCustomer, amount |-> 0, supersedes |-> None,
        successor |-> None]]
  /\ exc = [c \in Collections |-> {}]
  /\ lapsed = {}

CollectionStep(c) ==
  \/ \E kind \in Receipts, id \in Identities, due \in BOOLEAN, n \in Amounts,
        prior \in Collections \cup {None} :
       CreateCollection(c, kind, id, due, n, prior)
  \/ ReviewCollection(c)
  \/ ApproveCollection(c)
  \/ ReverseCollection(c)
  \/ BecomesDue(c)

AllocationStep(x) ==
  \/ \E c \in Collections, s \in Sales \cup {None}, n \in Draws,
        prior \in Allocations \cup {None} :
       ProposeAllocation(x, c, s, n, prior)
  \/ ReviewAllocation(x)
  \/ RejectAllocation(x)
  \/ ApproveAllocation(x)
  \/ ReverseAllocation(x)

AdjustmentStep(j) ==
  \/ \E customer \in Customers, classified \in BOOLEAN, n \in Concessions,
        prior \in Adjustments \cup {None} :
       ProposeAdjustment(j, customer, classified, n, prior)
  \/ ReviewAdjustment(j)
  \/ RejectAdjustment(j)
  \/ ApproveAdjustment(j)
  \/ ReverseAdjustment(j)

ApplicationStep(x) ==
  \/ \E j \in Adjustments, s \in Sales, n \in Draws,
        prior \in Applications \cup {None} :
       ProposeApplication(x, j, s, n, prior)
  \/ ReviewApplication(x)
  \/ RejectApplication(x)
  \/ ApproveApplication(x)
  \/ ReverseApplication(x)

Next ==
  \/ \E c \in Collections : CollectionStep(c)
  \/ \E x \in Allocations : AllocationStep(x)
  \/ \E j \in Adjustments : AdjustmentStep(j)
  \/ \E x \in Applications : ApplicationStep(x)
  \/ \E s \in Sales : ChangeSale(s) \/ SettleSale(s)
  \/ TakeView
  \/ Refresh

Spec == Init /\ [][Next]_vars

-----------------------------------------------------------------------------
(* Properties.                                                             *)

\* Every row is well typed.
TypeOK ==
  /\ sale \in [Sales -> SaleRow] /\ view \in [Sales -> SaleRow]
  /\ coll \in [Collections -> CollRow]
  /\ alloc \in [Allocations -> AllocRow]
  /\ adj \in [Adjustments -> AdjRow]
  /\ app \in [Applications -> AppRow]
  /\ exc \in [Collections -> SUBSET MoneyExceptions]
  /\ lapsed \subseteq Collections

\* The approved allocations of a receipt fit it, and only an approved receipt
\* has any.
ReceiptCap ==
  \A c \in Collections :
    /\ SumOf(AllocsOf(alloc, c), alloc) <= coll[c].amount
    /\ AllocsOf(alloc, c) # {} => coll[c].status = "APPROVED"

\* Approved payments and discounts of a sale together fit its gross.
SaleCap ==
  \A s \in Sales :
    SumOf(PaymentsOf(alloc, s), alloc) + SumOf(DiscountsOf(app, s), app)
      <= Gross[s]

\* The approved applications of an adjustment fit it, and only an approved
\* adjustment has any.
AdjustmentCap ==
  \A j \in Adjustments :
    /\ SumOf(AppsOf(app, j), app) <= adj[j].amount
    /\ AppsOf(app, j) # {} => adj[j].status = "APPROVED"

\* Money is spent once and a debt is settled once: what is approved never draws
\* more from a receipt, an adjustment or a sale than it holds, though two kinds
\* of document draw on a sale, through replacements, reversals, corrections of
\* any of the three and receipts that are parked (_locks, the caps of
\* approve_payment_allocation and approve_adjustment_application).
DrawnOnce == ReceiptCap /\ SaleCap /\ AdjustmentCap

\* Payments and discounts stand only on an approved sale owed by their own
\* customer, also after the sale was reopened, corrected or given to another
\* customer, and though the proposal may have read an older sale.
SettledWhereOwed ==
  LET Owed(row) == sale[row.sale] = [status |-> "APPROVED", customer |-> row.customer]
  IN
  /\ \A x \in Approved(alloc) : alloc[x].sale # None => Owed(alloc[x])
  /\ \A x \in Approved(app) : Owed(app[x])

\* The totals stored on receipts and adjustments are the sums of the approved
\* rows after every operation.
TotalsCurrent ==
  /\ \A c \in Collections :
       /\ coll[c].allocated = SumOf(AllocsOf(alloc, c), alloc)
       /\ coll[c].parked = SumOf(ParkedOf(alloc, c), alloc)
  /\ \A j \in Adjustments : adj[j].applied = SumOf(AppsOf(app, j), app)

\* The open exceptions of a receipt are the ones its state calls for, whatever
\* document's approval, reversal or correction changed that state.  Only a
\* receipt that has become effective since its last save may lack something, and
\* then MONEY_UNALLOCATED alone.
ExceptionsCurrent ==
  \A c \in Collections :
    /\ exc[c] \subseteq Flags(coll[c])
    /\ Flags(coll[c]) \ exc[c] \subseteq
         IF c \in lapsed THEN {"MONEY_UNALLOCATED"} ELSE {}

\* One bank credit or cash declaration is in force once.
IdentityUnique ==
  \A c, d \in Approved(coll) :
    coll[c].identity = coll[d].identity => c = d

\* Of several corrections of one row, at most one is ever approved.
SoleSuccessor ==
  /\ \A x, y \in Allocations :
       /\ alloc[x].supersedes # None /\ alloc[x].supersedes = alloc[y].supersedes
       /\ {alloc[x].status, alloc[y].status} \subseteq {"APPROVED", "REVERSED"}
       => x = y
  /\ \A x, y \in Applications :
       /\ app[x].supersedes # None /\ app[x].supersedes = app[y].supersedes
       /\ {app[x].status, app[y].status} \subseteq {"APPROVED", "REVERSED"}
       => x = y

\* What was decided takes effect once: rival corrections of one allocation or
\* application never both do, and a transaction reported twice, or corrected
\* while its duplicate is approved, is in force once (the superseded_by
\* conflicts, transaction_identity_key).
EffectiveOnce == IdentityUnique /\ SoleSuccessor

-----------------------------------------------------------------------------
(* What the repository says and the code does not keep.                    *)

\* An adjustment has one approved correction.
SoleAdjustmentSuccessor ==
  \A i, j \in Approved(adj) :
    adj[i].supersedes # None /\ adj[i].supersedes = adj[j].supersedes => i = j

=============================================================================
