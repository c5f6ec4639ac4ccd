--------------------------- MODULE DealLedgerProofs ---------------------------
(***************************************************************************)
(* Proofs about the Deal book.                                             *)
(*                                                                         *)
(* The inductive invariant is IInv: the rows are well typed (TypeOK), a    *)
(* deal that has shipped is in a shipping status (ShippedStatus), pending  *)
(* revisions carry values of their field (RevisionValues), an open request *)
(* that nobody overtook still holds what is in the tables (FreshRow,       *)
(* FreshRevision, MintsRevision), and approvals are used once              *)
(* (GrantUsedOnce).  FreshRow is what frappe's modified check buys:        *)
(* everything read before the save is still true at the save.              *)
(*                                                                         *)
(* What the steps on stock preserve follows from it; RInv, built over it,  *)
(* says where a rate comes from and what the exceptions of a deal follow.  *)
(***************************************************************************)
EXTENDS DealLedger, TotalsProofs

Shipping == {"Partially Dispatched", "Dispatched", "Cancelled"}
Deciding == {"Proposed", "Approval Required", "Countered", "Approved",
             "Auto Approved"}

\* Only a deal that was released for dispatch has shipped anything.
ShippedStatus ==
  \A d \in Deals : deal[d].dispatched # 0 => deal[d].status \in Shipping

\* A revision asks for a value its field can hold.
RevisionValues ==
  \A r \in Revisions : rev[r].status # "Absent" => rev[r].new \in Input(rev[r].field)

\* A request nobody overtook holds the deal's row.
FreshRow ==
  \A w \in Workers : txn[w] # None /\ txn[w].op # "mint" =>
    /\ txn[w].deal \in Deals
    /\ txn[w].seen \in DealRow
    /\ ~txn[w].stale => txn[w].seen = deal[txn[w].deal]

\* An open apply_revision is about a revision of its deal; if nobody overtook
\* it, the revision is pending, its approval unused, and its checks hold.
FreshRevision ==
  \A w \in Workers : txn[w] # None /\ txn[w].op = "apply" =>
    LET r == txn[w].rev
        d == txn[w].deal
        g == txn[w].grant
    IN
    /\ r \in Revisions /\ rev[r].status # "Absent" /\ rev[r].deal = d
    /\ ~txn[w].stale => rev[r].status = "Pending"
    /\ rev[r].field \in MaterialFields =>
         /\ g \in Grants /\ grant[g].rev = r
         /\ ~txn[w].stale =>
              /\ ~grant[g].consumed
              /\ FieldOf(deal[d], rev[r].field) = rev[r].old
              /\ deal[d].status \in Locked => rev[r].evidenced

\* An open create_revision_approval is about a revision that exists.
MintsRevision ==
  \A w \in Workers : txn[w] # None /\ txn[w].op = "mint" =>
    txn[w].rev \in Revisions /\ rev[txn[w].rev].status # "Absent"

IInv == /\ TypeOK /\ ShippedStatus /\ RevisionValues
        /\ FreshRow /\ FreshRevision /\ MintsRevision /\ GrantUsedOnce

ExcMap == [Deals -> [ExcTypes -> ExcStatuses]]

\* An operation that saves one deal row under the container lock: the deal
\* has not been fully dispatched, and what was shipped of it stays.
SaveStep(d) ==
  /\ \E row \in DealRow :
       /\ row.dispatched >= deal[d].dispatched
       /\ row.dispatched <= row.qty
       /\ row.dispatched # 0 => row.status \in Shipping
       /\ deal[d].status # "Dispatched"
       /\ Save(d, row)
  /\ exc' \in ExcMap
  /\ UNCHANGED <<inward, operating, rev, grant, edit>>

-----------------------------------------------------------------------------
(* The single-row operations are SaveSteps.                                *)

LEMMA ExcTyped ==
  ASSUME NEW e \in [ExcTypes -> ExcStatuses], NEW t \in ExcTypes,
         NEW row, NEW linked, NEW s \in ExcStatuses
  PROVE  /\ Opened(e, t) \in [ExcTypes -> ExcStatuses]
         /\ BuyerFlagged(e, row) \in [ExcTypes -> ExcStatuses]
         /\ BreachMoved(e, linked, s) \in [ExcTypes -> ExcStatuses]
BY DEF Opened, BuyerFlagged, BreachMoved, ExcTypes, ExcStatuses, OpenStatuses

LEMMA SettlementTyped ==
  ASSUME NEW row, NEW rate
  PROVE  Settlement(row, rate) \in ExcStatuses
BY DEF Settlement, ExcStatuses

\* The table of exceptions stays typed when one deal's entry is replaced.
LEMMA ExcMapUpdate ==
  ASSUME exc \in ExcMap, NEW d \in Deals,
         NEW e \in [ExcTypes -> ExcStatuses]
  PROVE  [exc EXCEPT ![d] = e] \in ExcMap
BY DEF ExcMap

LEMMA DealRowTyped ==
  ASSUME DealAssumption, TypeOK, NEW d \in Deals
  PROVE  /\ deal[d] \in DealRow
         /\ deal[d].qty \in Nat /\ deal[d].dispatched \in Nat
         /\ deal[d].dispatched <= deal[d].qty
<1>1. deal[d] \in DealRow /\ deal[d].dispatched <= deal[d].qty
  BY DEF TypeOK
<1>2. deal[d].qty \in 0..MaxQty /\ deal[d].dispatched \in 0..MaxQty
  BY <1>1 DEF DealRow
<1>3. QED
  BY <1>1, <1>2 DEF DealAssumption

\* What has to be shown of an operation for it to be a SaveStep.
LEMMA SavingRow ==
  ASSUME NEW d \in Deals, NEW row \in DealRow,
         row.dispatched >= deal[d].dispatched, row.dispatched <= row.qty,
         row.dispatched # 0 => row.status \in Shipping,
         deal[d].status # "Dispatched", Save(d, row), exc' \in ExcMap,
         UNCHANGED <<inward, operating, rev, grant, edit>>
  PROVE  SaveStep(d)
BY DEF SaveStep

\* A deal in one of these statuses has shipped nothing.
LEMMA NothingShipped ==
  ASSUME ShippedStatus, NEW d \in Deals,
         deal[d].status \notin Shipping
  PROVE  deal[d].dispatched = 0
BY DEF ShippedStatus

LEMMA EntrySaves ==
  ASSUME DealAssumption, TypeOK, ShippedStatus, NEW d \in Deals,
         NEW l \in Lots, NEW q \in Quantities, NEW p \in Rates, NEW c \in Parties,
         Create(d, l, q, p, c) \/ EditProposed(d, l, q, p, c)
  PROVE  SaveStep(d)
<1>1. deal[d].status \notin Shipping /\ deal[d].status # "Dispatched"
  BY DEF Create, EditProposed, Shipping
<1>2. deal[d] \in DealRow /\ deal[d].dispatched = 0
  BY <1>1, DealRowTyped, NothingShipped
<1>3. q \in 0..MaxQty /\ 0 <= q /\ p \in RateOrNone
  BY DEF DealAssumption, RateOrNone
<1>4. exc' \in ExcMap /\ UNCHANGED <<inward, operating, rev, grant, edit>>
  BY DEF Create, EditProposed, TypeOK, ExcMap
<1>5. CASE Create(d, l, q, p, c)
  <2> DEFINE row == [deal[d] EXCEPT !.status = "Proposed", !.lot = l, !.qty = q,
                                    !.proposed_rate = p, !.customer = c]
  <2>1. /\ row \in DealRow /\ row.dispatched = 0 /\ row.qty = q
    BY <1>2, <1>3 DEF DealRow, Statuses
  <2>2. Save(d, row)
    BY <1>5 DEF Create
  <2> HIDE DEF row
  <2>3. /\ row.dispatched >= deal[d].dispatched /\ row.dispatched <= row.qty
        /\ row.dispatched = 0 /\ deal[d].status # "Dispatched"
    BY <1>1, <1>2, <1>3, <2>1
  <2>4. QED
    BY <1>4, <2>1, <2>2, <2>3, SavingRow
<1>6. CASE EditProposed(d, l, q, p, c)
  <2> DEFINE row == [deal[d] EXCEPT !.lot = l, !.qty = q, !.proposed_rate = p,
                                    !.customer = c]
  <2>1. /\ row \in DealRow /\ row.dispatched = 0 /\ row.qty = q
    BY <1>2, <1>3 DEF DealRow
  <2>2. Save(d, row)
    BY <1>6 DEF EditProposed
  <2> HIDE DEF row
  <2>3. /\ row.dispatched >= deal[d].dispatched /\ row.dispatched <= row.qty
        /\ row.dispatched = 0 /\ deal[d].status # "Dispatched"
    BY <1>1, <1>2, <1>3, <2>1
  <2>4. QED
    BY <1>4, <2>1, <2>2, <2>3, SavingRow
<1>7. QED
  BY <1>5, <1>6

\* Every decision on an unshipped deal changes other columns than its
\* quantities.
LEMMA DecidedRow ==
  ASSUME DealAssumption, TypeOK, ShippedStatus, NEW d \in Deals,
         deal[d].status \in Deciding,
         NEW row \in DealRow,
         row.qty = deal[d].qty, row.dispatched = deal[d].dispatched,
         Save(d, row), exc' \in ExcMap,
         UNCHANGED <<inward, operating, rev, grant, edit>>
  PROVE  SaveStep(d)
<1>1. deal[d].status \notin Shipping /\ deal[d].status # "Dispatched"
  BY DEF Deciding, Shipping
<1>2. deal[d].dispatched = 0 /\ deal[d].qty \in Nat
  BY <1>1, DealRowTyped, NothingShipped
<1>3. row.dispatched >= deal[d].dispatched /\ row.dispatched <= row.qty
  BY <1>2
<1>4. QED
  BY <1>1, <1>2, <1>3, SavingRow

LEMMA RateRulesSave ==
  ASSUME DealAssumption, TypeOK, ShippedStatus, NEW d \in Deals,
         RateRulesUnresolved(d) \/ RateRulesApprove(d) \/ RateRulesRefer(d)
  PROVE  SaveStep(d)
<1>1. deal[d] \in DealRow /\ deal[d].status \in Deciding
  BY DealRowTyped
     DEF RateRulesUnresolved, RateRulesApprove, RateRulesRefer, Deciding
<1>2. UNCHANGED <<inward, operating, rev, grant, edit>>
  BY DEF RateRulesUnresolved, RateRulesApprove, RateRulesRefer
<1>3. exc[d] \in [ExcTypes -> ExcStatuses] /\ exc \in ExcMap
  BY DEF TypeOK, ExcMap
<1>4. CASE RateRulesUnresolved(d)
  <2> DEFINE row == [deal[d] EXCEPT !.status = "Approval Required",
                                    !.approved_rate = NoRate, !.banded = FALSE]
  <2>1. row \in DealRow /\ row.qty = deal[d].qty /\ row.dispatched = deal[d].dispatched
    BY <1>1 DEF DealRow, Statuses, RateOrNone
  <2>2. Save(d, row) /\ exc' = [exc EXCEPT ![d] = Opened(exc[d], "RATE_POLICY_MISSING")]
    BY <1>3, <1>4 DEF RateRulesUnresolved, ExcMap
  <2>3. exc' \in ExcMap
    BY <1>3, <2>2, ExcTyped, ExcMapUpdate DEF ExcTypes, ExcStatuses
  <2> HIDE DEF row
  <2>4. QED
    BY <1>1, <1>2, <2>1, <2>2, <2>3, DecidedRow
<1>5. CASE RateRulesApprove(d)
  <2> DEFINE row == [deal[d] EXCEPT !.status = "Auto Approved", !.banded = TRUE,
                                    !.approved_rate = deal[d].proposed_rate]
  <2>1. row \in DealRow /\ row.qty = deal[d].qty /\ row.dispatched = deal[d].dispatched
    BY <1>1 DEF DealRow, Statuses
  <2>2. Save(d, row) /\ exc' = [exc EXCEPT ![d] = BuyerFlagged(exc[d], deal[d])]
    BY <1>3, <1>5 DEF RateRulesApprove, ExcMap
  <2>3. exc' \in ExcMap
    BY <1>3, <2>2, ExcTyped, ExcMapUpdate DEF ExcTypes, ExcStatuses
  <2> HIDE DEF row
  <2>4. QED
    BY <1>1, <1>2, <2>1, <2>2, <2>3, DecidedRow
<1>6. CASE RateRulesRefer(d)
  <2> DEFINE row == [deal[d] EXCEPT !.status = "Approval Required", !.banded = TRUE,
                                    !.approved_rate = NoRate]
  <2>1. row \in DealRow /\ row.qty = deal[d].qty /\ row.dispatched = deal[d].dispatched
    BY <1>1 DEF DealRow, Statuses, RateOrNone
  <2>2. /\ Save(d, row)
        /\ \/ exc' = [exc EXCEPT ![d] = Opened(exc[d], "STOCK_SHORTFALL")]
           \/ exc' = [exc EXCEPT ![d] = Opened(exc[d], "RATE_FLOOR_BREACH")]
    BY <1>3, <1>6 DEF RateRulesRefer, ExcMap
  <2>3. exc' \in ExcMap
    BY <1>3, <2>2, ExcTyped, ExcMapUpdate DEF ExcTypes, ExcStatuses
  <2> HIDE DEF row
  <2>4. QED
    BY <1>1, <1>2, <2>1, <2>2, <2>3, DecidedRow
<1>7. QED
  BY <1>4, <1>5, <1>6

LEMMA DecideSaves ==
  ASSUME DealAssumption, TypeOK, ShippedStatus, NEW d \in Deals, NEW p \in Rates,
         NEW x \in DecideDecisions,
         Approve(d, p, x) \/ Counter(d, p)
  PROVE  SaveStep(d)
<1>1. deal[d] \in DealRow /\ deal[d].status \in Deciding
  BY DealRowTyped DEF Approve, Counter, Deciding
<1>2. UNCHANGED <<inward, operating, rev, grant, edit>>
  BY DEF Approve, Counter
<1>3. exc[d] \in [ExcTypes -> ExcStatuses] /\ exc \in ExcMap
  BY DEF TypeOK, ExcMap
<1>4. BreachOpen(d) \in BOOLEAN
  BY DEF BreachOpen
<1>5. CASE Approve(d, p, x)
  <2> DEFINE short == ~Available(d, deal[d].lot, deal[d].qty)
             linked == BreachOpen(d) /\ ~short
             row == [deal[d] EXCEPT
                       !.status = "Approved", !.approved_rate = p,
                       !.decision = x, !.decision_rate = p,
                       !.breach_linked = linked]
             opened == IF short THEN Opened(exc[d], "OVERSELL_OVERRIDE") ELSE exc[d]
             flagged == BuyerFlagged(opened, deal[d])
             moved == BreachMoved(flagged, FALSE, Settlement(deal[d], p))
  <2>1. Save(d, row) /\ exc' = [exc EXCEPT ![d] = moved]
    BY <1>5 DEF Approve
  <2>2. opened \in [ExcTypes -> ExcStatuses]
    BY <1>3, ExcTyped DEF ExcTypes, ExcStatuses
  <2>3. flagged \in [ExcTypes -> ExcStatuses]
    <3> HIDE DEF opened
    <3>1. QED
      BY <2>2, ExcTyped DEF ExcTypes, ExcStatuses
  <2>4. moved \in [ExcTypes -> ExcStatuses]
    <3> HIDE DEF flagged
    <3>1. QED
      BY <2>3, ExcTyped, SettlementTyped DEF ExcTypes
  <2>5. exc' \in ExcMap
    <3> HIDE DEF moved
    <3>1. QED
      BY <1>3, <2>1, <2>4, ExcMapUpdate
  <2>6. linked \in BOOLEAN
    BY <1>4
  <2>7. row \in DealRow /\ row.qty = deal[d].qty /\ row.dispatched = deal[d].dispatched
    <3> HIDE DEF linked
    <3>1. QED
      BY <1>1, <2>6 DEF DealRow, Statuses, RateOrNone
  <2> HIDE DEF row
  <2>8. QED
    BY <1>1, <1>2, <2>1, <2>5, <2>7, DecidedRow
<1>6. CASE Counter(d, p)
  <2> DEFINE row == [deal[d] EXCEPT
                       !.status = "Countered", !.approved_rate = NoRate,
                       !.decision = "COUNTER", !.decision_rate = p,
                       !.breach_linked = BreachOpen(d)]
  <2>1. Save(d, row) /\ exc' = [exc EXCEPT ![d] = BreachMoved(exc[d], FALSE, "In Progress")]
    BY <1>3, <1>6 DEF Counter, ExcMap
  <2>2. exc' \in ExcMap
    BY <1>3, <2>1, ExcTyped, ExcMapUpdate DEF ExcTypes, ExcStatuses, OpenStatuses
  <2>3. row \in DealRow /\ row.qty = deal[d].qty /\ row.dispatched = deal[d].dispatched
    BY <1>1, <1>4 DEF DealRow, Statuses, RateOrNone, DecideDecisions
  <2> HIDE DEF row
  <2>4. QED
    BY <1>1, <1>2, <2>1, <2>2, <2>3, DecidedRow
<1>7. QED
  BY <1>5, <1>6

LEMMA RejectSaves ==
  ASSUME DealAssumption, TypeOK, ShippedStatus, NEW d \in Deals, Reject(d)
  PROVE  SaveStep(d)
<1>1. deal[d] \in DealRow /\ deal[d].status \in Deciding
  BY DealRowTyped DEF Reject, Deciding
<1>2. UNCHANGED <<inward, operating, rev, grant, edit>>
  BY DEF Reject
<1>3. exc[d] \in [ExcTypes -> ExcStatuses] /\ exc \in ExcMap
  BY DEF TypeOK, ExcMap
<1>4. BreachOpen(d) \in BOOLEAN
  BY DEF BreachOpen
<1> DEFINE row == [deal[d] EXCEPT !.status = "Rejected", !.decision = "REJECT",
                                  !.breach_linked = BreachOpen(d)]
<1>5. Save(d, row) /\ exc' = [exc EXCEPT ![d] = BreachMoved(exc[d], FALSE, "Resolved")]
  BY <1>3 DEF Reject, ExcMap
<1>6. exc' \in ExcMap
  BY <1>3, <1>5, ExcTyped, ExcMapUpdate DEF ExcTypes, ExcStatuses
<1>7. row \in DealRow /\ row.qty = deal[d].qty /\ row.dispatched = deal[d].dispatched
  BY <1>1, <1>4 DEF DealRow, Statuses, DecideDecisions
<1> HIDE DEF row
<1>8. QED
  BY <1>1, <1>2, <1>5, <1>6, <1>7, DecidedRow

LEMMA AcceptSaves ==
  ASSUME DealAssumption, TypeOK, ShippedStatus, NEW d \in Deals, AcceptCounter(d)
  PROVE  SaveStep(d)
<1>1. deal[d] \in DealRow /\ deal[d].status \in Deciding
  BY DealRowTyped DEF AcceptCounter, Deciding
<1>2. UNCHANGED <<inward, operating, rev, grant, edit>>
  BY DEF AcceptCounter
<1>3. exc[d] \in [ExcTypes -> ExcStatuses] /\ exc \in ExcMap
  BY DEF TypeOK, ExcMap
<1>4. CounterRate(d) \in RateOrNone
  BY <1>1 DEF CounterRate, DealRow
<1> DEFINE row == [deal[d] EXCEPT !.status = "Approved",
                                  !.approved_rate = CounterRate(d)]
           flagged == BuyerFlagged(exc[d], deal[d])
           moved == BreachMoved(flagged, deal[d].breach_linked,
                                Settlement(deal[d], CounterRate(d)))
<1>5. Save(d, row) /\ exc' = [exc EXCEPT ![d] = moved]
  BY <1>3 DEF AcceptCounter, ExcMap
<1>6. flagged \in [ExcTypes -> ExcStatuses]
  BY <1>3, ExcTyped DEF ExcTypes, ExcStatuses
<1>7. moved \in [ExcTypes -> ExcStatuses]
  <2> HIDE DEF flagged
  <2>1. QED
    BY <1>6, ExcTyped, SettlementTyped DEF ExcTypes
<1>8. exc' \in ExcMap
  <2> HIDE DEF moved
  <2>1. QED
    BY <1>3, <1>5, <1>7, ExcMapUpdate
<1>9. row \in DealRow /\ row.qty = deal[d].qty /\ row.dispatched = deal[d].dispatched
  BY <1>1, <1>4 DEF DealRow, Statuses
<1> HIDE DEF row
<1>10. QED
  BY <1>1, <1>2, <1>5, <1>8, <1>9, DecidedRow

LEMMA ReleaseSaves ==
  ASSUME DealAssumption, TypeOK, ShippedStatus, NEW d \in Deals,
         AdvanceToOutwardPending(d)
  PROVE  SaveStep(d)
<1>1. deal[d] \in DealRow
  BY DealRowTyped
<1>2. UNCHANGED <<inward, operating, rev, grant, edit>> /\ exc' \in ExcMap
  BY DEF AdvanceToOutwardPending, TypeOK, ExcMap
<1> DEFINE row == [deal[d] EXCEPT !.status = "Outward Pending"]
<1>3. row \in DealRow /\ row.qty = deal[d].qty /\ row.dispatched = deal[d].dispatched
  BY <1>1 DEF DealRow, Statuses
<1>4. Save(d, row) /\ deal[d].status \in Deciding
  BY DEF AdvanceToOutwardPending, Deciding
<1> HIDE DEF row
<1>5. QED
  BY <1>2, <1>3, <1>4, DecidedRow

LEMMA DispatchSaves ==
  ASSUME DealAssumption, TypeOK, ShippedStatus, NEW d \in Deals,
         NEW q \in 1..MaxQty, RecordDispatch(d, q)
  PROVE  SaveStep(d)
<1>1. deal[d] \in DealRow
  BY DealRowTyped
<1>2. UNCHANGED <<inward, operating, rev, grant, edit>> /\ exc' \in ExcMap
  BY DEF RecordDispatch, TypeOK, ExcMap
<1> DEFINE after == IF q < deal[d].qty THEN "Partially Dispatched" ELSE "Dispatched"
           row == [deal[d] EXCEPT !.dispatched = q, !.status = after]
<1>3. Save(d, row) /\ deal[d].dispatched < q /\ q <= deal[d].qty
  BY DEF RecordDispatch
<1>4. deal[d].status # "Dispatched"
  BY DEF RecordDispatch
<1>5. after \in Shipping /\ after \in Statuses
  BY DEF Shipping, Statuses
<1>6. q \in 0..MaxQty
  BY DEF DealAssumption
<1>7. /\ row \in DealRow /\ row.qty = deal[d].qty /\ row.dispatched = q
      /\ row.status = after
  <2> HIDE DEF after
  <2>1. QED
    BY <1>1, <1>5, <1>6 DEF DealRow
<1> HIDE DEF row, after
<1>8. row.dispatched >= deal[d].dispatched /\ row.dispatched <= row.qty
  BY <1>3, <1>6, <1>7, DealRowTyped
<1>9. QED
  BY <1>2, <1>3, <1>4, <1>5, <1>7, <1>8, SavingRow

-----------------------------------------------------------------------------
(* Each kind of step keeps IInv.                                           *)

\* A request that is open after a save of deal d was open before, about the
\* same rows; it is fresh only if it was, and is about another deal.
LEMMA OutdatedRequests ==
  ASSUME TypeOK, NEW d \in Deals, NEW w \in Workers
  PROVE  /\ Outdated(d)[w] \in TxnRow \cup {None}
         /\ Outdated(d)[w] # None =>
              /\ txn[w] # None /\ txn[w] \in TxnRow
              /\ Outdated(d)[w].op = txn[w].op
              /\ Outdated(d)[w].deal = txn[w].deal
              /\ Outdated(d)[w].seen = txn[w].seen
              /\ Outdated(d)[w].rev = txn[w].rev
              /\ Outdated(d)[w].grant = txn[w].grant
              /\ ~Outdated(d)[w].stale => ~txn[w].stale /\ txn[w].deal # d
<1>1. txn[w] \in TxnRow \cup {None}
  BY DEF TypeOK
<1>2. CASE txn[w] # None /\ txn[w].deal = d
  <2>1. Outdated(d)[w] = [txn[w] EXCEPT !.stale = TRUE]
    BY <1>2 DEF Outdated
  <2>2. QED
    BY <1>1, <1>2, <2>1 DEF TxnRow
<1>3. CASE ~(txn[w] # None /\ txn[w].deal = d)
  <2>1. Outdated(d)[w] = txn[w]
    BY <1>3 DEF Outdated
  <2>2. QED
    BY <1>1, <1>3, <2>1
<1>4. QED
  BY <1>2, <1>3

LEMMA OutdatedTyped ==
  ASSUME TypeOK, NEW d \in Deals
  PROVE  Outdated(d) \in [Workers -> TxnRow \cup {None}]
<1>1. \A w \in Workers : Outdated(d)[w] \in TxnRow \cup {None}
  BY OutdatedRequests
<1>2. QED
  BY <1>1 DEF Outdated

\* A save of one row, and the end of the request that made it if there is one.
LEMMA SaveKeepsFreshRow ==
  ASSUME TypeOK, FreshRow, NEW d \in Deals, NEW row,
         deal' = [deal EXCEPT ![d] = row],
         \A w \in Workers : txn'[w] # None => txn'[w] = Outdated(d)[w]
  PROVE  FreshRow'
<1> SUFFICES ASSUME NEW w \in Workers, txn'[w] # None, txn'[w].op # "mint"
             PROVE  /\ txn'[w].deal \in Deals
                    /\ txn'[w].seen \in DealRow
                    /\ ~txn'[w].stale => txn'[w].seen = deal'[txn'[w].deal]
  BY DEF FreshRow
<1>1. /\ txn[w] # None /\ txn[w].op # "mint"
      /\ txn'[w].deal = txn[w].deal /\ txn'[w].seen = txn[w].seen
      /\ ~txn'[w].stale => ~txn[w].stale /\ txn[w].deal # d
  BY OutdatedRequests
<1>2. /\ txn[w].deal \in Deals /\ txn[w].seen \in DealRow
      /\ ~txn[w].stale => txn[w].seen = deal[txn[w].deal]
  BY <1>1 DEF FreshRow
<1>3. txn[w].deal # d => deal'[txn[w].deal] = deal[txn[w].deal]
  BY <1>2 DEF TypeOK
<1>4. QED
  BY <1>1, <1>2, <1>3

LEMMA SaveKeepsFreshRevision ==
  ASSUME TypeOK, FreshRow, FreshRevision, NEW d \in Deals, NEW row,
         deal' = [deal EXCEPT ![d] = row], UNCHANGED <<rev, grant>>,
         \A w \in Workers : txn'[w] # None => txn'[w] = Outdated(d)[w]
  PROVE  FreshRevision'
<1> SUFFICES ASSUME NEW w \in Workers, txn'[w] # None, txn'[w].op = "apply"
             PROVE  LET r == txn'[w].rev
                        e == txn'[w].deal
                        g == txn'[w].grant
                    IN
                    /\ r \in Revisions /\ rev[r].status # "Absent" /\ rev[r].deal = e
                    /\ ~txn'[w].stale => rev[r].status = "Pending"
                    /\ rev[r].field \in MaterialFields =>
                         /\ g \in Grants /\ grant[g].rev = r
                         /\ ~txn'[w].stale =>
                              /\ ~grant[g].consumed
                              /\ FieldOf(deal'[e], rev[r].field) = rev[r].old
                              /\ deal'[e].status \in Locked => rev[r].evidenced
  BY DEF FreshRevision
<1>1. /\ txn[w] # None /\ txn[w].op = "apply"
      /\ txn'[w].deal = txn[w].deal /\ txn'[w].rev = txn[w].rev
      /\ txn'[w].grant = txn[w].grant
      /\ ~txn'[w].stale => ~txn[w].stale /\ txn[w].deal # d
  BY OutdatedRequests
<1>2. txn[w].deal \in Deals
  BY <1>1 DEF FreshRow
<1>3. txn[w].deal # d => deal'[txn[w].deal] = deal[txn[w].deal]
  BY <1>2 DEF TypeOK
<1>4. QED
  BY <1>1, <1>3 DEF FreshRevision

LEMMA SaveKeepsMints ==
  ASSUME TypeOK, MintsRevision, NEW d \in Deals,
         \A r \in Revisions : rev[r].status # "Absent" => rev'[r].status # "Absent",
         \A w \in Workers : txn'[w] # None => txn'[w] = Outdated(d)[w]
  PROVE  MintsRevision'
<1> SUFFICES ASSUME NEW w \in Workers, txn'[w] # None, txn'[w].op = "mint"
             PROVE  txn'[w].rev \in Revisions /\ rev'[txn'[w].rev].status # "Absent"
  BY DEF MintsRevision
<1>1. txn[w] # None /\ txn[w].op = "mint" /\ txn'[w].rev = txn[w].rev
  BY OutdatedRequests
<1>2. QED
  BY <1>1 DEF MintsRevision

LEMMA SaveStepKeeps ==
  ASSUME DealAssumption, IInv, NEW d \in Deals, SaveStep(d)
  PROVE  IInv'
<1> USE DEF IInv
<1>1. PICK row \in DealRow :
        /\ row.dispatched >= deal[d].dispatched
        /\ row.dispatched <= row.qty
        /\ row.dispatched # 0 => row.status \in Shipping
        /\ Save(d, row)
  BY DEF SaveStep
<1>2. /\ deal' = [deal EXCEPT ![d] = row] /\ txn' = Outdated(d)
      /\ exc' \in ExcMap
      /\ UNCHANGED <<inward, operating, rev, grant, edit>>
  BY <1>1 DEF SaveStep, Save
<1>3. TypeOK'
  <2>1. deal' \in [Deals -> DealRow]
    BY <1>2 DEF TypeOK
  <2>2. \A e \in Deals : deal'[e].dispatched <= deal'[e].qty
    <3>1. ASSUME NEW e \in Deals PROVE deal'[e].dispatched <= deal'[e].qty
      <4>1. CASE e = d
        BY <1>1, <1>2, <4>1 DEF TypeOK
      <4>2. CASE e # d
        BY <1>2, <4>2 DEF TypeOK
      <4>3. QED
        BY <4>1, <4>2
    <3>2. QED
      BY <3>1
  <2>3. txn' \in [Workers -> TxnRow \cup {None}]
    BY <1>2, OutdatedTyped
  <2>4. QED
    BY <1>2, <2>1, <2>2, <2>3 DEF TypeOK, ExcMap
<1>4. ShippedStatus'
  BY <1>1, <1>2 DEF ShippedStatus, TypeOK
<1>5. RevisionValues' /\ GrantUsedOnce'
  BY <1>2 DEF RevisionValues, GrantUsedOnce
<1>6. \A w \in Workers : txn'[w] # None => txn'[w] = Outdated(d)[w]
  BY <1>2
<1>7. FreshRow' /\ FreshRevision' /\ MintsRevision'
  BY <1>2, <1>6, SaveKeepsFreshRow, SaveKeepsFreshRevision, SaveKeepsMints
<1>8. QED
  BY <1>3, <1>4, <1>5, <1>7

LEMMA DeskResolveKeeps ==
  ASSUME IInv, NEW d \in Deals, NEW t \in ExcTypes, NEW s \in ExcStatuses,
         DeskResolve(d, t, s)
  PROVE  IInv'
<1> USE DEF IInv
<1>1. /\ exc' = [exc EXCEPT ![d][t] = s]
      /\ UNCHANGED <<deal, inward, operating, rev, grant, txn, edit>>
  BY DEF DeskResolve
<1>2. TypeOK'
  BY <1>1 DEF TypeOK
<1>3. /\ ShippedStatus' /\ RevisionValues' /\ FreshRow' /\ FreshRevision'
      /\ MintsRevision' /\ GrantUsedOnce'
  BY <1>1 DEF ShippedStatus, RevisionValues, FreshRow, FreshRevision,
              MintsRevision, GrantUsedOnce
<1>4. QED
  BY <1>2, <1>3

LEMMA ContainerStepKeeps ==
  ASSUME DealAssumption, IInv, ContainerStep
  PROVE  IInv'
<1> USE DEF IInv
<1>1. UNCHANGED <<deal, exc, rev, grant, txn>>
  BY DEF ContainerStep, BeginEdit, EditInward, OperatingChanged
<1>2. /\ inward' \in [Lots -> 0..MaxQty]
      /\ operating' \in Nat \cup {NoFact, Unresolved}
      /\ edit' \in [Lots -> Nat] \cup {None}
  <2>1. CASE BeginEdit
    <3>1. \A l \in Lots : Sold(l) \in Nat
      BY TotalType DEF Sold, Reserved, DealAssumption
    <3>2. QED
      BY <2>1, <3>1 DEF BeginEdit, TypeOK
  <2>2. ASSUME NEW l \in Lots, NEW q \in InwardQuantities, EditInward(l, q)
        PROVE  /\ inward' \in [Lots -> 0..MaxQty]
               /\ operating' \in Nat \cup {NoFact, Unresolved}
               /\ edit' \in [Lots -> Nat] \cup {None}
    <3>1. q \in 0..MaxQty
      BY DEF DealAssumption
    <3>2. inward' = [inward EXCEPT ![l] = q] /\ edit' = None /\ operating' = operating
      BY <2>2 DEF EditInward
    <3>3. QED
      BY <3>1, <3>2 DEF TypeOK
  <2>3. ASSUME NEW o \in OperatingFacts, OperatingChanged(o)
        PROVE  /\ inward' \in [Lots -> 0..MaxQty]
               /\ operating' \in Nat \cup {NoFact, Unresolved}
               /\ edit' \in [Lots -> Nat] \cup {None}
    <3>1. o \in Nat \cup {NoFact, Unresolved}
      BY DEF DealAssumption
    <3>2. operating' = o /\ inward' = inward /\ edit' = edit
      BY <2>3 DEF OperatingChanged
    <3>3. QED
      BY <3>1, <3>2 DEF TypeOK
  <2>4. QED
    BY <2>1, <2>2, <2>3 DEF ContainerStep
<1>3. TypeOK'
  BY <1>1, <1>2 DEF TypeOK
<1>4. /\ ShippedStatus' /\ RevisionValues' /\ FreshRow' /\ FreshRevision'
      /\ MintsRevision' /\ GrantUsedOnce'
  BY <1>1 DEF ShippedStatus, RevisionValues, FreshRow, FreshRevision,
              MintsRevision, GrantUsedOnce
<1>5. QED
  BY <1>3, <1>4

\* What a field of a deal holds is a value revisions can record.
LEMMA FieldTyped ==
  ASSUME NEW row \in DealRow, NEW f \in EligibleFields
  PROVE  FieldOf(row, f) \in Values
<1>1. /\ row.qty \in 0..MaxQty /\ row.lot \in Lots /\ row.customer \in Parties
      /\ row.approved_rate \in RateOrNone
  BY DEF DealRow
<1>2. QED
  BY <1>1 DEF FieldOf, Values

LEMMA InputTyped ==
  ASSUME DealAssumption, NEW f \in EligibleFields
  PROVE  Input(f) \subseteq Values
<1>1. Quantities \subseteq 0..MaxQty
  BY DEF DealAssumption
<1>2. QED
  BY <1>1 DEF Input, Values, RateOrNone

LEMMA RequestRevisionKeeps ==
  ASSUME DealAssumption, IInv, NEW r \in Revisions, NEW d \in Deals,
         NEW f \in RevisedFields, NEW v \in Input(f), NEW e \in BOOLEAN,
         RequestRevision(r, d, f, v, e)
  PROVE  IInv'
<1> USE DEF IInv
<1> DEFINE row == [status |-> "Pending", deal |-> d, field |-> f,
                   old |-> FieldOf(deal[d], f), new |-> v,
                   evidenced |-> e, ref |-> None]
<1>1. /\ rev[r].status = "Absent" /\ rev' = [rev EXCEPT ![r] = row]
      /\ UNCHANGED <<deal, inward, operating, exc, grant, txn, edit>>
  BY DEF RequestRevision
<1>2. f \in EligibleFields
  BY DEF DealAssumption
<1>3. /\ row \in RevRow /\ row.status = "Pending" /\ row.deal = d
      /\ row.new = v /\ row.field = f
  <2>1. FieldOf(deal[d], f) \in Values
    BY <1>2, FieldTyped DEF TypeOK
  <2>2. v \in Values
    BY <1>2, InputTyped
  <2>3. QED
    BY <1>2, <2>1, <2>2 DEF RevRow
<1> HIDE DEF row
<1>4. rev'[r] = row /\ \A s \in Revisions \ {r} : rev'[s] = rev[s]
  BY <1>1 DEF TypeOK
<1>5. TypeOK'
  BY <1>1, <1>3, <1>4 DEF TypeOK
<1>6. ShippedStatus' /\ FreshRow'
  BY <1>1 DEF ShippedStatus, FreshRow
<1>7. RevisionValues'
  BY <1>3, <1>4 DEF RevisionValues
<1>8. FreshRevision'
  <2>1. \A w \in Workers : txn[w] # None /\ txn[w].op = "apply" =>
          txn[w].rev \in Revisions \ {r}
    BY <1>1 DEF FreshRevision
  <2>2. QED
    BY <1>1, <1>4, <2>1 DEF FreshRevision
<1>9. MintsRevision'
  BY <1>1, <1>3, <1>4 DEF MintsRevision
<1>10. GrantUsedOnce'
  <2>1. \A g \in Grants : grant[g].consumed => grant[g].rev # r /\ grant[g].rev \in Revisions
    BY <1>1 DEF GrantUsedOnce, TypeOK, GrantRow
  <2>2. \A g \in Grants : grant'[g].consumed =>
          grant'[g].rev # None /\ rev'[grant'[g].rev].status = "Applied"
    BY <1>1, <1>4, <2>1 DEF GrantUsedOnce
  <2>3. \A s \in Revisions :
          rev'[s].status = "Applied" /\ rev'[s].field \in MaterialFields =>
            \E g \in Grants : grant'[g].rev = s /\ grant'[g].consumed
    BY <1>1, <1>3, <1>4 DEF GrantUsedOnce
  <2>4. QED
    BY <1>1, <2>2, <2>3 DEF GrantUsedOnce
<1>11. QED
  BY <1>5, <1>6, <1>7, <1>8, <1>9, <1>10

\* A new request replaces nothing but the idle worker's entry.
LEMMA BeginFacts ==
  ASSUME TypeOK, NEW w \in Workers, NEW op, NEW d, NEW row, NEW r, NEW g,
         Begin(w, op, d, row, r, g)
  PROVE  /\ txn'[w] = [op |-> op, deal |-> d, seen |-> row, rev |-> r,
                       grant |-> g, stale |-> FALSE]
         /\ \A v \in Workers \ {w} : txn'[v] = txn[v]
         /\ txn' \in [Workers -> {txn'[w]} \cup TxnRow \cup {None}]
         /\ UNCHANGED <<deal, inward, operating, exc, rev, grant, edit>>
<1>1. /\ txn' = [txn EXCEPT ![w] = [op |-> op, deal |-> d, seen |-> row, rev |-> r,
                                    grant |-> g, stale |-> FALSE]]
      /\ UNCHANGED <<deal, inward, operating, exc, rev, grant, edit>>
  BY DEF Begin
<1>2. QED
  BY <1>1 DEF TypeOK

\* What a Begin step has to provide for IInv.
LEMMA BeginKeeps ==
  ASSUME IInv, NEW w \in Workers, NEW op \in {"cancel", "apply", "mint"},
         NEW d, NEW row, NEW r, NEW g, Begin(w, op, d, row, r, g),
         d \in Deals \cup {None}, row \in DealRow \cup {None},
         r \in Revisions \cup {None}, g \in Grants \cup {None},
         op # "mint" => d \in Deals /\ row = deal[d],
         op = "mint" => r \in Revisions /\ rev[r].status # "Absent",
         op = "apply" =>
           /\ r \in Revisions /\ rev[r].status = "Pending" /\ rev[r].deal = d
           /\ rev[r].field \in MaterialFields =>
                /\ g \in Grants /\ grant[g].rev = r /\ ~grant[g].consumed
                /\ FieldOf(deal[d], rev[r].field) = rev[r].old
                /\ deal[d].status \in Locked => rev[r].evidenced
  PROVE  IInv'
<1> USE DEF IInv
<1>1. /\ txn'[w] = [op |-> op, deal |-> d, seen |-> row, rev |-> r,
                    grant |-> g, stale |-> FALSE]
      /\ \A v \in Workers \ {w} : txn'[v] = txn[v]
      /\ txn' \in [Workers -> {txn'[w]} \cup TxnRow \cup {None}]
      /\ UNCHANGED <<deal, inward, operating, exc, rev, grant, edit>>
  BY BeginFacts
<1>2. /\ txn'[w].op = op /\ txn'[w].deal = d /\ txn'[w].seen = row
      /\ txn'[w].rev = r /\ txn'[w].grant = g /\ txn'[w].stale = FALSE
  BY <1>1
<1>3. TypeOK'
  <2>1. txn'[w] \in TxnRow
    BY <1>1 DEF TxnRow
  <2>2. txn' \in [Workers -> TxnRow \cup {None}]
    BY <1>1, <2>1
  <2>3. QED
    BY <1>1, <2>2 DEF TypeOK
<1>4. ShippedStatus' /\ RevisionValues' /\ GrantUsedOnce'
  BY <1>1 DEF ShippedStatus, RevisionValues, GrantUsedOnce
<1>5. FreshRow'
  <2> SUFFICES ASSUME NEW v \in Workers, txn'[v] # None, txn'[v].op # "mint"
               PROVE  /\ txn'[v].deal \in Deals
                      /\ txn'[v].seen \in DealRow
                      /\ ~txn'[v].stale => txn'[v].seen = deal[txn'[v].deal]
    BY <1>1 DEF FreshRow
  <2>1. CASE v = w
    BY <1>2, <2>1 DEF TypeOK
  <2>2. CASE v # w
    BY <1>1, <2>2 DEF FreshRow
  <2>3. QED
    BY <2>1, <2>2
<1>6. FreshRevision'
  <2> SUFFICES ASSUME NEW v \in Workers, txn'[v] # None, txn'[v].op = "apply"
               PROVE  LET s == txn'[v].rev
                          e == txn'[v].deal
                          h == txn'[v].grant
                      IN
                      /\ s \in Revisions /\ rev[s].status # "Absent" /\ rev[s].deal = e
                      /\ ~txn'[v].stale => rev[s].status = "Pending"
                      /\ rev[s].field \in MaterialFields =>
                           /\ h \in Grants /\ grant[h].rev = s
                           /\ ~txn'[v].stale =>
                                /\ ~grant[h].consumed
                                /\ FieldOf(deal[e], rev[s].field) = rev[s].old
                                /\ deal[e].status \in Locked => rev[s].evidenced
    BY <1>1 DEF FreshRevision
  <2>1. CASE v = w
    BY <1>2, <2>1
  <2>2. CASE v # w
    BY <1>1, <2>2 DEF FreshRevision
  <2>3. QED
    BY <2>1, <2>2
<1>7. MintsRevision'
  <2> SUFFICES ASSUME NEW v \in Workers, txn'[v] # None, txn'[v].op = "mint"
               PROVE  txn'[v].rev \in Revisions /\ rev[txn'[v].rev].status # "Absent"
    BY <1>1 DEF MintsRevision
  <2>1. CASE v = w
    BY <1>2, <2>1
  <2>2. CASE v # w
    BY <1>1, <2>2 DEF MintsRevision
  <2>3. QED
    BY <2>1, <2>2
<1>8. QED
  BY <1>3, <1>4, <1>5, <1>6, <1>7

LEMMA BeginStepsKeep ==
  ASSUME IInv, NEW w \in Workers,
         \/ \E d \in Deals : BeginCancel(w, d)
         \/ \E r \in Revisions : BeginMint(w, r)
         \/ \E r \in Revisions, g \in Grants \cup {None} : BeginApply(w, r, g)
  PROVE  IInv'
<1>1. ASSUME NEW d \in Deals, BeginCancel(w, d)
      PROVE  IInv'
  <2>1. Begin(w, "cancel", d, deal[d], None, None) /\ deal[d] \in DealRow
    BY <1>1 DEF BeginCancel, IInv, TypeOK
  <2>2. QED
    BY <2>1, BeginKeeps
<1>2. ASSUME NEW r \in Revisions, BeginMint(w, r)
      PROVE  IInv'
  <2>1. Begin(w, "mint", None, None, r, None) /\ rev[r].status = "Pending"
    BY <1>2 DEF BeginMint
  <2>2. QED
    BY <2>1, BeginKeeps
<1>3. ASSUME NEW r \in Revisions, NEW g \in Grants \cup {None}, BeginApply(w, r, g)
      PROVE  IInv'
  <2> DEFINE d == rev[r].deal
  <2>1. Begin(w, "apply", d, deal[d], r, g) /\ rev[r].status = "Pending"
    BY <1>3 DEF BeginApply
  <2>2. d \in Deals /\ deal[d] \in DealRow
    BY <2>1 DEF IInv, TypeOK
  <2>3. rev[r].field \in MaterialFields =>
          /\ g \in Grants /\ grant[g].rev = r /\ ~grant[g].consumed
          /\ FieldOf(deal[d], rev[r].field) = rev[r].old
          /\ deal[d].status \in Locked => rev[r].evidenced
    BY <1>3 DEF BeginApply, Usable
  <2> HIDE DEF d
  <2>4. rev[r].deal = d
    BY DEF d
  <2>5. QED
    BY <2>1, <2>2, <2>3, <2>4, BeginKeeps
<1>4. QED
  BY <1>1, <1>2, <1>3

LEMMA RollbackKeeps ==
  ASSUME IInv, NEW w \in Workers, Rollback(w)
  PROVE  IInv'
<1> USE DEF IInv
<1>1. /\ txn' = [txn EXCEPT ![w] = None]
      /\ UNCHANGED <<deal, inward, operating, exc, rev, grant, edit>>
  BY DEF Rollback
<1>2. \A v \in Workers : txn'[v] # None => txn'[v] = txn[v]
  BY <1>1 DEF TypeOK
<1>3. TypeOK'
  BY <1>1 DEF TypeOK
<1>4. ShippedStatus' /\ RevisionValues' /\ GrantUsedOnce'
  BY <1>1 DEF ShippedStatus, RevisionValues, GrantUsedOnce
<1>5. FreshRow' /\ MintsRevision'
  BY <1>1, <1>2 DEF FreshRow, MintsRevision
<1>6. FreshRevision'
  <2>1. FreshRevision
    OBVIOUS
  <2>2. QED
    BY ONLY <1>1, <1>2, <2>1 DEF FreshRevision
<1>7. QED
  BY <1>3, <1>4, <1>5, <1>6

\* A request that saves its deal ends, and outdates the others on that deal.
LEMMA SaveAndCloseFacts ==
  ASSUME TypeOK, NEW w \in Workers, txn[w] # None, NEW row \in DealRow,
         txn[w].deal \in Deals, SaveAndClose(w, row)
  PROVE  /\ deal' = [deal EXCEPT ![txn[w].deal] = row]
         /\ txn' \in [Workers -> TxnRow \cup {None}]
         /\ txn'[w] = None
         /\ \A v \in Workers : txn'[v] # None => txn'[v] = Outdated(txn[w].deal)[v]
<1> DEFINE d == txn[w].deal
           out == Outdated(d)
<1>1. deal' = [deal EXCEPT ![d] = row] /\ txn' = [out EXCEPT ![w] = None]
  BY DEF SaveAndClose
<1>2. out \in [Workers -> TxnRow \cup {None}]
  BY OutdatedTyped
<1> HIDE DEF out
<1>3. txn' \in [Workers -> TxnRow \cup {None}] /\ txn'[w] = None
  BY <1>1, <1>2
<1>4. \A v \in Workers : txn'[v] # None => txn'[v] = out[v]
  BY <1>1, <1>2
<1>5. QED
  BY <1>1, <1>3, <1>4 DEF out

\* The deal table with one row replaced by one that is as well typed.
LEMMA RowReplaced ==
  ASSUME TypeOK, ShippedStatus, NEW d \in Deals, NEW row \in DealRow,
         deal' = [deal EXCEPT ![d] = row], row.dispatched <= row.qty,
         row.dispatched # 0 => row.status \in Shipping
  PROVE  /\ deal' \in [Deals -> DealRow]
         /\ \A e \in Deals : deal'[e].dispatched <= deal'[e].qty
         /\ ShippedStatus'
<1>1. deal' \in [Deals -> DealRow] /\ ShippedStatus'
  BY DEF TypeOK, ShippedStatus
<1>2. ASSUME NEW e \in Deals PROVE deal'[e].dispatched <= deal'[e].qty
  <2>1. CASE e = d
    BY <2>1 DEF TypeOK
  <2>2. CASE e # d
    BY <2>2 DEF TypeOK
  <2>3. QED
    BY <2>1, <2>2
<1>3. QED
  BY <1>1, <1>2

LEMMA CommitCancelKeeps ==
  ASSUME DealAssumption, IInv, NEW w \in Workers, CommitCancel(w)
  PROVE  IInv'
<1> USE DEF IInv
<1> DEFINE d == txn[w].deal
           row == [txn[w].seen EXCEPT !.status = "Cancelled"]
<1>1. /\ txn[w] # None /\ txn[w].op = "cancel" /\ ~txn[w].stale
      /\ SaveAndClose(w, row)
      /\ UNCHANGED <<inward, operating, exc, rev, grant, edit>>
  BY DEF CommitCancel, Unmodified
<1>2. d \in Deals /\ txn[w].seen = deal[d]
  BY <1>1 DEF FreshRow
<1>3. deal[d] \in DealRow /\ deal[d].dispatched <= deal[d].qty
  BY <1>2 DEF TypeOK
<1>4. /\ row \in DealRow /\ row.qty = deal[d].qty
      /\ row.dispatched = deal[d].dispatched /\ row.status = "Cancelled"
  BY <1>2, <1>3 DEF DealRow, Statuses
<1>5. /\ row.dispatched <= row.qty
      /\ row.status \in Shipping
  BY <1>3, <1>4 DEF Shipping
<1> HIDE DEF row
<1>6. /\ deal' = [deal EXCEPT ![d] = row]
      /\ txn' \in [Workers -> TxnRow \cup {None}]
      /\ \A v \in Workers : txn'[v] # None => txn'[v] = Outdated(d)[v]
  BY <1>1, <1>2, <1>4, SaveAndCloseFacts
<1> HIDE DEF d
<1>7. TypeOK' /\ ShippedStatus'
  BY <1>1, <1>2, <1>4, <1>5, <1>6, RowReplaced DEF TypeOK
<1>8. RevisionValues' /\ GrantUsedOnce'
  BY <1>1 DEF RevisionValues, GrantUsedOnce
<1>9. FreshRow' /\ FreshRevision' /\ MintsRevision'
  BY <1>1, <1>2, <1>6, SaveKeepsFreshRow, SaveKeepsFreshRevision, SaveKeepsMints
<1>10. QED
  BY <1>7, <1>8, <1>9

LEMMA CommitMintKeeps ==
  ASSUME DealAssumption, IInv, NEW w \in Workers, NEW g \in Grants, CommitMint(w, g)
  PROVE  IInv'
<1> USE DEF IInv
<1> DEFINE r == txn[w].rev
<1>1. /\ txn[w] # None /\ txn[w].op = "mint" /\ grant[g].rev = None
      /\ grant' = [grant EXCEPT ![g].rev = r]
      /\ rev' = [rev EXCEPT ![r].ref = g]
      /\ txn' = [txn EXCEPT ![w] = None]
      /\ UNCHANGED <<deal, inward, operating, exc, edit>>
  BY DEF CommitMint
<1>2. r \in Revisions /\ rev[r].status # "Absent" /\ None \notin Revisions
  BY <1>1 DEF MintsRevision, DealAssumption
<1>3. \A v \in Workers : txn'[v] # None => txn'[v] = txn[v]
  BY <1>1 DEF TypeOK
<1>4. \A s \in Revisions :
        /\ rev'[s] \in RevRow
        /\ rev'[s].status = rev[s].status /\ rev'[s].deal = rev[s].deal
        /\ rev'[s].field = rev[s].field /\ rev'[s].old = rev[s].old
        /\ rev'[s].new = rev[s].new /\ rev'[s].evidenced = rev[s].evidenced
  <2> TAKE s \in Revisions
  <2>1. rev[s] \in RevRow /\ rev \in [Revisions -> RevRow]
    BY DEF TypeOK
  <2>2. rev'[s] = IF s = r THEN [rev[s] EXCEPT !.ref = g] ELSE rev[s]
    BY <1>1, <1>2, <2>1
  <2> HIDE DEF r
  <2>3. [rev[s] EXCEPT !.ref = g] \in RevRow
    BY <2>1 DEF RevRow
  <2>4. rev'[s] \in RevRow
    BY <2>1, <2>2, <2>3
  <2>5. CASE s = r
    <3>1. rev'[s] = [rev[s] EXCEPT !.ref = g]
      BY <2>2, <2>5
    <3>2. QED
      BY <2>1, <2>4, <3>1 DEF RevRow
  <2>6. CASE s # r
    <3>1. rev'[s] = rev[s]
      BY <2>2, <2>6
    <3>2. QED
      BY <2>4, <3>1
  <2>7. QED
    BY <2>5, <2>6
<1>5. /\ grant'[g].rev = r /\ grant'[g].consumed = grant[g].consumed
      /\ \A h \in Grants \ {g} : grant'[h] = grant[h]
      /\ grant' \in [Grants -> GrantRow]
  <2>1. grant \in [Grants -> GrantRow]
    BY DEF TypeOK
  <2>2. grant[g] \in GrantRow /\ grant'[g] = [grant[g] EXCEPT !.rev = r]
    BY <1>1, <2>1
  <2>3. \A h \in Grants \ {g} : grant'[h] = grant[h]
    BY <1>1, <2>1
  <2> HIDE DEF r
  <2>4. grant'[g] \in GrantRow /\ grant'[g].rev = r /\ grant'[g].consumed = grant[g].consumed
    BY <1>2, <2>2 DEF GrantRow
  <2>5. QED
    BY <1>1, <2>1, <2>3, <2>4
<1>6. ~grant[g].consumed
  BY <1>1 DEF GrantUsedOnce
<1> HIDE DEF r
<1>7. TypeOK'
  <2>1. rev' \in [Revisions -> RevRow]
    BY <1>1, <1>4 DEF TypeOK
  <2>2. txn' \in [Workers -> TxnRow \cup {None}]
    BY <1>1 DEF TypeOK
  <2>3. QED
    BY <1>1, <1>4, <1>5, <2>1, <2>2 DEF TypeOK
<1>8. ShippedStatus' /\ RevisionValues'
  BY <1>1, <1>4 DEF ShippedStatus, RevisionValues
<1>9. FreshRow'
  BY <1>1, <1>3 DEF FreshRow
<1>10. FreshRevision'
  <2> HIDE DEF IInv
  <2> SUFFICES ASSUME NEW v \in Workers, txn'[v] # None, txn'[v].op = "apply"
               PROVE  LET s == txn[v].rev
                          e == txn[v].deal
                          h == txn[v].grant
                      IN
                      /\ s \in Revisions /\ rev'[s].status # "Absent" /\ rev'[s].deal = e
                      /\ ~txn[v].stale => rev'[s].status = "Pending"
                      /\ rev'[s].field \in MaterialFields =>
                           /\ h \in Grants /\ grant'[h].rev = s
                           /\ ~txn[v].stale =>
                                /\ ~grant'[h].consumed
                                /\ FieldOf(deal[e], rev'[s].field) = rev'[s].old
                                /\ deal[e].status \in Locked => rev'[s].evidenced
    <3>1. \A v \in Workers : txn'[v] # None => txn'[v] = txn[v]
      BY <1>3
    <3>2. deal' = deal
      BY <1>1
    <3>3. QED
      BY <3>1, <3>2 DEF FreshRevision
  <2> USE DEF IInv
  <2>1. txn[v] # None /\ txn[v].op = "apply"
    BY <1>3
  <2>2. txn[v].rev \in Revisions
    BY <2>1 DEF FreshRevision
  <2>3. rev[txn[v].rev].field \in MaterialFields =>
          txn[v].grant \in Grants /\ txn[v].grant # g
    BY <1>1, <1>2, <2>1, <2>2 DEF FreshRevision
  <2>4. QED
    BY <1>4, <1>5, <2>1, <2>2, <2>3 DEF FreshRevision
<1>11. MintsRevision'
  BY <1>1, <1>3, <1>4 DEF MintsRevision
<1>12. GrantUsedOnce'
  <2>1. \A h \in Grants : grant'[h].consumed => h # g /\ grant[h].consumed
    BY <1>5, <1>6
  <2>2. \A h \in Grants : grant[h].consumed => h # g /\ grant'[h] = grant[h]
    BY <1>5, <1>6
  <2>3. \A h \in Grants : grant[h].consumed => grant[h].rev \in Revisions
    BY DEF GrantUsedOnce, TypeOK, GrantRow
  <2>4. QED
    BY <1>4, <2>1, <2>2, <2>3 DEF GrantUsedOnce
<1>13. QED
  BY <1>7, <1>8, <1>9, <1>10, <1>11, <1>12

\* Setting a field to a value it can hold keeps the row typed, and changes
\* neither its status nor what it shipped.
LEMMA RevisedTyped ==
  ASSUME DealAssumption, NEW row \in DealRow, NEW f \in EligibleFields, NEW v \in Input(f)
  PROVE  /\ Revised(row, f, v) \in DealRow
         /\ Revised(row, f, v).status = row.status
         /\ Revised(row, f, v).dispatched = row.dispatched
<1>1. CASE f = "qty"
  <2>1. v \in 0..MaxQty
    BY <1>1 DEF Input, DealAssumption
  <2>2. Revised(row, f, v) = [row EXCEPT !.qty = v]
    BY <1>1 DEF Revised
  <2>3. QED
    BY <2>1, <2>2 DEF DealRow
<1>2. CASE f = "lot_no"
  <2>1. v \in Lots
    BY <1>2 DEF Input
  <2>2. Revised(row, f, v) = [row EXCEPT !.lot = v]
    BY <1>2 DEF Revised
  <2>3. QED
    BY <2>1, <2>2 DEF DealRow
<1>3. CASE f = "approved_rate"
  <2>1. v \in RateOrNone
    BY <1>3 DEF Input, RateOrNone
  <2>2. Revised(row, f, v) = [row EXCEPT !.approved_rate = v]
    BY <1>3 DEF Revised
  <2>3. QED
    BY <2>1, <2>2 DEF DealRow
<1>4. CASE f = "customer"
  <2>1. v \in Parties
    BY <1>4 DEF Input
  <2>2. Revised(row, f, v) = [row EXCEPT !.customer = v]
    BY <1>4 DEF Revised
  <2>3. QED
    BY <2>1, <2>2 DEF DealRow
<1>5. CASE f \notin {"qty", "lot_no", "approved_rate", "customer"}
  BY <1>5 DEF Revised
<1>6. QED
  BY <1>1, <1>2, <1>3, <1>4, <1>5

\* Request w applies revision r of field f to deal d, which becomes row.
Applying(w, d, r, f, row) ==
  /\ CommitApply(w)
  /\ d = txn[w].deal /\ r = txn[w].rev /\ f = rev[r].field
  /\ row = Revised(deal[d], f, rev[r].new)

\* What an apply_revision that commits found and does, in terms of the tables.
LEMMA CommitApplyFacts ==
  ASSUME DealAssumption, IInv, NEW w \in Workers,
         NEW d, NEW r, NEW f, NEW row, Applying(w, d, r, f, row)
  PROVE  /\ d \in Deals /\ r \in Revisions /\ f \in EligibleFields
         /\ rev[r].status = "Pending" /\ rev[r].deal = d
         /\ f \in MaterialFields =>
              /\ txn[w].grant \in Grants /\ grant[txn[w].grant].rev = r
              /\ ~grant[txn[w].grant].consumed
              /\ FieldOf(deal[d], f) = rev[r].old
              /\ deal[d].status \in Locked => rev[r].evidenced
         /\ row \in DealRow /\ row.status = deal[d].status
         /\ row.dispatched = deal[d].dispatched /\ row.dispatched <= row.qty
         /\ f \in RestockFields => Available(d, row.lot, row.qty)
         /\ deal' = [deal EXCEPT ![d] = row]
         /\ txn' \in [Workers -> TxnRow \cup {None}]
         /\ \A v \in Workers : txn'[v] # None => txn'[v] = Outdated(d)[v]
<1>0. /\ CommitApply(w) /\ DealAssumption
      /\ d = txn[w].deal /\ r = txn[w].rev /\ f = rev[r].field
      /\ row = Revised(deal[d], f, rev[r].new)
  BY DEF Applying
<1> USE DEF IInv
<1>1. /\ txn[w] # None /\ txn[w].op = "apply" /\ ~txn[w].stale
  BY <1>0 DEF CommitApply, Unmodified
<1>2. d \in Deals /\ txn[w].seen = deal[d] /\ deal[d] \in DealRow
  BY <1>0, <1>1 DEF FreshRow
<1>3. r \in Revisions /\ rev[r].status = "Pending" /\ rev[r].deal = d
  BY <1>0, <1>1 DEF FreshRevision
<1>4. f \in MaterialFields =>
        /\ txn[w].grant \in Grants /\ grant[txn[w].grant].rev = r
        /\ ~grant[txn[w].grant].consumed
        /\ FieldOf(deal[d], f) = rev[r].old
        /\ deal[d].status \in Locked => rev[r].evidenced
  BY <1>0, <1>1 DEF FreshRevision
<1>5. f \in EligibleFields /\ rev[r].new \in Input(f)
  BY <1>0, <1>3 DEF TypeOK, RevRow, RevisionValues
<1>6. row \in DealRow /\ row.status = deal[d].status /\ row.dispatched = deal[d].dispatched
  <2>1. PICK old, v : old = deal[d] /\ v = rev[r].new
    OBVIOUS
  <2>2. /\ DealAssumption /\ old \in DealRow /\ f \in EligibleFields
        /\ v \in Input(f)
    BY <1>2, <1>5, <2>1
  <2>3. /\ Revised(old, f, v) \in DealRow
        /\ Revised(old, f, v).status = old.status
        /\ Revised(old, f, v).dispatched = old.dispatched
    BY ONLY <2>2, RevisedTyped
  <2>4. QED
    BY <1>0, <2>1, <2>3
<1>7. /\ f \in RestockFields => Available(d, row.lot, row.qty)
      /\ row.dispatched <= row.qty
      /\ SaveAndClose(w, row)
  BY <1>0, <1>2 DEF CommitApply, ValidRow
<1>8. /\ deal' = [deal EXCEPT ![d] = row]
      /\ txn' \in [Workers -> TxnRow \cup {None}]
      /\ \A v \in Workers : txn'[v] # None => txn'[v] = Outdated(d)[v]
  BY <1>0, <1>1, <1>2, <1>6, <1>7, SaveAndCloseFacts
<1>9. QED
  BY <1>2, <1>3, <1>4, <1>5, <1>6, <1>7, <1>8

LEMMA CommitApplyKeeps ==
  ASSUME DealAssumption, IInv, NEW w \in Workers, CommitApply(w)
  PROVE  IInv'
<1> USE DEF IInv
<1> DEFINE d == txn[w].deal
           r == txn[w].rev
           g == txn[w].grant
           f == rev[r].field
           row == Revised(deal[d], f, rev[r].new)
<1>1. /\ d \in Deals /\ r \in Revisions /\ f \in EligibleFields
      /\ rev[r].status = "Pending" /\ rev[r].deal = d
      /\ f \in MaterialFields =>
           g \in Grants /\ grant[g].rev = r /\ ~grant[g].consumed
      /\ row \in DealRow /\ row.status = deal[d].status
      /\ row.dispatched = deal[d].dispatched /\ row.dispatched <= row.qty
      /\ deal' = [deal EXCEPT ![d] = row]
      /\ txn' \in [Workers -> TxnRow \cup {None}]
      /\ \A v \in Workers : txn'[v] # None => txn'[v] = Outdated(d)[v]
  <2>1. Applying(w, d, r, f, row)
    BY DEF Applying
  <2> HIDE DEF d, r, f, row
  <2>2. QED
    BY <2>1, CommitApplyFacts
<1>2. /\ rev' = [rev EXCEPT ![r].status = "Applied", ![r].ref = g]
      /\ grant' = IF f \in MaterialFields
                  THEN [grant EXCEPT ![g].consumed = TRUE] ELSE grant
      /\ \/ exc' = exc
         \/ exc' = [exc EXCEPT ![d]["BUYER_UNRESOLVED"] = "Resolved"]
      /\ UNCHANGED <<inward, operating, edit>>
  BY DEF CommitApply
<1>3. txn[w] \in TxnRow /\ txn[w] # None /\ g \in Grants \cup {None}
  BY DEF CommitApply, TypeOK, TxnRow
<1> HIDE DEF d, r, g, f, row
<1>4. /\ rev' \in [Revisions -> RevRow]
      /\ rev'[r].status = "Applied"
      /\ \A s \in Revisions \ {r} : rev'[s].status = rev[s].status
      /\ \A s \in Revisions :
           /\ rev'[s].deal = rev[s].deal /\ rev'[s].field = rev[s].field
           /\ rev'[s].old = rev[s].old /\ rev'[s].new = rev[s].new
           /\ rev'[s].evidenced = rev[s].evidenced
  <2>1. rev \in [Revisions -> RevRow] /\ rev[r] \in RevRow
    BY <1>1 DEF TypeOK
  <2>2. [rev[r] EXCEPT !.status = "Applied", !.ref = g] \in RevRow
    BY <1>3, <2>1 DEF RevRow
  <2>3. rev' = [rev EXCEPT ![r] = [rev[r] EXCEPT !.status = "Applied", !.ref = g]]
    BY <1>1, <1>2, <2>1
  <2>4. rev' \in [Revisions -> RevRow]
    BY <1>1, <2>1, <2>2, <2>3
  <2>5. \A s \in Revisions \ {r} : rev'[s] = rev[s]
    BY <1>1, <2>1, <2>3
  <2>6. rev'[r] = [rev[r] EXCEPT !.status = "Applied", !.ref = g]
    BY <1>1, <2>1, <2>3
  <2>7. /\ rev'[r].status = "Applied"
        /\ rev'[r].deal = rev[r].deal /\ rev'[r].field = rev[r].field
        /\ rev'[r].old = rev[r].old /\ rev'[r].new = rev[r].new
        /\ rev'[r].evidenced = rev[r].evidenced
    BY <2>1, <2>6 DEF RevRow
  <2>8. QED
    BY <2>4, <2>5, <2>7
<1>5. /\ grant' \in [Grants -> GrantRow]
      /\ \A h \in Grants : grant'[h].rev = grant[h].rev
      /\ \A h \in Grants : h # g \/ f \notin MaterialFields =>
           grant'[h].consumed = grant[h].consumed
      /\ f \in MaterialFields => grant'[g].consumed
  <2>1. CASE f \in MaterialFields
    <3>1. g \in Grants /\ grant \in [Grants -> GrantRow]
      BY <1>1, <2>1 DEF TypeOK
    <3>2. grant' = [grant EXCEPT ![g].consumed = TRUE]
      BY <1>2, <2>1
    <3>3. QED
      BY <2>1, <3>1, <3>2 DEF GrantRow
  <2>2. CASE f \notin MaterialFields
    <3>1. grant' = grant
      BY <1>2, <2>2
    <3>2. QED
      BY <2>2, <3>1 DEF TypeOK
  <2>3. QED
    BY <2>1, <2>2
<1>6. exc' \in ExcMap
  <2>1. CASE exc' = exc
    BY <2>1 DEF TypeOK, ExcMap
  <2>2. CASE exc' = [exc EXCEPT ![d]["BUYER_UNRESOLVED"] = "Resolved"]
    BY <1>1, <2>2 DEF TypeOK, ExcMap, ExcTypes, ExcStatuses
  <2>3. QED
    BY <1>2, <2>1, <2>2
<1>7. row.dispatched # 0 => row.status \in Shipping
  BY <1>1 DEF ShippedStatus
<1>8. /\ deal' \in [Deals -> DealRow]
      /\ \A e \in Deals : deal'[e].dispatched <= deal'[e].qty
      /\ ShippedStatus'
  BY <1>1, <1>7, RowReplaced
<1>9. TypeOK'
  <2>1. \A s \in Revisions : rev'[s].status # "Absent" => rev'[s].deal \in Deals
    BY <1>1, <1>4 DEF TypeOK
  <2>2. QED
    BY <1>1, <1>2, <1>4, <1>5, <1>6, <1>8, <2>1 DEF TypeOK, ExcMap
<1>10. RevisionValues'
  BY <1>1, <1>4 DEF RevisionValues
<1>11. FreshRow'
  BY <1>1, SaveKeepsFreshRow
<1>12. FreshRevision'
  <2> SUFFICES ASSUME NEW v \in Workers, txn'[v] # None, txn'[v].op = "apply"
               PROVE  LET s == txn'[v].rev
                          e == txn'[v].deal
                          h == txn'[v].grant
                      IN
                      /\ s \in Revisions /\ rev'[s].status # "Absent" /\ rev'[s].deal = e
                      /\ ~txn'[v].stale => rev'[s].status = "Pending"
                      /\ rev'[s].field \in MaterialFields =>
                           /\ h \in Grants /\ grant'[h].rev = s
                           /\ ~txn'[v].stale =>
                                /\ ~grant'[h].consumed
                                /\ FieldOf(deal'[e], rev'[s].field) = rev'[s].old
                                /\ deal'[e].status \in Locked => rev'[s].evidenced
    BY DEF FreshRevision
  <2>1. /\ txn[v] # None /\ txn[v].op = "apply"
        /\ txn'[v].deal = txn[v].deal /\ txn'[v].rev = txn[v].rev
        /\ txn'[v].grant = txn[v].grant
        /\ ~txn'[v].stale => ~txn[v].stale /\ txn[v].deal # d
    BY <1>1, OutdatedRequests
  <2> DEFINE s == txn[v].rev
             e == txn[v].deal
             h == txn[v].grant
  <2>2. /\ s \in Revisions /\ rev[s].status # "Absent" /\ rev[s].deal = e /\ e \in Deals
        /\ ~txn[v].stale => rev[s].status = "Pending"
        /\ rev[s].field \in MaterialFields =>
             /\ h \in Grants /\ grant[h].rev = s
             /\ ~txn[v].stale =>
                  /\ ~grant[h].consumed
                  /\ FieldOf(deal[e], rev[s].field) = rev[s].old
                  /\ deal[e].status \in Locked => rev[s].evidenced
    BY <2>1 DEF FreshRevision, FreshRow
  <2> HIDE DEF s, e, h
  <2>3. ~txn'[v].stale => e # d /\ s # r
    BY <1>1, <2>1, <2>2 DEF e
  <2>4. e # d => deal'[e] = deal[e]
    BY <1>1, <2>2 DEF TypeOK
  <2>5. ~txn'[v].stale /\ rev[s].field \in MaterialFields =>
          h # g \/ f \notin MaterialFields
    BY <1>1, <2>1, <2>2, <2>3
  <2>6. rev'[s].status # "Absent"
    BY <1>4, <2>2
  <2>7. QED
    BY <1>4, <1>5, <2>1, <2>2, <2>3, <2>4, <2>5, <2>6 DEF s, e, h
<1>13. MintsRevision'
  <2>1. \A s \in Revisions : rev[s].status # "Absent" => rev'[s].status # "Absent"
    BY <1>4
  <2>2. QED
    BY <1>1, <2>1, SaveKeepsMints
<1>14. GrantUsedOnce'
  <2>1. \A h \in Grants : grant[h].consumed =>
          grant[h].rev \in Revisions \ {r} /\ rev[grant[h].rev].status = "Applied"
    BY <1>1 DEF GrantUsedOnce, TypeOK, GrantRow
  <2>2. \A h \in Grants : grant'[h].consumed =>
          \/ grant[h].consumed
          \/ h = g /\ f \in MaterialFields
    BY <1>5
  <2>3. \A h \in Grants : grant'[h].consumed =>
          /\ grant'[h].rev \in Revisions
          /\ rev'[grant'[h].rev].status = "Applied"
    BY <1>1, <1>4, <1>5, <2>1, <2>2
  <2>4. None \notin Revisions
    BY DEF DealAssumption
  <2>5. \A s \in Revisions :
          rev'[s].status = "Applied" /\ rev'[s].field \in MaterialFields =>
            \E h \in Grants : grant'[h].rev = s /\ grant'[h].consumed
    <3>1. ASSUME NEW s \in Revisions, rev'[s].status = "Applied",
                 rev'[s].field \in MaterialFields
          PROVE  \E h \in Grants : grant'[h].rev = s /\ grant'[h].consumed
      <4>1. CASE s = r
        BY <1>1, <1>4, <1>5, <3>1, <4>1 DEF f
      <4>2. CASE s # r
        <5>1. PICK h \in Grants : grant[h].rev = s /\ grant[h].consumed
          BY <1>4, <3>1, <4>2 DEF GrantUsedOnce
        <5>2. grant'[h].rev = s /\ grant'[h].consumed
          BY <1>1, <1>5, <5>1
        <5>3. QED
          BY <5>2
      <4>3. QED
        BY <4>1, <4>2
    <3>2. QED
      BY <3>1
  <2>6. \A h, k \in Grants :
          grant'[h].consumed /\ grant'[k].consumed /\ grant'[h].rev = grant'[k].rev
            => h = k
    BY <1>1, <1>5, <2>1, <2>2 DEF GrantUsedOnce
  <2>7. QED
    BY <2>3, <2>4, <2>5, <2>6 DEF GrantUsedOnce
<1>15. QED
  BY <1>8, <1>9, <1>10, <1>11, <1>12, <1>13, <1>14

-----------------------------------------------------------------------------
(* The invariant, and what follows from it.                                *)

\* Every step saves one deal under the container lock, or is one of the
\* steps named here.
LEMMA StepKinds ==
  ASSUME DealAssumption, IInv, [Next]_vars
  PROVE  \/ \E d \in Deals : SaveStep(d)
         \/ \E d \in Deals, t \in ExcTypes, s \in ExcStatuses : DeskResolve(d, t, s)
         \/ \E r \in Revisions, d \in Deals, f \in RevisedFields, e \in BOOLEAN :
              \E v \in Input(f) : RequestRevision(r, d, f, v, e)
         \/ \E w \in Workers :
              \/ \E d \in Deals : BeginCancel(w, d)
              \/ \E r \in Revisions : BeginMint(w, r)
              \/ \E r \in Revisions, g \in Grants \cup {None} : BeginApply(w, r, g)
         \/ \E w \in Workers : CommitCancel(w)
         \/ \E w \in Workers, g \in Grants : CommitMint(w, g)
         \/ \E w \in Workers : CommitApply(w)
         \/ \E w \in Workers : Rollback(w)
         \/ ContainerStep
         \/ UNCHANGED vars
<1> USE DEF IInv
<1>1. ASSUME NEW d \in Deals, DealStep(d)
      PROVE  \/ SaveStep(d)
             \/ \E t \in ExcTypes, s \in ExcStatuses : DeskResolve(d, t, s)
             \/ \E r \in Revisions, f \in RevisedFields, e \in BOOLEAN :
                  \E v \in Input(f) : RequestRevision(r, d, f, v, e)
  <2>1. CASE \E l \in Lots, q \in Quantities, p \in Rates, c \in Parties :
               Create(d, l, q, p, c) \/ EditProposed(d, l, q, p, c)
    BY <2>1, EntrySaves
  <2>2. CASE RateRulesUnresolved(d) \/ RateRulesApprove(d) \/ RateRulesRefer(d)
    BY <2>2, RateRulesSave
  <2>3. CASE \/ \E p \in Rates, x \in Decisions \ {"COUNTER", "REJECT"} : Approve(d, p, x)
             \/ "COUNTER" \in Decisions /\ \E p \in Rates : Counter(d, p)
    <3>1. \E p \in Rates, x \in DecideDecisions : Approve(d, p, x) \/ Counter(d, p)
      BY <2>3 DEF DealAssumption
    <3>2. QED
      BY <3>1, DecideSaves
  <2>4. CASE "REJECT" \in Decisions /\ Reject(d)
    <3>1. Reject(d) /\ "REJECT" \in DecideDecisions
      BY <2>4 DEF DecideDecisions
    <3>2. QED
      BY <3>1, RejectSaves
  <2>5. CASE AcceptCounter(d)
    BY <2>5, AcceptSaves
  <2>6. CASE AdvanceToOutwardPending(d)
    BY <2>6, ReleaseSaves
  <2>7. CASE \E q \in 1..MaxQty : RecordDispatch(d, q)
    BY <2>7, DispatchSaves
  <2>8. CASE \E t \in DeskResolves, s \in {"Resolved", "Waived"} : DeskResolve(d, t, s)
    BY <2>8 DEF DealAssumption, ExcStatuses
  <2>9. CASE \E r \in Revisions, f \in RevisedFields, e \in BOOLEAN :
               \E v \in Input(f) : RequestRevision(r, d, f, v, e)
    BY <2>9
  <2>10. QED
    BY <1>1, <2>1, <2>2, <2>3, <2>4, <2>5, <2>6, <2>7, <2>8, <2>9 DEF DealStep
<1>2. CASE \E d \in Deals : DealStep(d)
  BY <1>1, <1>2
<1>3. CASE \E w \in Workers : RequestStep(w)
  BY <1>3 DEF RequestStep
<1>4. QED
  BY <1>2, <1>3 DEF Next

LEMMA InitEstablishes ==
  ASSUME DealAssumption, Init
  PROVE  IInv
<1>1. BlankDeal \in DealRow /\ BlankDeal.dispatched = 0 /\ BlankDeal.qty = 0
  <2>1. (CHOOSE l \in Lots : TRUE) \in Lots
    BY DEF DealAssumption
  <2>2. 0 \in 0..MaxQty
    BY DEF DealAssumption
  <2>3. QED
    BY <2>1, <2>2 DEF BlankDeal, DealRow, Statuses, RateOrNone, Parties
<1>2. BlankRev \in RevRow /\ BlankRev.status = "Absent"
  BY DEF BlankRev, RevRow, EligibleFields, Values
<1>3. /\ \A d \in Deals : deal[d] = BlankDeal
      /\ \A r \in Revisions : rev[r] = BlankRev
      /\ \A g \in Grants : ~grant[g].consumed
      /\ \A w \in Workers : txn[w] = None
  BY DEF Init
<1>4. TypeOK
  <2>1. deal \in [Deals -> DealRow] /\ rev \in [Revisions -> RevRow]
    BY <1>1, <1>2 DEF Init
  <2>2. \A d \in Deals : deal[d].dispatched <= deal[d].qty
    BY <1>1, <1>3
  <2>3. \A r \in Revisions : rev[r].status # "Absent" => rev[r].deal \in Deals
    BY <1>2, <1>3
  <2>4. /\ inward \in [Lots -> 0..MaxQty]
        /\ operating \in Nat \cup {NoFact, Unresolved}
        /\ edit \in [Lots -> Nat] \cup {None}
    BY DEF Init, DealAssumption
  <2>5. exc \in [Deals -> [ExcTypes -> ExcStatuses]]
    BY DEF Init, ExcStatuses
  <2>6. grant \in [Grants -> GrantRow] /\ txn \in [Workers -> TxnRow \cup {None}]
    BY DEF Init, GrantRow
  <2>7. QED
    BY <2>1, <2>2, <2>3, <2>4, <2>5, <2>6 DEF TypeOK
<1>5. ShippedStatus /\ RevisionValues
  BY <1>1, <1>2, <1>3 DEF ShippedStatus, RevisionValues
<1>6. FreshRow /\ FreshRevision /\ MintsRevision
  BY <1>3 DEF FreshRow, FreshRevision, MintsRevision
<1>7. GrantUsedOnce
  BY <1>2, <1>3 DEF GrantUsedOnce
<1>8. QED
  BY <1>4, <1>5, <1>6, <1>7 DEF IInv

LEMMA NextKeeps ==
  ASSUME DealAssumption, IInv, [Next]_vars
  PROVE  IInv'
<1>1. CASE UNCHANGED vars
  BY <1>1 DEF vars, IInv, TypeOK, ShippedStatus, RevisionValues, FreshRow,
              FreshRevision, MintsRevision, GrantUsedOnce
<1>2. QED
  BY <1>1, StepKinds, SaveStepKeeps, DeskResolveKeeps, RequestRevisionKeeps,
     BeginStepsKeep, CommitCancelKeeps, CommitMintKeeps, CommitApplyKeeps,
     RollbackKeeps, ContainerStepKeeps

\* The inductive invariant holds in every reachable state.
THEOREM DealInvariant == Spec => []IInv
<1>1. Init => IInv
  BY DealAssumption, InitEstablishes
<1>2. IInv /\ [Next]_vars => IInv'
  BY DealAssumption, NextKeeps
<1>3. QED
  BY <1>1, <1>2, PTL DEF Spec

\* Rows stay well typed, and no deal ships more than its quantity however
\* dispatches and revisions of the quantity interleave.
THEOREM TypeCorrect == Spec => []TypeOK
<1>1. IInv => TypeOK
  BY DEF IInv
<1>2. QED
  BY <1>1, DealInvariant, PTL

\* Whatever number of approvals is minted for a revision and whoever applies
\* it, exactly one of them is consumed, and only by that revision.
THEOREM GrantsUsedOnce == Spec => []GrantUsedOnce
<1>1. IInv => GrantUsedOnce
  BY DEF IInv
<1>2. QED
  BY <1>1, DealInvariant, PTL

-----------------------------------------------------------------------------
(* Action properties.                                                      *)

DispatchStands ==
  \A d \in Deals :
    /\ deal'[d].dispatched >= deal[d].dispatched
    /\ deal[d].status = "Dispatched" => deal'[d].status = "Dispatched"

LEMMA RowKeepsDispatch ==
  ASSUME DealAssumption, TypeOK, NEW d \in Deals, NEW row,
         deal' = [deal EXCEPT ![d] = row],
         row.dispatched >= deal[d].dispatched,
         deal[d].status = "Dispatched" => row.status = "Dispatched"
  PROVE  DispatchStands
<1> SUFFICES ASSUME NEW e \in Deals
             PROVE  /\ deal'[e].dispatched >= deal[e].dispatched
                    /\ deal[e].status = "Dispatched" => deal'[e].status = "Dispatched"
  BY DEF DispatchStands
<1>1. deal'[e] = IF e = d THEN row ELSE deal[e]
  BY DEF TypeOK
<1>2. deal[e].dispatched \in Nat
  BY DealRowTyped
<1>3. QED
  BY <1>1, <1>2

LEMMA DealsUntouched ==
  ASSUME DealAssumption, TypeOK, UNCHANGED deal
  PROVE  DispatchStands
BY DealRowTyped DEF DispatchStands

LEMMA StepKeepsDispatch ==
  ASSUME DealAssumption, IInv, [Next]_vars
  PROVE  DispatchStands
<1> USE DEF IInv
<1>1. ASSUME NEW d \in Deals, SaveStep(d)
      PROVE  DispatchStands
  <2>1. PICK row : /\ row.dispatched >= deal[d].dispatched
                   /\ deal[d].status # "Dispatched"
                   /\ deal' = [deal EXCEPT ![d] = row]
    BY <1>1 DEF SaveStep, Save
  <2>2. QED
    BY <2>1, RowKeepsDispatch
<1>2. ASSUME NEW w \in Workers, CommitCancel(w)
      PROVE  DispatchStands
  <2> DEFINE d == txn[w].deal
             row == [txn[w].seen EXCEPT !.status = "Cancelled"]
  <2>1. /\ txn[w] # None /\ txn[w].op = "cancel" /\ ~txn[w].stale
        /\ txn[w].seen.status \in Cancellable
        /\ deal' = [deal EXCEPT ![d] = row]
    BY <1>2 DEF CommitCancel, Unmodified, SaveAndClose
  <2>2. d \in Deals /\ txn[w].seen = deal[d] /\ deal[d] \in DealRow
    BY <2>1 DEF FreshRow
  <2>3. deal[d].status # "Dispatched"
    BY <2>1, <2>2 DEF Cancellable
  <2>4. row.dispatched >= deal[d].dispatched
    <3>1. row.dispatched = deal[d].dispatched
      BY <2>2 DEF DealRow
    <3>2. QED
      BY <3>1, <2>2, DealRowTyped
  <2> HIDE DEF d, row
  <2>5. QED
    BY <2>1, <2>2, <2>3, <2>4, RowKeepsDispatch
<1>3. ASSUME NEW w \in Workers, CommitApply(w)
      PROVE  DispatchStands
  <2>0. PICK d, r, f, row : Applying(w, d, r, f, row)
    BY <1>3 DEF Applying
  <2>1. /\ d \in Deals /\ deal' = [deal EXCEPT ![d] = row]
        /\ row.status = deal[d].status /\ row.dispatched = deal[d].dispatched
    BY <2>0, CommitApplyFacts
  <2>2. row.dispatched >= deal[d].dispatched
    BY <2>1, DealRowTyped
  <2>3. QED
    BY <2>1, <2>2, RowKeepsDispatch
<1>4. CASE UNCHANGED deal
  BY <1>4, DealsUntouched
<1>5. ASSUME NEW d \in Deals, NEW t, NEW s, DeskResolve(d, t, s)
      PROVE  UNCHANGED deal
  BY <1>5 DEF DeskResolve
<1>6. ASSUME NEW r, NEW d, NEW f, NEW e, NEW v, RequestRevision(r, d, f, v, e)
      PROVE  UNCHANGED deal
  BY <1>6 DEF RequestRevision
<1>7. ASSUME NEW w \in Workers,
             \/ \E d \in Deals : BeginCancel(w, d)
             \/ \E r \in Revisions : BeginMint(w, r)
             \/ \E r \in Revisions, g \in Grants \cup {None} : BeginApply(w, r, g)
             \/ \E g \in Grants : CommitMint(w, g)
             \/ Rollback(w)
      PROVE  UNCHANGED deal
  BY <1>7 DEF BeginCancel, BeginMint, BeginApply, Begin, CommitMint, Rollback
<1>8. CASE ContainerStep
  BY <1>8, <1>4 DEF ContainerStep, BeginEdit, EditInward, OperatingChanged
<1>9. CASE UNCHANGED vars
  BY <1>9, <1>4 DEF vars
<1>10. QED
  BY <1>1, <1>2, <1>3, <1>4, <1>5, <1>6, <1>7, <1>8, <1>9, StepKinds

\* What record_dispatch recorded is never taken back: not by a cancellation
\* or a revision that read the deal before it, and a dispatched deal stays so.
THEOREM DispatchNeverUndone == Spec => DispatchedStands
<1>1. IInv /\ [Next]_vars => [DispatchStands]_vars
  BY DealAssumption, StepKeepsDispatch
<1>2. QED
  BY <1>1, DealInvariant, PTL DEF Spec, DispatchedStands, DispatchStands

ApprovedValueApplied ==
  \A r \in Revisions :
    LET d == rev[r].deal IN
    /\ rev[r].field \in MaterialFields
    /\ rev[r].status = "Pending" /\ rev'[r].status = "Applied"
    => /\ FieldOf(deal[d], rev[r].field) = rev[r].old
       /\ deal[d].status \in Locked => rev[r].evidenced

LEMMA StepAppliesApproved ==
  ASSUME DealAssumption, IInv, [Next]_vars
  PROVE  ApprovedValueApplied
<1> USE DEF IInv
<1> SUFFICES ASSUME NEW r \in Revisions,
                    rev[r].field \in MaterialFields,
                    rev[r].status = "Pending", rev'[r].status = "Applied"
             PROVE  /\ FieldOf(deal[rev[r].deal], rev[r].field) = rev[r].old
                    /\ deal[rev[r].deal].status \in Locked => rev[r].evidenced
  BY DEF ApprovedValueApplied
<1>1. ASSUME NEW w \in Workers, CommitApply(w)
      PROVE  txn[w].rev = r
  <2>1. txn[w].rev # r => rev'[r] = rev[r]
    BY <1>1 DEF CommitApply, TypeOK
  <2>2. QED
    BY <2>1
<1>2. ASSUME NEW w \in Workers, CommitApply(w)
      PROVE  /\ FieldOf(deal[rev[r].deal], rev[r].field) = rev[r].old
             /\ deal[rev[r].deal].status \in Locked => rev[r].evidenced
  <2>1. PICK d, f, row : Applying(w, d, r, f, row)
    BY <1>1, <1>2 DEF Applying
  <2>2. d = rev[r].deal /\ f = rev[r].field
    BY <2>1, CommitApplyFacts DEF Applying
  <2>3. QED
    BY <2>1, <2>2, CommitApplyFacts
<1>3. ASSUME NEW w \in Workers, NEW g, CommitMint(w, g)
      PROVE  FALSE
  <2>1. rev' = [rev EXCEPT ![txn[w].rev].ref = g]
    BY <1>3 DEF CommitMint
  <2>2. rev'[r].status = rev[r].status
    BY <2>1 DEF TypeOK, RevRow
  <2>3. QED
    BY <2>2
<1>4. ASSUME NEW s \in Revisions, NEW d, NEW f, NEW e, NEW v,
             RequestRevision(s, d, f, v, e)
      PROVE  FALSE
  BY <1>4 DEF RequestRevision, TypeOK
<1>5. CASE UNCHANGED rev
  BY <1>5
<1>6. ASSUME NEW d \in Deals, SaveStep(d)
      PROVE  UNCHANGED rev
  BY <1>6 DEF SaveStep
<1>7. ASSUME NEW d \in Deals, NEW t, NEW s, DeskResolve(d, t, s)
      PROVE  UNCHANGED rev
  BY <1>7 DEF DeskResolve
<1>8. ASSUME NEW w \in Workers,
             \/ \E d \in Deals : BeginCancel(w, d)
             \/ \E q \in Revisions : BeginMint(w, q)
             \/ \E q \in Revisions, g \in Grants \cup {None} : BeginApply(w, q, g)
             \/ CommitCancel(w)
             \/ Rollback(w)
      PROVE  UNCHANGED rev
  BY <1>8 DEF BeginCancel, BeginMint, BeginApply, Begin, CommitCancel, Rollback
<1>9. CASE ContainerStep
  BY <1>9, <1>5 DEF ContainerStep, BeginEdit, EditInward, OperatingChanged
<1>10. CASE UNCHANGED vars
  BY <1>10, <1>5 DEF vars
<1>11. QED
  BY <1>2, <1>3, <1>4, <1>5, <1>6, <1>7, <1>8, <1>9, <1>10, StepKinds

\* apply_revision changes a deal from the value that was approved, though it
\* checked that value before it locked the deal.
THEOREM AppliedFromApprovedValue == Spec => AppliedAsApproved
<1>1. IInv /\ [Next]_vars => [ApprovedValueApplied]_vars
  BY DealAssumption, StepAppliesApproved
<1>2. QED
  BY <1>1, DealInvariant, PTL DEF Spec, AppliedAsApproved, ApprovedValueApplied

-----------------------------------------------------------------------------
(* What the code keeps of the stock claims, for every step from a state    *)
(* that satisfies IInv.  A step that saves one deal row gives it a debt    *)
(* that is not above the old one, or that was checked against lot and      *)
(* container, or that was overridden; and dispatches that are not above    *)
(* the old ones, that fit beside the others, or that came with a checked   *)
(* quantity (StockStep).  What the checks add up, the claims of the other  *)
(* deals, bounds what these owe (OthersOwe) and, as long as none of them   *)
(* is partly dispatched, what they shipped (OthersShip).                   *)

RowClaim(row, l) ==
  IF row.status \in Reserving /\ row.lot = l THEN CommercialQty(row) ELSE 0
RowClaimAnyLot(row) ==
  IF row.status \in Reserving THEN CommercialQty(row) ELSE 0
RowOwed(row, l) ==
  IF row.status \in Committed /\ row.lot = l THEN Unshipped(row) ELSE 0
RowOwedAnyLot(row) ==
  IF row.status \in Committed THEN Unshipped(row) ELSE 0
RowShips(row, l) == IF row.lot = l THEN row.dispatched ELSE 0

OwedBy(D, l) == Total(D, OwedOn(l), MaxQty)
OwedByAnyLot(D) == Total(D, OwedAnyLot, MaxQty)
ShippedBy(D, l) == Total(D, DispatchedOn(l), MaxQty)

\* The same of the rows of t.
OwedIn(t, l) == Total(Deals, [e \in Deals |-> RowOwed(t[e], l)], MaxQty)
ShippedIn(t, l) == Total(Deals, [e \in Deals |-> RowShips(t[e], l)], MaxQty)

SoldStep ==
  \A l \in Lots :
    /\ Owed(l)' > Owed(l) =>
         /\ Resolvable
         /\ \/ Covered(l)' /\ Total(Deals, OwedAnyLot, MaxQty)' <= Capacity'
            \/ Overridden(l)
    /\ inward'[l] < inward[l] => Covered(l)' \/ edit # None

CeilingStep ==
  \A l \in Lots : Shipped(l) <= inward[l] =>
    \/ (Shipped(l) <= inward[l])'
    \/ Lowered(l) /\ (PartlyShipped(l) \/ edit # None)
    \/ MovedOnto(l) /\ PartlyShipped(l)

OwesNoMore(d, row) ==
  \A l \in Lots : RowOwed(row, l) <= RowOwed(deal[d], l)
ShipsNoMore(d, row) ==
  \A l \in Lots : RowShips(row, l) <= RowShips(deal[d], l)

Checked(d, row) == Resolvable /\ Available(d, row.lot, row.qty)

\* A step that saves one deal row as the stock allows.
StockStep(d) ==
  /\ \E row \in DealRow :
       /\ deal' = [deal EXCEPT ![d] = row]
       /\ row.dispatched <= row.qty
       /\ \/ OwesNoMore(d, row)
          \/ Checked(d, row)
          \/ Resolvable /\ row.lot = deal[d].lot /\ Overridden(row.lot)
       /\ \/ ShipsNoMore(d, row)
          \/ row.lot = deal[d].lot /\ WithinPhysical(d, row.dispatched)
          \/ row.dispatched = deal[d].dispatched /\ Checked(d, row)
  /\ UNCHANGED <<inward, operating>>

-----------------------------------------------------------------------------
(* Sums.                                                                   *)

\* Over the same deals, a quantity that is nowhere larger has no larger sum.
LEMMA TotalPointwise ==
  ASSUME NEW S, IsFiniteSet(S), NEW D \in SUBSET S, NEW Cap \in Nat,
         NEW f \in [S -> 0..Cap], NEW g \in [S -> 0..Cap],
         \A s \in D : f[s] <= g[s]
  PROVE  /\ Total(D, f, Cap) \in Nat /\ Total(D, g, Cap) \in Nat
         /\ Total(D, f, Cap) <= Total(D, g, Cap)
<1> DEFINE p == [s \in D |-> f[s]]
           q == [s \in D |-> g[s]]
<1>1. IsFiniteSet(D)
  BY FS_Subset
<1>2. p \in [D -> 0..Cap] /\ q \in [D -> 0..Cap] /\ \A s \in D : p[s] <= q[s]
  OBVIOUS
<1>3. Total(D, p, Cap) = Total(D, f, Cap) /\ Total(D, q, Cap) = Total(D, g, Cap)
  BY TotalSame
<1> HIDE DEF p, q
<1>4. Total(D, p, Cap) <= Total(D, q, Cap)
  BY <1>1, <1>2, TotalMonotone
<1>5. QED
  BY <1>1, <1>3, <1>4, TotalType

LEMMA RowQuantities ==
  ASSUME DealAssumption, NEW row \in DealRow, row.dispatched <= row.qty, NEW l
  PROVE  /\ RowClaim(row, l) \in 0..MaxQty /\ RowClaimAnyLot(row) \in 0..MaxQty
         /\ RowOwed(row, l) \in 0..MaxQty /\ RowOwedAnyLot(row) \in 0..MaxQty
         /\ RowShips(row, l) \in 0..MaxQty
         /\ RowOwed(row, l) <= row.qty /\ RowOwedAnyLot(row) <= row.qty
         /\ RowShips(row, l) <= row.qty
         /\ RowOwed(row, l) <= RowClaim(row, l)
         /\ RowOwedAnyLot(row) <= RowClaimAnyLot(row)
<1>1. row.qty \in 0..MaxQty /\ row.dispatched \in 0..MaxQty /\ MaxQty \in Nat
  BY DEF DealRow, DealAssumption
<1>2. /\ CommercialQty(row) \in 0..MaxQty
      /\ Unshipped(row) \in 0..MaxQty /\ Unshipped(row) <= row.qty
  <2>1. \/ CommercialQty(row) = row.qty
        \/ CommercialQty(row) = row.dispatched
        \/ CommercialQty(row) = 0
        \/ row.dispatched < row.qty /\ CommercialQty(row) = row.qty - row.dispatched
    BY DEF CommercialQty
  <2>2. QED
    BY <1>1, <2>1 DEF Unshipped
<1>3. row.status \in Committed =>
        row.status \in Reserving /\ Unshipped(row) <= CommercialQty(row)
  <2> SUFFICES ASSUME row.status \in Committed
               PROVE  row.status \in Reserving /\ Unshipped(row) <= CommercialQty(row)
    OBVIOUS
  <2>1. CASE row.status = "Partially Dispatched"
    <3>1. CommercialQty(row) =
            IF row.dispatched < row.qty THEN row.qty - row.dispatched ELSE 0
      BY <2>1 DEF CommercialQty
    <3>2. Unshipped(row) <= CommercialQty(row)
      BY <1>1, <3>1 DEF Unshipped
    <3>3. QED
      BY <2>1, <3>2 DEF Reserving
  <2>2. CASE row.status # "Partially Dispatched"
    <3>1. row.status \in Reserving /\ CommercialQty(row) = row.qty
      BY <2>2 DEF Committed, Reserving, CommercialQty
    <3>2. QED
      BY <1>1, <3>1 DEF Unshipped
  <2>3. QED
    BY <2>1, <2>2
<1>4. /\ RowClaim(row, l) \in 0..MaxQty /\ RowClaimAnyLot(row) \in 0..MaxQty
      /\ RowOwed(row, l) \in 0..MaxQty /\ RowOwedAnyLot(row) \in 0..MaxQty
      /\ RowShips(row, l) \in 0..MaxQty
  BY <1>1, <1>2 DEF RowClaim, RowClaimAnyLot, RowOwed, RowOwedAnyLot, RowShips
<1>5. /\ RowOwed(row, l) <= row.qty /\ RowOwedAnyLot(row) <= row.qty
      /\ RowShips(row, l) <= row.qty
  BY <1>1, <1>2 DEF RowOwed, RowOwedAnyLot, RowShips
<1>6. /\ RowOwed(row, l) <= RowClaim(row, l)
      /\ RowOwedAnyLot(row) <= RowClaimAnyLot(row)
  <2>1. CASE row.status \in Committed
    BY <1>1, <1>3, <2>1 DEF RowOwed, RowOwedAnyLot, RowClaim, RowClaimAnyLot
  <2>2. CASE row.status \notin Committed
    <3>1. RowOwed(row, l) = 0 /\ RowOwedAnyLot(row) = 0
      BY <2>2 DEF RowOwed, RowOwedAnyLot
    <3>2. QED
      BY <1>1, <1>4, <3>1
  <2>3. QED
    BY <2>1, <2>2
<1>7. QED
  BY <1>4, <1>5, <1>6

LEMMA BookTyped ==
  ASSUME DealAssumption, TypeOK, NEW l \in Lots
  PROVE  /\ Claim(l) \in [Deals -> 0..MaxQty] /\ ClaimAnyLot \in [Deals -> 0..MaxQty]
         /\ OwedOn(l) \in [Deals -> 0..MaxQty] /\ OwedAnyLot \in [Deals -> 0..MaxQty]
         /\ DispatchedOn(l) \in [Deals -> 0..MaxQty]
         /\ \A d \in Deals : /\ Claim(l)[d] = RowClaim(deal[d], l)
                             /\ ClaimAnyLot[d] = RowClaimAnyLot(deal[d])
                             /\ OwedOn(l)[d] = RowOwed(deal[d], l)
                             /\ OwedAnyLot[d] = RowOwedAnyLot(deal[d])
                             /\ DispatchedOn(l)[d] = RowShips(deal[d], l)
         /\ inward[l] \in Nat /\ IsFiniteSet(Deals) /\ MaxQty \in Nat
<1>1. \A d \in Deals : /\ deal[d] \in DealRow
                       /\ deal[d].dispatched <= deal[d].qty
  BY DealRowTyped
<1>2. /\ Claim(l) = [d \in Deals |-> RowClaim(deal[d], l)]
      /\ ClaimAnyLot = [d \in Deals |-> RowClaimAnyLot(deal[d])]
      /\ OwedOn(l) = [d \in Deals |-> RowOwed(deal[d], l)]
      /\ OwedAnyLot = [d \in Deals |-> RowOwedAnyLot(deal[d])]
      /\ DispatchedOn(l) = [d \in Deals |-> RowShips(deal[d], l)]
  BY DEF Claim, ClaimAnyLot, OwedOn, OwedAnyLot, DispatchedOn,
         RowClaim, RowClaimAnyLot, RowOwed, RowOwedAnyLot, RowShips
<1>3. \A d \in Deals :
        /\ RowClaim(deal[d], l) \in 0..MaxQty /\ RowClaimAnyLot(deal[d]) \in 0..MaxQty
        /\ RowOwed(deal[d], l) \in 0..MaxQty /\ RowOwedAnyLot(deal[d]) \in 0..MaxQty
        /\ RowShips(deal[d], l) \in 0..MaxQty
  BY <1>1, RowQuantities
<1>4. inward[l] \in Nat /\ IsFiniteSet(Deals) /\ MaxQty \in Nat
  BY DEF DealAssumption, TypeOK
<1>5. QED
  BY <1>2, <1>3, <1>4

\* What deals owe is bounded by what they claim.
LEMMA OthersOwe ==
  ASSUME DealAssumption, TypeOK, NEW l \in Lots, NEW D \in SUBSET Deals
  PROVE  /\ OwedBy(D, l) \in Nat /\ Reserved(D, l) \in Nat
         /\ OwedBy(D, l) <= Reserved(D, l)
         /\ OwedByAnyLot(D) \in Nat /\ ReservedAnyLot(D) \in Nat
         /\ OwedByAnyLot(D) <= ReservedAnyLot(D)
<1>1. \A d \in D : /\ OwedOn(l)[d] <= Claim(l)[d]
                   /\ OwedAnyLot[d] <= ClaimAnyLot[d]
  <2> TAKE d \in D
  <2>1. deal[d] \in DealRow /\ deal[d].dispatched <= deal[d].qty
    BY DealRowTyped
  <2>2. QED
    BY <2>1, RowQuantities, BookTyped
<1>2. /\ Total(D, OwedOn(l), MaxQty) \in Nat /\ Total(D, Claim(l), MaxQty) \in Nat
      /\ Total(D, OwedOn(l), MaxQty) <= Total(D, Claim(l), MaxQty)
  BY <1>1, BookTyped, TotalPointwise
<1>3. /\ Total(D, OwedAnyLot, MaxQty) \in Nat /\ Total(D, ClaimAnyLot, MaxQty) \in Nat
      /\ Total(D, OwedAnyLot, MaxQty) <= Total(D, ClaimAnyLot, MaxQty)
  BY <1>1, BookTyped, TotalPointwise
<1>4. QED
  BY <1>2, <1>3 DEF OwedBy, OwedByAnyLot, Reserved, ReservedAnyLot

\* Without a part dispatch among them, deals claim all they shipped.
LEMMA OthersShip ==
  ASSUME DealAssumption, IInv, NEW l \in Lots, NEW D \in SUBSET Deals,
         ~PartlyShipped(l)
  PROVE  /\ ShippedBy(D, l) \in Nat /\ Reserved(D, l) \in Nat
         /\ ShippedBy(D, l) <= Reserved(D, l)
<1>0. TypeOK
  BY DEF IInv
<1>1. \A d \in D : DispatchedOn(l)[d] <= Claim(l)[d]
  <2> TAKE d \in D
  <2>1. /\ deal[d] \in DealRow /\ deal[d].dispatched <= deal[d].qty
        /\ deal[d].qty \in Nat /\ deal[d].dispatched \in Nat
    BY <1>0, DealRowTyped
  <2>2. RowShips(deal[d], l) <= RowClaim(deal[d], l)
    <3>1. CASE deal[d].lot # l \/ deal[d].dispatched = 0
      <4>1. RowShips(deal[d], l) = 0 /\ RowClaim(deal[d], l) \in 0..MaxQty
        BY <2>1, <3>1, RowQuantities DEF RowShips
      <4>2. QED
        BY <4>1 DEF DealAssumption
    <3>2. CASE deal[d].lot = l /\ deal[d].dispatched # 0
      <4>1. deal[d].status \in {"Dispatched", "Cancelled"}
        BY <3>2 DEF IInv, ShippedStatus, Shipping, PartlyShipped
      <4>2. deal[d].status \in Reserving
        BY <4>1 DEF Reserving
      <4>3. \/ CommercialQty(deal[d]) = deal[d].qty
            \/ CommercialQty(deal[d]) = deal[d].dispatched
        BY <4>1 DEF CommercialQty
      <4>4. QED
        BY <2>1, <3>2, <4>2, <4>3 DEF RowShips, RowClaim
    <3>3. QED
      BY <3>1, <3>2
  <2>3. QED
    BY <1>0, <2>2, BookTyped
<1>2. QED
  BY <1>0, <1>1, BookTyped, TotalPointwise DEF ShippedBy, Reserved

-----------------------------------------------------------------------------
(* Why a StockStep keeps the stock.                                        *)

\* A sum of which one member is replaced: the others and the new one.
LEMMA TotalReplaced ==
  ASSUME NEW S, IsFiniteSet(S), NEW Cap \in Nat, NEW s \in S,
         NEW f \in [S -> 0..Cap], NEW g \in [S -> 0..Cap],
         \A t \in S \ {s} : f[t] = g[t]
  PROVE  /\ Total(S \ {s}, f, Cap) \in Nat
         /\ Total(S, f, Cap) = Total(S \ {s}, f, Cap) + f[s]
         /\ Total(S, g, Cap) = Total(S \ {s}, f, Cap) + g[s]
<1>1. Total(S, f, Cap) = Total(S \ {s}, f, Cap) + f[s]
  BY TotalSplit
<1>2. Total(S, g, Cap) = Total(S \ {s}, g, Cap) + g[s]
  BY TotalSplit
<1>3. Total(S \ {s}, f, Cap) = Total(S \ {s}, g, Cap)
  BY TotalSame
<1>4. Total(S \ {s}, f, Cap) \in Nat
  BY FS_Difference, TotalType
<1>5. QED
  BY <1>1, <1>2, <1>3, <1>4

\* The sums after one row was saved: what the others hold, and the new row.
LEMMA SumsReplaced ==
  ASSUME DealAssumption, TypeOK, TypeOK', NEW d \in Deals, NEW row \in DealRow,
         deal' = [deal EXCEPT ![d] = row], row.dispatched <= row.qty,
         NEW l \in Lots
  PROVE  /\ OwedBy(Deals \ {d}, l) \in Nat
         /\ Owed(l) = OwedBy(Deals \ {d}, l) + RowOwed(deal[d], l)
         /\ OwedIn([deal EXCEPT ![d] = row], l)
              = OwedBy(Deals \ {d}, l) + RowOwed(row, l)
         /\ OwedByAnyLot(Deals \ {d}) \in Nat
         /\ Total(Deals, OwedAnyLot, MaxQty)'
              = OwedByAnyLot(Deals \ {d}) + RowOwedAnyLot(row)
         /\ ShippedBy(Deals \ {d}, l) \in Nat
         /\ Shipped(l) = ShippedBy(Deals \ {d}, l) + RowShips(deal[d], l)
         /\ ShippedIn([deal EXCEPT ![d] = row], l)
              = ShippedBy(Deals \ {d}, l) + RowShips(row, l)
<1>1. \A e \in Deals : deal'[e] = IF e = d THEN row ELSE deal[e]
  BY DEF TypeOK
<1>2. /\ OwedOn(l)' = [e \in Deals |-> RowOwed(deal'[e], l)]
      /\ OwedAnyLot' = [e \in Deals |-> RowOwedAnyLot(deal'[e])]
      /\ DispatchedOn(l)' = [e \in Deals |-> RowShips(deal'[e], l)]
  BY DEF OwedOn, OwedAnyLot, DispatchedOn, RowOwed, RowOwedAnyLot, RowShips
<1>3. \A e \in Deals : deal'[e] \in DealRow /\ deal'[e].dispatched <= deal'[e].qty
  BY DEF TypeOK
<1>4. \A e \in Deals : /\ RowOwed(deal'[e], l) \in 0..MaxQty
                       /\ RowOwedAnyLot(deal'[e]) \in 0..MaxQty
                       /\ RowShips(deal'[e], l) \in 0..MaxQty
  BY <1>3, RowQuantities
<1>5. \A e \in Deals : /\ OwedOn(l)[e] = RowOwed(deal[e], l)
                       /\ OwedAnyLot[e] = RowOwedAnyLot(deal[e])
                       /\ DispatchedOn(l)[e] = RowShips(deal[e], l)
  BY BookTyped
<1>6. /\ OwedOn(l)' \in [Deals -> 0..MaxQty]
      /\ OwedAnyLot' \in [Deals -> 0..MaxQty]
      /\ DispatchedOn(l)' \in [Deals -> 0..MaxQty]
      /\ \A e \in Deals \ {d} : /\ OwedOn(l)[e] = OwedOn(l)'[e]
                                /\ OwedAnyLot[e] = OwedAnyLot'[e]
                                /\ DispatchedOn(l)[e] = DispatchedOn(l)'[e]
      /\ OwedOn(l)'[d] = RowOwed(row, l)
      /\ OwedAnyLot'[d] = RowOwedAnyLot(row)
      /\ DispatchedOn(l)'[d] = RowShips(row, l)
  BY <1>1, <1>2, <1>4, <1>5
<1>7. IsFiniteSet(Deals) /\ MaxQty \in Nat
  BY BookTyped
<1>8. /\ Total(Deals \ {d}, OwedOn(l), MaxQty) \in Nat
      /\ Total(Deals, OwedOn(l), MaxQty)
           = Total(Deals \ {d}, OwedOn(l), MaxQty) + RowOwed(deal[d], l)
      /\ Total(Deals, OwedOn(l)', MaxQty)
           = Total(Deals \ {d}, OwedOn(l), MaxQty) + RowOwed(row, l)
  <2> DEFINE f == OwedOn(l)
             g == OwedOn(l)'
  <2>1. /\ f \in [Deals -> 0..MaxQty] /\ g \in [Deals -> 0..MaxQty]
        /\ \A e \in Deals \ {d} : f[e] = g[e]
        /\ f[d] = RowOwed(deal[d], l) /\ g[d] = RowOwed(row, l)
    BY <1>6, BookTyped
  <2> HIDE DEF f, g
  <2>2. /\ Total(Deals \ {d}, f, MaxQty) \in Nat
        /\ Total(Deals, f, MaxQty) = Total(Deals \ {d}, f, MaxQty) + f[d]
        /\ Total(Deals, g, MaxQty) = Total(Deals \ {d}, f, MaxQty) + g[d]
    BY <1>7, <2>1, TotalReplaced
  <2>3. QED
    BY <2>1, <2>2 DEF f, g
<1>9. /\ Total(Deals \ {d}, OwedAnyLot, MaxQty) \in Nat
      /\ Total(Deals, OwedAnyLot', MaxQty)
           = Total(Deals \ {d}, OwedAnyLot, MaxQty) + RowOwedAnyLot(row)
  <2> DEFINE f == OwedAnyLot
             g == OwedAnyLot'
  <2>1. /\ f \in [Deals -> 0..MaxQty] /\ g \in [Deals -> 0..MaxQty]
        /\ \A e \in Deals \ {d} : f[e] = g[e]
        /\ g[d] = RowOwedAnyLot(row)
    BY <1>6, BookTyped
  <2> HIDE DEF f, g
  <2>2. /\ Total(Deals \ {d}, f, MaxQty) \in Nat
        /\ Total(Deals, g, MaxQty) = Total(Deals \ {d}, f, MaxQty) + g[d]
    BY <1>7, <2>1, TotalReplaced
  <2>3. QED
    BY <2>1, <2>2 DEF f, g
<1>10. /\ Total(Deals \ {d}, DispatchedOn(l), MaxQty) \in Nat
      /\ Total(Deals, DispatchedOn(l), MaxQty)
           = Total(Deals \ {d}, DispatchedOn(l), MaxQty) + RowShips(deal[d], l)
      /\ Total(Deals, DispatchedOn(l)', MaxQty)
           = Total(Deals \ {d}, DispatchedOn(l), MaxQty) + RowShips(row, l)
  <2> DEFINE f == DispatchedOn(l)
             g == DispatchedOn(l)'
  <2>1. /\ f \in [Deals -> 0..MaxQty] /\ g \in [Deals -> 0..MaxQty]
        /\ \A e \in Deals \ {d} : f[e] = g[e]
        /\ f[d] = RowShips(deal[d], l) /\ g[d] = RowShips(row, l)
    BY <1>6, BookTyped
  <2> HIDE DEF f, g
  <2>2. /\ Total(Deals \ {d}, f, MaxQty) \in Nat
        /\ Total(Deals, f, MaxQty) = Total(Deals \ {d}, f, MaxQty) + f[d]
        /\ Total(Deals, g, MaxQty) = Total(Deals \ {d}, f, MaxQty) + g[d]
    BY <1>7, <2>1, TotalReplaced
  <2>3. QED
    BY <2>1, <2>2 DEF f, g
<1>11. /\ Owed(l) = Total(Deals, OwedOn(l), MaxQty)
       /\ OwedBy(Deals \ {d}, l) = Total(Deals \ {d}, OwedOn(l), MaxQty)
       /\ OwedByAnyLot(Deals \ {d}) = Total(Deals \ {d}, OwedAnyLot, MaxQty)
       /\ Shipped(l) = Total(Deals, DispatchedOn(l), MaxQty)
       /\ ShippedBy(Deals \ {d}, l) = Total(Deals \ {d}, DispatchedOn(l), MaxQty)
  BY DEF Owed, OwedBy, OwedByAnyLot, Shipped, ShippedBy
<1>12. /\ OwedIn(deal', l) = Total(Deals, OwedOn(l)', MaxQty)
       /\ ShippedIn(deal', l) = Total(Deals, DispatchedOn(l)', MaxQty)
  BY <1>2 DEF OwedIn, ShippedIn
<1>13. /\ OwedIn(deal', l) = OwedIn([deal EXCEPT ![d] = row], l)
       /\ ShippedIn(deal', l) = ShippedIn([deal EXCEPT ![d] = row], l)
  OBVIOUS
<1>14. QED
  BY <1>8, <1>9, <1>10, <1>11, <1>12, <1>13

LEMMA CapacityTyped ==
  ASSUME DealAssumption, TypeOK
  PROVE  Capacity \in Nat
<1>1. ContainerInward \in Nat
  BY TotalType DEF ContainerInward, DealAssumption
<1>2. QED
  BY <1>1 DEF Capacity, TypeOK

LEMMA CapacityKept ==
  ASSUME UNCHANGED <<inward, operating>>
  PROVE  Capacity' = Capacity
BY DEF Capacity, ContainerInward

LEMMA StockStepSells ==
  ASSUME DealAssumption, IInv, TypeOK', NEW d \in Deals, StockStep(d)
  PROVE  SoldStep
<1>1. PICK row \in DealRow :
        /\ deal' = [deal EXCEPT ![d] = row]
        /\ row.dispatched <= row.qty
        /\ \/ OwesNoMore(d, row)
           \/ Checked(d, row)
           \/ Resolvable /\ row.lot = deal[d].lot /\ Overridden(row.lot)
  BY DEF StockStep
<1>2. UNCHANGED <<inward, operating>> /\ TypeOK
  BY DEF StockStep, IInv
<1> SUFFICES ASSUME NEW l \in Lots
             PROVE  /\ Owed(l)' > Owed(l) =>
                         /\ Resolvable
                         /\ \/ /\ Covered(l)'
                               /\ Total(Deals, OwedAnyLot, MaxQty)' <= Capacity'
                            \/ Overridden(l)
                    /\ ~(inward'[l] < inward[l])
  BY DEF SoldStep
<1>3. inward'[l] = inward[l] /\ inward[l] \in Nat /\ MaxQty \in Nat
  BY <1>2, BookTyped
<1>4. /\ OwedBy(Deals \ {d}, l) \in Nat
      /\ Owed(l) = OwedBy(Deals \ {d}, l) + RowOwed(deal[d], l)
      /\ Owed(l)' = OwedBy(Deals \ {d}, l) + RowOwed(row, l)
  <2>1. OwedBy(Deals \ {d}, l) \in Nat
    BY <1>1, <1>2, SumsReplaced, Zenon
  <2>2. Owed(l) = OwedBy(Deals \ {d}, l) + RowOwed(deal[d], l)
    BY <1>1, <1>2, SumsReplaced, Zenon
  <2>3. OwedIn([deal EXCEPT ![d] = row], l)
          = OwedBy(Deals \ {d}, l) + RowOwed(row, l)
    BY <1>1, <1>2, SumsReplaced
  <2>4. Owed(l)' = OwedIn(deal', l)
    BY DEF Owed, OwedOn, RowOwed, OwedIn
  <2>5. QED
    BY <1>1, <2>1, <2>2, <2>3, <2>4
<1>5. /\ OwedByAnyLot(Deals \ {d}) \in Nat
      /\ Total(Deals, OwedAnyLot, MaxQty)'
           = OwedByAnyLot(Deals \ {d}) + RowOwedAnyLot(row)
  BY <1>1, <1>2, SumsReplaced
<1>6. /\ RowOwed(row, l) \in 0..MaxQty /\ RowOwed(row, l) <= row.qty
      /\ RowOwedAnyLot(row) \in 0..MaxQty /\ RowOwedAnyLot(row) <= row.qty
      /\ row.qty \in 0..MaxQty /\ row.lot \in Lots
      /\ RowOwed(deal[d], l) \in 0..MaxQty
  BY <1>1, <1>2, RowQuantities, DealRowTyped DEF DealRow
<1>7. ASSUME Owed(l)' > Owed(l)
      PROVE  /\ Resolvable
             /\ \/ /\ Covered(l)'
                   /\ Total(Deals, OwedAnyLot, MaxQty)' <= Capacity'
                \/ Overridden(l)
  <2>1. RowOwed(row, l) > RowOwed(deal[d], l)
    BY <1>3, <1>4, <1>6, <1>7
  <2>2. ~OwesNoMore(d, row)
    <3>1. ~(RowOwed(row, l) <= RowOwed(deal[d], l))
      BY <1>3, <1>6, <2>1
    <3>2. QED
      BY <3>1 DEF OwesNoMore
  <2>3. row.lot = l
    <3>1. row.lot # l => RowOwed(row, l) = 0
      BY DEF RowOwed
    <3>2. QED
      BY <1>3, <1>6, <2>1, <3>1
  <2>4. CASE Checked(d, row)
    <3>1. /\ Resolvable
          /\ row.qty + Reserved(Deals \ {d}, l) <= inward[l]
          /\ row.qty + ReservedAnyLot(Deals \ {d}) <= Capacity
      BY <2>3, <2>4 DEF Checked, Available
    <3>2. /\ Reserved(Deals \ {d}, l) \in Nat
          /\ OwedBy(Deals \ {d}, l) <= Reserved(Deals \ {d}, l)
          /\ ReservedAnyLot(Deals \ {d}) \in Nat
          /\ OwedByAnyLot(Deals \ {d}) <= ReservedAnyLot(Deals \ {d})
      BY <1>2, OthersOwe
    <3>3. Owed(l)' <= inward'[l]
      BY <1>3, <1>4, <1>6, <3>1, <3>2
    <3>4. Capacity \in Nat
      BY <1>2, CapacityTyped
    <3>5. OwedByAnyLot(Deals \ {d}) + RowOwedAnyLot(row) <= Capacity
      BY <1>3, <1>5, <1>6, <3>1, <3>2, <3>4
    <3>6. QED
      BY <1>2, <1>5, <3>1, <3>3, <3>5, CapacityKept DEF Covered
  <2>5. CASE Resolvable /\ row.lot = deal[d].lot /\ Overridden(row.lot)
    BY <2>3, <2>5
  <2>6. QED
    BY <1>1, <2>2, <2>4, <2>5
<1>8. QED
  BY <1>3, <1>7

LEMMA StockStepShips ==
  ASSUME DealAssumption, IInv, TypeOK', NEW d \in Deals, StockStep(d)
  PROVE  CeilingStep
<1>1. PICK row \in DealRow :
        /\ deal' = [deal EXCEPT ![d] = row]
        /\ row.dispatched <= row.qty
        /\ \/ ShipsNoMore(d, row)
           \/ row.lot = deal[d].lot /\ WithinPhysical(d, row.dispatched)
           \/ row.dispatched = deal[d].dispatched /\ Checked(d, row)
  BY DEF StockStep
<1>2. UNCHANGED <<inward, operating>> /\ TypeOK
  BY DEF StockStep, IInv
<1> SUFFICES ASSUME NEW l \in Lots, Shipped(l) <= inward[l],
                    ~(MovedOnto(l) /\ PartlyShipped(l))
             PROVE  Shipped(l)' <= inward[l]
  BY <1>2 DEF CeilingStep
<1>3. inward[l] \in Nat /\ MaxQty \in Nat
  BY <1>2, BookTyped
<1>4. /\ ShippedBy(Deals \ {d}, l) \in Nat
      /\ Shipped(l) = ShippedBy(Deals \ {d}, l) + RowShips(deal[d], l)
      /\ Shipped(l)' = ShippedBy(Deals \ {d}, l) + RowShips(row, l)
  <2>1. ShippedBy(Deals \ {d}, l) \in Nat
    BY <1>1, <1>2, SumsReplaced, Zenon
  <2>2. Shipped(l) = ShippedBy(Deals \ {d}, l) + RowShips(deal[d], l)
    BY <1>1, <1>2, SumsReplaced, Zenon
  <2>3. ShippedIn([deal EXCEPT ![d] = row], l)
          = ShippedBy(Deals \ {d}, l) + RowShips(row, l)
    BY <1>1, <1>2, SumsReplaced
  <2>4. Shipped(l)' = ShippedIn(deal', l)
    BY DEF Shipped, DispatchedOn, RowShips, ShippedIn
  <2>5. QED
    BY <1>1, <2>1, <2>2, <2>3, <2>4
<1>5. /\ RowShips(row, l) \in 0..MaxQty /\ RowShips(row, l) <= row.qty
      /\ RowShips(deal[d], l) \in 0..MaxQty
      /\ row.qty \in 0..MaxQty /\ row.dispatched \in 0..MaxQty
  BY <1>1, <1>2, RowQuantities, DealRowTyped DEF DealRow
<1>6. CASE RowShips(row, l) <= RowShips(deal[d], l)
  BY <1>3, <1>4, <1>5, <1>6
<1>7. CASE row.lot # l
  <2>1. RowShips(row, l) = 0
    BY <1>7 DEF RowShips
  <2>2. QED
    BY <1>3, <1>4, <1>5, <2>1
<1>8. CASE /\ row.lot = l
           /\ row.lot = deal[d].lot /\ WithinPhysical(d, row.dispatched)
  <2>1. row.dispatched + ShippedBy(Deals \ {d}, l) <= inward[l]
    BY <1>8 DEF WithinPhysical, ShippedBy
  <2>2. RowShips(row, l) = row.dispatched
    BY <1>8 DEF RowShips
  <2>3. QED
    BY <1>4, <1>5, <2>1, <2>2
<1>9. CASE /\ row.lot = l
           /\ row.dispatched = deal[d].dispatched /\ Checked(d, row)
           /\ ~(RowShips(row, l) <= RowShips(deal[d], l))
  <2>1. deal[d].lot # l /\ deal[d].dispatched > 0
    <3>1. RowShips(row, l) = deal[d].dispatched
      BY <1>9 DEF RowShips
    <3>2. deal[d].lot = l => RowShips(deal[d], l) = deal[d].dispatched
      BY DEF RowShips
    <3>3. QED
      BY <1>3, <1>5, <1>9, <3>1, <3>2
  <2>2. deal'[d].lot = l
    BY <1>1, <1>2, <1>9 DEF TypeOK
  <2>3. ~PartlyShipped(l)
    BY <2>1, <2>2 DEF MovedOnto
  <2>4. /\ ShippedBy(Deals \ {d}, l) <= Reserved(Deals \ {d}, l)
        /\ Reserved(Deals \ {d}, l) \in Nat
    BY <2>3, OthersShip
  <2>5. row.qty + Reserved(Deals \ {d}, l) <= inward[l]
    BY <1>9 DEF Checked, Available
  <2>6. QED
    BY <1>3, <1>4, <1>5, <2>4, <2>5
<1>10. QED
  BY <1>1, <1>6, <1>7, <1>8, <1>9 DEF ShipsNoMore

-----------------------------------------------------------------------------
(* Every operation on a deal is a StockStep.                               *)

LEMMA SavedRow ==
  ASSUME TypeOK, TypeOK', NEW d \in Deals, NEW row,
         deal' = [deal EXCEPT ![d] = row]
  PROVE  row \in DealRow /\ row.dispatched <= row.qty /\ deal'[d] = row
<1>1. deal'[d] = row
  BY DEF TypeOK
<1>2. QED
  BY <1>1 DEF TypeOK

\* A deal that shipped nothing and owes nothing after the step.
LEMMA UnsoldStep ==
  ASSUME DealAssumption, IInv, TypeOK', NEW d \in Deals, NEW row,
         deal' = [deal EXCEPT ![d] = row],
         row.status \notin Committed, row.dispatched = 0,
         UNCHANGED <<inward, operating>>
  PROVE  StockStep(d)
<1>1. row \in DealRow /\ row.dispatched <= row.qty /\ TypeOK
  BY SavedRow DEF IInv
<1>2. \A l \in Lots : /\ RowOwed(row, l) = 0 /\ RowShips(row, l) = 0
                      /\ RowOwed(deal[d], l) \in 0..MaxQty
                      /\ RowShips(deal[d], l) \in 0..MaxQty
  BY <1>1, RowQuantities, DealRowTyped DEF RowOwed, RowShips
<1>3. OwesNoMore(d, row) /\ ShipsNoMore(d, row)
  BY <1>2 DEF OwesNoMore, ShipsNoMore, DealAssumption
<1>4. QED
  BY <1>1, <1>3 DEF StockStep

\* A row that keeps its lot and what it shipped ships no more.
LEMMA SameShips ==
  ASSUME DealAssumption, TypeOK, NEW d \in Deals, NEW row,
         row.lot = deal[d].lot, row.dispatched = deal[d].dispatched
  PROVE  ShipsNoMore(d, row)
<1>1. deal[d].dispatched \in Nat
  BY DealRowTyped
<1>2. \A l \in Lots : /\ RowShips(row, l) = RowShips(deal[d], l)
                      /\ RowShips(deal[d], l) \in Nat
  BY <1>1 DEF RowShips
<1>3. QED
  BY <1>2 DEF ShipsNoMore

\* A deal sold from checked stock, or against an override on record.
LEMMA SoldDeal ==
  ASSUME DealAssumption, IInv, TypeOK', NEW d \in Deals, NEW row,
         deal' = [deal EXCEPT ![d] = row],
         row.lot = deal[d].lot, row.dispatched = deal[d].dispatched,
         Resolvable,
         Available(d, row.lot, row.qty) \/ Overridden(row.lot),
         UNCHANGED <<inward, operating>>
  PROVE  StockStep(d)
<1>1. row \in DealRow /\ row.dispatched <= row.qty /\ TypeOK
  BY SavedRow DEF IInv
<1>2. ShipsNoMore(d, row)
  BY <1>1, SameShips
<1>3. QED
  BY <1>1, <1>2 DEF StockStep, Checked

\* A deal that keeps its lot, its quantity and what it shipped, and is not
\* committed by the step.
LEMMA KeptStep ==
  ASSUME DealAssumption, IInv, TypeOK', NEW d \in Deals, NEW row,
         deal' = [deal EXCEPT ![d] = row],
         row.lot = deal[d].lot, row.qty = deal[d].qty,
         row.dispatched = deal[d].dispatched,
         row.status \in Committed => deal[d].status \in Committed,
         UNCHANGED <<inward, operating>>
  PROVE  StockStep(d)
<1>1. row \in DealRow /\ row.dispatched <= row.qty /\ TypeOK
  BY SavedRow DEF IInv
<1>2. /\ deal[d] \in DealRow /\ deal[d].dispatched <= deal[d].qty
      /\ deal[d].qty \in Nat /\ deal[d].dispatched \in Nat
  BY <1>1, DealRowTyped
<1>3. \A l \in Lots : RowOwed(row, l) <= RowOwed(deal[d], l)
  <2> TAKE l \in Lots
  <2>1. RowOwed(deal[d], l) \in 0..MaxQty /\ RowOwed(row, l) \in 0..MaxQty
    BY <1>1, <1>2, RowQuantities
  <2>2. \/ RowOwed(row, l) = RowOwed(deal[d], l)
        \/ RowOwed(row, l) = 0
    BY DEF RowOwed, Unshipped
  <2>3. QED
    BY <2>1, <2>2 DEF DealAssumption
<1>4. OwesNoMore(d, row) /\ ShipsNoMore(d, row)
  BY <1>1, <1>3, SameShips DEF OwesNoMore
<1>5. QED
  BY <1>1, <1>4 DEF StockStep

LEMMA EntryStock ==
  ASSUME DealAssumption, IInv, TypeOK', NEW d \in Deals,
         NEW l, NEW q, NEW p, NEW c,
         Create(d, l, q, p, c) \/ EditProposed(d, l, q, p, c)
  PROVE  StockStep(d)
<1> DEFINE base == [deal[d] EXCEPT !.lot = l, !.qty = q, !.proposed_rate = p, !.customer = c]
           row == IF Create(d, l, q, p, c) THEN [base EXCEPT !.status = "Proposed"] ELSE base
<1>1. deal[d] \in DealRow
  BY DealRowTyped DEF IInv
<1>2. deal[d].status \notin Shipping /\ (~Create(d, l, q, p, c) => deal[d].status = "Proposed")
  BY DEF Create, EditProposed, Shipping
<1>3. deal[d].dispatched = 0
  BY <1>2, NothingShipped DEF IInv
<1>4. deal' = [deal EXCEPT ![d] = row] /\ UNCHANGED <<inward, operating>>
  BY <1>1 DEF Create, EditProposed, Save, DealRow
<1>5. row.status \notin Committed /\ row.dispatched = 0
  BY <1>1, <1>2, <1>3 DEF DealRow, Committed
<1> HIDE DEF row
<1>6. QED
  BY <1>4, <1>5, UnsoldStep

\* Operations that leave the deal unsold.
LEMMA RefusingStock ==
  ASSUME DealAssumption, IInv, TypeOK', NEW d \in Deals, NEW rate,
         \/ RateRulesUnresolved(d) \/ RateRulesRefer(d)
         \/ Counter(d, rate) \/ Reject(d)
  PROVE  StockStep(d)
<1>1. deal[d] \in DealRow
  BY DealRowTyped DEF IInv
<1>2. deal[d].status \notin Shipping
  BY DEF RateRulesUnresolved, RateRulesRefer, Counter, Reject, Shipping
<1>3. deal[d].dispatched = 0
  BY <1>2, NothingShipped DEF IInv
<1>4. UNCHANGED <<inward, operating>>
  BY DEF RateRulesUnresolved, RateRulesRefer, Counter, Reject
<1>5. \E row : /\ deal' = [deal EXCEPT ![d] = row]
               /\ row.status \notin Committed /\ row.dispatched = deal[d].dispatched
  <2>1. CASE RateRulesUnresolved(d)
    <3> DEFINE row == [deal[d] EXCEPT !.status = "Approval Required",
                                      !.approved_rate = NoRate, !.banded = FALSE]
    <3>1. row.status \notin Committed /\ row.dispatched = deal[d].dispatched
      BY <1>1 DEF DealRow, Committed
    <3>2. deal' = [deal EXCEPT ![d] = row]
      BY <2>1 DEF RateRulesUnresolved, Save
    <3>3. QED
      BY <3>1, <3>2
  <2>2. CASE RateRulesRefer(d)
    <3> DEFINE row == [deal[d] EXCEPT !.status = "Approval Required",
                                      !.banded = TRUE, !.approved_rate = NoRate]
    <3>1. row.status \notin Committed /\ row.dispatched = deal[d].dispatched
      BY <1>1 DEF DealRow, Committed
    <3>2. deal' = [deal EXCEPT ![d] = row]
      BY <2>2 DEF RateRulesRefer, Save
    <3>3. QED
      BY <3>1, <3>2
  <2>3. CASE Counter(d, rate)
    <3> DEFINE row == [deal[d] EXCEPT
                 !.status = "Countered", !.approved_rate = NoRate,
                 !.decision = "COUNTER", !.decision_rate = rate,
                 !.breach_linked = BreachOpen(d)]
    <3>1. row.status \notin Committed /\ row.dispatched = deal[d].dispatched
      BY <1>1 DEF DealRow, Committed
    <3>2. deal' = [deal EXCEPT ![d] = row]
      BY <2>3 DEF Counter, Save
    <3>3. QED
      BY <3>1, <3>2
  <2>4. CASE Reject(d)
    <3> DEFINE row == [deal[d] EXCEPT !.status = "Rejected", !.decision = "REJECT",
                                      !.breach_linked = BreachOpen(d)]
    <3>1. row.status \notin Committed /\ row.dispatched = deal[d].dispatched
      BY <1>1 DEF DealRow, Committed
    <3>2. deal' = [deal EXCEPT ![d] = row]
      BY <2>4 DEF Reject, Save
    <3>3. QED
      BY <3>1, <3>2
  <2>5. QED
    BY <2>1, <2>2, <2>3, <2>4
<1>6. QED
  BY <1>3, <1>4, <1>5, UnsoldStep

\* Operations that sell the deal: from stock, or against an override.
LEMMA SellingStock ==
  ASSUME DealAssumption, IInv, TypeOK', NEW d \in Deals,
         NEW rate, NEW decision,
         \/ RateRulesApprove(d) \/ AcceptCounter(d)
         \/ Approve(d, rate, decision)
  PROVE  StockStep(d)
<1>1. /\ deal[d] \in DealRow /\ exc \in ExcMap
      /\ exc[d] \in [ExcTypes -> ExcStatuses]
  BY DealRowTyped DEF IInv, TypeOK, ExcMap
<1>2. UNCHANGED <<inward, operating>> /\ Resolvable
  BY DEF RateRulesApprove, AcceptCounter, Approve
<1>3. ASSUME NEW row,
             row.lot = deal[d].lot, row.qty = deal[d].qty,
             row.dispatched = deal[d].dispatched, Save(d, row),
             Available(d, deal[d].lot, deal[d].qty) \/ Overridden(deal[d].lot)
      PROVE  StockStep(d)
  <2>1. deal' = [deal EXCEPT ![d] = row]
    BY <1>3 DEF Save
  <2>2. QED
    BY <1>2, <1>3, <2>1, SoldDeal
<1>4. CASE RateRulesApprove(d)
  <2> DEFINE row == [deal[d] EXCEPT !.status = "Auto Approved", !.banded = TRUE,
                                    !.approved_rate = deal[d].proposed_rate]
  <2>1. /\ row.lot = deal[d].lot
        /\ row.qty = deal[d].qty /\ row.dispatched = deal[d].dispatched
    BY <1>1 DEF DealRow
  <2>2. Save(d, row) /\ Available(d, deal[d].lot, deal[d].qty)
    BY <1>4 DEF RateRulesApprove
  <2> HIDE DEF row
  <2>3. QED
    BY <1>3, <2>1, <2>2
<1>5. CASE AcceptCounter(d)
  <2> DEFINE row == [deal[d] EXCEPT !.status = "Approved",
                                    !.approved_rate = CounterRate(d)]
  <2>1. /\ row.lot = deal[d].lot
        /\ row.qty = deal[d].qty /\ row.dispatched = deal[d].dispatched
    BY <1>1 DEF DealRow
  <2>2. Save(d, row) /\ Available(d, deal[d].lot, deal[d].qty)
    BY <1>5 DEF AcceptCounter
  <2> HIDE DEF row
  <2>3. QED
    BY <1>3, <2>1, <2>2
<1>6. CASE Approve(d, rate, decision)
  <2> DEFINE short == ~Available(d, deal[d].lot, deal[d].qty)
             row == [deal[d] EXCEPT
                       !.status = "Approved", !.approved_rate = rate,
                       !.decision = decision, !.decision_rate = rate,
                       !.breach_linked = BreachOpen(d) /\ ~short]
  <2>1. /\ row.status = "Approved" /\ row.lot = deal[d].lot
        /\ row.qty = deal[d].qty /\ row.dispatched = deal[d].dispatched
        /\ row.decision = decision
    BY <1>1 DEF DealRow
  <2>2. Save(d, row)
    BY <1>6 DEF Approve
  <2>3. short => Overridden(deal[d].lot)
    <3> SUFFICES ASSUME short
                 PROVE  Overridden(deal[d].lot)
      OBVIOUS
    <3> DEFINE o == Opened(exc[d], "OVERSELL_OVERRIDE")
               b == BuyerFlagged(o, deal[d])
               e == BreachMoved(b, FALSE, Settlement(deal[d], rate))
    <3>1. o \in [ExcTypes -> ExcStatuses] /\ o["OVERSELL_OVERRIDE"] = "Open"
      BY <1>1 DEF Opened, ExcTypes, ExcStatuses, OpenStatuses
    <3>2. exc' = [exc EXCEPT ![d] = e]
      BY <1>6 DEF Approve
    <3> HIDE DEF o
    <3>3. b \in [ExcTypes -> ExcStatuses] /\ b["OVERSELL_OVERRIDE"] = "Open"
      BY <3>1 DEF BuyerFlagged, Opened, ExcTypes, ExcStatuses, OpenStatuses
    <3> HIDE DEF b
    <3>4. e["OVERSELL_OVERRIDE"] = "Open"
      BY <3>3 DEF BreachMoved, ExcTypes
    <3> HIDE DEF e
    <3>5. exc'[d]["OVERSELL_OVERRIDE"] = "Open"
      BY <1>1, <3>2, <3>4 DEF ExcMap
    <3>6. deal[d].status = "Approval Required" /\ decision = "OVERSELL_OVERRIDE"
      BY <1>6 DEF Approve
    <3>7. deal'[d] = row
      BY <2>2 DEF Save, IInv, TypeOK
    <3> HIDE DEF row, short
    <3>8. QED
      BY <2>1, <3>5, <3>6, <3>7 DEF Overridden
  <2> HIDE DEF row
  <2>4. QED
    BY <1>3, <2>1, <2>2, <2>3
<1>7. QED
  BY <1>4, <1>5, <1>6

LEMMA ReleaseStock ==
  ASSUME DealAssumption, IInv, TypeOK', NEW d \in Deals, AdvanceToOutwardPending(d)
  PROVE  StockStep(d)
<1> DEFINE row == [deal[d] EXCEPT !.status = "Outward Pending"]
<1>1. deal[d] \in DealRow
  BY DealRowTyped DEF IInv
<1>2. /\ row.lot = deal[d].lot
      /\ row.qty = deal[d].qty /\ row.dispatched = deal[d].dispatched
  BY <1>1 DEF DealRow
<1>3. /\ deal' = [deal EXCEPT ![d] = row] /\ UNCHANGED <<inward, operating>>
      /\ deal[d].status \in Committed
  BY DEF AdvanceToOutwardPending, Save, Committed
<1> HIDE DEF row
<1>4. QED
  BY <1>2, <1>3, KeptStep

\* A dispatch ships what was owed, within the ceiling of the lot.
LEMMA DispatchStock ==
  ASSUME DealAssumption, IInv, TypeOK',
         NEW d \in Deals, NEW q \in 1..MaxQty, RecordDispatch(d, q)
  PROVE  StockStep(d)
<1> DEFINE st == IF q < deal[d].qty THEN "Partially Dispatched" ELSE "Dispatched"
           row == [deal[d] EXCEPT !.dispatched = q, !.status = st]
<1>1. /\ deal[d] \in DealRow /\ deal[d].qty \in Nat /\ q \in Nat /\ TypeOK
      /\ deal[d].dispatched <= deal[d].qty /\ deal[d].dispatched \in Nat
  BY DealRowTyped DEF IInv, DealAssumption
<1>2. /\ row.lot = deal[d].lot /\ row.qty = deal[d].qty /\ row.dispatched = q
  BY <1>1 DEF DealRow
<1>3. /\ deal' = [deal EXCEPT ![d] = row] /\ UNCHANGED <<inward, operating>>
      /\ deal[d].status \in Committed /\ deal[d].dispatched < q
      /\ WithinPhysical(d, q)
  BY DEF RecordDispatch, Save, Committed
<1> HIDE DEF row
<1>4. row \in DealRow /\ row.dispatched <= row.qty
  BY <1>1, <1>3, SavedRow
<1>5. OwesNoMore(d, row)
  <2> SUFFICES ASSUME NEW l \in Lots
               PROVE  RowOwed(row, l) <= RowOwed(deal[d], l)
    BY DEF OwesNoMore
  <2>1. RowOwed(row, l) \in 0..MaxQty /\ RowOwed(deal[d], l) \in 0..MaxQty
    BY <1>1, <1>4, RowQuantities
  <2>2. CASE deal[d].lot = l
    <3>1. RowOwed(deal[d], l) = deal[d].qty - deal[d].dispatched
      BY <1>3, <2>2 DEF RowOwed, Unshipped
    <3>2. RowOwed(row, l) = deal[d].qty - q \/ RowOwed(row, l) = 0
      BY <1>2 DEF RowOwed, Unshipped
    <3>3. QED
      BY <1>1, <1>3, <2>1, <3>1, <3>2 DEF DealAssumption
  <2>3. CASE deal[d].lot # l
    <3>1. RowOwed(row, l) = 0
      BY <1>2, <2>3 DEF RowOwed
    <3>2. QED
      BY <2>1, <3>1 DEF DealAssumption
  <2>4. QED
    BY <2>2, <2>3
<1>6. QED
  BY <1>2, <1>3, <1>4, <1>5 DEF StockStep

LEMMA CancelStock ==
  ASSUME DealAssumption, IInv, TypeOK', NEW w \in Workers, CommitCancel(w)
  PROVE  \E d \in Deals : StockStep(d)
<1> DEFINE d == txn[w].deal
           row == [txn[w].seen EXCEPT !.status = "Cancelled"]
<1>1. /\ txn[w] # None /\ txn[w].op = "cancel" /\ ~txn[w].stale
      /\ deal' = [deal EXCEPT ![d] = row] /\ UNCHANGED <<inward, operating>>
  BY DEF CommitCancel, Unmodified, SaveAndClose
<1>2. d \in Deals /\ txn[w].seen = deal[d]
  BY <1>1 DEF IInv, FreshRow
<1>3. deal[d] \in DealRow
  BY <1>2, DealRowTyped DEF IInv
<1>4. /\ row.status \notin Committed /\ row.lot = deal[d].lot
      /\ row.qty = deal[d].qty /\ row.dispatched = deal[d].dispatched
  BY <1>2, <1>3 DEF DealRow, Committed
<1> HIDE DEF d, row
<1>5. QED
  BY <1>1, <1>2, <1>4, KeptStep

\* A revision of quantity or lot is checked against the stock of the lot it
\* leaves the deal on; other revisions leave the stock alone.
LEMMA ApplyStock ==
  ASSUME DealAssumption, IInv, TypeOK', NEW w \in Workers, CommitApply(w)
  PROVE  \E d \in Deals : StockStep(d)
<1> DEFINE d == txn[w].deal
           r == txn[w].rev
           f == rev[r].field
           row == Revised(deal[d], f, rev[r].new)
<1>1. /\ d \in Deals /\ f \in EligibleFields
      /\ row \in DealRow /\ row.status = deal[d].status
      /\ row.dispatched = deal[d].dispatched /\ row.dispatched <= row.qty
      /\ f \in RestockFields => Available(d, row.lot, row.qty)
      /\ deal' = [deal EXCEPT ![d] = row]
  <2>1. Applying(w, d, r, f, row)
    BY DEF Applying
  <2> HIDE DEF d, r, f, row
  <2>2. QED
    BY <2>1, CommitApplyFacts
<1>2. deal[d] \in DealRow
  BY <1>1, DealRowTyped DEF IInv
<1>3. f \notin RestockFields =>
        row.lot = deal[d].lot /\ row.qty = deal[d].qty
  BY <1>1, <1>2 DEF RestockFields, EligibleFields, MaterialFields, Revised, DealRow
<1>4. /\ UNCHANGED <<inward, operating>>
      /\ f \in RestockFields => Resolvable
  BY DEF CommitApply
<1> HIDE DEF d, r, f, row
<1>5. CASE f \in RestockFields
  BY <1>1, <1>4, <1>5 DEF StockStep, Checked
<1>6. CASE f \notin RestockFields
  BY <1>1, <1>3, <1>4, <1>6, KeptStep
<1>7. QED
  BY <1>5, <1>6

-----------------------------------------------------------------------------
(* Inward edits, and steps that leave the stock alone.                     *)

\* An inward edit that reads behind its lock covers what is owed, and what was
\* shipped unless a deal is partly dispatched.
LEMMA EditStock ==
  ASSUME DealAssumption, IInv, TypeOK', NEW x \in Lots, NEW q \in InwardQuantities,
         EditInward(x, q)
  PROVE  SoldStep /\ CeilingStep
<1>1. TypeOK /\ UNCHANGED deal
  BY DEF EditInward, IInv
<1>2. \A l \in Lots : Owed(l)' = Owed(l) /\ Shipped(l)' = Shipped(l)
  BY <1>1 DEF Owed, OwedOn, Shipped, DispatchedOn
<1>3. \A l \in Lots :
        /\ inward[l] \in Int /\ inward'[l] \in Int
        /\ Owed(l) \in Nat /\ Sold(l) \in Nat /\ Owed(l) <= Sold(l)
        /\ Shipped(l) \in Nat
        /\ ~PartlyShipped(l) => Shipped(l) <= Sold(l)
  <2> TAKE l \in Lots
  <2>1. inward[l] \in 0..MaxQty /\ inward'[l] \in 0..MaxQty /\ MaxQty \in Nat
    BY <1>1 DEF TypeOK, DealAssumption
  <2>2. OwedBy(Deals, l) \in Nat /\ Reserved(Deals, l) \in Nat
        /\ OwedBy(Deals, l) <= Reserved(Deals, l)
    BY <1>1, OthersOwe
  <2>3. Shipped(l) \in Nat
    BY TotalType DEF Shipped, DealAssumption
  <2>4. ~PartlyShipped(l) => ShippedBy(Deals, l) <= Reserved(Deals, l)
    BY OthersShip
  <2>5. QED
    BY <2>1, <2>2, <2>3, <2>4 DEF Owed, OwedBy, Sold, Shipped, ShippedBy
<1>4. edit = None => \A l \in Lots : Sold(l) <= inward'[l]
  BY DEF EditInward, CoversSold
<1>5. SoldStep
  <2> SUFFICES ASSUME NEW l \in Lots
               PROVE  /\ ~(Owed(l)' > Owed(l))
                      /\ Covered(l)' \/ edit # None
    BY DEF SoldStep
  <2>1. edit = None => Owed(l)' <= inward'[l]
    BY <1>2, <1>3, <1>4
  <2>2. QED
    BY <1>2, <1>3, <2>1 DEF Covered
<1>6. CeilingStep
  <2> SUFFICES ASSUME NEW l \in Lots, Shipped(l) <= inward[l]
               PROVE  \/ Shipped(l)' <= inward'[l]
                      \/ Lowered(l) /\ (PartlyShipped(l) \/ edit # None)
    BY DEF CeilingStep
  <2>1. CASE Lowered(l)
    BY <1>2, <1>3, <1>4, <2>1
  <2>2. CASE ~Lowered(l)
    BY <1>2, <1>3, <2>2 DEF Lowered
  <2>3. QED
    BY <2>1, <2>2
<1>7. QED
  BY <1>5, <1>6

\* A step that touches no deal and no lot.
LEMMA StockUntouched ==
  ASSUME DealAssumption, IInv, UNCHANGED <<deal, inward>>
  PROVE  SoldStep /\ CeilingStep
<1>1. \A l \in Lots : /\ Owed(l)' = Owed(l) /\ Shipped(l)' = Shipped(l)
                      /\ Owed(l) \in Nat /\ inward[l] \in Nat
  BY BookTyped, TotalType
     DEF Owed, OwedOn, Shipped, DispatchedOn, IInv, DealAssumption
<1>2. QED
  BY <1>1 DEF SoldStep, CeilingStep

LEMMA StepSparesStock ==
  ASSUME DealAssumption, IInv, [Next]_vars
  PROVE  SoldStep /\ CeilingStep
<1>1. TypeOK'
  BY NextKeeps DEF IInv
<1>2. ASSUME NEW d \in Deals, StockStep(d)
      PROVE  SoldStep /\ CeilingStep
  BY <1>1, <1>2, StockStepSells, StockStepShips
<1>3. ASSUME NEW d \in Deals, DealStep(d)
      PROVE  SoldStep /\ CeilingStep
  <2>1. CASE \E l \in Lots, q \in Quantities, p \in Rates, c \in Parties :
               Create(d, l, q, p, c) \/ EditProposed(d, l, q, p, c)
    BY <1>1, <1>2, <2>1, EntryStock
  <2>2. CASE RateRulesUnresolved(d) \/ RateRulesRefer(d)
    BY <1>1, <1>2, <2>2, RefusingStock
  <2>3. CASE \E p \in Rates : Counter(d, p)
    BY <1>1, <1>2, <2>3, RefusingStock
  <2>4. CASE Reject(d)
    BY <1>1, <1>2, <2>4, RefusingStock
  <2>5. CASE RateRulesApprove(d) \/ AcceptCounter(d)
    BY <1>1, <1>2, <2>5, SellingStock
  <2>6. CASE \E p, x : Approve(d, p, x)
    BY <1>1, <1>2, <2>6, SellingStock
  <2>7. CASE AdvanceToOutwardPending(d)
    BY <1>1, <1>2, <2>7, ReleaseStock
  <2>8. CASE \E q \in 1..MaxQty : RecordDispatch(d, q)
    BY <1>1, <1>2, <2>8, DispatchStock
  <2>9. CASE \E t \in DeskResolves, s \in {"Resolved", "Waived"} : DeskResolve(d, t, s)
    BY <2>9, StockUntouched DEF DeskResolve
  <2>10. CASE \E r \in Revisions, f \in RevisedFields, e \in BOOLEAN :
                \E v \in Input(f) : RequestRevision(r, d, f, v, e)
    BY <2>10, StockUntouched DEF RequestRevision
  <2>11. QED
    BY <1>3, <2>1, <2>2, <2>3, <2>4, <2>5, <2>6, <2>7, <2>8, <2>9, <2>10 DEF DealStep
<1>4. ASSUME NEW w \in Workers, RequestStep(w)
      PROVE  SoldStep /\ CeilingStep
  <2>1. CASE \/ \E d \in Deals : BeginCancel(w, d)
             \/ \E r \in Revisions : BeginMint(w, r)
             \/ \E g \in Grants : CommitMint(w, g)
             \/ \E r \in Revisions, g \in Grants \cup {None} : BeginApply(w, r, g)
             \/ Rollback(w)
    <3>1. UNCHANGED <<deal, inward>>
      BY <2>1 DEF BeginCancel, BeginMint, CommitMint, BeginApply, Begin, Rollback
    <3>2. QED
      BY <3>1, StockUntouched
  <2>2. CASE CommitCancel(w)
    BY <1>1, <1>2, <2>2, CancelStock
  <2>3. CASE CommitApply(w)
    BY <1>1, <1>2, <2>3, ApplyStock
  <2>4. QED
    BY <1>4, <2>1, <2>2, <2>3 DEF RequestStep
<1>5. CASE ContainerStep
  <2>1. CASE BeginEdit
    BY <2>1, StockUntouched DEF BeginEdit
  <2>2. CASE \E l \in Lots, q \in InwardQuantities : EditInward(l, q)
    BY <1>1, <2>2, EditStock
  <2>3. CASE \E o \in OperatingFacts : OperatingChanged(o)
    BY <2>3, StockUntouched DEF OperatingChanged
  <2>4. QED
    BY <1>5, <2>1, <2>2, <2>3 DEF ContainerStep
<1>6. CASE UNCHANGED vars
  BY <1>6, StockUntouched DEF vars
<1>7. QED
  BY <1>3, <1>4, <1>5, <1>6 DEF Next

\* A lot comes to owe more only out of checked stock, of the lot and of the
\* container, or against an override on record; and an inward edit that reads
\* behind its lock covers what is owed, part dispatches included.
THEOREM StockSoldOnce == Spec => SoldFromStock
<1>1. IInv /\ [Next]_vars => [SoldStep]_vars
  BY DealAssumption, StepSparesStock
<1>2. QED
  BY <1>1, DealInvariant, PTL DEF Spec, SoldFromStock, SoldStep

\* No dispatch, cancellation or revision of a quantity takes what a lot ships
\* over its inward: an edit or a deal that moves in can, beside a deal that is
\* partly dispatched, and an edit that read a snapshot.
THEOREM CeilingStands == Spec => CeilingKept
<1>1. IInv /\ [Next]_vars => [CeilingStep]_vars
  BY DealAssumption, StepSparesStock
<1>2. QED
  BY <1>1, DealInvariant, PTL DEF Spec, CeilingKept, CeilingStep

-----------------------------------------------------------------------------
(* Rates and exceptions.                                                   *)
(*                                                                         *)
(* A deal nobody has decided yet can owe a rate to an applied revision     *)
(* alone (Rated), a countered one has a decision to be accepted, and one   *)
(* that is still Proposed has no open exception that a sale would have to  *)
(* settle (Followed).  With these, RateAuthority and ExceptionsSettled     *)
(* are inductive.                                                          *)

Undecided == {"Absent", "Proposed", "Approval Required"}
Settled == (Reserving \ {"Cancelled"}) \cup {"Rejected", "Absent", "Proposed"}

\* An applied revision gave the deal this rate.
GivenRate(d, rate) ==
  \E r \in Revisions :
    /\ rev[r].status = "Applied" /\ rev[r].deal = d
    /\ rev[r].field = "approved_rate" /\ rev[r].new = rate

\* The row itself says where its rate is from: the band or the decision.
OwnRate(row) ==
  /\ row.status \notin Undecided
  /\ \/ /\ row.banded /\ row.proposed_rate \in FairRates
        /\ row.approved_rate = row.proposed_rate
     \/ row.decision # "None" /\ row.approved_rate = row.decision_rate

Rated(d, row) ==
  row.approved_rate # NoRate => OwnRate(row) \/ GivenRate(d, row.approved_rate)

\* The exceptions e of a deal fit its row.
Followed(row, e) ==
  /\ row.status \in Settled => e["RATE_FLOOR_BREACH"] \notin OpenStatuses
  /\ row.status = "Countered" =>
       e["RATE_FLOOR_BREACH"] # "Open" /\ row.decision # "None"
  /\ row.status \in {"Absent", "Proposed"} =>
       e["BUYER_UNRESOLVED"] \notin OpenStatuses
  /\ e["BUYER_UNRESOLVED"] \in OpenStatuses => row.customer = NoCustomer

RatesFollow == \A d \in Deals : Rated(d, deal[d]) /\ Followed(deal[d], exc[d])

RInv == IInv /\ RatesFollow

\* Revisions that were applied still say what they did.
AppliedStand ==
  \A r \in Revisions : rev[r].status = "Applied" =>
    /\ rev'[r].status = "Applied" /\ rev'[r].deal = rev[r].deal
    /\ rev'[r].field = rev[r].field /\ rev'[r].new = rev[r].new

\* A step that leaves one deal with a row and exceptions that fit.
RateStep(d) ==
  \E row, e :
    /\ deal' = [deal EXCEPT ![d] = row] /\ exc' = [exc EXCEPT ![d] = e]
    /\ row.approved_rate # NoRate =>
         \/ OwnRate(row) \/ GivenRate(d, row.approved_rate)
         \/ GivenRate(d, row.approved_rate)'
    /\ Followed(row, e)

LEMMA GivenRateStands ==
  ASSUME AppliedStand, NEW d, NEW rate, GivenRate(d, rate)
  PROVE  GivenRate(d, rate)'
<1>1. PICK r \in Revisions : /\ rev[r].status = "Applied" /\ rev[r].deal = d
                             /\ rev[r].field = "approved_rate" /\ rev[r].new = rate
  BY DEF GivenRate
<1>2. /\ rev'[r].status = "Applied" /\ rev'[r].deal = d
      /\ rev'[r].field = "approved_rate" /\ rev'[r].new = rate
  BY <1>1 DEF AppliedStand
<1>3. QED
  BY <1>2 DEF GivenRate

\* A deal that the step leaves alone keeps the authority of its rate.
LEMMA OtherDealsFollow ==
  ASSUME AppliedStand, RatesFollow, NEW d \in Deals,
         deal'[d] = deal[d], exc'[d] = exc[d]
  PROVE  Rated(d, deal[d])' /\ Followed(deal[d], exc[d])'
<1>1. Rated(d, deal[d]) /\ Followed(deal[d], exc[d])
  BY DEF RatesFollow
<1>2. PICK row, rate : row = deal[d] /\ row = deal'[d] /\ rate = row.approved_rate
  OBVIOUS
<1>3. rate # NoRate => OwnRate(row) \/ GivenRate(d, rate)'
  BY <1>1, <1>2, GivenRateStands DEF Rated
<1>4. Rated(d, deal[d])'
  BY <1>2, <1>3 DEF Rated, OwnRate
<1>5. Followed(deal[d], exc[d])'
  BY <1>1 DEF Followed
<1>6. QED
  BY <1>4, <1>5

LEMMA RateStepKeeps ==
  ASSUME TypeOK, RatesFollow, AppliedStand, NEW d \in Deals, RateStep(d)
  PROVE  RatesFollow'
<1>1. PICK row, e :
        /\ deal' = [deal EXCEPT ![d] = row] /\ exc' = [exc EXCEPT ![d] = e]
        /\ row.approved_rate # NoRate =>
             \/ OwnRate(row) \/ GivenRate(d, row.approved_rate)
             \/ GivenRate(d, row.approved_rate)'
        /\ Followed(row, e)
  BY DEF RateStep
<1>2. deal'[d] = row /\ exc'[d] = e
  BY <1>1 DEF TypeOK
<1>3. PICK rate : rate = row.approved_rate
  OBVIOUS
<1>4. rate # NoRate => OwnRate(row) \/ GivenRate(d, rate)'
  BY <1>1, <1>3, GivenRateStands
<1>5. Rated(d, deal[d])'
  BY <1>2, <1>3, <1>4 DEF Rated, OwnRate
<1>6. Followed(deal[d], exc[d])'
  BY <1>1, <1>2 DEF Followed
<1>7. ASSUME NEW x \in Deals, x # d
      PROVE  Rated(x, deal[x])' /\ Followed(deal[x], exc[x])'
  <2>1. deal'[x] = deal[x] /\ exc'[x] = exc[x]
    BY <1>1, <1>7 DEF TypeOK
  <2>2. QED
    BY <2>1, OtherDealsFollow
<1>8. QED
  BY <1>5, <1>6, <1>7 DEF RatesFollow

LEMMA RatesUntouched ==
  ASSUME RatesFollow, AppliedStand, UNCHANGED <<deal, exc>>
  PROVE  RatesFollow'
<1>1. \A d \in Deals : Rated(d, deal[d])' /\ Followed(deal[d], exc[d])'
  BY OtherDealsFollow
<1>2. QED
  BY <1>1 DEF RatesFollow

\* What an operation that saves a deal has to show.
LEMMA RateSaved ==
  ASSUME NEW d \in Deals, NEW row, NEW e, Save(d, row),
         exc' = [exc EXCEPT ![d] = e], Followed(row, e),
         row.approved_rate # NoRate => OwnRate(row) \/ GivenRate(d, row.approved_rate)
  PROVE  RateStep(d)
BY DEF RateStep, Save

\* The exceptions of a deal as the code moves them.
LEMMA ExceptionMoves ==
  ASSUME NEW e \in [ExcTypes -> ExcStatuses], NEW row, NEW linked \in BOOLEAN,
         NEW s \in ExcStatuses, NEW t \in ExcTypes
  PROVE  /\ BreachMoved(e, linked, s)["BUYER_UNRESOLVED"] = e["BUYER_UNRESOLVED"]
         /\ \/ BreachMoved(e, linked, s)["RATE_FLOOR_BREACH"] = s
            \/ /\ BreachMoved(e, linked, s) = e
               /\ e["RATE_FLOOR_BREACH"] \notin OpenStatuses
         /\ BuyerFlagged(e, row)["RATE_FLOOR_BREACH"] = e["RATE_FLOOR_BREACH"]
         /\ \/ BuyerFlagged(e, row) = e
            \/ row.customer = NoCustomer
         /\ t # "BUYER_UNRESOLVED" =>
              Opened(e, t)["BUYER_UNRESOLVED"] = e["BUYER_UNRESOLVED"]
         /\ t # "RATE_FLOOR_BREACH" =>
              Opened(e, t)["RATE_FLOOR_BREACH"] = e["RATE_FLOOR_BREACH"]
BY DEF BreachMoved, BuyerFlagged, Opened, ExcTypes

\* A breach that moves to a closed status is closed.
LEMMA BreachLeft ==
  ASSUME NEW e \in [ExcTypes -> ExcStatuses], NEW linked \in BOOLEAN,
         NEW s \in ExcStatuses, s \notin OpenStatuses
  PROVE  /\ BreachMoved(e, linked, s)["BUYER_UNRESOLVED"] = e["BUYER_UNRESOLVED"]
         /\ BreachMoved(e, linked, s)["RATE_FLOOR_BREACH"] \notin OpenStatuses
BY DEF BreachMoved, ExcTypes

LEMMA EntryRates ==
  ASSUME DealAssumption, RInv, NEW d \in Deals,
         NEW l, NEW q, NEW p, NEW c,
         Create(d, l, q, p, c) \/ EditProposed(d, l, q, p, c)
  PROVE  RateStep(d)
<1>1. /\ deal[d] \in DealRow /\ exc \in ExcMap
      /\ Rated(d, deal[d]) /\ Followed(deal[d], exc[d])
  BY DealRowTyped DEF RInv, IInv, TypeOK, ExcMap, RatesFollow
<1>2. /\ deal[d].status \in {"Absent", "Proposed"}
      /\ exc' = [exc EXCEPT ![d] = exc[d]]
  BY <1>1 DEF Create, EditProposed, ExcMap
<1>3. PICK row : /\ Save(d, row) /\ row.status = "Proposed"
                 /\ row.approved_rate = deal[d].approved_rate
  <2>1. CASE Create(d, l, q, p, c)
    <3> DEFINE r == [deal[d] EXCEPT !.status = "Proposed", !.lot = l, !.qty = q,
                                    !.proposed_rate = p, !.customer = c]
    <3>1. Save(d, r) /\ r.status = "Proposed" /\ r.approved_rate = deal[d].approved_rate
      BY <1>1, <2>1 DEF Create, DealRow
    <3> HIDE DEF r
    <3>2. QED
      BY <3>1
  <2>2. CASE EditProposed(d, l, q, p, c)
    <3> DEFINE r == [deal[d] EXCEPT !.lot = l, !.qty = q, !.proposed_rate = p,
                                    !.customer = c]
    <3>1. Save(d, r) /\ r.status = "Proposed" /\ r.approved_rate = deal[d].approved_rate
      BY <1>1, <2>2 DEF EditProposed, DealRow
    <3> HIDE DEF r
    <3>2. QED
      BY <3>1
  <2>3. QED
    BY <2>1, <2>2
<1>4. row.approved_rate # NoRate => GivenRate(d, row.approved_rate)
  BY <1>1, <1>2, <1>3 DEF Rated, OwnRate, Undecided
<1>5. Followed(row, exc[d])
  BY <1>1, <1>2, <1>3 DEF Followed, Settled
<1>6. QED
  BY <1>2, <1>3, <1>4, <1>5, RateSaved

\* The rate rules and the decisions that refuse.
LEMMA RefusingRates ==
  ASSUME DealAssumption, RInv, NEW d \in Deals, NEW rate,
         \/ RateRulesUnresolved(d) \/ RateRulesRefer(d)
         \/ Counter(d, rate) \/ Reject(d)
  PROVE  RateStep(d)
<1>1. /\ deal[d] \in DealRow /\ exc[d] \in [ExcTypes -> ExcStatuses]
      /\ Rated(d, deal[d]) /\ Followed(deal[d], exc[d])
  BY DealRowTyped DEF RInv, IInv, TypeOK, RatesFollow
<1>2. CASE RateRulesUnresolved(d) \/ RateRulesRefer(d)
  <2>1. PICK t \in {"RATE_POLICY_MISSING", "STOCK_SHORTFALL", "RATE_FLOOR_BREACH"} :
          exc' = [exc EXCEPT ![d] = Opened(exc[d], t)]
    BY <1>2 DEF RateRulesUnresolved, RateRulesRefer
  <2>2. PICK banded \in BOOLEAN :
          Save(d, [deal[d] EXCEPT !.status = "Approval Required", !.banded = banded,
                                  !.approved_rate = NoRate])
    <3>1. CASE RateRulesUnresolved(d)
      BY <1>1, <3>1 DEF RateRulesUnresolved, DealRow
    <3>2. CASE RateRulesRefer(d)
      BY <3>2 DEF RateRulesRefer
    <3>3. QED
      BY <1>2, <3>1, <3>2
  <2> DEFINE row == [deal[d] EXCEPT !.status = "Approval Required", !.banded = banded,
                                    !.approved_rate = NoRate]
             e == Opened(exc[d], t)
  <2>3. /\ row.status = "Approval Required" /\ row.approved_rate = NoRate
        /\ row.customer = deal[d].customer
    BY <1>1 DEF DealRow
  <2>4. e["BUYER_UNRESOLVED"] = exc[d]["BUYER_UNRESOLVED"]
    BY <1>1, ExceptionMoves DEF ExcTypes, ExcStatuses
  <2> HIDE DEF row, e
  <2>5. Followed(row, e)
    BY <1>1, <2>3, <2>4 DEF Followed, Settled, Reserving
  <2>6. Save(d, row) /\ exc' = [exc EXCEPT ![d] = e]
    BY <2>1, <2>2 DEF row, e
  <2>7. QED
    BY <2>3, <2>5, <2>6, RateSaved
<1>3. CASE Counter(d, rate)
  <2> DEFINE row == [deal[d] EXCEPT
               !.status = "Countered", !.approved_rate = NoRate,
               !.decision = "COUNTER", !.decision_rate = rate,
               !.breach_linked = BreachOpen(d)]
             e == BreachMoved(exc[d], FALSE, "In Progress")
  <2>1. /\ row.status = "Countered" /\ row.approved_rate = NoRate
        /\ row.decision = "COUNTER" /\ row.customer = deal[d].customer
    BY <1>1 DEF DealRow
  <2>2. Save(d, row) /\ exc' = [exc EXCEPT ![d] = e]
    BY <1>3 DEF Counter
  <2>3. /\ e["BUYER_UNRESOLVED"] = exc[d]["BUYER_UNRESOLVED"]
        /\ e["RATE_FLOOR_BREACH"] # "Open"
    <3>1. "In Progress" \in ExcStatuses /\ "STOCK_SHORTFALL" \in ExcTypes
      BY DEF ExcStatuses, OpenStatuses, ExcTypes
    <3>2. /\ e["BUYER_UNRESOLVED"] = exc[d]["BUYER_UNRESOLVED"]
          /\ \/ e["RATE_FLOOR_BREACH"] = "In Progress"
             \/ e = exc[d] /\ exc[d]["RATE_FLOOR_BREACH"] \notin OpenStatuses
      BY <1>1, <3>1, ExceptionMoves
    <3> HIDE DEF e
    <3>3. QED
      BY <3>2 DEF OpenStatuses
  <2> HIDE DEF row, e
  <2>4. Followed(row, e)
    BY <1>1, <2>1, <2>3 DEF Followed, Settled, Reserving
  <2>5. QED
    BY <2>1, <2>2, <2>4, RateSaved
<1>4. CASE Reject(d)
  <2> DEFINE row == [deal[d] EXCEPT !.status = "Rejected", !.decision = "REJECT",
                                    !.breach_linked = BreachOpen(d)]
             e == BreachMoved(exc[d], FALSE, "Resolved")
  <2>1. /\ row.status = "Rejected" /\ row.approved_rate = deal[d].approved_rate
        /\ row.customer = deal[d].customer
    BY <1>1 DEF DealRow
  <2>2. /\ Save(d, row) /\ exc' = [exc EXCEPT ![d] = e]
        /\ deal[d].status = "Approval Required"
    BY <1>4 DEF Reject
  <2>3. /\ e["BUYER_UNRESOLVED"] = exc[d]["BUYER_UNRESOLVED"]
        /\ e["RATE_FLOOR_BREACH"] \notin OpenStatuses
    <3>1. "Resolved" \in ExcStatuses /\ "Resolved" \notin OpenStatuses
      BY DEF ExcStatuses, OpenStatuses
    <3>2. QED
      BY <1>1, <3>1, BreachLeft
  <2> HIDE DEF row, e
  <2>4. Followed(row, e)
    BY <1>1, <2>1, <2>3 DEF Followed
  <2>5. row.approved_rate # NoRate => GivenRate(d, row.approved_rate)
    BY <1>1, <2>1, <2>2 DEF Rated, OwnRate, Undecided
  <2>6. QED
    BY <2>2, <2>4, <2>5, RateSaved
<1>5. QED
  BY <1>2, <1>3, <1>4

\* The operations that sell settle the breach and take their own rate.
LEMMA SellingRates ==
  ASSUME DealAssumption, RInv, NEW d \in Deals,
         NEW rate, NEW decision, decision # "None",
         \/ RateRulesApprove(d) \/ AcceptCounter(d)
         \/ Approve(d, rate, decision)
  PROVE  RateStep(d)
<1>1. /\ deal[d] \in DealRow /\ exc[d] \in [ExcTypes -> ExcStatuses]
      /\ Followed(deal[d], exc[d])
  BY DealRowTyped DEF RInv, IInv, TypeOK, RatesFollow
<1>2. ASSUME NEW row, NEW st, row.status = st, st \in {"Approved", "Auto Approved"},
             row.customer = deal[d].customer, OwnRate(row), Save(d, row),
             NEW e, exc' = [exc EXCEPT ![d] = e],
             e["RATE_FLOOR_BREACH"] \notin OpenStatuses,
             e["BUYER_UNRESOLVED"] \in OpenStatuses => deal[d].customer = NoCustomer
      PROVE  RateStep(d)
  <2>1. Followed(row, e)
    BY <1>2 DEF Followed
  <2>2. QED
    BY <1>2, <2>1, RateSaved
<1>3. CASE RateRulesApprove(d)
  <2> DEFINE row == [deal[d] EXCEPT !.status = "Auto Approved", !.banded = TRUE,
                                    !.approved_rate = deal[d].proposed_rate]
             e == BuyerFlagged(exc[d], deal[d])
  <2>1. /\ Save(d, row) /\ exc' = [exc EXCEPT ![d] = e]
        /\ deal[d].status = "Proposed" /\ deal[d].proposed_rate \in FairRates
    BY <1>3 DEF RateRulesApprove
  <2>2. /\ row.status = "Auto Approved" /\ row.banded
        /\ row.proposed_rate = deal[d].proposed_rate
        /\ row.approved_rate = deal[d].proposed_rate
        /\ row.customer = deal[d].customer
    BY <1>1 DEF DealRow
  <2>3. /\ e["RATE_FLOOR_BREACH"] = exc[d]["RATE_FLOOR_BREACH"]
        /\ e = exc[d] \/ deal[d].customer = NoCustomer
    BY <1>1, ExceptionMoves DEF ExcTypes, ExcStatuses
  <2> HIDE DEF row, e
  <2>4. OwnRate(row)
    BY <2>1, <2>2 DEF OwnRate, Undecided
  <2>5. /\ e["RATE_FLOOR_BREACH"] \notin OpenStatuses
        /\ e["BUYER_UNRESOLVED"] \in OpenStatuses => deal[d].customer = NoCustomer
    BY <1>1, <2>1, <2>3 DEF Followed, Settled
  <2>6. QED
    BY <1>2, <2>1, <2>2, <2>4, <2>5
<1>4. CASE AcceptCounter(d)
  <2> DEFINE r == CounterRate(d)
             s == Settlement(deal[d], r)
             row == [deal[d] EXCEPT !.status = "Approved", !.approved_rate = r]
             b == BuyerFlagged(exc[d], deal[d])
             e == BreachMoved(b, deal[d].breach_linked, s)
  <2>1. /\ Save(d, row) /\ exc' = [exc EXCEPT ![d] = e]
        /\ deal[d].status = "Countered"
    BY <1>4 DEF AcceptCounter
  <2>2. /\ row.status = "Approved" /\ row.approved_rate = deal[d].decision_rate
        /\ row.decision = deal[d].decision /\ row.decision_rate = deal[d].decision_rate
        /\ row.customer = deal[d].customer /\ deal[d].breach_linked \in BOOLEAN
    BY <1>1 DEF DealRow, CounterRate
  <2>3. /\ b \in [ExcTypes -> ExcStatuses]
        /\ b = exc[d] \/ deal[d].customer = NoCustomer
    <3>1. b \in [ExcTypes -> ExcStatuses]
      BY <1>1, Zenon DEF BuyerFlagged, Opened, ExcTypes, ExcStatuses, OpenStatuses
    <3>2. b = exc[d] \/ deal[d].customer = NoCustomer
      BY DEF BuyerFlagged
    <3>3. QED
      BY <3>1, <3>2
  <2>4. s \in ExcStatuses /\ s \notin OpenStatuses
    BY SettlementTyped DEF Settlement, OpenStatuses
  <2> HIDE DEF r, s, row, b
  <2>5. /\ e["BUYER_UNRESOLVED"] = b["BUYER_UNRESOLVED"]
        /\ e["RATE_FLOOR_BREACH"] \notin OpenStatuses
    BY <2>2, <2>3, <2>4, BreachLeft
  <2> HIDE DEF e
  <2>6. OwnRate(row)
    BY <1>1, <2>1, <2>2 DEF OwnRate, Undecided, Followed
  <2>7. e["BUYER_UNRESOLVED"] \in OpenStatuses => deal[d].customer = NoCustomer
    BY <1>1, <2>3, <2>5 DEF Followed
  <2>8. QED
    BY <1>2, <2>1, <2>2, <2>5, <2>6, <2>7
<1>5. CASE Approve(d, rate, decision)
  <2> DEFINE short == ~Available(d, deal[d].lot, deal[d].qty)
             o == IF short THEN Opened(exc[d], "OVERSELL_OVERRIDE") ELSE exc[d]
             s == Settlement(deal[d], rate)
             row == [deal[d] EXCEPT
                       !.status = "Approved", !.approved_rate = rate,
                       !.decision = decision, !.decision_rate = rate,
                       !.breach_linked = BreachOpen(d) /\ ~short]
             b == BuyerFlagged(o, deal[d])
             e == BreachMoved(b, FALSE, s)
  <2>1. Save(d, row) /\ exc' = [exc EXCEPT ![d] = e]
    BY <1>5 DEF Approve
  <2>2. /\ row.status = "Approved" /\ row.approved_rate = rate
        /\ row.decision = decision /\ row.decision_rate = rate
        /\ row.customer = deal[d].customer
    BY <1>1 DEF DealRow
  <2>3. /\ o \in [ExcTypes -> ExcStatuses]
        /\ o["BUYER_UNRESOLVED"] = exc[d]["BUYER_UNRESOLVED"]
    <3>1. /\ Opened(exc[d], "OVERSELL_OVERRIDE") \in [ExcTypes -> ExcStatuses]
          /\ Opened(exc[d], "OVERSELL_OVERRIDE")["BUYER_UNRESOLVED"]
               = exc[d]["BUYER_UNRESOLVED"]
      BY <1>1, ExcTyped, ExceptionMoves DEF ExcTypes, ExcStatuses
    <3>2. QED
      BY <1>1, <3>1
  <2>4. s \in ExcStatuses /\ s \notin OpenStatuses
    BY SettlementTyped DEF Settlement, OpenStatuses
  <2> HIDE DEF short, o, s, row
  <2>5. /\ b \in [ExcTypes -> ExcStatuses]
        /\ b = o \/ deal[d].customer = NoCustomer
    BY <2>3, ExcTyped, ExceptionMoves DEF ExcTypes, ExcStatuses
  <2> HIDE DEF b
  <2>6. /\ e["BUYER_UNRESOLVED"] = b["BUYER_UNRESOLVED"]
        /\ e["RATE_FLOOR_BREACH"] \notin OpenStatuses
    BY <2>4, <2>5, BreachLeft
  <2> HIDE DEF e
  <2>7. OwnRate(row)
    BY <2>2 DEF OwnRate, Undecided
  <2>8. e["BUYER_UNRESOLVED"] \in OpenStatuses => deal[d].customer = NoCustomer
    BY <1>1, <2>3, <2>5, <2>6 DEF Followed
  <2>9. QED
    BY <1>2, <2>1, <2>2, <2>6, <2>7, <2>8
<1>6. QED
  BY <1>3, <1>4, <1>5

\* Release and dispatch change neither rate nor exceptions.
LEMMA ShippingRates ==
  ASSUME DealAssumption, RInv, NEW d \in Deals, NEW q,
         AdvanceToOutwardPending(d) \/ RecordDispatch(d, q)
  PROVE  RateStep(d)
<1>1. /\ deal[d] \in DealRow /\ exc \in ExcMap
      /\ Rated(d, deal[d]) /\ Followed(deal[d], exc[d])
  BY DealRowTyped DEF RInv, IInv, TypeOK, ExcMap, RatesFollow
<1>2. /\ deal[d].status \in Settled \ {"Absent", "Proposed"}
      /\ deal[d].status \notin Undecided
      /\ exc' = [exc EXCEPT ![d] = exc[d]]
  BY <1>1 DEF AdvanceToOutwardPending, RecordDispatch, Settled, Reserving,
              Undecided, ExcMap
<1>3. PICK row : /\ Save(d, row)
                 /\ row.status \in {"Outward Pending", "Partially Dispatched", "Dispatched"}
                 /\ row.customer = deal[d].customer
                 /\ row.banded = deal[d].banded
                 /\ row.proposed_rate = deal[d].proposed_rate
                 /\ row.approved_rate = deal[d].approved_rate
                 /\ row.decision = deal[d].decision
                 /\ row.decision_rate = deal[d].decision_rate
  <2>1. CASE AdvanceToOutwardPending(d)
    <3> DEFINE r == [deal[d] EXCEPT !.status = "Outward Pending"]
    <3>1. /\ Save(d, r) /\ r.status = "Outward Pending"
          /\ r.customer = deal[d].customer /\ r.banded = deal[d].banded
          /\ r.proposed_rate = deal[d].proposed_rate
          /\ r.approved_rate = deal[d].approved_rate
          /\ r.decision = deal[d].decision /\ r.decision_rate = deal[d].decision_rate
      BY <1>1, <2>1 DEF AdvanceToOutwardPending, DealRow
    <3> HIDE DEF r
    <3>2. QED
      BY <3>1
  <2>2. CASE RecordDispatch(d, q)
    <3> DEFINE s == IF q < deal[d].qty THEN "Partially Dispatched" ELSE "Dispatched"
               r == [deal[d] EXCEPT !.dispatched = q, !.status = s]
    <3>1. Save(d, r) /\ s \in {"Partially Dispatched", "Dispatched"}
      BY <2>2 DEF RecordDispatch
    <3> HIDE DEF s
    <3>2. /\ r.status = s
          /\ r.customer = deal[d].customer /\ r.banded = deal[d].banded
          /\ r.proposed_rate = deal[d].proposed_rate
          /\ r.approved_rate = deal[d].approved_rate
          /\ r.decision = deal[d].decision /\ r.decision_rate = deal[d].decision_rate
      BY <1>1 DEF DealRow
    <3> HIDE DEF r
    <3>3. QED
      BY <3>1, <3>2
  <2>3. QED
    BY <2>1, <2>2
<1>4. row.approved_rate # NoRate => OwnRate(row) \/ GivenRate(d, row.approved_rate)
  BY <1>1, <1>2, <1>3 DEF Rated, OwnRate, Undecided
<1>5. Followed(row, exc[d])
  BY <1>1, <1>2, <1>3 DEF Followed, Settled
<1>6. QED
  BY <1>2, <1>3, <1>4, <1>5, RateSaved

\* A user who closes an exception leaves nothing open that was not.
LEMMA DeskRates ==
  ASSUME DealAssumption, RInv, NEW d \in Deals, NEW t \in ExcTypes,
         NEW s \in {"Resolved", "Waived"}, DeskResolve(d, t, s)
  PROVE  RateStep(d)
<1>1. /\ deal \in [Deals -> DealRow] /\ exc[d] \in [ExcTypes -> ExcStatuses]
      /\ Rated(d, deal[d]) /\ Followed(deal[d], exc[d])
  BY DEF RInv, IInv, TypeOK, RatesFollow
<1> DEFINE e == [exc[d] EXCEPT ![t] = s]
<1>2. deal' = [deal EXCEPT ![d] = deal[d]] /\ exc' = [exc EXCEPT ![d] = e]
  BY <1>1 DEF DeskResolve
<1>3. \A x \in ExcTypes : e[x] = exc[d][x] \/ (e[x] \notin OpenStatuses /\ e[x] # "Open")
  BY <1>1 DEF OpenStatuses
<1> HIDE DEF e
<1>4. Followed(deal[d], e)
  BY <1>1, <1>3 DEF Followed, ExcTypes
<1>5. QED
  BY <1>1, <1>2, <1>4 DEF RateStep, Rated

LEMMA CancelRates ==
  ASSUME DealAssumption, RInv, NEW w \in Workers, CommitCancel(w)
  PROVE  \E d \in Deals : RateStep(d)
<1> DEFINE d == txn[w].deal
           row == [txn[w].seen EXCEPT !.status = "Cancelled"]
<1>1. /\ txn[w] # None /\ txn[w].op = "cancel" /\ ~txn[w].stale
      /\ deal' = [deal EXCEPT ![d] = row] /\ UNCHANGED exc
  BY DEF CommitCancel, Unmodified, SaveAndClose
<1>2. d \in Deals /\ txn[w].seen = deal[d]
  BY <1>1 DEF RInv, IInv, FreshRow
<1>3. deal[d] \in DealRow /\ exc \in ExcMap
  BY <1>2, DealRowTyped DEF RInv, IInv, TypeOK, ExcMap
<1>4. /\ row.status = "Cancelled" /\ row.customer = deal[d].customer
      /\ row.banded = deal[d].banded
      /\ row.proposed_rate = deal[d].proposed_rate
      /\ row.approved_rate = deal[d].approved_rate
      /\ row.decision = deal[d].decision
      /\ row.decision_rate = deal[d].decision_rate
  BY <1>2, <1>3 DEF DealRow
<1> HIDE DEF d, row
<1>5. Rated(d, deal[d]) /\ Followed(deal[d], exc[d])
  BY <1>2 DEF RInv, RatesFollow
<1>6. row.approved_rate # NoRate => OwnRate(row) \/ GivenRate(d, row.approved_rate)
  BY <1>4, <1>5 DEF Rated, OwnRate, Undecided
<1>7. Followed(row, exc[d])
  BY <1>4, <1>5 DEF Followed, Settled
<1>8. exc' = [exc EXCEPT ![d] = exc[d]]
  BY <1>1, <1>3 DEF ExcMap
<1>9. QED
  BY <1>1, <1>2, <1>6, <1>7, <1>8 DEF RateStep

\* What a revision does to the columns that the rate and the exceptions
\* depend on.
LEMMA RevisedRate ==
  ASSUME NEW row \in DealRow, NEW f \in EligibleFields, NEW v
  PROVE  /\ Revised(row, f, v).banded = row.banded
         /\ Revised(row, f, v).proposed_rate = row.proposed_rate
         /\ Revised(row, f, v).decision = row.decision
         /\ Revised(row, f, v).decision_rate = row.decision_rate
         /\ Revised(row, f, v).approved_rate =
              IF f = "approved_rate" THEN v ELSE row.approved_rate
         /\ f # "customer" => Revised(row, f, v).customer = row.customer
<1>1. CASE f = "qty"
  BY <1>1 DEF Revised, DealRow
<1>2. CASE f = "lot_no"
  BY <1>2 DEF Revised, DealRow
<1>3. CASE f = "approved_rate"
  BY <1>3 DEF Revised, DealRow
<1>4. CASE f = "customer"
  BY <1>4 DEF Revised, DealRow
<1>5. CASE f \notin {"qty", "lot_no", "approved_rate", "customer"}
  BY <1>5 DEF Revised
<1>6. QED
  BY <1>1, <1>2, <1>3, <1>4, <1>5

LEMMA ApplyRates ==
  ASSUME DealAssumption, RInv, NEW w \in Workers, CommitApply(w)
  PROVE  AppliedStand /\ \E d \in Deals : RateStep(d)
<1>0. PICK d, r, f, row : Applying(w, d, r, f, row)
  BY DEF Applying
<1>1. /\ d = txn[w].deal /\ r = txn[w].rev /\ f = rev[r].field
      /\ row = Revised(deal[d], f, rev[r].new)
  BY <1>0 DEF Applying
<1>2. /\ d \in Deals /\ r \in Revisions /\ f \in EligibleFields
      /\ rev[r].status = "Pending" /\ rev[r].deal = d
      /\ row \in DealRow /\ row.status = deal[d].status
      /\ deal' = [deal EXCEPT ![d] = row]
  BY <1>0, CommitApplyFacts DEF RInv
<1>3. /\ rev \in [Revisions -> RevRow] /\ deal[d] \in DealRow /\ exc \in ExcMap
      /\ Rated(d, deal[d]) /\ Followed(deal[d], exc[d])
      /\ exc[d] \in [ExcTypes -> ExcStatuses]
  BY <1>2, DealRowTyped DEF RInv, IInv, TypeOK, ExcMap, RatesFollow
<1>4. /\ rev' = [rev EXCEPT ![r].status = "Applied", ![r].ref = txn[w].grant]
      /\ txn[w].seen = deal[d]
  BY <1>1 DEF CommitApply, Unmodified, RInv, IInv, FreshRow
<1>5. /\ rev'[r].status = "Applied" /\ rev'[r].deal = d
      /\ rev'[r].field = f /\ rev'[r].new = rev[r].new
      /\ \A x \in Revisions \ {r} : rev'[x] = rev[x]
  <2>1. /\ rev'[r] = [rev[r] EXCEPT !.status = "Applied", !.ref = txn[w].grant]
        /\ \A x \in Revisions \ {r} : rev'[x] = rev[x]
    BY ONLY <1>2, <1>3, <1>4
  <2>2. rev[r] \in RevRow
    BY <1>2, <1>3
  <2>3. QED
    BY ONLY <1>1, <1>2, <2>1, <2>2 DEF RevRow
<1>6. AppliedStand
  BY <1>2, <1>5 DEF AppliedStand
<1>7. /\ row.banded = deal[d].banded
      /\ row.proposed_rate = deal[d].proposed_rate
      /\ row.decision = deal[d].decision
      /\ row.decision_rate = deal[d].decision_rate
      /\ row.approved_rate =
           IF f = "approved_rate" THEN rev[r].new ELSE deal[d].approved_rate
      /\ f # "customer" => row.customer = deal[d].customer
  <2>1. /\ row = Revised(deal[d], f, rev[r].new) /\ f \in EligibleFields
        /\ deal[d] \in DealRow
    BY <1>1, <1>2, <1>3
  <2>2. QED
    BY ONLY <2>1, RevisedRate
<1>8. row.approved_rate # NoRate =>
        \/ OwnRate(row) \/ GivenRate(d, row.approved_rate)
        \/ GivenRate(d, row.approved_rate)'
  <2>1. CASE f = "approved_rate"
    <3>1. PICK rate : rate = row.approved_rate
      OBVIOUS
    <3>2. rev'[r].new = rate
      BY <1>5, <1>7, <2>1, <3>1
    <3>3. GivenRate(d, rate)'
      BY <1>2, <1>5, <2>1, <3>2 DEF GivenRate
    <3>4. QED
      BY <3>1, <3>3
  <2>2. CASE f # "approved_rate"
    BY <1>2, <1>3, <1>7, <2>2 DEF Rated, OwnRate
  <2>3. QED
    BY <2>1, <2>2
<1>9. PICK e : exc' = [exc EXCEPT ![d] = e] /\ Followed(row, e)
  <2>1. CASE /\ f = "customer" /\ row.customer # NoCustomer
             /\ exc[d]["BUYER_UNRESOLVED"] \in OpenStatuses
    <3> DEFINE e == [exc[d] EXCEPT !["BUYER_UNRESOLVED"] = "Resolved"]
    <3>1. exc' = [exc EXCEPT ![d] = e]
      BY <1>1, <1>4, <2>1 DEF CommitApply
    <3>2. /\ e["BUYER_UNRESOLVED"] \notin OpenStatuses
          /\ e["RATE_FLOOR_BREACH"] = exc[d]["RATE_FLOOR_BREACH"]
      BY <1>3 DEF ExcTypes, OpenStatuses
    <3> HIDE DEF e
    <3>3. Followed(row, e)
      BY <1>2, <1>3, <1>7, <3>2 DEF Followed
    <3>4. QED
      BY <3>1, <3>3
  <2>2. CASE ~(/\ f = "customer" /\ row.customer # NoCustomer
               /\ exc[d]["BUYER_UNRESOLVED"] \in OpenStatuses)
    <3>1. exc' = exc
      BY <1>1, <1>4, <2>2 DEF CommitApply
    <3>2. exc' = [exc EXCEPT ![d] = exc[d]]
      BY <1>3, <3>1 DEF ExcMap
    <3>3. Followed(row, exc[d])
      BY <1>2, <1>3, <1>7, <2>2 DEF Followed
    <3>4. QED
      BY <3>2, <3>3
  <2>3. QED
    BY <2>1, <2>2
<1>10. RateStep(d)
  BY <1>2, <1>8, <1>9 DEF RateStep
<1>11. QED
  BY <1>2, <1>6, <1>10

\* Minting an approval, even of a revision applied meanwhile, leaves what was
\* applied as it is.
LEMMA MintLeavesApplied ==
  ASSUME RInv, NEW w \in Workers, NEW g, CommitMint(w, g)
  PROVE  AppliedStand
<1>1. rev \in [Revisions -> RevRow]
  BY DEF RInv, IInv, TypeOK
<1>2. PICK m : m = txn[w].rev /\ rev' = [rev EXCEPT ![m].ref = g]
  BY DEF CommitMint
<1>3. \A x \in Revisions :
        /\ rev'[x].status = rev[x].status /\ rev'[x].deal = rev[x].deal
        /\ rev'[x].field = rev[x].field /\ rev'[x].new = rev[x].new
  BY <1>1, <1>2 DEF RevRow
<1>4. QED
  BY <1>3 DEF AppliedStand

LEMMA DealStepRates ==
  ASSUME DealAssumption, RInv, NEW d \in Deals, DealStep(d)
  PROVE  RatesFollow'
<1>1. TypeOK /\ RatesFollow
  BY DEF RInv, IInv
<1>2. ASSUME UNCHANGED rev, RateStep(d)
      PROVE  RatesFollow'
  <2>1. AppliedStand
    BY <1>2 DEF AppliedStand
  <2>2. QED
    BY <1>1, <1>2, <2>1, RateStepKeeps
<1>3. CASE \E l \in Lots, q \in Quantities, p \in Rates, c \in Parties :
             Create(d, l, q, p, c) \/ EditProposed(d, l, q, p, c)
  BY <1>2, <1>3, EntryRates DEF Create, EditProposed
<1>4. CASE \/ RateRulesUnresolved(d) \/ RateRulesRefer(d)
           \/ \E p \in Rates : Counter(d, p)
           \/ Reject(d)
  BY <1>2, <1>4, RefusingRates
     DEF RateRulesUnresolved, RateRulesRefer, Counter, Reject
<1>5. CASE RateRulesApprove(d) \/ AcceptCounter(d)
  <2>1. RateStep(d)
    <3>1. "APPROVE" # "None"
      OBVIOUS
    <3>2. QED
      BY <1>5, <3>1, SellingRates
  <2>2. QED
    BY <1>2, <1>5, <2>1 DEF RateRulesApprove, AcceptCounter
<1>6. CASE \E p \in Rates, x \in Decisions \ {"COUNTER", "REJECT"} : Approve(d, p, x)
  <2>1. PICK p, x : Approve(d, p, x) /\ x \in Decisions
    BY <1>6
  <2>2. x # "None"
    BY <2>1 DEF DealAssumption, DecideDecisions
  <2>3. RateStep(d)
    BY <2>1, <2>2, SellingRates
  <2>4. QED
    BY <1>2, <2>1, <2>3 DEF Approve
<1>7. CASE AdvanceToOutwardPending(d) \/ \E q \in 1..MaxQty : RecordDispatch(d, q)
  BY <1>2, <1>7, ShippingRates DEF AdvanceToOutwardPending, RecordDispatch
<1>8. CASE \E t \in DeskResolves, s \in {"Resolved", "Waived"} : DeskResolve(d, t, s)
  <2>1. PICK t \in ExcTypes, s \in {"Resolved", "Waived"} : DeskResolve(d, t, s)
    BY <1>8 DEF DealAssumption
  <2>2. RateStep(d)
    BY <2>1, DeskRates
  <2>3. QED
    BY <1>2, <2>1, <2>2 DEF DeskResolve
<1>9. CASE \E r \in Revisions, f \in RevisedFields, e \in BOOLEAN :
             \E v \in Input(f) : RequestRevision(r, d, f, v, e)
  <2>1. PICK r, f, v, e : RequestRevision(r, d, f, v, e)
    BY <1>9
  <2>2. UNCHANGED <<deal, exc>>
    BY <2>1 DEF RequestRevision
  <2>3. AppliedStand
    <3>1. rev \in [Revisions -> RevRow]
      BY <1>1 DEF TypeOK
    <3>2. \A x \in Revisions : rev[x].status # "Absent" => rev'[x] = rev[x]
      BY <2>1, <3>1 DEF RequestRevision
    <3>3. QED
      BY <3>2 DEF AppliedStand
  <2>4. QED
    BY <1>1, <2>2, <2>3, RatesUntouched
<1>10. QED
  BY <1>3, <1>4, <1>5, <1>6, <1>7, <1>8, <1>9 DEF DealStep

LEMMA OtherStepRates ==
  ASSUME DealAssumption, RInv, (\E w \in Workers : RequestStep(w)) \/ ContainerStep
  PROVE  RatesFollow'
<1>1. TypeOK /\ RatesFollow
  BY DEF RInv, IInv
<1>2. ASSUME UNCHANGED <<deal, exc, rev>>
      PROVE  RatesFollow'
  <2>1. AppliedStand
    BY <1>2 DEF AppliedStand
  <2>2. QED
    BY <1>1, <1>2, <2>1, RatesUntouched
<1>3. ASSUME NEW w \in Workers, RequestStep(w)
      PROVE  RatesFollow'
  <2>1. CASE \/ \E d \in Deals : BeginCancel(w, d)
             \/ \E r \in Revisions : BeginMint(w, r)
             \/ \E r \in Revisions, g \in Grants \cup {None} : BeginApply(w, r, g)
             \/ Rollback(w)
    BY <1>2, <2>1 DEF BeginCancel, BeginMint, BeginApply, Begin, Rollback
  <2>2. CASE CommitCancel(w)
    <3>1. AppliedStand
      BY <2>2 DEF CommitCancel, AppliedStand
    <3>2. QED
      BY <1>1, <2>2, <3>1, CancelRates, RateStepKeeps
  <2>3. CASE \E g \in Grants : CommitMint(w, g)
    <3>1. AppliedStand /\ UNCHANGED <<deal, exc>>
      BY <2>3, MintLeavesApplied DEF CommitMint
    <3>2. QED
      BY <1>1, <3>1, RatesUntouched
  <2>4. CASE CommitApply(w)
    BY <1>1, <2>4, ApplyRates, RateStepKeeps
  <2>5. QED
    BY <1>3, <2>1, <2>2, <2>3, <2>4 DEF RequestStep
<1>4. CASE ContainerStep
  BY <1>2, <1>4 DEF ContainerStep, BeginEdit, EditInward, OperatingChanged
<1>5. QED
  BY <1>3, <1>4

LEMMA InitialRates ==
  ASSUME DealAssumption, Init
  PROVE  RInv
<1>1. \A d \in Deals : deal[d] = BlankDeal /\ exc[d] = [t \in ExcTypes |-> "None"]
  BY DEF Init
<1>2. /\ BlankDeal.status = "Absent" /\ BlankDeal.approved_rate = NoRate
      /\ BlankDeal.customer = NoCustomer
  BY DEF BlankDeal
<1>3. /\ \A d \in Deals : exc[d]["BUYER_UNRESOLVED"] = "None"
      /\ \A d \in Deals : exc[d]["RATE_FLOOR_BREACH"] = "None"
  BY <1>1 DEF ExcTypes
<1>4. RatesFollow
  BY <1>1, <1>2, <1>3 DEF RatesFollow, Rated, Followed, OpenStatuses
<1>5. QED
  BY <1>4, InitEstablishes DEF RInv

LEMMA NextKeepsRates ==
  ASSUME DealAssumption, RInv, [Next]_vars
  PROVE  RInv'
<1>1. IInv'
  BY NextKeeps DEF RInv
<1>2. CASE Next
  BY <1>1, <1>2, DealStepRates, OtherStepRates DEF Next, RInv
<1>3. CASE UNCHANGED vars
  <2>1. AppliedStand /\ UNCHANGED <<deal, exc>>
    BY <1>3 DEF vars, AppliedStand
  <2>2. QED
    BY <1>1, <2>1, RatesUntouched DEF RInv
<1>4. QED
  BY <1>2, <1>3

\* Rates and exceptions follow the decisions in every reachable state.
THEOREM RatesInvariant == Spec => []RInv
<1>1. Init => RInv
  BY DealAssumption, InitialRates
<1>2. RInv /\ [Next]_vars => RInv'
  BY DealAssumption, NextKeepsRates
<1>3. QED
  BY <1>1, <1>2, PTL DEF Spec

\* No rate stands on a deal without the band, the decision or the revision
\* that gave it, however revisions, counters and cancellations interleave.
THEOREM RatesAuthorised == Spec => []RateAuthority
<1>1. RInv => RateAuthority
  BY DEF RInv, RatesFollow, Rated, OwnRate, GivenRate, RateAuthority
<1>2. QED
  BY <1>1, RatesInvariant, PTL

\* A decided deal leaves no rate breach behind, and an open BUYER_UNRESOLVED
\* means what it says.
THEOREM ExceptionsFollow == Spec => []ExceptionsSettled
<1>1. RInv => ExceptionsSettled
  BY DEF RInv, RatesFollow, Followed, Settled, ExceptionsSettled, BreachSettled,
         OpenBuyerUnresolved, BreachOpen
<1>2. QED
  BY <1>1, RatesInvariant, PTL

=============================================================================
