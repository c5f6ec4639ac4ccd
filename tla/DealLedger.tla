----------------------------- MODULE DealLedger -----------------------------
(***************************************************************************)
(* The Deal book of one Container: deals.py, approvals.py, ats.py, the     *)
(* FreskoDeal, FreskoRevision, FreskoApproval documents and the inward     *)
(* edits of FreskoContainer.                                               *)
(*                                                                         *)
(* Operations that take the container row lock before they read what they  *)
(* act on (apply_rate_rules, decide, accept_counter, the legacy outward    *)
(* transition, record_dispatch) are one action each.  The ones that read   *)
(* first and write later (cancel_deal, apply_revision,                     *)
(* create_revision_approval, the save of a Container) are two: a Begin     *)
(* step takes the transaction's snapshot, a Commit step writes.            *)
(*                                                                         *)
(* apply_revision locks the revision and approval rows first, but under    *)
(* REPEATABLE READ its plain reads may come from a snapshot older than     *)
(* those locks: what protects the deal is the modified check of its save   *)
(* (Unmodified).  create_revision_approval writes with db.set_value and    *)
(* update_modified=False, so no modified check sees it.                    *)
(***************************************************************************)
EXTENDS Totals

CONSTANTS
  Deals, Lots,          \* the deals and lots of the container
  Revisions,            \* Fresko Revision rows
  Grants,               \* Fresko Approval rows bound to a revision
  Workers,              \* requests that may be open between read and write
  Rates, FairRates,     \* rates; those inside the band stored on the deal
  Customers,            \* ERPNext Customers a deal may name
  MaxQty,               \* bound on every quantity of a deal or a lot
  Quantities,           \* quantities users enter
  FirstInward,          \* lot inward when the book opens
  OperatingFacts,       \* what users may assert as OPERATING_INWARD
  RevisedFields,        \* fields users ask to revise
  Decisions,            \* decisions approvers take
  InwardQuantities,     \* quantities users edit a lot's inward to
  DeskResolves,         \* exception types users close on Desk
  None, NoRate, NoCustomer, NoFact, Unresolved

MaterialFields == {"approved_rate", "qty", "lot_no", "container_lot", "customer"}
EligibleFields == MaterialFields \cup {"item", "count_size"}

DecideDecisions == {"APPROVE", "OVERSELL_OVERRIDE", "COUNTER", "REJECT"}

ExcTypes == {"RATE_POLICY_MISSING", "STOCK_SHORTFALL", "RATE_FLOOR_BREACH",
             "BUYER_UNRESOLVED", "OVERSELL_OVERRIDE"}

ASSUME DealAssumption ==
  /\ IsFiniteSet(Deals) /\ IsFiniteSet(Lots) /\ Lots # {}
  /\ MaxQty \in Nat
  /\ Quantities \subseteq 1..MaxQty
  /\ FirstInward \in [Lots -> 0..MaxQty]
  /\ OperatingFacts \subseteq Nat \cup {NoFact, Unresolved}
  /\ FairRates \subseteq Rates /\ NoRate \notin Rates
  /\ NoCustomer \notin Customers
  /\ RevisedFields \subseteq EligibleFields
  /\ Decisions \subseteq DecideDecisions
  /\ InwardQuantities \subseteq 0..MaxQty
  /\ DeskResolves \subseteq ExcTypes
  /\ None \notin Revisions \cup Grants
  /\ NoFact \notin Nat /\ Unresolved \notin Nat /\ NoFact # Unresolved

VARIABLES
  deal,       \* the Fresko Deal rows
  inward,     \* inward_qty of each lot row
  operating,  \* the active OPERATING_INWARD assertion
  exc,        \* status of the deal's exception of each type
  rev,        \* the Fresko Revision rows
  grant,      \* the revision-bound Fresko Approval rows
  txn,        \* what each open request has read
  edit        \* what an open container save has read: approved_sold per lot

vars == <<deal, inward, operating, exc, rev, grant, txn, edit>>

-----------------------------------------------------------------------------
(* Rows and their types.                                                   *)

Statuses == {"Absent", "Proposed", "Approval Required", "Auto Approved",
             "Approved", "Countered", "Rejected", "Outward Pending",
             "Partially Dispatched", "Dispatched", "Cancelled"}

\* Mutant: a deal released for outward stops reserving.
ReservingUntilReleased ==
  {"Auto Approved", "Approved", "Dispatched", "Partially Dispatched", "Cancelled"}

\* ATS_REDUCING_STATUSES, as far as the code's operations reach them.
Reserving == {"Auto Approved", "Approved", "Outward Pending", "Dispatched",
              "Partially Dispatched", "Cancelled"}

\* COMMERCIAL_LOCK_STATUSES.
Locked == Statuses \ {"Absent", "Proposed"}

\* DEAL_TRANSITIONS that lead to Cancelled.
Cancellable == {"Proposed", "Approval Required", "Auto Approved", "Approved",
                "Countered", "Rejected", "Outward Pending",
                "Partially Dispatched"}

OpenStatuses == {"Open", "In Progress"}
ExcStatuses == {"None", "Resolved", "Waived"} \cup OpenStatuses

RateOrNone == Rates \cup {NoRate}
Parties == Customers \cup {NoCustomer}

\* decision, decision_rate and breach_linked are those of the one Fresko
\* Approval row decide() writes for the deal.
DealRow == [status: Statuses, lot: Lots, qty: 0..MaxQty,
            dispatched: 0..MaxQty, proposed_rate: RateOrNone,
            approved_rate: RateOrNone, banded: BOOLEAN, customer: Parties,
            decision: {"None"} \cup DecideDecisions,
            decision_rate: RateOrNone, breach_linked: BOOLEAN]

Values == (0..MaxQty) \cup Lots \cup RateOrNone \cup Parties \cup {None}

RevRow == [status: {"Absent", "Pending", "Applied"}, deal: Deals \cup {None},
           field: EligibleFields, old: Values, new: Values,
           evidenced: BOOLEAN, ref: Grants \cup {None}]

GrantRow == [rev: Revisions \cup {None}, consumed: BOOLEAN]

\* A minting request remembers the revision alone.
TxnRow == [op: {"cancel", "apply", "mint"}, deal: Deals \cup {None},
           seen: DealRow \cup {None}, rev: Revisions \cup {None},
           grant: Grants \cup {None}, stale: BOOLEAN]

-----------------------------------------------------------------------------
(* Available to sell.                                                      *)

\* What a reserving deal takes out of the stock.
CommercialQty(row) ==
  CASE row.status = "Partially Dispatched" ->
         IF row.dispatched < row.qty THEN row.qty - row.dispatched ELSE 0
    [] row.status = "Cancelled" -> row.dispatched
    [] OTHER -> row.qty

Claim(l) == [d \in Deals |->
  IF deal[d].status \in Reserving /\ deal[d].lot = l
  THEN CommercialQty(deal[d]) ELSE 0]

ClaimAnyLot == [d \in Deals |->
  IF deal[d].status \in Reserving THEN CommercialQty(deal[d]) ELSE 0]

\* _reserved_qty: the claims of the deals in D, on one lot or on all.
Reserved(D, l) == Total(D, Claim(l), MaxQty)
ReservedAnyLot(D) == Total(D, ClaimAnyLot, MaxQty)

\* approved_sold(container, lot).
Sold(l) == Reserved(Deals, l)

ContainerInward == Total(Lots, inward, MaxQty)

\* _container_operating_capacity: the lower of the legacy inward and the
\* active operating fact.
Capacity ==
  IF operating \in Nat /\ operating < ContainerInward
  THEN operating ELSE ContainerInward

\* q of lot l is available to deal d: available_to_sell, which throws while
\* the operating quantity is unresolved, is at least q.
Resolvable == operating # Unresolved
Available(d, l, q) ==
  /\ q + Reserved(Deals \ {d}, l) <= inward[l]
  /\ q + ReservedAnyLot(Deals \ {d}) <= Capacity

-----------------------------------------------------------------------------
(* Saving a deal row.  Document.save refuses a row that was modified after *)
(* it was read; an open request that read the row is stale from then on.   *)

Outdated(d) == [w \in Workers |->
  IF txn[w] # None /\ txn[w].deal = d
  THEN [txn[w] EXCEPT !.stale = TRUE] ELSE txn[w]]

Save(d, row) ==
  /\ deal' = [deal EXCEPT ![d] = row]
  /\ txn' = Outdated(d)

\* Mutant: the ceiling is not looked at on save.
ValidRowAny(row) == row.qty \in Quantities

\* FreskoDeal.validate: a deal never ships more than its quantity.
ValidRow(row) == row.dispatched <= row.qty

\* Raise or move the deal's exceptions.
Opened(e, t) == [e EXCEPT ![t] = "Open"]

BuyerFlagged(e, row) ==
  IF row.customer = NoCustomer /\ e["BUYER_UNRESOLVED"] \notin OpenStatuses
  THEN Opened(e, "BUYER_UNRESOLVED") ELSE e

\* Mutant: only a breach linked to the approval moves.
BreachMovedIfLinked(e, linked, status) ==
  IF linked THEN [e EXCEPT !["RATE_FLOOR_BREACH"] = status] ELSE e

\* The breach the approval links to, or else the one still open, moves.
BreachMoved(e, linked, status) ==
  IF linked \/ e["RATE_FLOOR_BREACH"] \in OpenStatuses
  THEN [e EXCEPT !["RATE_FLOOR_BREACH"] = status] ELSE e

\* A settled breach is Resolved inside the stored band and Waived outside.
Settlement(row, rate) ==
  IF row.banded /\ rate \in FairRates THEN "Resolved" ELSE "Waived"

-----------------------------------------------------------------------------
(* Deal entry and rate rules.                                              *)

Create(d, l, q, p, c) ==
  /\ deal[d].status = "Absent"
  /\ Save(d, [deal[d] EXCEPT !.status = "Proposed", !.lot = l, !.qty = q,
                             !.proposed_rate = p, !.customer = c])
  /\ UNCHANGED <<inward, operating, exc, rev, grant, edit>>

\* A Desk save of a deal that is still Proposed.
EditProposed(d, l, q, p, c) ==
  /\ deal[d].status = "Proposed"
  /\ Save(d, [deal[d] EXCEPT !.lot = l, !.qty = q, !.proposed_rate = p,
                             !.customer = c])
  /\ UNCHANGED <<inward, operating, exc, rev, grant, edit>>

\* apply_rate_rules, no policy for the lot: fail closed.
RateRulesUnresolved(d) ==
  /\ deal[d].status = "Proposed"
  /\ Save(d, [deal[d] EXCEPT !.status = "Approval Required",
                             !.approved_rate = NoRate, !.banded = FALSE])
  /\ exc' = [exc EXCEPT ![d] = Opened(@, "RATE_POLICY_MISSING")]
  /\ UNCHANGED <<inward, operating, rev, grant, edit>>

\* apply_rate_rules, in band and in stock.
RateRulesApprove(d) ==
  /\ deal[d].status = "Proposed"
  /\ deal[d].proposed_rate \in FairRates
  /\ Resolvable
  /\ Available(d, deal[d].lot, deal[d].qty)
  /\ Save(d, [deal[d] EXCEPT !.status = "Auto Approved", !.banded = TRUE,
                             !.approved_rate = deal[d].proposed_rate])
  /\ exc' = [exc EXCEPT ![d] = BuyerFlagged(@, deal[d])]
  /\ UNCHANGED <<inward, operating, rev, grant, edit>>

\* apply_rate_rules, in band but short of stock, or out of band.
RateRulesRefer(d) ==
  /\ deal[d].status = "Proposed"
  /\ Save(d, [deal[d] EXCEPT !.status = "Approval Required", !.banded = TRUE,
                             !.approved_rate = NoRate])
  /\ \/ /\ deal[d].proposed_rate \in FairRates
        /\ Resolvable
        /\ ~Available(d, deal[d].lot, deal[d].qty)
        /\ exc' = [exc EXCEPT ![d] = Opened(@, "STOCK_SHORTFALL")]
     \/ /\ deal[d].proposed_rate \notin FairRates
        /\ exc' = [exc EXCEPT ![d] = Opened(@, "RATE_FLOOR_BREACH")]
  /\ UNCHANGED <<inward, operating, rev, grant, edit>>

-----------------------------------------------------------------------------
(* approvals.decide and deals.accept_counter.                              *)

BreachOpen(d) == exc[d]["RATE_FLOOR_BREACH"] \in OpenStatuses

Approve(d, rate, decision) ==
  LET short == ~Available(d, deal[d].lot, deal[d].qty)
      e == IF short THEN Opened(exc[d], "OVERSELL_OVERRIDE") ELSE exc[d]
  IN
  /\ deal[d].status = "Approval Required"
  /\ Resolvable
  /\ short => decision = "OVERSELL_OVERRIDE"
  /\ Save(d, [deal[d] EXCEPT
       !.status = "Approved", !.approved_rate = rate,
       !.decision = decision,
       !.decision_rate = rate, !.breach_linked = BreachOpen(d) /\ ~short])
  /\ exc' = [exc EXCEPT ![d] =
       BreachMoved(BuyerFlagged(e, deal[d]), FALSE, Settlement(deal[d], rate))]
  /\ UNCHANGED <<inward, operating, rev, grant, edit>>

Counter(d, rate) ==
  /\ deal[d].status = "Approval Required"
  /\ Save(d, [deal[d] EXCEPT
       !.status = "Countered", !.approved_rate = NoRate,
       !.decision = "COUNTER", !.decision_rate = rate,
       !.breach_linked = BreachOpen(d)])
  /\ exc' = [exc EXCEPT ![d] = BreachMoved(@, FALSE, "In Progress")]
  /\ UNCHANGED <<inward, operating, rev, grant, edit>>

Reject(d) ==
  /\ deal[d].status = "Approval Required"
  /\ Save(d, [deal[d] EXCEPT
       !.status = "Rejected", !.decision = "REJECT",
       !.breach_linked = BreachOpen(d)])
  /\ exc' = [exc EXCEPT ![d] = BreachMoved(@, FALSE, "Resolved")]
  /\ UNCHANGED <<inward, operating, rev, grant, edit>>

\* Mutant: the counter is accepted at the rate first proposed.
CounterRateProposed(d) == deal[d].proposed_rate

\* The rate of the COUNTER approval the deal links to.
CounterRate(d) == deal[d].decision_rate

AcceptCounter(d) ==
  LET rate == CounterRate(d) IN
  /\ deal[d].status = "Countered"
  /\ Resolvable
  /\ Available(d, deal[d].lot, deal[d].qty)
  /\ Save(d, [deal[d] EXCEPT !.status = "Approved", !.approved_rate = rate])
  /\ exc' = [exc EXCEPT ![d] =
       BreachMoved(BuyerFlagged(@, deal[d]), deal[d].breach_linked,
                   Settlement(deal[d], rate))]
  /\ UNCHANGED <<inward, operating, rev, grant, edit>>

-----------------------------------------------------------------------------
(* Legacy dispatch.                                                        *)

AdvanceToOutwardPending(d) ==
  /\ deal[d].status \in {"Approved", "Auto Approved"}
  /\ deal[d].dispatched = 0
  /\ Save(d, [deal[d] EXCEPT !.status = "Outward Pending"])
  /\ UNCHANGED <<inward, operating, exc, rev, grant, edit>>

\* Dispatched quantities of the deals now on lot l.
DispatchedOn(l) == [d \in Deals |->
  IF deal[d].lot = l THEN deal[d].dispatched ELSE 0]

Shipped(l) == Total(Deals, DispatchedOn(l), MaxQty)

\* Mutant: the other deals of the lot are forgotten.
WithinPhysicalAlone(d, q) == q <= inward[deal[d].lot]

\* The lot's dispatches, with q for deal d, stay within its inward.
WithinPhysical(d, q) ==
  LET l == deal[d].lot IN
  q + Total(Deals \ {d}, DispatchedOn(l), MaxQty) <= inward[l]

RecordDispatch(d, q) ==
  /\ deal[d].status \in {"Outward Pending", "Partially Dispatched"}
  /\ deal[d].dispatched < q /\ q <= deal[d].qty
  /\ WithinPhysical(d, q)
  /\ Save(d, [deal[d] EXCEPT
       !.dispatched = q,
       !.status = IF q < deal[d].qty THEN "Partially Dispatched"
                  ELSE "Dispatched"])
  /\ UNCHANGED <<inward, operating, exc, rev, grant, edit>>

-----------------------------------------------------------------------------
(* Requests that read, then write.                                         *)

Begin(w, op, d, row, r, g) ==
  /\ txn[w] = None
  /\ txn' = [txn EXCEPT ![w] = [op |-> op, deal |-> d, seen |-> row,
                                rev |-> r, grant |-> g, stale |-> FALSE]]
  /\ UNCHANGED <<deal, inward, operating, exc, rev, grant, edit>>

\* Mutant: the last writer wins.
UnmodifiedOrNot(w) == txn[w].stale \in BOOLEAN

\* The row the request read is still the row in the table.
Unmodified(w) == ~txn[w].stale

\* Write the row the request holds, and end the request.
SaveAndClose(w, row) ==
  /\ deal' = [deal EXCEPT ![txn[w].deal] = row]
  /\ txn' = [Outdated(txn[w].deal) EXCEPT ![w] = None]

BeginCancel(w, d) ==
  /\ deal[d].status \notin {"Absent", "Cancelled"}
  /\ Begin(w, "cancel", d, deal[d], None, None)

CommitCancel(w) ==
  /\ txn[w] # None /\ txn[w].op = "cancel"
  /\ Unmodified(w)
  /\ txn[w].seen.status \in Cancellable
  /\ SaveAndClose(w, [txn[w].seen EXCEPT !.status = "Cancelled"])
  /\ UNCHANGED <<inward, operating, exc, rev, grant, edit>>

\* A request that fails is rolled back: nothing it did remains.
Rollback(w) ==
  /\ txn[w] # None
  /\ txn' = [txn EXCEPT ![w] = None]
  /\ UNCHANGED <<deal, inward, operating, exc, rev, grant, edit>>

\* A lot row has one name and one lot_no, so the deal's lot stands for both.
FieldOf(row, f) ==
  CASE f = "qty" -> row.qty
    [] f \in {"lot_no", "container_lot"} -> row.lot
    [] f = "approved_rate" -> row.approved_rate
    [] f = "customer" -> row.customer
    [] OTHER -> None

Input(f) ==
  CASE f = "qty" -> Quantities
    [] f \in {"lot_no", "container_lot"} -> Lots
    [] f = "approved_rate" -> Rates
    [] f = "customer" -> Parties
    [] OTHER -> {None}

\* Material revisions of a locked deal need evidence when they are asked for.
RequestRevision(r, d, f, v, evidenced) ==
  /\ rev[r].status = "Absent"
  /\ deal[d].status # "Absent"
  /\ f \in MaterialFields /\ deal[d].status \in Locked => evidenced
  /\ rev' = [rev EXCEPT ![r] =
       [status |-> "Pending", deal |-> d, field |-> f,
        old |-> FieldOf(deal[d], f), new |-> v,
        evidenced |-> evidenced, ref |-> None]]
  /\ UNCHANGED <<deal, inward, operating, exc, grant, txn, edit>>

\* create_revision_approval reads the revision, inserts the approval and
\* writes approval_reference with db.set_value, whatever the row says by then.
BeginMint(w, r) ==
  /\ rev[r].status = "Pending"
  /\ Begin(w, "mint", None, None, r, None)

CommitMint(w, g) ==
  /\ txn[w] # None /\ txn[w].op = "mint"
  /\ grant[g].rev = None
  /\ grant' = [grant EXCEPT ![g].rev = txn[w].rev]
  /\ rev' = [rev EXCEPT ![txn[w].rev].ref = g]
  /\ txn' = [txn EXCEPT ![w] = None]
  /\ UNCHANGED <<deal, inward, operating, exc, edit>>

\* Mutant: an approval of any revision will do.
UsableAnywhere(g, r) ==
  /\ grant[g].rev # None
  /\ ~grant[g].consumed

\* The approval g is bound to revision r, unused, and not used elsewhere.
Usable(g, r) ==
  /\ grant[g].rev = r
  /\ ~grant[g].consumed
  /\ \A s \in Revisions \ {r} : ~(rev[s].status = "Applied" /\ rev[s].ref = g)

\* apply_revision up to the ATS check: status, approval, stale old value and
\* evidence, all read from the request's snapshot.
BeginApply(w, r, g) ==
  LET d == rev[r].deal
      f == rev[r].field
  IN
  /\ rev[r].status = "Pending"
  /\ IF f \in MaterialFields
     THEN /\ g \in Grants /\ Usable(g, r)
          /\ FieldOf(deal[d], f) = rev[r].old
          /\ deal[d].status \in Locked => rev[r].evidenced
     ELSE g = rev[r].ref \/ (g \in Grants /\ grant[g].rev # None)
  /\ Begin(w, "apply", d, deal[d], r, g)

\* deal.set and the deal's validate, which derives container_lot from lot_no
\* again; item and count_size touch nothing the model keeps.
Revised(row, f, v) ==
  CASE f = "qty" -> [row EXCEPT !.qty = v]
    [] f = "lot_no" -> [row EXCEPT !.lot = v]
    [] f = "approved_rate" -> [row EXCEPT !.approved_rate = v]
    [] f = "customer" -> [row EXCEPT !.customer = v]
    [] OTHER -> row

\* Mutant: moving a deal to another lot takes no stock.
RestockQtyOnly == {"qty"}

\* Fields whose revision is checked against the stock.
RestockFields == {"qty", "lot_no", "container_lot"}

\* apply_revision from the ATS check to the commit.
CommitApply(w) ==
  LET t == txn[w]
      f == rev[t.rev].field
      row == Revised(t.seen, f, rev[t.rev].new)
  IN
  /\ t # None /\ t.op = "apply"
  /\ Unmodified(w)
  /\ f \in RestockFields =>
       Resolvable /\ Available(t.deal, row.lot, row.qty)
  /\ ValidRow(row)
  /\ SaveAndClose(w, row)
  /\ rev' = [rev EXCEPT ![t.rev].status = "Applied", ![t.rev].ref = t.grant]
  /\ grant' = IF f \in MaterialFields
              THEN [grant EXCEPT ![t.grant].consumed = TRUE] ELSE grant
  /\ exc' = IF f = "customer" /\ row.customer # NoCustomer
               /\ exc[t.deal]["BUYER_UNRESOLVED"] \in OpenStatuses
            THEN [exc EXCEPT ![t.deal]["BUYER_UNRESOLVED"] = "Resolved"]
            ELSE exc
  /\ UNCHANGED <<inward, operating, edit>>

-----------------------------------------------------------------------------
(* The container row: inward edits and the operating fact.                 *)

\* A save of the Container may have taken its snapshot before it locks.
BeginEdit ==
  /\ edit = None
  /\ edit' = [l \in Lots |-> Sold(l)]
  /\ UNCHANGED <<deal, inward, operating, exc, rev, grant, txn>>

\* _validate_inward_vs_approved_sold, against the approved_sold it reads.  The
\* container totals are the sums over its lots, so they follow.
CoversSold(inw, sold) == \A l \in Lots : sold[l] <= inw[l]

EditInward(l, q) ==
  LET inw == [inward EXCEPT ![l] = q] IN
  /\ CoversSold(inw, IF edit = None THEN [k \in Lots |-> Sold(k)] ELSE edit)
  /\ inward' = inw
  /\ edit' = None
  /\ UNCHANGED <<deal, operating, exc, rev, grant, txn>>

\* The quantity assertion service activates another operating inward.
OperatingChanged(o) ==
  /\ operating' = o
  /\ UNCHANGED <<deal, inward, exc, rev, grant, txn, edit>>

\* A user closes an exception on Desk.
DeskResolve(d, t, s) ==
  /\ exc[d][t] \in OpenStatuses
  /\ exc' = [exc EXCEPT ![d][t] = s]
  /\ UNCHANGED <<deal, inward, operating, rev, grant, txn, edit>>

-----------------------------------------------------------------------------

BlankDeal == [status |-> "Absent", lot |-> CHOOSE l \in Lots : TRUE, qty |-> 0,
              dispatched |-> 0, proposed_rate |-> NoRate,
              approved_rate |-> NoRate, banded |-> FALSE,
              customer |-> NoCustomer, decision |-> "None",
              decision_rate |-> NoRate, breach_linked |-> FALSE]

BlankRev == [status |-> "Absent", deal |-> None,
             field |-> "item", old |-> None, new |-> None,
             evidenced |-> FALSE, ref |-> None]

Init ==
  /\ deal = [d \in Deals |-> BlankDeal]
  /\ inward = FirstInward
  /\ operating = NoFact
  /\ exc = [d \in Deals |-> [t \in ExcTypes |-> "None"]]
  /\ rev = [r \in Revisions |-> BlankRev]
  /\ grant = [g \in Grants |-> [rev |-> None, consumed |-> FALSE]]
  /\ txn = [w \in Workers |-> None]
  /\ edit = None

DealStep(d) ==
  \/ \E l \in Lots, q \in Quantities, p \in Rates, c \in Parties :
       Create(d, l, q, p, c) \/ EditProposed(d, l, q, p, c)
  \/ RateRulesUnresolved(d)
  \/ RateRulesApprove(d)
  \/ RateRulesRefer(d)
  \/ \E p \in Rates, x \in Decisions \ {"COUNTER", "REJECT"} : Approve(d, p, x)
  \/ "COUNTER" \in Decisions /\ \E p \in Rates : Counter(d, p)
  \/ "REJECT" \in Decisions /\ Reject(d)
  \/ AcceptCounter(d)
  \/ AdvanceToOutwardPending(d)
  \/ \E q \in 1..MaxQty : RecordDispatch(d, q)
  \/ \E t \in DeskResolves, s \in {"Resolved", "Waived"} : DeskResolve(d, t, s)
  \/ \E r \in Revisions, f \in RevisedFields, e \in BOOLEAN :
       \E v \in Input(f) : RequestRevision(r, d, f, v, e)

RequestStep(w) ==
  \/ \E d \in Deals : BeginCancel(w, d)
  \/ CommitCancel(w)
  \/ \E r \in Revisions : BeginMint(w, r)
  \/ \E g \in Grants : CommitMint(w, g)
  \/ \E r \in Revisions, g \in Grants \cup {None} : BeginApply(w, r, g)
  \/ CommitApply(w)
  \/ Rollback(w)

ContainerStep ==
  \/ BeginEdit
  \/ \E l \in Lots, q \in InwardQuantities : EditInward(l, q)
  \/ \E o \in OperatingFacts : OperatingChanged(o)

Next ==
  \/ \E d \in Deals : DealStep(d)
  \/ \E w \in Workers : RequestStep(w)
  \/ ContainerStep

Spec == Init /\ [][Next]_vars

-----------------------------------------------------------------------------
(* Properties.                                                             *)

\* Every row is well typed, and no deal has shipped more than its quantity,
\* whichever of record_dispatch and apply_revision came last.
TypeOK ==
  /\ deal \in [Deals -> DealRow]
  /\ \A d \in Deals : deal[d].dispatched <= deal[d].qty
  /\ inward \in [Lots -> 0..MaxQty]
  /\ operating \in Nat \cup {NoFact, Unresolved}
  /\ exc \in [Deals -> [ExcTypes -> ExcStatuses]]
  /\ rev \in [Revisions -> RevRow]
  /\ \A r \in Revisions : rev[r].status # "Absent" => rev[r].deal \in Deals
  /\ grant \in [Grants -> GrantRow]
  /\ txn \in [Workers -> TxnRow \cup {None}]
  /\ edit \in [Lots -> Nat] \cup {None}

\* D10 says the deals of a lot never claim more than its inward unless an
\* OVERSELL_OVERRIDE exception is on record.  The code does not keep this: a
\* partly dispatched deal claims only what it still has to ship
\* (commercial_qty_for_ats), and all of it again once it is dispatched.
NoSilentOversell ==
  (\A d \in Deals : exc[d]["OVERSELL_OVERRIDE"] = "None")
     => \A l \in Lots : Sold(l) <= inward[l]

\* D10 says what left a lot never exceeds what came into it.  The code does not
\* keep this: apply_revision moves a deal that has shipped to another lot after
\* a look at what is for sale there, and none at what left it.
PhysicalCeiling == \A l \in Lots : Shipped(l) <= inward[l]

\* F-H1 says a container save cannot lower an inward below what is sold.  The
\* save sums the deals with a plain read, from a snapshot that may be older
\* than the sale.
InwardCoversSold ==
  [][\A l \in Lots : inward'[l] < inward[l] => Sold(l) <= inward'[l]]_vars

\* Statuses in which the buyer is still owed what has not been dispatched.
Committed == {"Auto Approved", "Approved", "Outward Pending",
              "Partially Dispatched", "Dispatched"}

\* What the deals of lot l, or of every lot, have still to ship.
Unshipped(row) == row.qty - row.dispatched
OwedOn(l) == [d \in Deals |->
  IF deal[d].status \in Committed /\ deal[d].lot = l
  THEN Unshipped(deal[d]) ELSE 0]
OwedAnyLot == [d \in Deals |->
  IF deal[d].status \in Committed THEN Unshipped(deal[d]) ELSE 0]
Owed(l) == Total(Deals, OwedOn(l), MaxQty)
Covered(l) == Owed(l) <= inward[l]

\* An approver took the shortage of lot l upon himself, on record.
Overridden(l) ==
  \E d \in Deals :
    /\ deal[d].status = "Approval Required" /\ deal[d].lot = l
    /\ deal'[d].status = "Approved" /\ deal'[d].decision = "OVERSELL_OVERRIDE"
    /\ exc'[d]["OVERSELL_OVERRIDE"] = "Open"

\* What the code keeps of D10 and F-H1, part dispatches, lot moves and
\* snapshot saves included.  A step after which a lot owes its buyers more
\* is taken while the operating quantity is resolved, and leaves the lot and
\* the container with stock for all they owe, or an override on record.  An
\* inward edit leaves the lot covered unless the save read before it locked.
SoldFromStock ==
  [][\A l \in Lots :
       /\ Owed(l)' > Owed(l) =>
            /\ Resolvable
            /\ \/ Covered(l)' /\ Total(Deals, OwedAnyLot, MaxQty)' <= Capacity'
               \/ Overridden(l)
       /\ inward'[l] < inward[l] => Covered(l)' \/ edit # None]_vars

\* A deal of lot l is partly dispatched: available_to_sell and
\* approved_sold then overlook what it shipped.
PartlyShipped(l) ==
  \E d \in Deals : deal[d].lot = l /\ deal[d].status = "Partially Dispatched"

Lowered(l) == inward'[l] < inward[l]
MovedOnto(l) ==
  \E d \in Deals :
    deal[d].lot # l /\ deal'[d].lot = l /\ deal[d].dispatched > 0

\* What the code keeps of the physical ceiling of D10: a lot that ships
\* within its inward goes on doing so, through dispatches of every deal of the
\* lot, cancellations, revisions and edits.  Only an inward edit or a deal that
\* moves in with its dispatches takes it over the ceiling, and those only while
\* another deal of the lot is partly dispatched, or the edit read a snapshot.
CeilingKept ==
  [][\A l \in Lots : Shipped(l) <= inward[l] =>
       \/ (Shipped(l) <= inward[l])'
       \/ Lowered(l) /\ (PartlyShipped(l) \/ edit # None)
       \/ MovedOnto(l) /\ PartlyShipped(l)]_vars

\* What has been dispatched stays dispatched: no request that read the deal
\* before record_dispatch writes it back, and no dispatched deal is cancelled.
DispatchedStands ==
  [][\A d \in Deals :
       /\ deal'[d].dispatched >= deal[d].dispatched
       /\ deal[d].status = "Dispatched" => deal'[d].status = "Dispatched"]_vars

\* An applied material revision consumed one approval, bound to it, and no
\* other approval of it can be consumed: apply_revision replayed, or run by
\* two approvers with two approvals, applies once.
GrantUsedOnce ==
  /\ \A g \in Grants : grant[g].consumed =>
       grant[g].rev # None /\ rev[grant[g].rev].status = "Applied"
  /\ \A r \in Revisions :
       rev[r].status = "Applied" /\ rev[r].field \in MaterialFields =>
         \E g \in Grants : grant[g].rev = r /\ grant[g].consumed
  /\ \A g, h \in Grants :
       grant[g].consumed /\ grant[h].consumed /\ grant[g].rev = grant[h].rev
         => g = h

\* A material revision changes the deal from the very value its approver was
\* shown, and under evidence if the deal is locked by then, whatever other
\* requests did between the check and the save.
AppliedAsApproved ==
  [][\A r \in Revisions :
       LET d == rev[r].deal IN
       /\ rev[r].field \in MaterialFields
       /\ rev[r].status = "Pending" /\ rev'[r].status = "Applied"
       => /\ FieldOf(deal[d], rev[r].field) = rev[r].old
          /\ deal[d].status \in Locked => rev[r].evidenced]_vars

\* A rate on a deal always has an authority: the stored band, the decision
\* the deal links to, or an applied revision.
RateAuthority ==
  \A d \in Deals : deal[d].approved_rate # NoRate =>
    \/ /\ deal[d].banded /\ deal[d].proposed_rate \in FairRates
       /\ deal[d].approved_rate = deal[d].proposed_rate
    \/ /\ deal[d].decision # "None"
       /\ deal[d].approved_rate = deal[d].decision_rate
    \/ \E r \in Revisions :
         /\ rev[r].status = "Applied" /\ rev[r].deal = d
         /\ rev[r].field = "approved_rate"
         /\ rev[r].new = deal[d].approved_rate

\* A decided deal leaves no rate breach behind: settled once the deal is
\* sold or refused, in progress while a counter is out.
BreachSettled ==
  \A d \in Deals :
    /\ deal[d].status \in (Reserving \ {"Cancelled"}) \cup {"Rejected"} =>
         ~BreachOpen(d)
    /\ deal[d].status = "Countered" => exc[d]["RATE_FLOOR_BREACH"] # "Open"

\* An open BUYER_UNRESOLVED exception means the buyer is unresolved: mapping
\* the customer closes it however it interleaves with the approval.
OpenBuyerUnresolved ==
  \A d \in Deals :
    exc[d]["BUYER_UNRESOLVED"] \in OpenStatuses => deal[d].customer = NoCustomer

\* The exceptions of a deal follow its decisions and revisions, whichever
\* request read the deal first (_transition_rate_floor_breach, apply_revision).
ExceptionsSettled == BreachSettled /\ OpenBuyerUnresolved

=============================================================================
