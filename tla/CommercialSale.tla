--------------------------- MODULE CommercialSale ---------------------------
(***************************************************************************)
(* The commercial sales of one Container: commercial_service.py.  A sale   *)
(* names its buyer by a raw alias; an approved Party Alias Mapping turns   *)
(* the alias into a Customer.  Sale Outward Allocations link a sale to the *)
(* physical outwards that carried it.                                      *)
(*                                                                         *)
(* Every mutator locks the Company, then the Container, then the documents *)
(* it reads, so each is one action.  All sales of the model carry the same *)
(* alias text and have one line, as has an outward; lines with an unknown  *)
(* quantity, an unmapped lot or a price bucket take no allocation.  Who    *)
(* acts, source event keys, evidence and prices are left out.              *)
(***************************************************************************)
EXTENDS Totals

CONSTANTS
  Sales, Mappings, Links,   \* sales, alias mappings, sale outward allocations
  Outwards,                 \* physical outwards
  Customers,
  MaxQty,                   \* bound on every quantity
  SaleQty, OutwardQty,      \* quantity of the line of each sale and outward
  Quantities,               \* quantities users allocate
  NoCustomer, None

ASSUME CommercialAssumption ==
  /\ IsFiniteSet(Links)
  /\ MaxQty \in Nat
  /\ SaleQty \in [Sales -> 1..MaxQty] /\ OutwardQty \in [Outwards -> 1..MaxQty]
  /\ Quantities \subseteq 1..MaxQty
  /\ NoCustomer \notin Customers
  /\ None \notin Sales \cup Mappings \cup Links \cup Outwards

VARIABLES
  sale, mapping, link,   \* the rows of the three doctypes
  outward,               \* each outward: DRAFT, POSTED, REVERSED
  exc,                   \* open exceptions of each sale
  unsold,                \* OUTWARD_WITHOUT_SALE of each outward
  paid                   \* whose money is allocated to each sale

vars == <<sale, mapping, link, outward, exc, unsold, paid>>

-----------------------------------------------------------------------------
(* Rows.                                                                   *)

SaleStatuses == {"ABSENT", "DRAFT", "REVIEW_PENDING", "VERIFIED", "APPROVED",
                 "REJECTED", "SUPERSEDED"}
Closed == {"REJECTED", "SUPERSEDED"}

Movements == {"UNKNOWN", "NOT_EVIDENCED", "PARTIAL", "EVIDENCED"}

SaleExceptions == {"ALIAS_UNRESOLVED", "ALIAS_CONFLICT", "SALE_WITHOUT_OUTWARD"}

\* remapped is alias_resolution = SUPERSEDED.
SaleDoc == [status: SaleStatuses, mapping: Mappings \cup {None},
            customer: Customers \cup {NoCustomer}, remapped: BOOLEAN,
            movement: Movements, supersedes: Sales \cup {None},
            successor: Sales \cup {None}]

MappingDoc == [status: {"ABSENT", "PROPOSED", "VERIFIED", "APPROVED",
                        "REJECTED", "SUPERSEDED"},
               customer: Customers \cup {NoCustomer},
               supersedes: Mappings \cup {None}]

LinkDoc == [state: {"ABSENT", "PROPOSED", "APPROVED", "REJECTED", "REVERSED"},
            verified: BOOLEAN, sale: Sales \cup {None},
            outward: Outwards \cup {None}, qty: 0..MaxQty,
            supersedes: Links \cup {None}, successor: Links \cup {None}]

-----------------------------------------------------------------------------
(* What the allocations say.                                               *)

\* _outward_active: posted and not reversed.
OutwardActive(o) == outward[o] = "POSTED"

ApprovedLinks(k) == {x \in Links : k[x].state = "APPROVED"}
LinksOf(k, s) == {x \in ApprovedLinks(k) : k[x].sale = s}
LinksTo(k, o) == {x \in ApprovedLinks(k) : k[x].outward = o}
ActiveLinksOf(k, s) == {x \in LinksOf(k, s) : OutwardActive(k[x].outward)}

QtyOf(S, k) == Total(S, [x \in S |-> k[x].qty], MaxQty)

\* _effective_movement.
Effective(k, s) ==
  IF ActiveLinksOf(k, s) = {} THEN "NOT_EVIDENCED"
  ELSE IF QtyOf(ActiveLinksOf(k, s), k) = SaleQty[s] THEN "EVIDENCED"
  ELSE "PARTIAL"

\* _pending_sale_conditions, of sale s with row r.
Conditions(r, k, s) ==
  IF r.status \in Closed THEN {}
  ELSE {e \in SaleExceptions :
          \/ e = "ALIAS_UNRESOLVED" /\ r.mapping = None
          \/ e = "ALIAS_CONFLICT" /\ r.remapped
          \/ e = "SALE_WITHOUT_OUTWARD" /\ Effective(k, s) = "NOT_EVIDENCED"}

\* Every save of the sales in S refreshes their exceptions.
SaveSales(t, k, S) ==
  /\ sale' = t
  /\ exc' = [s \in Sales |-> IF s \in S THEN Conditions(t[s], k, s) ELSE exc[s]]

\* _refresh_outward_exception of the outwards in O, with links k.
Refreshed(k, O) ==
  [o \in Outwards |->
     IF o \notin O THEN unsold[o]
     ELSE IF OutwardActive(o) /\ QtyOf(LinksTo(k, o), k) # OutwardQty[o]
          THEN "Open"
     ELSE IF unsold[o] = "None" THEN "None" ELSE "Resolved"]

-----------------------------------------------------------------------------
(* Sales.                                                                  *)

\* The approved mapping of the alias (_approved_alias), if there is one.
Current == {m \in Mappings : mapping[m].status = "APPROVED"}

\* Sale row r with mapping m attached.
Mapped(r, m) ==
  [r EXCEPT !.mapping = m, !.customer = mapping[m].customer, !.remapped = FALSE]

\* create_sale, supersede_sale and propose_rate: the prior sale, if any, is
\* not looked at.
CreateSale(s, prior) ==
  LET r == [status |-> "DRAFT", mapping |-> None, customer |-> NoCustomer,
            remapped |-> FALSE, movement |-> "UNKNOWN", supersedes |-> prior,
            successor |-> None]
  IN
  /\ sale[s].status = "ABSENT"
  /\ prior # None => sale[prior].status # "ABSENT"
  /\ \E n \in IF Current = {} THEN {r} ELSE {Mapped(r, m) : m \in Current} :
       SaveSales([sale EXCEPT ![s] = n], link, {s})
  /\ UNCHANGED <<mapping, link, outward, unsold, paid>>

SubmitSale(s) ==
  /\ sale[s].status = "DRAFT"
  /\ SaveSales([sale EXCEPT ![s].status = "REVIEW_PENDING"], link, {s})
  /\ UNCHANGED <<mapping, link, outward, unsold, paid>>

\* Mutant: the sale keeps the mapping it was created with.
VerifiedAsCreated(s) == {[sale[s] EXCEPT !.status = "VERIFIED"]}

\* The row of s once verified: the current mapping is attached.
VerifiedRows(s) ==
  LET r == [sale[s] EXCEPT !.status = "VERIFIED"] IN
  IF Current = {} THEN {r} ELSE {Mapped(r, m) : m \in Current}

VerifySale(s) ==
  /\ sale[s].status = "REVIEW_PENDING"
  /\ \E r \in VerifiedRows(s) : SaveSales([sale EXCEPT ![s] = r], link, {s})
  /\ UNCHANGED <<mapping, link, outward, unsold, paid>>

\* Mutant: the money of a corrected sale stays where it is.
CompensatedNever(S) == paid

\* compensate_for_sale_change of the sales in S.
Compensated(S) == [s \in Sales |-> IF s \in S THEN NoCustomer ELSE paid[s]]

\* Mutant: only allocations whose outward still stands are reversed.
ReversedActiveOnly(S) ==
  [x \in Links |-> IF x \in ApprovedLinks(link) /\ link[x].sale \in S
                      /\ OutwardActive(link[x].outward)
                   THEN [link[x] EXCEPT !.state = "REVERSED", !.successor = None]
                   ELSE link[x]]

\* _reverse_sale_allocations of the sales in S.
ReversedOf(S) ==
  [x \in Links |-> IF x \in ApprovedLinks(link) /\ link[x].sale \in S
                   THEN [link[x] EXCEPT !.state = "REVERSED", !.successor = None]
                   ELSE link[x]]

\* Mutant: the outwards are not looked at again.
FreedByNothing(S) == {}

\* The outwards those allocations were made from.
FreedBy(S) == {link[x].outward : x \in {y \in ApprovedLinks(link) : link[y].sale \in S}}

\* Row r of s, whose allocations are reversed.
Unmoved(s, r) ==
  IF LinksOf(link, s) = {} THEN r ELSE [r EXCEPT !.movement = "NOT_EVIDENCED"]

\* Mutant: a correction is approved though its predecessor already has one.
CorrectableAgain(p) == sale[p].status \in SaleStatuses

\* Sale p has not been corrected yet.
Correctable(p) == sale[p].successor = None /\ sale[p].status # "SUPERSEDED"

ApproveSale(s) ==
  LET p == sale[s].supersedes
      P == {p} \cap Sales
  IN
  /\ sale[s].status = "VERIFIED"
  /\ p # None => Correctable(p)
  /\ link' = ReversedOf(P)
  /\ paid' = Compensated(P)
  /\ unsold' = Refreshed(link', FreedBy(P))
  /\ SaveSales([t \in Sales |->
       IF t = s THEN [sale[s] EXCEPT !.status = "APPROVED"]
       ELSE IF t = p THEN [Unmoved(p, sale[p]) EXCEPT !.status = "SUPERSEDED",
                                                      !.successor = s]
       ELSE sale[t]], link', {s} \cup P)
  /\ UNCHANGED <<mapping, outward>>

RejectSale(s) ==
  /\ sale[s].status \in {"REVIEW_PENDING", "VERIFIED"}
  /\ SaveSales([sale EXCEPT ![s].status = "REJECTED"], link, {s})
  /\ UNCHANGED <<mapping, link, outward, unsold, paid>>

-----------------------------------------------------------------------------
(* Alias mappings.                                                         *)

ProposeMapping(m, c, prior) ==
  /\ mapping[m].status = "ABSENT"
  /\ prior # None => prior \in Current
  /\ mapping' = [mapping EXCEPT ![m] = [status |-> "PROPOSED", customer |-> c,
                                        supersedes |-> prior]]
  /\ UNCHANGED <<sale, link, outward, exc, unsold, paid>>

VerifyMapping(m) ==
  /\ mapping[m].status = "PROPOSED"
  /\ mapping' = [mapping EXCEPT ![m].status = "VERIFIED"]
  /\ UNCHANGED <<sale, link, outward, exc, unsold, paid>>

RejectMapping(m) ==
  /\ mapping[m].status \in {"PROPOSED", "VERIFIED"}
  /\ mapping' = [mapping EXCEPT ![m].status = "REJECTED"]
  /\ UNCHANGED <<sale, link, outward, exc, unsold, paid>>

\* Mutant: closed sales are reopened too.
HoldersClosedToo(m) == {s \in Sales : sale[s].mapping = m}

\* The sales a remap of m reopens, whatever their status short of closed.
Holders(m) ==
  {s \in Sales : sale[s].mapping = m /\ sale[s].status \notin Closed}

\* approve_alias_mapping of the first mapping of the alias: sales without a
\* mapping get this one, approved sales too.
ApproveFirstMapping(m) ==
  LET S == {s \in Sales : sale[s].mapping = None
                            /\ sale[s].status \notin Closed \cup {"ABSENT"}}
  IN
  /\ mapping[m].status = "VERIFIED" /\ mapping[m].supersedes = None
  /\ Current = {}
  /\ mapping' = [mapping EXCEPT ![m].status = "APPROVED"]
  /\ SaveSales([s \in Sales |-> IF s \in S THEN Mapped(sale[s], m) ELSE sale[s]],
               link, S)
  /\ UNCHANGED <<link, outward, unsold, paid>>

\* approve_alias_mapping of a remap: the prior mapping is superseded and its
\* sales go back to review, with their allocations and payments reversed.
ApproveRemap(m) ==
  LET p == mapping[m].supersedes
      S == Holders(p)
  IN
  /\ mapping[m].status = "VERIFIED"
  /\ p \in Current
  /\ mapping' = [mapping EXCEPT ![m].status = "APPROVED",
                                ![p].status = "SUPERSEDED"]
  /\ link' = ReversedOf(S)
  /\ paid' = Compensated(S)
  /\ unsold' = Refreshed(link', FreedBy(S))
  /\ SaveSales([s \in Sales |->
       IF s \in S THEN [Unmoved(s, sale[s]) EXCEPT
                          !.status = "REVIEW_PENDING", !.mapping = None,
                          !.customer = NoCustomer, !.remapped = TRUE]
       ELSE sale[s]], link', S)
  /\ UNCHANGED outward

-----------------------------------------------------------------------------
(* Sale outward allocations.                                               *)

\* _allocation_shape: the sale is approved and the outward stands.
Shape(s, o) == sale[s].status = "APPROVED" /\ OutwardActive(o)

ProposeLink(x, s, o, n, prior) ==
  /\ link[x].state = "ABSENT"
  /\ Shape(s, o)
  /\ prior # None =>
       /\ link[prior].sale = s /\ link[prior].outward = o
       /\ link[prior].state \in {"APPROVED", "REVERSED"}
       /\ link[prior].successor = None
  /\ link' = [link EXCEPT ![x] =
       [state |-> "PROPOSED", verified |-> FALSE, sale |-> s, outward |-> o,
        qty |-> n, supersedes |-> prior, successor |-> None]]
  /\ UNCHANGED <<sale, mapping, outward, exc, unsold, paid>>

VerifyLink(x) ==
  /\ link[x].state = "PROPOSED" /\ ~link[x].verified
  /\ Shape(link[x].sale, link[x].outward)
  /\ link' = [link EXCEPT ![x].verified = TRUE]
  /\ UNCHANGED <<sale, mapping, outward, exc, unsold, paid>>

RejectLink(x) ==
  /\ link[x].state = "PROPOSED"
  /\ link' = [link EXCEPT ![x].state = "REJECTED"]
  /\ UNCHANGED <<sale, mapping, outward, exc, unsold, paid>>

\* Mutant: the sale's side of the cap alone.
WithinSaleOnly(s, o, p, n) ==
  QtyOf(ActiveLinksOf(link, s) \ {p}, link) + n <= SaleQty[s]

\* Allocations of the sale and of the outward beside p, and n, fit both lines;
\* allocations of reversed outwards do not count.
WithinLines(s, o, p, n) ==
  /\ QtyOf(ActiveLinksOf(link, s) \ {p}, link) + n <= SaleQty[s]
  /\ QtyOf(LinksTo(link, o) \ {p}, link) + n <= OutwardQty[o]

\* active_allocation_key: no other allocation of the pair is approved.
PairFree(s, o, p) == LinksOf(link, s) \cap LinksTo(link, o) \subseteq {p}

\* Mutant: the predecessor is not reversed.
ReplacedInPlace(r, x) == [r EXCEPT !.successor = x]

\* The row of the allocation that x replaces.
Replaced(r, x) == [r EXCEPT !.state = "REVERSED", !.successor = x]

\* _movement: the sale is saved when its movement changed, its exceptions are
\* refreshed in any case.
Moved(k, S) ==
  SaveSales([s \in Sales |-> IF s \in S
               THEN [sale[s] EXCEPT !.movement = Effective(k, s)] ELSE sale[s]],
            k, S)

ApproveLink(x) ==
  LET s == link[x].sale
      o == link[x].outward
      p == link[x].supersedes
  IN
  /\ link[x].state = "PROPOSED" /\ link[x].verified
  /\ Shape(s, o)
  /\ p # None => /\ link[p].state \in {"APPROVED", "REVERSED"}
                 /\ link[p].successor = None
  /\ WithinLines(s, o, p, link[x].qty)
  /\ PairFree(s, o, p)
  /\ link' = [y \in Links |->
       IF y = x THEN [link[x] EXCEPT !.state = "APPROVED"]
       ELSE IF y = p THEN Replaced(link[p], x)
       ELSE link[y]]
  /\ Moved(link', {s})
  /\ unsold' = Refreshed(link', {o})
  /\ UNCHANGED <<mapping, outward, paid>>

ReverseLink(x) ==
  /\ link[x].state = "APPROVED"
  /\ link' = [link EXCEPT ![x].state = "REVERSED", ![x].successor = None]
  /\ Moved(link', {link[x].sale})
  /\ unsold' = Refreshed(link', {link[x].outward})
  /\ UNCHANGED <<mapping, outward, paid>>

\* refresh_commercial_reconciliation.
Refresh ==
  /\ Moved(link, {s \in Sales : sale[s].status # "ABSENT"})
  /\ unsold' = Refreshed(link, {o \in Outwards : outward[o] # "DRAFT"})
  /\ UNCHANGED <<mapping, link, outward, paid>>

-----------------------------------------------------------------------------
(* What the other components do meanwhile.                                 *)

\* The outwards as OutwardLedger moves them.
Physical == INSTANCE OutwardRegister

\* post_outward.
Post(o) ==
  /\ Physical!Posts(o)
  /\ UNCHANGED <<sale, mapping, link, exc, unsold, paid>>

\* post_outward of a reversal: nothing of the sales is touched.
ReverseOutward(o) ==
  /\ Physical!Reverses(o)
  /\ UNCHANGED <<sale, mapping, link, exc, unsold, paid>>

\* A payment or discount of the sale is approved, for the sale's customer.
Pay(s) ==
  /\ sale[s].status = "APPROVED" /\ sale[s].customer # NoCustomer
  /\ paid' = [paid EXCEPT ![s] = sale[s].customer]
  /\ UNCHANGED <<sale, mapping, link, outward, exc, unsold>>

-----------------------------------------------------------------------------

Init ==
  /\ sale = [s \in Sales |->
       [status |-> "ABSENT", mapping |-> None, customer |-> NoCustomer,
        remapped |-> FALSE, movement |-> "UNKNOWN", supersedes |-> None,
        successor |-> None]]
  /\ mapping = [m \in Mappings |->
       [status |-> "ABSENT", customer |-> NoCustomer, supersedes |-> None]]
  /\ link = [x \in Links |->
       [state |-> "ABSENT", verified |-> FALSE, sale |-> None,
        outward |-> None, qty |-> 0, supersedes |-> None, successor |-> None]]
  /\ Physical!OutwardInit
  /\ exc = [s \in Sales |-> {}]
  /\ unsold = [o \in Outwards |-> "None"]
  /\ paid = [s \in Sales |-> NoCustomer]

SaleStep(s) ==
  \/ \E prior \in Sales \cup {None} : CreateSale(s, prior)
  \/ SubmitSale(s)
  \/ VerifySale(s)
  \/ ApproveSale(s)
  \/ RejectSale(s)
  \/ Pay(s)

MappingStep(m) ==
  \/ \E c \in Customers, prior \in Mappings \cup {None} : ProposeMapping(m, c, prior)
  \/ VerifyMapping(m)
  \/ RejectMapping(m)
  \/ ApproveFirstMapping(m)
  \/ ApproveRemap(m)

LinkStep(x) ==
  \/ \E s \in Sales, o \in Outwards, n \in Quantities, prior \in Links \cup {None} :
       ProposeLink(x, s, o, n, prior)
  \/ VerifyLink(x)
  \/ RejectLink(x)
  \/ ApproveLink(x)
  \/ ReverseLink(x)

Next ==
  \/ \E s \in Sales : SaleStep(s)
  \/ \E m \in Mappings : MappingStep(m)
  \/ \E x \in Links : LinkStep(x)
  \/ \E o \in Outwards : Post(o) \/ ReverseOutward(o)
  \/ Refresh

Spec == Init /\ [][Next]_vars

-----------------------------------------------------------------------------
(* Properties.                                                             *)

\* Rows are well typed, and a replaced allocation no longer counts.
TypeOK ==
  /\ sale \in [Sales -> SaleDoc]
  /\ mapping \in [Mappings -> MappingDoc]
  /\ link \in [Links -> LinkDoc]
  /\ outward \in [Outwards -> {"DRAFT", "POSTED", "REVERSED"}]
  /\ exc \in [Sales -> SUBSET SaleExceptions]
  /\ unsold \in [Outwards -> {"None", "Open", "Resolved"}]
  /\ paid \in [Sales -> Customers \cup {NoCustomer}]
  /\ \A x \in Links : link[x].successor # None => link[x].state = "REVERSED"

\* ALLOCATION_OVERDRAW: what is allocated of a sale from outwards that stand
\* fits its line, what is allocated of an outward fits its line, and a sale and
\* an outward share one approved allocation, through replacements, reversals on
\* either side and corrections.
AllocationCaps ==
  /\ \A s \in Sales : QtyOf(ActiveLinksOf(link, s), link) <= SaleQty[s]
  /\ \A o \in Outwards : QtyOf(LinksTo(link, o), link) <= OutwardQty[o]
  /\ \A x, y \in ApprovedLinks(link) :
       link[x].sale = link[y].sale /\ link[x].outward = link[y].outward => x = y

\* No allocation survives the correction or the remap of its sale, not even
\* one whose outward was reversed before.
AllocatedWhileSold ==
  \A x \in ApprovedLinks(link) : sale[link[x].sale].status = "APPROVED"

\* Money stands only on an approved sale and for its present customer: every
\* operation that takes either away compensates in the same transaction.
PaidWhereOwed ==
  \A s \in Sales : paid[s] # NoCustomer =>
    sale[s].status = "APPROVED" /\ sale[s].customer = paid[s]

\* A sale past verification names the customer of the mapping in force,
\* whenever the mapping was approved or replaced.
AliasAgreed ==
  \A s \in Sales : sale[s].status \in {"VERIFIED", "APPROVED"} =>
    \/ Current = {} /\ sale[s].mapping = None
    \/ /\ sale[s].mapping \in Current
       /\ sale[s].customer = mapping[sale[s].mapping].customer

\* The stored movement of a sale and its open exceptions are those its
\* allocations call for; only the reversal of one of its outwards, which saves
\* no sale, can leave them behind, until the next refresh.
SaleFlagsCurrent ==
  \A s \in Sales :
    LET behind == \E x \in LinksOf(link, s) : outward[link[x].outward] = "REVERSED"
        needed == Conditions(sale[s], link, s)
    IN sale[s].status # "ABSENT" =>
         /\ exc[s] \subseteq needed
         /\ needed \ exc[s] \subseteq
              IF behind THEN {"SALE_WITHOUT_OUTWARD"} ELSE {}
         /\ \/ behind
            \/ sale[s].movement = Effective(link, s)
            \/ sale[s].movement = "UNKNOWN" /\ LinksOf(link, s) = {}

\* An outward is never left marked as sold while part of it is not: once an
\* allocation has been approved or reversed, OUTWARD_WITHOUT_SALE is open
\* exactly while the standing outward is not fully allocated.
UnsoldFlagged ==
  \A o \in Outwards : outward[o] = "POSTED" =>
    CASE unsold[o] = "Open" -> QtyOf(LinksTo(link, o), link) # OutwardQty[o]
      [] unsold[o] = "Resolved" -> QtyOf(LinksTo(link, o), link) = OutwardQty[o]
      [] OTHER -> LinksTo(link, o) = {}
                    \/ QtyOf(LinksTo(link, o), link) = OutwardQty[o]

\* The exceptions stored on either side follow the allocations, whichever
\* document was saved last (the exceptions every save of a sale refreshes,
\* _refresh_outward_exception).
FlagsCurrent == SaleFlagsCurrent /\ UnsoldFlagged

\* An approved correction closed its predecessor, and of rival corrections of
\* one sale at most one is approved.
SoleCorrection ==
  \A s, t \in Sales :
    sale[s].status = "APPROVED" /\ sale[t].status = "APPROVED" /\ s # t =>
      /\ sale[s].supersedes # t
      /\ sale[s].supersedes # None => sale[s].supersedes # sale[t].supersedes

\* What the register shows of a sale.
RegisterRow(r) ==
  [status |-> CASE r.status = "APPROVED" -> "APPROVED"
                [] r.status \in Closed -> "CLOSED"
                [] OTHER -> "OPEN",
   customer |-> r.customer]

registered == [s \in Sales |-> RegisterRow(sale[s])]

Register == INSTANCE SaleRegister WITH sale <- registered

\* The register MoneyLedger is built on: towards the money, sales make no
\* other moves than these, however many a remap moves at once.
KeepsRegister == Register!RegisterSpec

-----------------------------------------------------------------------------
(* What the repository says and the code does not keep.                    *)

\* A correction of a correction stands for the sale first corrected too.
OneSaleStands ==
  \A s, t \in Sales :
    /\ sale[s].supersedes = t /\ sale[t].supersedes # None
    /\ sale[s].status = "APPROVED"
    => sale[sale[t].supersedes].status # "APPROVED"

=============================================================================
