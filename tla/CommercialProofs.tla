-------------------------- MODULE CommercialProofs --------------------------
(***************************************************************************)
(* What CommercialSale guarantees for every set of sales, mappings, links, *)
(* outwards and customers: its invariants, and that the sales behave as    *)
(* the register the money ledger is built on.                              *)
(*                                                                         *)
(* The actions fall into four kinds: one sale before approval is saved     *)
(* (SaleStep1), a mapping short of approval changes (MappingStep1), the    *)
(* three approvals that touch several tables (ApproveSale,                 *)
(* ApproveFirstMapping, ApproveRemap), and steps that leave the sales as   *)
(* they are but for the movement (MovementStep).                           *)
(*                                                                         *)
(* The caps and the stored flags rest on a second invariant over the       *)
(* first: what a step may do to one sale (FlagStep), to one outward        *)
(* (UnsoldStep) and to the rows of allocations (RowsMove) is stated once,  *)
(* and each action is shown to do no more.                                 *)
(***************************************************************************)
EXTENDS CommercialSale, TotalsProofs

\* A mapping that exists names a customer.
MappedTo ==
  \A m \in Mappings : mapping[m].status # "ABSENT" => mapping[m].customer \in Customers

\* An allocation that exists names a sale and an outward.
LinkedTo ==
  \A x \in Links : link[x].state # "ABSENT" =>
    link[x].sale \in Sales /\ link[x].outward \in Outwards

\* A sale has a customer only through a mapping.
CustomerMapped ==
  \A s \in Sales : sale[s].mapping = None => sale[s].customer = NoCustomer

OneCurrent == \A m, n \in Current : m = n

\* A sale has a mapping only once the alias has one in force, for ever.
Attached == \A s \in Sales : sale[s].mapping # None => Current # {}

\* No sale corrects itself.
CorrectsAnother == \A s \in Sales : sale[s].supersedes # s

\* The approval of a correction closed its predecessor for good.
Chained ==
  \A s \in Sales :
    sale[s].status = "APPROVED" /\ sale[s].supersedes # None =>
      /\ sale[sale[s].supersedes].status = "SUPERSEDED"
      /\ sale[sale[s].supersedes].successor = s

IInv ==
  /\ TypeOK
  /\ MappedTo /\ LinkedTo /\ CustomerMapped /\ Attached
  /\ OneCurrent /\ CorrectsAnother /\ Chained
  /\ AliasAgreed /\ AllocatedWhileSold /\ PaidWhereOwed

-----------------------------------------------------------------------------
(* Kinds of step.                                                          *)

\* Row n agrees with the mapping in force.
Agrees(n) ==
  \/ Current = {} /\ n.mapping = None
  \/ n.mapping \in Current /\ n.customer = mapping[n.mapping].customer

\* One sale that is open is saved with row n, which is not approved.
SaleStep1(s, n) ==
  /\ sale[s].status \notin Closed \cup {"APPROVED"}
  /\ n \in SaleDoc
  /\ n.status \notin {"APPROVED", "SUPERSEDED"}
  /\ n.status = "VERIFIED" => Agrees(n)
  /\ n.status = "REJECTED" => n.customer = sale[s].customer
  /\ n.mapping = None => n.customer = NoCustomer
  /\ n.mapping # None => Current # {}
  /\ n.supersedes # s
  /\ sale' = [sale EXCEPT ![s] = n]
  /\ exc' \in [Sales -> SUBSET SaleExceptions]
  /\ UNCHANGED <<mapping, link, outward, unsold, paid>>

\* Mappings that are in force stay as they are, and no other comes into force.
MappingStep1 ==
  /\ mapping' \in [Mappings -> MappingDoc]
  /\ MappedTo'
  /\ Current' = Current
  /\ \A m \in Current : mapping'[m] = mapping[m]
  /\ UNCHANGED <<sale, link, outward, exc, unsold, paid>>

\* Sales change but for their movement; approved allocations are old ones or
\* allocations of approved sales.
MovementStep ==
  /\ sale' \in [Sales -> SaleDoc]
  /\ \A s \in Sales : \E v \in Movements : sale'[s] = [sale[s] EXCEPT !.movement = v]
  /\ link' \in [Links -> LinkDoc]
  /\ \A x \in Links : link'[x].successor # None => link'[x].state = "REVERSED"
  /\ LinkedTo'
  /\ \A x \in Links : link'[x].state = "APPROVED" =>
       sale[link'[x].sale].status = "APPROVED"
  /\ outward' \in [Outwards -> {"DRAFT", "POSTED", "REVERSED"}]
  /\ exc' \in [Sales -> SUBSET SaleExceptions]
  /\ unsold' \in [Outwards -> {"None", "Open", "Resolved"}]
  /\ paid' \in [Sales -> Customers \cup {NoCustomer}]
  /\ \A s \in Sales : paid'[s] # paid[s] =>
       sale[s].status = "APPROVED" /\ sale[s].customer = paid'[s]
  /\ UNCHANGED mapping

-----------------------------------------------------------------------------
(* Types of what the actions compute.                                      *)

LEMMA SaveTyped ==
  ASSUME exc \in [Sales -> SUBSET SaleExceptions],
         NEW t, NEW k, NEW S, SaveSales(t, k, S)
  PROVE  sale' = t /\ exc' \in [Sales -> SUBSET SaleExceptions]
<1>1. \A s \in Sales : Conditions(t[s], k, s) \in SUBSET SaleExceptions
  BY DEF Conditions
<1>2. QED
  BY <1>1 DEF SaveSales

LEMMA EffectiveTyped ==
  ASSUME NEW k, NEW s
  PROVE  Effective(k, s) \in Movements
BY DEF Effective, Movements

LEMMA RefreshedTyped ==
  ASSUME unsold \in [Outwards -> {"None", "Open", "Resolved"}], NEW k, NEW O
  PROVE  Refreshed(k, O) \in [Outwards -> {"None", "Open", "Resolved"}]
BY DEF Refreshed

LEMMA MappedTyped ==
  ASSUME TypeOK, NEW r \in SaleDoc, NEW m \in Mappings
  PROVE  /\ Mapped(r, m) \in SaleDoc
         /\ Mapped(r, m).status = r.status
         /\ Mapped(r, m).mapping = m
         /\ Mapped(r, m).customer = mapping[m].customer
         /\ Mapped(r, m).supersedes = r.supersedes
         /\ Mapped(r, m).successor = r.successor
BY DEF Mapped, TypeOK, SaleDoc, MappingDoc

LEMMA ReversedTyped ==
  ASSUME TypeOK, LinkedTo, NEW S
  PROVE  /\ ReversedOf(S) \in [Links -> LinkDoc]
         /\ \A x \in Links : /\ ReversedOf(S)[x].successor # None =>
                                  ReversedOf(S)[x].state = "REVERSED"
                             /\ ReversedOf(S)[x].sale = link[x].sale
                             /\ ReversedOf(S)[x].outward = link[x].outward
                             /\ link[x].state = "ABSENT" => ReversedOf(S)[x].state = "ABSENT"
                             /\ ReversedOf(S)[x].state = "APPROVED" =>
                                  link[x].state = "APPROVED" /\ link[x].sale \notin S
<1> SUFFICES ASSUME NEW x \in Links
             PROVE  /\ ReversedOf(S)[x] \in LinkDoc
                    /\ ReversedOf(S)[x].successor # None =>
                         ReversedOf(S)[x].state = "REVERSED"
                    /\ ReversedOf(S)[x].sale = link[x].sale
                    /\ ReversedOf(S)[x].outward = link[x].outward
                    /\ link[x].state = "ABSENT" => ReversedOf(S)[x].state = "ABSENT"
                    /\ ReversedOf(S)[x].state = "APPROVED" =>
                         link[x].state = "APPROVED" /\ link[x].sale \notin S
  BY DEF ReversedOf
<1>1. link[x] \in LinkDoc /\ (link[x].successor # None => link[x].state = "REVERSED")
  BY DEF TypeOK
<1>2. CASE link[x].state = "APPROVED" /\ link[x].sale \in S
  <2>1. ReversedOf(S)[x] = [link[x] EXCEPT !.state = "REVERSED", !.successor = None]
    BY <1>2 DEF ReversedOf, ApprovedLinks
  <2>2. QED
    BY <1>1, <1>2, <2>1 DEF LinkDoc
<1>3. CASE ~(link[x].state = "APPROVED" /\ link[x].sale \in S)
  <2>1. ReversedOf(S)[x] = link[x]
    BY <1>3 DEF ReversedOf, ApprovedLinks
  <2>2. QED
    BY <1>1, <1>3, <2>1
<1>4. QED
  BY <1>2, <1>3

LEMMA CompensatedTyped ==
  ASSUME TypeOK, NEW S
  PROVE  /\ Compensated(S) \in [Sales -> Customers \cup {NoCustomer}]
         /\ \A s \in Sales : Compensated(S)[s] # NoCustomer =>
              Compensated(S)[s] = paid[s] /\ s \notin S
BY DEF Compensated, TypeOK

-----------------------------------------------------------------------------
(* Each kind of step keeps the invariant.                                  *)

LEMMA SaleStepKeeps ==
  ASSUME CommercialAssumption, IInv, NEW s \in Sales, NEW n, SaleStep1(s, n)
  PROVE  IInv'
<1> USE DEF IInv
<1>1. \A t \in Sales : sale'[t] = IF t = s THEN n ELSE sale[t]
  BY DEF SaleStep1, TypeOK
<1>2. UNCHANGED <<mapping, link, outward, unsold, paid>> /\ Current' = Current
  BY DEF SaleStep1, Current
<1>3. TypeOK'
  BY <1>2 DEF TypeOK, SaleStep1
<1>4. MappedTo' /\ LinkedTo' /\ OneCurrent'
  BY <1>2 DEF MappedTo, LinkedTo, OneCurrent
<1>5. CustomerMapped' /\ CorrectsAnother' /\ Attached'
  BY <1>1, <1>2 DEF CustomerMapped, CorrectsAnother, Attached, SaleStep1
<1>6. Chained'
  <2> SUFFICES ASSUME NEW t \in Sales, sale'[t].status = "APPROVED",
                      sale'[t].supersedes # None
               PROVE  /\ sale'[sale'[t].supersedes].status = "SUPERSEDED"
                      /\ sale'[sale'[t].supersedes].successor = t
    BY DEF Chained
  <2>1. t # s /\ sale'[t] = sale[t]
    BY <1>1 DEF SaleStep1
  <2>2. sale[t].supersedes \in Sales
    BY <2>1 DEF TypeOK, SaleDoc
  <2>3. sale[sale[t].supersedes].status = "SUPERSEDED"
        /\ sale[sale[t].supersedes].successor = t
    BY <2>1 DEF Chained
  <2>4. sale[t].supersedes # s
    BY <2>3 DEF SaleStep1, Closed
  <2>5. QED
    BY <1>1, <2>1, <2>2, <2>3, <2>4
<1>7. AliasAgreed'
  BY <1>1, <1>2 DEF AliasAgreed, SaleStep1, Agrees
<1>8. AllocatedWhileSold'
  <2> SUFFICES ASSUME NEW x \in ApprovedLinks(link)
               PROVE  sale'[link[x].sale].status = "APPROVED"
    BY <1>2 DEF AllocatedWhileSold
  <2>1. link[x].sale \in Sales /\ sale[link[x].sale].status = "APPROVED"
    BY DEF AllocatedWhileSold, LinkedTo, ApprovedLinks
  <2>2. QED
    BY <1>1, <2>1 DEF SaleStep1
<1>9. PaidWhereOwed'
  BY <1>1, <1>2 DEF PaidWhereOwed, SaleStep1
<1>10. QED
  BY <1>3, <1>4, <1>5, <1>6, <1>7, <1>8, <1>9

LEMMA MappingStepKeeps ==
  ASSUME IInv, MappingStep1
  PROVE  IInv'
<1> USE DEF IInv
<1>1. UNCHANGED <<sale, link, outward, exc, unsold, paid>>
  BY DEF MappingStep1
<1>2. TypeOK'
  BY <1>1 DEF TypeOK, MappingStep1
<1>3. /\ MappedTo' /\ LinkedTo' /\ CustomerMapped' /\ OneCurrent'
      /\ CorrectsAnother' /\ Chained' /\ Attached'
  BY <1>1 DEF MappingStep1, LinkedTo, CustomerMapped, OneCurrent,
              CorrectsAnother, Chained, Attached
<1>4. AliasAgreed'
  BY <1>1 DEF AliasAgreed, MappingStep1
<1>5. AllocatedWhileSold' /\ PaidWhereOwed'
  BY <1>1 DEF AllocatedWhileSold, PaidWhereOwed, ApprovedLinks
<1>6. QED
  BY <1>2, <1>3, <1>4, <1>5

\* A sale that changes but for its movement.
LEMMA MovementRows ==
  ASSUME TypeOK, MovementStep, NEW s \in Sales
  PROVE  /\ sale'[s].status = sale[s].status
         /\ sale'[s].mapping = sale[s].mapping
         /\ sale'[s].customer = sale[s].customer
         /\ sale'[s].supersedes = sale[s].supersedes
         /\ sale'[s].successor = sale[s].successor
BY DEF TypeOK, MovementStep, SaleDoc

LEMMA MovementStepKeeps ==
  ASSUME IInv, MovementStep
  PROVE  IInv'
<1> USE DEF IInv
<1>1. UNCHANGED mapping /\ Current' = Current
  BY DEF MovementStep, Current
<1>2. TypeOK'
  BY <1>1 DEF TypeOK, MovementStep
<1>3. MappedTo' /\ LinkedTo' /\ OneCurrent'
  BY <1>1 DEF MappedTo, MovementStep, OneCurrent
<1>4. CustomerMapped' /\ CorrectsAnother' /\ Attached'
  BY <1>1, MovementRows DEF CustomerMapped, CorrectsAnother, Attached
<1>5. Chained'
  <2> SUFFICES ASSUME NEW t \in Sales, sale'[t].status = "APPROVED",
                      sale'[t].supersedes # None
               PROVE  /\ sale'[sale'[t].supersedes].status = "SUPERSEDED"
                      /\ sale'[sale'[t].supersedes].successor = t
    BY DEF Chained
  <2>1. sale[t].status = "APPROVED" /\ sale[t].supersedes # None
        /\ sale'[t].supersedes = sale[t].supersedes
    BY MovementRows
  <2>2. sale[t].supersedes \in Sales
    BY <2>1 DEF TypeOK, SaleDoc
  <2>3. QED
    BY <2>1, <2>2, MovementRows DEF Chained
<1>6. AliasAgreed'
  BY <1>1, MovementRows DEF AliasAgreed
<1>7. AllocatedWhileSold'
  BY MovementRows DEF AllocatedWhileSold, ApprovedLinks, MovementStep, LinkedTo
<1>8. PaidWhereOwed'
  BY MovementRows DEF PaidWhereOwed, MovementStep
<1>9. QED
  BY <1>2, <1>3, <1>4, <1>5, <1>6, <1>7, <1>8

-----------------------------------------------------------------------------
(* The simple actions are of these kinds.                                  *)

LEMMA CreateSaleKind ==
  ASSUME CommercialAssumption, IInv, NEW s \in Sales,
         NEW prior \in Sales \cup {None}, CreateSale(s, prior)
  PROVE  \E n : SaleStep1(s, n)
<1> USE DEF IInv
<1> DEFINE r == [status |-> "DRAFT", mapping |-> None, customer |-> NoCustomer,
                 remapped |-> FALSE, movement |-> "UNKNOWN", supersedes |-> prior,
                 successor |-> None]
<1>1. r \in SaleDoc
  BY DEF SaleDoc, SaleStatuses, Movements
<1>2. prior # s /\ sale[s].status = "ABSENT"
  BY DEF CreateSale, CommercialAssumption
<1>3. PICK n \in IF Current = {} THEN {r} ELSE {Mapped(r, m) : m \in Current} :
        SaveSales([sale EXCEPT ![s] = n], link, {s})
  BY DEF CreateSale
<1>4. /\ n \in SaleDoc /\ n.status = "DRAFT" /\ n.supersedes = prior
      /\ n.mapping = None => n.customer = NoCustomer
      /\ n.mapping # None => Current # {}
  <2>1. CASE Current = {}
    <3>1. n = r
      BY <1>3, <2>1
    <3>2. r.status = "DRAFT" /\ r.supersedes = prior /\ r.customer = NoCustomer
          /\ r.mapping = None
      OBVIOUS
    <3> HIDE DEF r
    <3>3. QED
      BY <1>1, <3>1, <3>2
  <2>2. CASE Current # {}
    <3>1. PICK m \in Current : n = Mapped(r, m)
      BY <1>3, <2>2
    <3>2. m \in Mappings /\ m # None
      BY DEF Current, CommercialAssumption
    <3>3. r.status = "DRAFT" /\ r.supersedes = prior
      OBVIOUS
    <3> HIDE DEF r
    <3>4. QED
      BY <1>1, <2>2, <3>1, <3>2, <3>3, MappedTyped
  <2>3. QED
    BY <2>1, <2>2
<1>5. sale' = [sale EXCEPT ![s] = n] /\ exc' \in [Sales -> SUBSET SaleExceptions]
  BY <1>3, SaveTyped DEF TypeOK
<1>6. UNCHANGED <<mapping, link, outward, unsold, paid>>
  BY DEF CreateSale
<1>7. QED
  BY <1>2, <1>4, <1>5, <1>6 DEF SaleStep1, Closed

LEMMA SubmitSaleKind ==
  ASSUME IInv, NEW s \in Sales, SubmitSale(s) \/ RejectSale(s)
  PROVE  \E n : SaleStep1(s, n)
<1> USE DEF IInv
<1>1. PICK v \in {"REVIEW_PENDING", "REJECTED"} :
        /\ SaveSales([sale EXCEPT ![s].status = v], link, {s})
        /\ sale[s].status \in {"DRAFT", "REVIEW_PENDING", "VERIFIED"}
        /\ UNCHANGED <<mapping, link, outward, unsold, paid>>
  BY DEF SubmitSale, RejectSale
<1> DEFINE n == [sale[s] EXCEPT !.status = v]
<1>2. sale[s] \in SaleDoc
  BY DEF TypeOK
<1>3. /\ n \in SaleDoc /\ n.status = v /\ n.customer = sale[s].customer
      /\ n.mapping = sale[s].mapping /\ n.supersedes = sale[s].supersedes
  BY <1>2 DEF SaleDoc, SaleStatuses
<1>4. sale' = [sale EXCEPT ![s] = n] /\ exc' \in [Sales -> SUBSET SaleExceptions]
  BY <1>1, SaveTyped DEF TypeOK
<1> HIDE DEF n
<1>5. QED
  BY <1>1, <1>3, <1>4 DEF SaleStep1, Closed, CustomerMapped, CorrectsAnother,
                          Attached

LEMMA VerifySaleKind ==
  ASSUME CommercialAssumption, IInv, NEW s \in Sales, VerifySale(s)
  PROVE  \E n : SaleStep1(s, n)
<1> USE DEF IInv
<1> DEFINE r == [sale[s] EXCEPT !.status = "VERIFIED"]
<1>1. sale[s] \in SaleDoc /\ sale[s].status = "REVIEW_PENDING"
  BY DEF TypeOK, VerifySale
<1>2. /\ r \in SaleDoc /\ r.status = "VERIFIED" /\ r.customer = sale[s].customer
      /\ r.mapping = sale[s].mapping /\ r.supersedes = sale[s].supersedes
  BY <1>1 DEF SaleDoc, SaleStatuses
<1>3. PICK n \in VerifiedRows(s) : SaveSales([sale EXCEPT ![s] = n], link, {s})
  BY DEF VerifySale
<1>4. sale' = [sale EXCEPT ![s] = n] /\ exc' \in [Sales -> SUBSET SaleExceptions]
  BY <1>3, SaveTyped DEF TypeOK
<1>5. UNCHANGED <<mapping, link, outward, unsold, paid>>
  BY DEF VerifySale
<1>6. /\ n \in SaleDoc /\ n.status = "VERIFIED" /\ n.supersedes = sale[s].supersedes
      /\ n.mapping = None => n.customer = NoCustomer
      /\ n.mapping # None => Current # {}
      /\ Agrees(n)
  <2>1. CASE Current = {}
    <3>1. n = r
      BY <1>3, <2>1 DEF VerifiedRows
    <3>2. sale[s].mapping = None /\ sale[s].customer = NoCustomer
      BY <2>1 DEF Attached, CustomerMapped
    <3> HIDE DEF r
    <3>3. QED
      BY <1>2, <2>1, <3>1, <3>2 DEF Agrees
  <2>2. CASE Current # {}
    <3>1. PICK m \in Current : n = Mapped(r, m)
      BY <1>3, <2>2 DEF VerifiedRows
    <3>2. m \in Mappings /\ m # None
      BY DEF Current, CommercialAssumption
    <3> HIDE DEF r
    <3>3. QED
      BY <1>2, <2>2, <3>1, <3>2, MappedTyped DEF Agrees
  <2>3. QED
    BY <2>1, <2>2
<1>7. QED
  BY <1>1, <1>4, <1>5, <1>6 DEF SaleStep1, Closed, CorrectsAnother

LEMMA MappingKind ==
  ASSUME CommercialAssumption, IInv, NEW m \in Mappings,
         \/ \E c \in Customers, prior \in Mappings \cup {None} : ProposeMapping(m, c, prior)
         \/ VerifyMapping(m)
         \/ RejectMapping(m)
  PROVE  MappingStep1
<1> USE DEF IInv
<1>1. mapping[m] \in MappingDoc /\ mapping[m].status \notin {"APPROVED", "SUPERSEDED"}
  BY DEF TypeOK, ProposeMapping, VerifyMapping, RejectMapping
<1>2. PICK n : /\ n \in MappingDoc
               /\ n.status \in {"PROPOSED", "VERIFIED", "REJECTED"}
               /\ n.customer \in Customers
               /\ mapping' = [mapping EXCEPT ![m] = n]
  <2>1. CASE \E c \in Customers, prior \in Mappings \cup {None} : ProposeMapping(m, c, prior)
    <3>1. PICK c \in Customers, prior \in Mappings \cup {None} : ProposeMapping(m, c, prior)
      BY <2>1
    <3>2. [status |-> "PROPOSED", customer |-> c, supersedes |-> prior] \in MappingDoc
      BY DEF MappingDoc
    <3>3. QED
      BY <3>1, <3>2 DEF ProposeMapping
  <2>2. CASE VerifyMapping(m)
    <3>1. [mapping[m] EXCEPT !.status = "VERIFIED"] \in MappingDoc
          /\ mapping[m].customer \in Customers
      BY <1>1, <2>2 DEF MappingDoc, VerifyMapping, MappedTo
    <3>2. mapping' = [mapping EXCEPT ![m] = [mapping[m] EXCEPT !.status = "VERIFIED"]]
      BY <2>2 DEF VerifyMapping
    <3>3. QED
      BY <1>1, <3>1, <3>2 DEF MappingDoc
  <2>3. CASE RejectMapping(m)
    <3>1. [mapping[m] EXCEPT !.status = "REJECTED"] \in MappingDoc
          /\ mapping[m].customer \in Customers
      BY <1>1, <2>3 DEF MappingDoc, RejectMapping, MappedTo
    <3>2. mapping' = [mapping EXCEPT ![m] = [mapping[m] EXCEPT !.status = "REJECTED"]]
      BY <2>3 DEF RejectMapping
    <3>3. QED
      BY <1>1, <3>1, <3>2 DEF MappingDoc
  <2>4. QED
    BY <2>1, <2>2, <2>3
<1>3. UNCHANGED <<sale, link, outward, exc, unsold, paid>>
  BY DEF ProposeMapping, VerifyMapping, RejectMapping
<1>4. \A k \in Mappings : mapping'[k] = IF k = m THEN n ELSE mapping[k]
  BY <1>2 DEF TypeOK
<1>5. mapping' \in [Mappings -> MappingDoc] /\ MappedTo'
  BY <1>2, <1>4 DEF TypeOK, MappedTo
<1>6. Current' = Current
  BY <1>1, <1>2, <1>4 DEF Current
<1>7. \A k \in Current : mapping'[k] = mapping[k]
  BY <1>1, <1>4 DEF Current
<1>8. QED
  BY <1>3, <1>5, <1>6, <1>7 DEF MappingStep1

-----------------------------------------------------------------------------
(* The steps of the allocations and of the other components.               *)

\* Steps that save no sale: allocations short of approval change.
LEMMA LinkOnlyKind ==
  ASSUME CommercialAssumption, IInv, NEW x \in Links, NEW n \in LinkDoc,
         n.state \notin {"ABSENT", "APPROVED"}, n.successor = None,
         n.sale \in Sales, n.outward \in Outwards,
         link' = [link EXCEPT ![x] = n],
         UNCHANGED <<sale, mapping, outward, exc, unsold, paid>>
  PROVE  MovementStep
<1> USE DEF IInv
<1>1. \A y \in Links : link'[y] = IF y = x THEN n ELSE link[y]
  BY DEF TypeOK
<1>2. sale' \in [Sales -> SaleDoc]
      /\ \A s \in Sales : \E v \in Movements : sale'[s] = [sale[s] EXCEPT !.movement = v]
  <2> SUFFICES ASSUME NEW s \in Sales
               PROVE  \E v \in Movements : sale[s] = [sale[s] EXCEPT !.movement = v]
    BY DEF TypeOK
  <2>1. sale[s] \in SaleDoc
    BY DEF TypeOK
  <2>2. sale[s].movement \in Movements
        /\ sale[s] = [sale[s] EXCEPT !.movement = sale[s].movement]
    BY <2>1 DEF SaleDoc
  <2>3. QED
    BY <2>2
<1>3. link' \in [Links -> LinkDoc]
      /\ \A y \in Links : link'[y].successor # None => link'[y].state = "REVERSED"
  BY <1>1 DEF TypeOK
<1>4. LinkedTo'
  BY <1>1 DEF LinkedTo
<1>5. \A y \in Links : link'[y].state = "APPROVED" =>
        sale[link'[y].sale].status = "APPROVED"
  BY <1>1 DEF AllocatedWhileSold, ApprovedLinks
<1>6. QED
  BY <1>2, <1>3, <1>4, <1>5 DEF MovementStep, TypeOK

\* Steps that refresh what is stored about the sales in S.
LEMMA MovedKind ==
  ASSUME IInv, NEW k, NEW S, Moved(k, S)
  PROVE  /\ sale' \in [Sales -> SaleDoc]
         /\ \A s \in Sales : \E v \in Movements : sale'[s] = [sale[s] EXCEPT !.movement = v]
         /\ exc' \in [Sales -> SUBSET SaleExceptions]
<1> USE DEF IInv
<1>1. exc' \in [Sales -> SUBSET SaleExceptions]
      /\ sale' = [s \in Sales |-> IF s \in S
               THEN [sale[s] EXCEPT !.movement = Effective(k, s)] ELSE sale[s]]
  BY SaveTyped DEF TypeOK, Moved
<1>2. ASSUME NEW s \in Sales
      PROVE  sale'[s] \in SaleDoc
             /\ \E v \in Movements : sale'[s] = [sale[s] EXCEPT !.movement = v]
  <2>1. sale[s] \in SaleDoc
    BY DEF TypeOK
  <2>2. sale[s].movement \in Movements
        /\ sale[s] = [sale[s] EXCEPT !.movement = sale[s].movement]
    BY <2>1 DEF SaleDoc
  <2>3. PICK v \in Movements : sale'[s] = [sale[s] EXCEPT !.movement = v]
    BY <1>1, <2>2, EffectiveTyped
  <2>4. QED
    BY <2>1, <2>3 DEF SaleDoc
<1>3. sale' \in [Sales -> SaleDoc]
  BY <1>1, <1>2
<1>4. QED
  BY <1>1, <1>2, <1>3

LEMMA LinkEditKind ==
  ASSUME CommercialAssumption, IInv, NEW x \in Links,
         \/ \E s \in Sales, o \in Outwards, q \in Quantities, prior \in Links \cup {None} :
              ProposeLink(x, s, o, q, prior)
         \/ VerifyLink(x)
         \/ RejectLink(x)
  PROVE  MovementStep
<1> USE DEF IInv
<1>1. CASE \E s \in Sales, o \in Outwards, q \in Quantities, prior \in Links \cup {None} :
             ProposeLink(x, s, o, q, prior)
  <2>1. PICK s \in Sales, o \in Outwards, q \in Quantities, prior \in Links \cup {None} :
          ProposeLink(x, s, o, q, prior)
    BY <1>1
  <2> DEFINE n == [state |-> "PROPOSED", verified |-> FALSE, sale |-> s,
                   outward |-> o, qty |-> q, supersedes |-> prior,
                   successor |-> None]
  <2>2. q \in 0..MaxQty
    BY DEF CommercialAssumption
  <2>3. /\ n \in LinkDoc /\ n.state \notin {"ABSENT", "APPROVED"}
        /\ n.successor = None /\ n.sale \in Sales /\ n.outward \in Outwards
    BY <2>2 DEF LinkDoc
  <2>4. link' = [link EXCEPT ![x] = n]
        /\ UNCHANGED <<sale, mapping, outward, exc, unsold, paid>>
    BY <2>1 DEF ProposeLink
  <2> HIDE DEF n
  <2>5. QED
    BY <2>3, <2>4, LinkOnlyKind
<1>2. CASE VerifyLink(x) \/ RejectLink(x)
  <2> DEFINE n == IF VerifyLink(x) THEN [link[x] EXCEPT !.verified = TRUE]
                  ELSE [link[x] EXCEPT !.state = "REJECTED"]
  <2>1. link[x] \in LinkDoc /\ link[x].state = "PROPOSED" /\ link[x].successor = None
        /\ link[x].sale \in Sales /\ link[x].outward \in Outwards
    BY <1>2 DEF VerifyLink, RejectLink, TypeOK, LinkedTo
  <2>2. /\ n \in LinkDoc /\ n.state \notin {"ABSENT", "APPROVED"}
        /\ n.successor = None /\ n.sale \in Sales /\ n.outward \in Outwards
    BY <2>1 DEF LinkDoc
  <2>3. link' = [link EXCEPT ![x] = n]
    BY <1>2 DEF VerifyLink, RejectLink
  <2>4. UNCHANGED <<sale, mapping, outward, exc, unsold, paid>>
    BY <1>2 DEF VerifyLink, RejectLink
  <2> HIDE DEF n
  <2>5. QED
    BY <2>2, <2>3, <2>4, LinkOnlyKind
<1>3. QED
  BY <1>1, <1>2

LEMMA ApproveLinkKind ==
  ASSUME CommercialAssumption, IInv, NEW x \in Links, ApproveLink(x)
  PROVE  MovementStep
<1> USE DEF IInv
<1> DEFINE s == link[x].sale
           p == link[x].supersedes
<1>1. /\ link[x] \in LinkDoc /\ link[x].state = "PROPOSED" /\ link[x].successor = None
      /\ s \in Sales /\ link[x].outward \in Outwards
      /\ sale[s].status = "APPROVED"
  BY DEF ApproveLink, TypeOK, LinkedTo, Shape
<1>2. link' = [y \in Links |->
       IF y = x THEN [link[x] EXCEPT !.state = "APPROVED"]
       ELSE IF y = p THEN Replaced(link[p], x)
       ELSE link[y]]
  BY DEF ApproveLink
<1>3. ASSUME NEW y \in Links
      PROVE  /\ link'[y] \in LinkDoc
             /\ link'[y].successor # None => link'[y].state = "REVERSED"
             /\ link'[y].state # "ABSENT" =>
                  link'[y].sale \in Sales /\ link'[y].outward \in Outwards
             /\ link'[y].state = "APPROVED" => sale[link'[y].sale].status = "APPROVED"
  <2>1. CASE y = x
    <3>1. link'[y] = [link[x] EXCEPT !.state = "APPROVED"]
      BY <1>2, <2>1
    <3>2. QED
      BY <1>1, <3>1 DEF LinkDoc
  <2>2. CASE y # x /\ y = p
    <3>1. link'[y] = [link[y] EXCEPT !.state = "REVERSED", !.successor = x]
      BY <1>2, <2>2 DEF Replaced
    <3>2. link[y] \in LinkDoc /\ link[y].state \in {"APPROVED", "REVERSED"}
      BY <2>2 DEF ApproveLink, TypeOK, CommercialAssumption
    <3>3. link[y].sale \in Sales /\ link[y].outward \in Outwards
      BY <3>2 DEF LinkedTo
    <3>4. QED
      BY <3>1, <3>2, <3>3 DEF LinkDoc
  <2>3. CASE y # x /\ y # p
    <3>1. link'[y] = link[y]
      BY <1>2, <2>3
    <3>2. QED
      BY <3>1 DEF TypeOK, LinkedTo, AllocatedWhileSold, ApprovedLinks
  <2>4. QED
    BY <2>1, <2>2, <2>3
<1>4. link' \in [Links -> LinkDoc]
  BY <1>2, <1>3
<1>5. LinkedTo'
  BY <1>3 DEF LinkedTo
<1>6. unsold' \in [Outwards -> {"None", "Open", "Resolved"}]
  BY RefreshedTyped DEF ApproveLink, TypeOK
<1>7. /\ sale' \in [Sales -> SaleDoc]
      /\ \A t \in Sales : \E v \in Movements : sale'[t] = [sale[t] EXCEPT !.movement = v]
      /\ exc' \in [Sales -> SUBSET SaleExceptions]
  BY MovedKind DEF ApproveLink
<1>8. UNCHANGED <<mapping, outward, paid>>
  BY DEF ApproveLink
<1>9. QED
  BY <1>3, <1>4, <1>5, <1>6, <1>7, <1>8 DEF MovementStep, TypeOK

LEMMA ReverseLinkKind ==
  ASSUME CommercialAssumption, IInv, NEW x \in Links, ReverseLink(x)
  PROVE  MovementStep
<1> USE DEF IInv
<1> DEFINE n == [link[x] EXCEPT !.state = "REVERSED", !.successor = None]
<1>1. link[x] \in LinkDoc /\ link[x].sale \in Sales /\ link[x].outward \in Outwards
  BY DEF ReverseLink, TypeOK, LinkedTo
<1>2. /\ n \in LinkDoc /\ n.state = "REVERSED"
      /\ n.sale \in Sales /\ n.outward \in Outwards
  BY <1>1 DEF LinkDoc
<1>3. link' = [link EXCEPT ![x] = n]
  BY <1>1 DEF ReverseLink, LinkDoc
<1> HIDE DEF n
<1>4. \A y \in Links : link'[y] = IF y = x THEN n ELSE link[y]
  BY <1>3 DEF TypeOK
<1>5. link' \in [Links -> LinkDoc]
      /\ \A y \in Links : link'[y].successor # None => link'[y].state = "REVERSED"
  BY <1>2, <1>3, <1>4 DEF TypeOK
<1>6. LinkedTo'
  BY <1>2, <1>4 DEF LinkedTo
<1>7. \A y \in Links : link'[y].state = "APPROVED" =>
        sale[link'[y].sale].status = "APPROVED"
  BY <1>2, <1>4 DEF AllocatedWhileSold, ApprovedLinks
<1>8. unsold' \in [Outwards -> {"None", "Open", "Resolved"}]
  BY RefreshedTyped DEF ReverseLink, TypeOK
<1>9. /\ sale' \in [Sales -> SaleDoc]
      /\ \A t \in Sales : \E v \in Movements : sale'[t] = [sale[t] EXCEPT !.movement = v]
      /\ exc' \in [Sales -> SUBSET SaleExceptions]
  BY MovedKind DEF ReverseLink
<1>10. UNCHANGED <<mapping, outward, paid>>
  BY DEF ReverseLink
<1>11. QED
  BY <1>5, <1>6, <1>7, <1>8, <1>9, <1>10 DEF MovementStep, TypeOK

LEMMA RefreshKind ==
  ASSUME IInv, Refresh
  PROVE  MovementStep
<1> USE DEF IInv
<1>1. UNCHANGED <<mapping, link, outward, paid>>
  BY DEF Refresh
<1>2. unsold' \in [Outwards -> {"None", "Open", "Resolved"}]
  BY RefreshedTyped DEF Refresh, TypeOK
<1>3. /\ sale' \in [Sales -> SaleDoc]
      /\ \A t \in Sales : \E v \in Movements : sale'[t] = [sale[t] EXCEPT !.movement = v]
      /\ exc' \in [Sales -> SUBSET SaleExceptions]
  BY MovedKind DEF Refresh
<1>4. LinkedTo' /\ \A y \in Links : link'[y].state = "APPROVED" =>
                     sale[link'[y].sale].status = "APPROVED"
  BY <1>1 DEF LinkedTo, AllocatedWhileSold, ApprovedLinks
<1>5. QED
  BY <1>1, <1>2, <1>3, <1>4 DEF MovementStep, TypeOK

LEMMA OutsideKind ==
  ASSUME IInv,
         \/ \E o \in Outwards : Post(o) \/ ReverseOutward(o)
         \/ \E s \in Sales : Pay(s)
  PROVE  MovementStep
<1> USE DEF IInv
<1>1. UNCHANGED <<sale, mapping, link, exc, unsold>>
  BY DEF Post, ReverseOutward, Pay, Physical!Posts, Physical!Reverses
<1>2. sale' \in [Sales -> SaleDoc]
      /\ \A s \in Sales : \E v \in Movements : sale'[s] = [sale[s] EXCEPT !.movement = v]
  <2> SUFFICES ASSUME NEW s \in Sales
               PROVE  \E v \in Movements : sale[s] = [sale[s] EXCEPT !.movement = v]
    BY <1>1 DEF TypeOK
  <2>1. sale[s] \in SaleDoc
    BY DEF TypeOK
  <2>2. sale[s].movement \in Movements
        /\ sale[s] = [sale[s] EXCEPT !.movement = sale[s].movement]
    BY <2>1 DEF SaleDoc
  <2>3. QED
    BY <2>2
<1>3. LinkedTo' /\ \A y \in Links : link'[y].state = "APPROVED" =>
                     sale[link'[y].sale].status = "APPROVED"
  BY <1>1 DEF LinkedTo, AllocatedWhileSold, ApprovedLinks
<1>4. outward' \in [Outwards -> {"DRAFT", "POSTED", "REVERSED"}]
  BY DEF Post, ReverseOutward, Pay, TypeOK, Physical!Posts, Physical!Reverses
<1>5. /\ paid' \in [Sales -> Customers \cup {NoCustomer}]
      /\ \A s \in Sales : paid'[s] # paid[s] =>
           sale[s].status = "APPROVED" /\ sale[s].customer = paid'[s]
  <2>1. CASE \E o \in Outwards : Post(o) \/ ReverseOutward(o)
    BY <2>1 DEF Post, ReverseOutward, TypeOK, Physical!Posts, Physical!Reverses
  <2>2. CASE \E s \in Sales : Pay(s)
    <3>1. PICK s \in Sales : Pay(s)
      BY <2>2
    <3>2. sale[s].customer \in Customers \cup {NoCustomer}
      BY DEF TypeOK, SaleDoc
    <3>3. QED
      BY <3>1, <3>2 DEF Pay, TypeOK
  <2>3. QED
    BY <2>1, <2>2
<1>6. QED
  BY <1>1, <1>2, <1>3, <1>4, <1>5 DEF MovementStep, TypeOK

-----------------------------------------------------------------------------
(* The approvals that touch several tables.                                *)

LEMMA UnmovedTyped ==
  ASSUME NEW s, NEW r \in SaleDoc
  PROVE  /\ Unmoved(s, r) \in SaleDoc
         /\ Unmoved(s, r).status = r.status
         /\ Unmoved(s, r).mapping = r.mapping
         /\ Unmoved(s, r).customer = r.customer
         /\ Unmoved(s, r).supersedes = r.supersedes
         /\ Unmoved(s, r).successor = r.successor
BY DEF Unmoved, SaleDoc, Movements

\* The rows after s is approved.
LEMMA ApproveSaleRows ==
  ASSUME CommercialAssumption, IInv, NEW s \in Sales, ApproveSale(s), NEW t \in Sales
  PROVE  /\ sale'[t] \in SaleDoc
         /\ sale'[t].mapping = sale[t].mapping
         /\ sale'[t].customer = sale[t].customer
         /\ sale'[t].supersedes = sale[t].supersedes
         /\ t = s => sale'[t].status = "APPROVED"
         /\ t = sale[s].supersedes =>
              t # s /\ sale'[t].status = "SUPERSEDED" /\ sale'[t].successor = s
         /\ t \notin {s, sale[s].supersedes} => sale'[t] = sale[t]
<1> USE DEF IInv
<1> DEFINE p == sale[s].supersedes
<1>1. sale' = [u \in Sales |->
       IF u = s THEN [sale[s] EXCEPT !.status = "APPROVED"]
       ELSE IF u = p THEN [Unmoved(p, sale[p]) EXCEPT !.status = "SUPERSEDED",
                                                      !.successor = s]
       ELSE sale[u]]
  BY SaveTyped DEF ApproveSale, TypeOK
<1>2. sale[t] \in SaleDoc /\ p # s
  BY DEF TypeOK, CorrectsAnother
<1>3. CASE t = s
  <2>1. sale'[t] = [sale[t] EXCEPT !.status = "APPROVED"]
    BY <1>1, <1>3
  <2>2. QED
    BY <1>2, <1>3, <2>1 DEF SaleDoc, SaleStatuses
<1>4. CASE t = p
  <2> DEFINE r == Unmoved(t, sale[t])
  <2>1. /\ r \in SaleDoc /\ r.mapping = sale[t].mapping
        /\ r.customer = sale[t].customer /\ r.supersedes = sale[t].supersedes
    BY <1>2, UnmovedTyped
  <2>2. sale'[t] = [r EXCEPT !.status = "SUPERSEDED", !.successor = s]
    BY <1>1, <1>2, <1>4
  <2> HIDE DEF r
  <2>3. /\ sale'[t] \in SaleDoc /\ sale'[t].mapping = r.mapping
        /\ sale'[t].customer = r.customer /\ sale'[t].supersedes = r.supersedes
        /\ sale'[t].status = "SUPERSEDED" /\ sale'[t].successor = s
    BY <2>1, <2>2 DEF SaleDoc, SaleStatuses
  <2>4. QED
    BY <1>2, <1>4, <2>1, <2>3
<1>5. CASE t \notin {s, p}
  BY <1>1, <1>2, <1>5
<1>6. QED
  BY <1>3, <1>4, <1>5

LEMMA ApproveSaleKeeps ==
  ASSUME CommercialAssumption, IInv, NEW s \in Sales, ApproveSale(s)
  PROVE  IInv'
<1> USE DEF IInv
<1> DEFINE p == sale[s].supersedes
           P == {p} \cap Sales
<1>1. /\ link' = ReversedOf(P) /\ paid' = Compensated(P)
      /\ UNCHANGED <<mapping, outward>> /\ Current' = Current
      /\ sale[s].status = "VERIFIED" /\ (p # None => Correctable(p))
  BY DEF ApproveSale, Current
<1>2. TypeOK'
  <2>1. sale' \in [Sales -> SaleDoc] /\ exc' \in [Sales -> SUBSET SaleExceptions]
    <3>1. exc' \in [Sales -> SUBSET SaleExceptions] /\ DOMAIN sale' = Sales
          /\ sale' = [t \in Sales |-> sale'[t]]
      BY SaveTyped DEF ApproveSale, TypeOK
    <3>2. QED
      BY <3>1, ApproveSaleRows
  <2>2. unsold' \in [Outwards -> {"None", "Open", "Resolved"}]
    BY RefreshedTyped DEF ApproveSale, TypeOK
  <2>3. QED
    BY <1>1, <2>1, <2>2, ReversedTyped, CompensatedTyped DEF TypeOK
<1>3. MappedTo' /\ OneCurrent'
  BY <1>1 DEF MappedTo, OneCurrent
<1>4. LinkedTo'
  <2> SUFFICES ASSUME NEW x \in Links, link'[x].state # "ABSENT"
               PROVE  link'[x].sale \in Sales /\ link'[x].outward \in Outwards
    BY DEF LinkedTo
  <2> HIDE DEF P
  <2>1. /\ link[x].state # "ABSENT" /\ link'[x].sale = link[x].sale
        /\ link'[x].outward = link[x].outward
    BY <1>1, ReversedTyped
  <2>2. QED
    BY <2>1 DEF LinkedTo
<1>5. CustomerMapped' /\ CorrectsAnother' /\ Attached'
  BY <1>1, ApproveSaleRows DEF CustomerMapped, CorrectsAnother, Attached
<1>6. Chained'
  <2> SUFFICES ASSUME NEW t \in Sales, sale'[t].status = "APPROVED",
                      sale'[t].supersedes # None
               PROVE  /\ sale'[sale'[t].supersedes].status = "SUPERSEDED"
                      /\ sale'[sale'[t].supersedes].successor = t
    BY DEF Chained
  <2>1. sale'[t].supersedes = sale[t].supersedes /\ sale[t].supersedes \in Sales
    BY ApproveSaleRows DEF TypeOK, SaleDoc
  <2>2. CASE t = s
    BY <2>1, <2>2, ApproveSaleRows
  <2>3. CASE t # s
    <3> DEFINE q == sale[t].supersedes
    <3>1. sale[t].status = "APPROVED"
      BY <2>3, ApproveSaleRows
    <3>2. sale[q].status = "SUPERSEDED" /\ sale[q].successor = t
      BY <2>1, <3>1 DEF Chained
    <3>3. q # s /\ q # p
      BY <1>1, <2>1, <3>2 DEF Correctable, CommercialAssumption
    <3>4. QED
      BY <2>1, <3>2, <3>3, ApproveSaleRows
  <2>4. QED
    BY <2>2, <2>3
<1>7. AliasAgreed'
  <2> SUFFICES ASSUME NEW t \in Sales, sale'[t].status \in {"VERIFIED", "APPROVED"}
               PROVE  \/ Current = {} /\ sale[t].mapping = None
                      \/ /\ sale[t].mapping \in Current
                         /\ sale[t].customer = mapping[sale[t].mapping].customer
    BY <1>1, ApproveSaleRows DEF AliasAgreed
  <2>1. sale[t].status \in {"VERIFIED", "APPROVED"}
    BY <1>1, ApproveSaleRows
  <2>2. QED
    BY <2>1 DEF AliasAgreed
<1>8. AllocatedWhileSold'
  <2> SUFFICES ASSUME NEW x \in Links, link'[x].state = "APPROVED"
               PROVE  sale'[link'[x].sale].status = "APPROVED"
    BY DEF AllocatedWhileSold, ApprovedLinks
  <2>1. /\ link[x].state = "APPROVED" /\ link[x].sale \notin P
        /\ link'[x].sale = link[x].sale
    BY <1>1, ReversedTyped
  <2>2. link[x].sale \in Sales /\ sale[link[x].sale].status = "APPROVED"
    BY <2>1 DEF LinkedTo, AllocatedWhileSold, ApprovedLinks
  <2>3. QED
    BY <2>1, <2>2, ApproveSaleRows
<1>9. PaidWhereOwed'
  <2> SUFFICES ASSUME NEW t \in Sales, paid'[t] # NoCustomer
               PROVE  sale'[t].status = "APPROVED" /\ sale'[t].customer = paid'[t]
    BY DEF PaidWhereOwed
  <2>1. paid'[t] = paid[t] /\ t \notin P
    BY <1>1, CompensatedTyped
  <2>2. sale[t].status = "APPROVED" /\ sale[t].customer = paid[t]
    BY <2>1 DEF PaidWhereOwed
  <2>3. QED
    BY <2>1, <2>2, ApproveSaleRows
<1>10. QED
  BY <1>2, <1>3, <1>4, <1>5, <1>6, <1>7, <1>8, <1>9

LEMMA ApproveFirstKeeps ==
  ASSUME CommercialAssumption, IInv, NEW m \in Mappings, ApproveFirstMapping(m)
  PROVE  IInv'
<1> USE DEF IInv
<1> DEFINE S == {s \in Sales : sale[s].mapping = None
                                /\ sale[s].status \notin Closed \cup {"ABSENT"}}
<1>1. /\ mapping[m].status = "VERIFIED" /\ Current = {} /\ m # None
      /\ mapping' = [mapping EXCEPT ![m].status = "APPROVED"]
      /\ UNCHANGED <<link, outward, unsold, paid>>
  BY DEF ApproveFirstMapping, CommercialAssumption
<1>2. /\ sale' = [s \in Sales |-> IF s \in S THEN Mapped(sale[s], m) ELSE sale[s]]
      /\ exc' \in [Sales -> SUBSET SaleExceptions]
  BY SaveTyped DEF ApproveFirstMapping, TypeOK
<1>3. /\ mapping' \in [Mappings -> MappingDoc]
      /\ mapping[m].customer \in Customers
      /\ \A n \in Mappings : mapping'[n].customer = mapping[n].customer
      /\ mapping'[m].status = "APPROVED"
      /\ \A n \in Mappings \ {m} : mapping'[n] = mapping[n]
  BY <1>1 DEF TypeOK, MappingDoc, MappedTo
<1>4. Current' = {m}
  BY <1>1, <1>3 DEF Current
<1>5. \A t \in Sales : sale[t].mapping = None /\ sale[t].customer = NoCustomer
  BY <1>1 DEF Attached, CustomerMapped
<1>6. ASSUME NEW t \in Sales
      PROVE  /\ sale'[t] \in SaleDoc /\ sale'[t].status = sale[t].status
             /\ sale'[t].supersedes = sale[t].supersedes
             /\ sale'[t].successor = sale[t].successor
             /\ \/ sale'[t].mapping = m /\ sale'[t].customer = mapping[m].customer
                \/ /\ sale'[t] = sale[t]
                   /\ sale[t].status \in Closed \cup {"ABSENT"}
  <2>1. sale[t] \in SaleDoc
    BY DEF TypeOK
  <2>2. CASE t \in S
    <3>1. sale'[t] = Mapped(sale[t], m)
      BY <1>2, <2>2
    <3>2. QED
      BY <2>1, <3>1, MappedTyped
  <2>3. CASE t \notin S
    BY <1>2, <1>5, <2>1, <2>3
  <2>4. QED
    BY <2>2, <2>3
<1>7. TypeOK'
  <2>1. sale' \in [Sales -> SaleDoc]
    BY <1>2, <1>6
  <2>2. QED
    BY <1>1, <1>2, <1>3, <2>1 DEF TypeOK
<1>8. MappedTo' /\ LinkedTo' /\ OneCurrent'
  BY <1>1, <1>3, <1>4 DEF MappedTo, LinkedTo, OneCurrent
<1>9. CustomerMapped' /\ CorrectsAnother' /\ Attached'
  BY <1>1, <1>4, <1>5, <1>6 DEF CustomerMapped, CorrectsAnother, Attached
<1>10. Chained'
  <2> SUFFICES ASSUME NEW t \in Sales, sale'[t].status = "APPROVED",
                      sale'[t].supersedes # None
               PROVE  /\ sale'[sale'[t].supersedes].status = "SUPERSEDED"
                      /\ sale'[sale'[t].supersedes].successor = t
    BY DEF Chained
  <2>1. sale[t].status = "APPROVED" /\ sale[t].supersedes \in Sales
        /\ sale'[t].supersedes = sale[t].supersedes
    BY <1>6 DEF TypeOK, SaleDoc
  <2>2. QED
    BY <1>6, <2>1 DEF Chained, CommercialAssumption
<1>11. AliasAgreed'
  BY <1>3, <1>4, <1>6 DEF AliasAgreed, Closed
<1>12. AllocatedWhileSold'
  BY <1>1, <1>6 DEF AllocatedWhileSold, ApprovedLinks, LinkedTo
<1>13. PaidWhereOwed'
  BY <1>1, <1>5 DEF PaidWhereOwed
<1>14. QED
  BY <1>7, <1>8, <1>9, <1>10, <1>11, <1>12, <1>13

\* After a remap no sale is verified or approved, and nothing is allocated to
\* or paid for one.
LEMMA ApproveRemapKeeps ==
  ASSUME CommercialAssumption, IInv, NEW m \in Mappings, ApproveRemap(m)
  PROVE  IInv'
<1> USE DEF IInv
<1> DEFINE p == mapping[m].supersedes
           S == Holders(p)
<1>1. /\ mapping[m].status = "VERIFIED" /\ p \in Current /\ p \in Mappings /\ p # m
      /\ mapping' = [mapping EXCEPT ![m].status = "APPROVED", ![p].status = "SUPERSEDED"]
      /\ link' = ReversedOf(S) /\ paid' = Compensated(S) /\ UNCHANGED outward
  BY DEF ApproveRemap, Current
<1>2. /\ sale' = [s \in Sales |->
           IF s \in S THEN [Unmoved(s, sale[s]) EXCEPT
                              !.status = "REVIEW_PENDING", !.mapping = None,
                              !.customer = NoCustomer, !.remapped = TRUE]
           ELSE sale[s]]
      /\ exc' \in [Sales -> SUBSET SaleExceptions]
  BY SaveTyped DEF ApproveRemap, TypeOK
<1>3. /\ mapping' \in [Mappings -> MappingDoc]
      /\ \A n \in Mappings : mapping'[n].customer = mapping[n].customer
      /\ mapping'[m].status = "APPROVED" /\ mapping'[p].status = "SUPERSEDED"
      /\ \A n \in Mappings \ {m, p} : mapping'[n] = mapping[n]
  BY <1>1 DEF TypeOK, MappingDoc
<1>4. Current = {p}
  BY <1>1 DEF OneCurrent
<1>5. Current' = {m}
  BY <1>1, <1>3, <1>4 DEF Current
<1>6. ASSUME NEW t \in Sales
      PROVE  /\ sale'[t] \in SaleDoc
             /\ sale'[t].supersedes = sale[t].supersedes
             /\ t \in S => /\ sale'[t].status = "REVIEW_PENDING"
                           /\ sale'[t].mapping = None
                           /\ sale'[t].customer = NoCustomer
             /\ t \notin S => sale'[t] = sale[t]
  <2>1. sale[t] \in SaleDoc
    BY DEF TypeOK
  <2> DEFINE r == Unmoved(t, sale[t])
  <2>2. r \in SaleDoc /\ r.supersedes = sale[t].supersedes
    BY <2>1, UnmovedTyped
  <2>3. CASE t \in S
    <3>1. sale'[t] = [r EXCEPT !.status = "REVIEW_PENDING", !.mapping = None,
                               !.customer = NoCustomer, !.remapped = TRUE]
      BY <1>2, <2>3
    <3> HIDE DEF r
    <3>2. /\ sale'[t] \in SaleDoc /\ sale'[t].supersedes = r.supersedes
          /\ sale'[t].status = "REVIEW_PENDING" /\ sale'[t].mapping = None
          /\ sale'[t].customer = NoCustomer
      BY <2>2, <3>1 DEF SaleDoc, SaleStatuses
    <3>3. QED
      BY <2>2, <2>3, <3>2
  <2>4. CASE t \notin S
    BY <1>2, <2>1, <2>4
  <2>5. QED
    BY <2>3, <2>4
<1>7. \A t \in Sales : sale[t].status \in {"VERIFIED", "APPROVED"} => t \in S
  BY <1>4 DEF AliasAgreed, Holders, Closed
<1>8. \A t \in Sales : sale'[t].status \notin {"VERIFIED", "APPROVED"}
  BY <1>6, <1>7
<1>9. TypeOK'
  <2>1. sale' \in [Sales -> SaleDoc]
    BY <1>2, <1>6
  <2>2. unsold' \in [Outwards -> {"None", "Open", "Resolved"}]
    BY RefreshedTyped DEF ApproveRemap, TypeOK
  <2>3. /\ link' \in [Links -> LinkDoc]
        /\ \A x \in Links : link'[x].successor # None => link'[x].state = "REVERSED"
    BY <1>1, ReversedTyped
  <2>4. paid' \in [Sales -> Customers \cup {NoCustomer}]
    BY <1>1, CompensatedTyped
  <2>5. outward' \in [Outwards -> {"DRAFT", "POSTED", "REVERSED"}]
    BY <1>1 DEF TypeOK
  <2>6. QED
    BY <1>2, <1>3, <2>1, <2>2, <2>3, <2>4, <2>5 DEF TypeOK
<1>10. MappedTo' /\ OneCurrent'
  <2>1. \A n \in Mappings : mapping'[n].status # "ABSENT" =>
                              mapping[n].status # "ABSENT"
    BY <1>1, <1>3 DEF Current
  <2>2. QED
    BY <1>3, <1>5, <2>1 DEF MappedTo, OneCurrent
<1>11. LinkedTo'
  <2> SUFFICES ASSUME NEW x \in Links, link'[x].state # "ABSENT"
               PROVE  link'[x].sale \in Sales /\ link'[x].outward \in Outwards
    BY DEF LinkedTo
  <2> HIDE DEF S
  <2>1. /\ link[x].state # "ABSENT" /\ link'[x].sale = link[x].sale
        /\ link'[x].outward = link[x].outward
    BY <1>1, ReversedTyped
  <2>2. QED
    BY <2>1 DEF LinkedTo
<1>12. CustomerMapped' /\ CorrectsAnother' /\ Attached'
  BY <1>5, <1>6 DEF CustomerMapped, CorrectsAnother, Attached
<1>13. Chained' /\ AliasAgreed'
  BY <1>8 DEF Chained, AliasAgreed
<1>14. AllocatedWhileSold'
  <2> SUFFICES ASSUME NEW x \in Links, link'[x].state = "APPROVED"
               PROVE  FALSE
    BY DEF AllocatedWhileSold, ApprovedLinks
  <2>1. link[x].state = "APPROVED" /\ link[x].sale \notin S
    BY <1>1, ReversedTyped
  <2>2. link[x].sale \in Sales /\ sale[link[x].sale].status = "APPROVED"
    BY <2>1 DEF LinkedTo, AllocatedWhileSold, ApprovedLinks
  <2>3. QED
    BY <1>7, <2>1, <2>2
<1>15. PaidWhereOwed'
  BY <1>1, <1>7, CompensatedTyped DEF PaidWhereOwed
<1>16. QED
  BY <1>9, <1>10, <1>11, <1>12, <1>13, <1>14, <1>15

-----------------------------------------------------------------------------
(* The invariant and what follows from it.                                 *)

LEMMA InitKeeps ==
  ASSUME CommercialAssumption, Init
  PROVE  IInv
<1>1. /\ Current = {} /\ ApprovedLinks(link) = {}
      /\ \A s \in Sales : /\ sale[s].status = "ABSENT" /\ sale[s].mapping = None
                          /\ sale[s].customer = NoCustomer
                          /\ sale[s].supersedes = None
                          /\ paid[s] = NoCustomer
      /\ \A m \in Mappings : mapping[m].status = "ABSENT"
      /\ \A x \in Links : link[x].state = "ABSENT"
  BY DEF Init, Current, ApprovedLinks
<1>2. TypeOK
  <2>1. sale \in [Sales -> SaleDoc]
    BY DEF Init, SaleDoc, SaleStatuses, Movements
  <2>2. mapping \in [Mappings -> MappingDoc]
    BY DEF Init, MappingDoc
  <2>3. link \in [Links -> LinkDoc] /\ \A x \in Links : link[x].successor = None
    <3>1. 0 \in 0..MaxQty
      BY DEF CommercialAssumption
    <3>2. QED
      BY <3>1 DEF Init, LinkDoc
  <2>4. /\ outward \in [Outwards -> {"DRAFT", "POSTED", "REVERSED"}]
        /\ exc \in [Sales -> SUBSET SaleExceptions]
        /\ unsold \in [Outwards -> {"None", "Open", "Resolved"}]
        /\ paid \in [Sales -> Customers \cup {NoCustomer}]
    BY DEF Init, Physical!OutwardInit
  <2>5. QED
    BY <2>1, <2>2, <2>3, <2>4 DEF TypeOK
<1>3. MappedTo /\ LinkedTo /\ CustomerMapped /\ Attached /\ OneCurrent
  BY <1>1 DEF MappedTo, LinkedTo, CustomerMapped, Attached, OneCurrent
<1>4. CorrectsAnother /\ Chained
  BY <1>1 DEF CorrectsAnother, Chained, CommercialAssumption
<1>5. AliasAgreed /\ AllocatedWhileSold /\ PaidWhereOwed
  BY <1>1 DEF AliasAgreed, AllocatedWhileSold, PaidWhereOwed
<1>6. QED
  BY <1>2, <1>3, <1>4, <1>5 DEF IInv

\* Every step is of one of the kinds.
LEMMA StepKinds ==
  ASSUME CommercialAssumption, IInv, Next
  PROVE  \/ \E s \in Sales, n \in SaleDoc : SaleStep1(s, n)
         \/ MappingStep1
         \/ MovementStep
         \/ \E s \in Sales : ApproveSale(s)
         \/ \E m \in Mappings : ApproveFirstMapping(m) \/ ApproveRemap(m)
<1>1. CASE \E s \in Sales : SaleStep(s)
  <2>1. PICK s \in Sales : SaleStep(s)
    BY <1>1
  <2>2. CASE \E prior \in Sales \cup {None} : CreateSale(s, prior)
    BY <2>2, CreateSaleKind DEF SaleStep1
  <2>3. CASE SubmitSale(s) \/ RejectSale(s)
    BY <2>3, SubmitSaleKind DEF SaleStep1
  <2>4. CASE VerifySale(s)
    BY <2>4, VerifySaleKind DEF SaleStep1
  <2>5. CASE ApproveSale(s)
    BY <2>5
  <2>6. CASE Pay(s)
    BY <2>6, OutsideKind
  <2>7. QED
    BY <2>1, <2>2, <2>3, <2>4, <2>5, <2>6 DEF SaleStep
<1>2. CASE \E m \in Mappings : MappingStep(m)
  BY <1>2, MappingKind DEF MappingStep
<1>3. CASE \E x \in Links : LinkStep(x)
  BY <1>3, LinkEditKind, ApproveLinkKind, ReverseLinkKind DEF LinkStep
<1>4. CASE \E o \in Outwards : Post(o) \/ ReverseOutward(o)
  BY <1>4, OutsideKind
<1>5. CASE Refresh
  BY <1>5, RefreshKind
<1>6. QED
  BY <1>1, <1>2, <1>3, <1>4, <1>5 DEF Next

LEMMA NextKeeps ==
  ASSUME CommercialAssumption, IInv, [Next]_vars
  PROVE  IInv'
<1>1. CASE Next
  BY <1>1, StepKinds, SaleStepKeeps, MappingStepKeeps, MovementStepKeeps,
     ApproveSaleKeeps, ApproveFirstKeeps, ApproveRemapKeeps
<1>2. CASE UNCHANGED vars
  BY <1>2 DEF vars, IInv, TypeOK, MappedTo, LinkedTo, CustomerMapped, Attached,
              OneCurrent, CorrectsAnother, Chained, AliasAgreed,
              AllocatedWhileSold, PaidWhereOwed, Current, ApprovedLinks
<1>3. QED
  BY <1>1, <1>2

\* The invariant holds in every reachable state, for every set of sales,
\* mappings, allocations, outwards and customers.
THEOREM CommercialInvariant == Spec => []IInv
<1>1. Init => IInv
  BY InitKeeps, CommercialAssumption
<1>2. IInv /\ [Next]_vars => IInv'
  BY NextKeeps, CommercialAssumption
<1>3. QED
  BY <1>1, <1>2, PTL DEF Spec

\* The rows stay well typed and a replaced allocation stays reversed.
THEOREM TypeCorrect == Spec => []TypeOK
<1>1. IInv => TypeOK
  BY DEF IInv
<1>2. QED
  BY <1>1, CommercialInvariant, PTL

\* A verified or approved sale names the customer of the mapping in force
\* (verify_sale and approve_alias_mapping attach and detach it).
THEOREM AliasAlwaysAgreed == Spec => []AliasAgreed
<1>1. IInv => AliasAgreed
  BY DEF IInv
<1>2. QED
  BY <1>1, CommercialInvariant, PTL

\* Approved allocations belong to approved sales: a correction and a remap
\* reverse all allocations of the sales they touch.
THEOREM AlwaysAllocatedWhileSold == Spec => []AllocatedWhileSold
<1>1. IInv => AllocatedWhileSold
  BY DEF IInv
<1>2. QED
  BY <1>1, CommercialInvariant, PTL

\* Money stands on approved sales only, for their present customer.
THEOREM AlwaysPaidWhereOwed == Spec => []PaidWhereOwed
<1>1. IInv => PaidWhereOwed
  BY DEF IInv
<1>2. QED
  BY <1>1, CommercialInvariant, PTL

\* Of a sale and its corrections, and of rival corrections, one is approved.
THEOREM CorrectionsAreSole == Spec => []SoleCorrection
<1>1. ASSUME IInv PROVE SoleCorrection
  BY <1>1, CommercialAssumption DEF IInv, Chained, SoleCorrection, TypeOK, SaleDoc
<1>2. QED
  BY <1>1, CommercialInvariant, PTL

-----------------------------------------------------------------------------
(* The register.                                                           *)

\* A move of the register, from row r to row n of a sale.
Moves(r, n) ==
  \/ n = r
  \/ Register!Resolves(r, n)
  \/ Register!Approves(r, n)
  \/ Register!Reopens(r, n)
  \/ Register!Closes(r, n)

LEMMA RowShown ==
  ASSUME NEW r \in SaleDoc
  PROVE  /\ RegisterRow(r) \in Register!SaleRow
         /\ RegisterRow(r).customer = r.customer
         /\ RegisterRow(r).status = CASE r.status = "APPROVED" -> "APPROVED"
                                      [] r.status \in Closed -> "CLOSED"
                                      [] OTHER -> "OPEN"
         /\ RegisterRow(r) = [status |-> RegisterRow(r).status,
                              customer |-> RegisterRow(r).customer]
BY DEF RegisterRow, SaleDoc, Register!SaleRow, Closed

\* The moves a row makes when its status or customer changes.
LEMMA RowMoves ==
  ASSUME NEW r \in SaleDoc, NEW n \in SaleDoc, r.status \notin Closed,
         \/ n.status = r.status /\ n.customer = r.customer
         \/ n.status = r.status /\ r.customer = NoCustomer
         \/ n.status \notin Closed \cup {"APPROVED"} /\ r.status # "APPROVED"
         \/ n.status \notin Closed \cup {"APPROVED"} /\ n.customer = NoCustomer
         \/ n.status = "APPROVED" /\ r.status # "APPROVED" /\ n.customer = r.customer
         \/ n.status \in Closed /\ n.customer = r.customer
  PROVE  Moves(RegisterRow(r), RegisterRow(n))
<1> DEFINE a == RegisterRow(r)
           b == RegisterRow(n)
<1>1. /\ a = [status |-> a.status, customer |-> a.customer]
      /\ b = [status |-> b.status, customer |-> b.customer]
      /\ a.customer = r.customer /\ b.customer = n.customer
      /\ a.status \in {"OPEN", "APPROVED", "CLOSED"}
      /\ a.status = "APPROVED" <=> r.status = "APPROVED"
      /\ a.status # "CLOSED"
      /\ b.status = CASE n.status = "APPROVED" -> "APPROVED"
                      [] n.status \in Closed -> "CLOSED"
                      [] OTHER -> "OPEN"
  BY RowShown DEF Register!SaleRow, Closed
<1>2. n.customer \in Customers \/ n.customer = NoCustomer
  BY DEF SaleDoc
<1> HIDE DEF a, b
<1>3. \/ b.status = a.status /\ b.customer = a.customer
      \/ b.status = a.status /\ a.customer = NoCustomer
      \/ b.status = "OPEN" /\ a.status = "OPEN"
      \/ b.status = "OPEN" /\ b.customer = NoCustomer
      \/ b.status = "APPROVED" /\ a.status = "OPEN" /\ b.customer = a.customer
      \/ b.status = "CLOSED" /\ b.customer = a.customer
  <2>1. n.status = r.status => b.status = a.status
    BY <1>1 DEF a, b, RegisterRow
  <2>2. QED
    BY <1>1, <2>1 DEF Closed
<1>4. \/ b.status = a.status /\ b.customer = a.customer
      \/ /\ b.status = a.status /\ b.customer \in Customers
         /\ a.status = "APPROVED" => a.customer = NoCustomer
      \/ b.status = "OPEN" /\ b.customer = NoCustomer
      \/ b.status = "APPROVED" /\ a.status = "OPEN" /\ b.customer = a.customer
      \/ b.status = "CLOSED" /\ b.customer = a.customer
  BY <1>1, <1>2, <1>3
<1>5. Moves(a, b)
  <2>1. CASE b.status = a.status /\ b.customer = a.customer
    BY <1>1, <2>1 DEF Moves
  <2>2. CASE /\ b.status = a.status /\ b.customer \in Customers
             /\ a.status = "APPROVED" => a.customer = NoCustomer
    BY <1>1, <2>2 DEF Moves, Register!Resolves
  <2>3. CASE b.status = "OPEN" /\ b.customer = NoCustomer
    BY <1>1, <2>3 DEF Moves, Register!Reopens
  <2>4. CASE b.status = "APPROVED" /\ a.status = "OPEN" /\ b.customer = a.customer
    <3>1. b = [a EXCEPT !.status = "APPROVED"]
      BY <1>1, <2>4
    <3>2. QED
      BY <2>4, <3>1 DEF Moves, Register!Approves
  <2>5. CASE b.status = "CLOSED" /\ b.customer = a.customer
    <3>1. b = [a EXCEPT !.status = "CLOSED"]
      BY <1>1, <2>5
    <3>2. QED
      BY <1>1, <3>1 DEF Moves, Register!Closes
  <2>6. QED
    BY <1>4, <2>1, <2>2, <2>3, <2>4, <2>5
<1>6. QED
  BY <1>5 DEF a, b

\* Each sale makes a move of the register in every step.
LEMMA SalesMove ==
  ASSUME CommercialAssumption, IInv, IInv', [Next]_vars, NEW t \in Sales
  PROVE  Moves(RegisterRow(sale[t]), RegisterRow(sale'[t]))
<1> USE DEF IInv
<1>1. sale[t] \in SaleDoc /\ sale'[t] \in SaleDoc
  BY DEF TypeOK
<1>2. CASE RegisterRow(sale'[t]) = RegisterRow(sale[t])
  BY <1>2 DEF Moves
<1>3. CASE \E s \in Sales, n \in SaleDoc : SaleStep1(s, n)
  <2>1. PICK s \in Sales, n \in SaleDoc : SaleStep1(s, n)
    BY <1>3
  <2>2. CASE t = s
    <3>1. sale'[t] = n
      BY <2>1, <2>2 DEF SaleStep1, TypeOK
    <3>2. /\ sale[t].status \notin Closed \cup {"APPROVED"}
          /\ \/ n.status \notin Closed \cup {"APPROVED"}
             \/ n.status \in Closed /\ n.customer = sale[t].customer
      BY <2>1, <2>2 DEF SaleStep1, Closed
    <3>3. QED
      BY <1>1, <3>1, <3>2, RowMoves
  <2>3. CASE t # s
    <3>1. sale'[t] = sale[t]
      BY <2>1, <2>3 DEF SaleStep1, TypeOK
    <3>2. QED
      BY <3>1 DEF Moves
  <2>4. QED
    BY <2>2, <2>3
<1>4. CASE MappingStep1
  BY <1>4 DEF MappingStep1, Moves
<1>5. CASE MovementStep
  <2>1. sale'[t].status = sale[t].status /\ sale'[t].customer = sale[t].customer
    BY <1>5, MovementRows
  <2>2. QED
    BY <2>1 DEF RegisterRow, Moves
<1>6. CASE \E s \in Sales : ApproveSale(s)
  <2>1. PICK s \in Sales : ApproveSale(s)
    BY <1>6
  <2>2. CASE t = s
    <3>1. sale[t].status = "VERIFIED" /\ sale'[t].status = "APPROVED"
          /\ sale'[t].customer = sale[t].customer
      BY <2>1, <2>2, ApproveSaleRows DEF ApproveSale
    <3>2. QED
      BY <1>1, <3>1, RowMoves DEF Closed
  <2>3. CASE t = sale[s].supersedes
    <3>1. sale'[t].status = "SUPERSEDED" /\ sale'[t].customer = sale[t].customer
          /\ sale[t].status # "SUPERSEDED"
      BY <2>1, <2>3, ApproveSaleRows DEF ApproveSale, Correctable, CommercialAssumption
    <3>2. CASE sale[t].status = "REJECTED"
      BY <3>1, <3>2 DEF RegisterRow, Closed, Moves
    <3>3. CASE sale[t].status # "REJECTED"
      BY <1>1, <3>1, <3>3, RowMoves DEF Closed
    <3>4. QED
      BY <3>2, <3>3
  <2>4. CASE t \notin {s, sale[s].supersedes}
    <3>1. sale'[t] = sale[t]
      BY <2>1, <2>4, ApproveSaleRows
    <3>2. QED
      BY <3>1 DEF Moves
  <2>5. QED
    BY <2>2, <2>3, <2>4
<1>7. CASE \E m \in Mappings : ApproveFirstMapping(m)
  <2>1. PICK m \in Mappings : ApproveFirstMapping(m)
    BY <1>7
  <2>2. sale[t].customer = NoCustomer
    BY <2>1 DEF ApproveFirstMapping, Attached, CustomerMapped
  <2>3. \/ sale'[t] = sale[t]
        \/ sale'[t] = Mapped(sale[t], m) /\ sale[t].status \notin Closed
    BY <2>1, SaveTyped DEF ApproveFirstMapping, TypeOK
  <2>4. CASE sale'[t] = sale[t]
    BY <2>4 DEF Moves
  <2>5. CASE sale'[t] = Mapped(sale[t], m) /\ sale[t].status \notin Closed
    <3>1. sale'[t].status = sale[t].status
      BY <1>1, <2>5, MappedTyped
    <3>2. QED
      BY <1>1, <2>2, <2>5, <3>1, RowMoves
  <2>6. QED
    BY <2>3, <2>4, <2>5
<1>8. CASE \E m \in Mappings : ApproveRemap(m)
  <2>1. PICK m \in Mappings : ApproveRemap(m)
    BY <1>8
  <2> DEFINE S == Holders(mapping[m].supersedes)
             r == Unmoved(t, sale[t])
  <2>2. /\ t \in S => sale'[t] = [r EXCEPT
                        !.status = "REVIEW_PENDING", !.mapping = None,
                        !.customer = NoCustomer, !.remapped = TRUE]
        /\ t \notin S => sale'[t] = sale[t]
    <3>1. sale' = [s \in Sales |->
           IF s \in S THEN [Unmoved(s, sale[s]) EXCEPT
                              !.status = "REVIEW_PENDING", !.mapping = None,
                              !.customer = NoCustomer, !.remapped = TRUE]
           ELSE sale[s]]
      BY <2>1, SaveTyped DEF ApproveRemap, TypeOK
    <3> HIDE DEF S
    <3>2. QED
      BY <3>1
  <2>3. r \in SaleDoc
    BY <1>1, UnmovedTyped
  <2>4. t \in S => sale[t].status \notin Closed
    BY DEF Holders
  <2> HIDE DEF S, r
  <2>5. CASE t \in S
    <3>1. sale'[t].status = "REVIEW_PENDING" /\ sale'[t].customer = NoCustomer
      BY <2>2, <2>3, <2>5 DEF SaleDoc
    <3>2. QED
      BY <1>1, <2>4, <2>5, <3>1, RowMoves DEF Closed
  <2>6. CASE t \notin S
    BY <2>2, <2>6 DEF Moves
  <2>7. QED
    BY <2>5, <2>6
<1>9. CASE UNCHANGED vars
  BY <1>9 DEF vars, Moves
<1>10. QED
  BY <1>3, <1>4, <1>5, <1>6, <1>7, <1>8, <1>9, StepKinds

LEMMA RegisterStep ==
  ASSUME CommercialAssumption, IInv, IInv', [Next]_vars
  PROVE  [Register!RegisterNext]_registered
<1>1. \A s \in Sales : /\ registered[s] = RegisterRow(sale[s])
                       /\ registered'[s] = RegisterRow(sale'[s])
  BY DEF registered
<1>2. \A s \in Sales : RegisterRow(sale'[s]) \in Register!SaleRow
  BY RowShown DEF IInv, TypeOK
<1>3. registered' \in [Sales -> Register!SaleRow]
  BY <1>1, <1>2 DEF registered
<1>4. \A s \in Sales : Moves(registered[s], registered'[s])
  BY <1>1, SalesMove
<1>5. Register!RegisterNext
  BY <1>3, <1>4 DEF Register!RegisterNext, Moves
<1>6. QED
  BY <1>5

\* The sales implement the register MoneyLedger builds on: in each
\* transaction, a remap of many sales included, a sale resolves, is approved,
\* is reopened, is closed or stays.
THEOREM ImplementsRegister == Spec => KeepsRegister
<1>1. Init => Register!RegisterInit
  <2> SUFFICES ASSUME Init
               PROVE  registered = [s \in Sales |-> [status |-> "OPEN", customer |-> NoCustomer]]
    BY DEF Register!RegisterInit
  <2>1. \A s \in Sales : RegisterRow(sale[s]) = [status |-> "OPEN", customer |-> NoCustomer]
    BY DEF Init, RegisterRow, Closed
  <2>2. QED
    BY <2>1 DEF registered
<1>2. IInv /\ IInv' /\ [Next]_vars => [Register!RegisterNext]_registered
  BY RegisterStep, CommercialAssumption
<1>3. QED
  BY <1>1, <1>2, CommercialInvariant, PTL DEF Spec, KeepsRegister, Register!RegisterSpec

-----------------------------------------------------------------------------
(* What the allocations of one sale or outward add up to.                  *)

\* An allocation that exists was proposed while its outward stood, and an
\* outward never becomes a draft again.
PostedFirst ==
  \A x \in Links : link[x].state # "ABSENT" => outward[link[x].outward] # "DRAFT"

\* An allocation replaces one of the same sale and outward.
Kin ==
  \A x \in Links : link[x].state # "ABSENT" /\ link[x].supersedes # None =>
    LET p == link[x].supersedes
    IN /\ link[p].state # "ABSENT"
       /\ link[p].sale = link[x].sale /\ link[p].outward = link[x].outward

\* Nothing has been said of an outward before it is posted.
DraftUnmarked == \A o \in Outwards : outward[o] = "DRAFT" => unsold[o] = "None"

\* Allocation x goes on to say what it said.
RowKept(x) ==
  /\ link'[x].state # "ABSENT"
  /\ link'[x].sale = link[x].sale /\ link'[x].outward = link[x].outward
  /\ link'[x].qty = link[x].qty /\ link'[x].supersedes = link[x].supersedes

\* Allocation x is proposed.
RowProposed(x) ==
  /\ link'[x].state = "PROPOSED" /\ link'[x].outward \in Outwards
  /\ outward[link'[x].outward] = "POSTED"
  /\ link'[x].supersedes # None =>
       LET p == link'[x].supersedes
       IN /\ p \in Links /\ link[p].state # "ABSENT"
          /\ link[p].sale = link'[x].sale /\ link[p].outward = link'[x].outward

\* No outward becomes a draft again, or stands again once reversed.
OutwardsMove ==
  \A o \in Outwards : \/ outward'[o] = outward[o]
                      \/ outward[o] = "DRAFT" /\ outward'[o] = "POSTED"
                      \/ outward[o] = "POSTED" /\ outward'[o] = "REVERSED"

\* What every step does to allocations and outwards.
RowsMove ==
  /\ \A x \in Links : IF link[x].state = "ABSENT"
                      THEN link'[x].state = "ABSENT" \/ RowProposed(x)
                      ELSE RowKept(x)
  /\ OutwardsMove

\* No allocation is approved by the step.
NoneApproved ==
  \A x \in Links : link'[x].state = "APPROVED" => link[x].state = "APPROVED"

LEMMA ReversedRows ==
  ASSUME TypeOK, NEW S, NEW x \in Links
  PROVE  IF link[x].state = "APPROVED" /\ link[x].sale \in S
         THEN /\ ReversedOf(S)[x].state = "REVERSED"
              /\ ReversedOf(S)[x].sale = link[x].sale
              /\ ReversedOf(S)[x].outward = link[x].outward
              /\ ReversedOf(S)[x].qty = link[x].qty
              /\ ReversedOf(S)[x].supersedes = link[x].supersedes
         ELSE ReversedOf(S)[x] = link[x]
<1>1. link[x] \in LinkDoc
  BY DEF TypeOK
<1>2. CASE link[x].state = "APPROVED" /\ link[x].sale \in S
  <2>1. ReversedOf(S)[x] = [link[x] EXCEPT !.state = "REVERSED", !.successor = None]
    BY <1>2 DEF ReversedOf, ApprovedLinks
  <2>2. QED
    BY <1>1, <1>2, <2>1 DEF LinkDoc
<1>3. CASE ~(link[x].state = "APPROVED" /\ link[x].sale \in S)
  BY <1>3 DEF ReversedOf, ApprovedLinks
<1>4. QED
  BY <1>2, <1>3

\* The steps that change an allocation, row by row.
LEMMA LinkStepRows ==
  ASSUME CommercialAssumption, IInv, NEW x \in Links,
         VerifyLink(x) \/ RejectLink(x) \/ ReverseLink(x), NEW y \in Links
  PROVE  /\ y # x => link'[y] = link[y]
         /\ y = x => /\ link[x].state # "ABSENT" /\ RowKept(x)
                     /\ link'[x].state # "APPROVED"
                     /\ ReverseLink(x) \/ link[x].state # "APPROVED"
<1> USE DEF IInv
<1>1. link[y] \in LinkDoc /\ link[x] \in LinkDoc /\ DOMAIN link = Links
  BY DEF TypeOK
<1>2. PICK n : /\ link' = [link EXCEPT ![x] = n] /\ n.state \in {"PROPOSED", "REJECTED", "REVERSED"}
               /\ n.sale = link[x].sale /\ n.outward = link[x].outward
               /\ n.qty = link[x].qty /\ n.supersedes = link[x].supersedes
  <2>1. CASE VerifyLink(x)
    <3> DEFINE n == [link[x] EXCEPT !.verified = TRUE]
    <3>1. link' = [link EXCEPT ![x] = n] /\ link[x].state = "PROPOSED"
      BY <2>1 DEF VerifyLink
    <3>2. /\ n.state = link[x].state
          /\ n.sale = link[x].sale /\ n.outward = link[x].outward
          /\ n.qty = link[x].qty /\ n.supersedes = link[x].supersedes
      BY <1>1 DEF LinkDoc
    <3> HIDE DEF n
    <3>3. QED
      BY <3>1, <3>2
  <2>2. CASE RejectLink(x)
    <3> DEFINE n == [link[x] EXCEPT !.state = "REJECTED"]
    <3>1. link' = [link EXCEPT ![x] = n]
      BY <2>2 DEF RejectLink
    <3>2. /\ n.state = "REJECTED"
          /\ n.sale = link[x].sale /\ n.outward = link[x].outward
          /\ n.qty = link[x].qty /\ n.supersedes = link[x].supersedes
      BY <1>1 DEF LinkDoc
    <3> HIDE DEF n
    <3>3. QED
      BY <3>1, <3>2
  <2>3. CASE ReverseLink(x)
    <3> DEFINE n == [link[x] EXCEPT !.state = "REVERSED", !.successor = None]
    <3>1. link' = [link EXCEPT ![x] = n]
      BY <1>1, <2>3 DEF ReverseLink, LinkDoc
    <3>2. /\ n.state = "REVERSED"
          /\ n.sale = link[x].sale /\ n.outward = link[x].outward
          /\ n.qty = link[x].qty /\ n.supersedes = link[x].supersedes
      BY <1>1 DEF LinkDoc
    <3> HIDE DEF n
    <3>3. QED
      BY <3>1, <3>2
  <2>4. QED
    BY <2>1, <2>2, <2>3
<1>3. link'[x] = n /\ (y # x => link'[y] = link[y])
  BY <1>1, <1>2
<1>4. link[x].state # "ABSENT" /\ (ReverseLink(x) \/ link[x].state # "APPROVED")
  BY DEF VerifyLink, RejectLink, ReverseLink
<1>5. QED
  BY <1>2, <1>3, <1>4 DEF RowKept

LEMMA ProposeLinkRows ==
  ASSUME CommercialAssumption, IInv, NEW x \in Links, NEW s \in Sales,
         NEW o \in Outwards, NEW q \in Quantities, NEW prior \in Links \cup {None},
         ProposeLink(x, s, o, q, prior), NEW y \in Links
  PROVE  /\ y # x => link'[y] = link[y]
         /\ y = x => link[x].state = "ABSENT" /\ RowProposed(x)
<1> USE DEF IInv
<1> DEFINE n == [state |-> "PROPOSED", verified |-> FALSE, sale |-> s,
                 outward |-> o, qty |-> q, supersedes |-> prior,
                 successor |-> None]
<1>1. link' = [link EXCEPT ![x] = n] /\ DOMAIN link = Links
  BY DEF ProposeLink, TypeOK
<1>2. link'[x] = n /\ (y # x => link'[y] = link[y])
  BY <1>1
<1>3. link[x].state = "ABSENT" /\ outward[o] = "POSTED"
  BY DEF ProposeLink, Shape, OutwardActive
<1>4. prior # None => /\ link[prior].state # "ABSENT"
                      /\ link[prior].sale = s /\ link[prior].outward = o
  BY DEF ProposeLink
<1>5. n.state = "PROPOSED" /\ n.sale = s /\ n.outward = o /\ n.supersedes = prior
  OBVIOUS
<1> HIDE DEF n
<1>6. QED
  BY <1>2, <1>3, <1>4, <1>5 DEF RowProposed

LEMMA ApproveLinkRows ==
  ASSUME CommercialAssumption, IInv, NEW x \in Links, ApproveLink(x), NEW y \in Links
  PROVE  /\ link[x].state = "PROPOSED" /\ x # link[x].supersedes
         /\ y \notin {x, link[x].supersedes} => link'[y] = link[y]
         /\ y \in {x, link[x].supersedes} => link[y].state # "ABSENT" /\ RowKept(y)
         /\ y = x => link'[y].state = "APPROVED"
         /\ y = link[x].supersedes => link'[y].state = "REVERSED"
<1> USE DEF IInv
<1> DEFINE p == link[x].supersedes
<1>1. link[x].state = "PROPOSED" /\ link[x] \in LinkDoc /\ link[y] \in LinkDoc
  BY DEF ApproveLink, TypeOK
<1>2. y = p => link[y].state \in {"APPROVED", "REVERSED"}
  BY DEF ApproveLink, CommercialAssumption
<1>3. link' = [z \in Links |->
       IF z = x THEN [link[x] EXCEPT !.state = "APPROVED"]
       ELSE IF z = p THEN Replaced(link[p], x)
       ELSE link[z]]
  BY DEF ApproveLink
<1>4. x # p
  <2>1. p # None => link[p].state \in {"APPROVED", "REVERSED"}
    BY DEF ApproveLink
  <2>2. QED
    BY <1>1, <2>1 DEF CommercialAssumption
<1>5. CASE y = x
  <2>1. link'[y] = [link[x] EXCEPT !.state = "APPROVED"]
    BY <1>3, <1>5
  <2>2. QED
    BY <1>1, <1>4, <1>5, <2>1 DEF LinkDoc, RowKept
<1>6. CASE y = p
  <2>1. link'[y] = [link[y] EXCEPT !.state = "REVERSED", !.successor = x]
    BY <1>3, <1>4, <1>6 DEF Replaced
  <2>2. QED
    BY <1>1, <1>2, <1>4, <1>6, <2>1 DEF LinkDoc, RowKept
<1>7. CASE y \notin {x, p}
  BY <1>1, <1>3, <1>4, <1>7
<1>8. QED
  BY <1>5, <1>6, <1>7

\* Every step moves allocations and outwards this way, and only ApproveLink
\* approves one.
LEMMA RowsMoveAlways ==
  ASSUME CommercialAssumption, IInv, [Next]_vars
  PROVE  /\ RowsMove
         /\ NoneApproved \/ \E x \in Links : ApproveLink(x)
<1> USE DEF IInv
<1>1. ASSUME UNCHANGED link, OutwardsMove
      PROVE  RowsMove /\ NoneApproved
  BY <1>1 DEF RowsMove, NoneApproved, RowKept
<1>2. ASSUME NEW S, link' = ReversedOf(S), UNCHANGED outward
      PROVE  RowsMove /\ NoneApproved
  <2>1. \A y \in Links : /\ link[y].state = "ABSENT" => link'[y].state = "ABSENT"
                         /\ link[y].state # "ABSENT" => RowKept(y)
                         /\ link'[y].state = "APPROVED" => link[y].state = "APPROVED"
    BY <1>2, ReversedRows DEF RowKept
  <2>2. QED
    BY <1>2, <2>1 DEF RowsMove, NoneApproved, OutwardsMove
<1>3. CASE \E s \in Sales : SaleStep(s)
  <2>1. PICK s \in Sales : SaleStep(s)
    BY <1>3
  <2>2. CASE ApproveSale(s)
    BY <1>2, <2>2 DEF ApproveSale
  <2>3. CASE ~ApproveSale(s)
    <3>1. UNCHANGED <<link, outward>>
      BY <2>1, <2>3 DEF SaleStep, CreateSale, SubmitSale, VerifySale, RejectSale, Pay
    <3>2. QED
      BY <1>1, <3>1 DEF OutwardsMove
  <2>4. QED
    BY <2>2, <2>3
<1>4. CASE \E m \in Mappings : MappingStep(m)
  <2>1. PICK m \in Mappings : MappingStep(m)
    BY <1>4
  <2>2. CASE ApproveRemap(m)
    BY <1>2, <2>2 DEF ApproveRemap
  <2>3. CASE ~ApproveRemap(m)
    <3>1. UNCHANGED <<link, outward>>
      BY <2>1, <2>3 DEF MappingStep, ProposeMapping, VerifyMapping, RejectMapping,
                        ApproveFirstMapping
    <3>2. QED
      BY <1>1, <3>1 DEF OutwardsMove
  <2>4. QED
    BY <2>2, <2>3
<1>5. CASE \E x \in Links : LinkStep(x)
  <2>1. PICK x \in Links : LinkStep(x)
    BY <1>5
  <2>2. UNCHANGED outward
    BY <2>1 DEF LinkStep, ProposeLink, VerifyLink, RejectLink, ApproveLink, ReverseLink
  <2>3. CASE \E s \in Sales, o \in Outwards, q \in Quantities, prior \in Links \cup {None} :
               ProposeLink(x, s, o, q, prior)
    <3>1. \A y \in Links : /\ y # x => link'[y] = link[y]
                           /\ y = x => link[x].state = "ABSENT" /\ RowProposed(x)
      BY <2>3, ProposeLinkRows
    <3>2. QED
      BY <2>2, <3>1 DEF RowsMove, NoneApproved, OutwardsMove, RowKept, RowProposed
  <2>4. CASE VerifyLink(x) \/ RejectLink(x) \/ ReverseLink(x)
    <3>1. \A y \in Links : /\ y # x => link'[y] = link[y]
                           /\ y = x => /\ link[x].state # "ABSENT" /\ RowKept(x)
                                       /\ link'[x].state # "APPROVED"
      BY <2>4, LinkStepRows
    <3>2. QED
      BY <2>2, <3>1 DEF RowsMove, NoneApproved, OutwardsMove, RowKept
  <2>5. CASE ApproveLink(x)
    <3>1. \A y \in Links :
            \/ link'[y] = link[y]
            \/ link[y].state # "ABSENT" /\ RowKept(y)
      BY <2>5, ApproveLinkRows
    <3>2. QED
      BY <2>2, <2>5, <3>1 DEF RowsMove, OutwardsMove, RowKept
  <2>6. QED
    BY <2>1, <2>3, <2>4, <2>5 DEF LinkStep
<1>6. CASE \E o \in Outwards : Post(o) \/ ReverseOutward(o)
  <2>1. UNCHANGED link /\ OutwardsMove
    BY <1>6 DEF Post, ReverseOutward, OutwardsMove, TypeOK, Physical!Posts, Physical!Reverses
  <2>2. QED
    BY <1>1, <2>1
<1>7. CASE Refresh
  BY <1>1, <1>7 DEF Refresh, OutwardsMove
<1>8. CASE UNCHANGED vars
  BY <1>1, <1>8 DEF vars, OutwardsMove
<1>9. QED
  BY <1>3, <1>4, <1>5, <1>6, <1>7, <1>8 DEF Next

LEMMA RowsMoveKeeps ==
  ASSUME CommercialAssumption, IInv, PostedFirst, Kin, RowsMove
  PROVE  PostedFirst' /\ Kin'
<1> USE DEF IInv
<1>1. \A x \in Links : link[x].state # "ABSENT" =>
        link[x].outward \in Outwards /\ link[x].supersedes \in Links \cup {None}
  BY DEF LinkedTo, TypeOK, LinkDoc
<1>2. ASSUME NEW x \in Links, link'[x].state # "ABSENT"
      PROVE  outward'[link'[x].outward] # "DRAFT"
  <2>1. outward[link'[x].outward] # "DRAFT"
    BY <1>2 DEF RowsMove, RowKept, RowProposed, PostedFirst
  <2>2. link'[x].outward \in Outwards
    <3>1. CASE link[x].state = "ABSENT"
      <4>1. outward[link'[x].outward] = "POSTED" /\ link'[x].outward \in Outwards
        BY <1>2, <3>1 DEF RowsMove, RowProposed
      <4>2. QED
        BY <4>1
    <3>2. CASE link[x].state # "ABSENT"
      BY <1>1, <3>2 DEF RowsMove, RowKept
    <3>3. QED
      BY <3>1, <3>2
  <2>3. QED
    BY <2>1, <2>2 DEF RowsMove, OutwardsMove
<1>3. ASSUME NEW x \in Links, link'[x].state # "ABSENT", link'[x].supersedes # None
      PROVE  LET p == link'[x].supersedes
             IN /\ link'[p].state # "ABSENT"
                /\ link'[p].sale = link'[x].sale /\ link'[p].outward = link'[x].outward
  <2> DEFINE p == link'[x].supersedes
  <2>1. /\ link[p].state # "ABSENT"
        /\ link[p].sale = link'[x].sale /\ link[p].outward = link'[x].outward
        /\ p \in Links
    BY <1>1, <1>3 DEF RowsMove, RowKept, RowProposed, Kin
  <2>2. RowKept(p)
    BY <2>1 DEF RowsMove
  <2>3. QED
    BY <2>1, <2>2 DEF RowKept
<1>4. QED
  BY <1>2, <1>3 DEF PostedFirst, Kin

-----------------------------------------------------------------------------
(* The caps.                                                               *)

LEMMA QtyAll ==
  ASSUME CommercialAssumption, NEW k \in [Links -> LinkDoc], NEW S \in SUBSET Links
  PROVE  /\ [x \in Links |-> k[x].qty] \in [Links -> 0..MaxQty]
         /\ QtyOf(S, k) = Total(S, [x \in Links |-> k[x].qty], MaxQty)
<1>1. [x \in Links |-> k[x].qty] \in [Links -> 0..MaxQty]
  BY DEF LinkDoc
<1>2. \A x \in S : [y \in S |-> k[y].qty][x] = [y \in Links |-> k[y].qty][x]
  OBVIOUS
<1>3. QED
  BY <1>1, <1>2, TotalSame DEF QtyOf

\* Some of the allocations, still with their quantities, add up to no more;
\* with x beside them, to its quantity more.
LEMMA QtyShrinks ==
  ASSUME CommercialAssumption, NEW k \in [Links -> LinkDoc], NEW j \in [Links -> LinkDoc],
         NEW S \in SUBSET Links, NEW R \in SUBSET S,
         \A y \in R : j[y].qty = k[y].qty
  PROVE  QtyOf(R, j) \in Nat /\ QtyOf(S, k) \in Nat /\ QtyOf(R, j) <= QtyOf(S, k)
<1> DEFINE f == [x \in Links |-> k[x].qty]
           g == [x \in Links |-> j[x].qty]
<1>1. QtyOf(S, k) = Total(S, f, MaxQty) /\ f \in [Links -> 0..MaxQty]
  BY QtyAll
<1>2. QtyOf(R, j) = Total(R, g, MaxQty)
  BY QtyAll
<1>3. Total(R, g, MaxQty) = Total(R, f, MaxQty)
  <2>1. \A x \in R : g[x] = f[x]
    OBVIOUS
  <2> HIDE DEF f, g
  <2>2. QED
    BY <2>1, TotalSame
<1> HIDE DEF f, g
<1>4. QED
  BY <1>1, <1>2, <1>3, TotalSubset DEF CommercialAssumption

LEMMA QtyGrows ==
  ASSUME CommercialAssumption, NEW k \in [Links -> LinkDoc], NEW j \in [Links -> LinkDoc],
         NEW S \in SUBSET Links, NEW x \in Links \ S, NEW R \in SUBSET (S \cup {x}),
         \A y \in R : j[y].qty = k[y].qty
  PROVE  QtyOf(R, j) \in Nat /\ QtyOf(R, j) <= QtyOf(S, k) + k[x].qty
<1> DEFINE f == [y \in Links |-> k[y].qty]
<1>1. QtyOf(R, j) \in Nat /\ QtyOf(R, j) <= QtyOf(S \cup {x}, k)
      /\ QtyOf(S \cup {x}, k) \in Nat /\ QtyOf(S, k) \in Nat
  <2>1. S \cup {x} \in SUBSET Links
    OBVIOUS
  <2>2. QtyOf(R, j) \in Nat /\ QtyOf(R, j) <= QtyOf(S \cup {x}, k)
        /\ QtyOf(S \cup {x}, k) \in Nat
    BY <2>1, QtyShrinks
  <2>3. QtyOf(S, k) \in Nat
    BY QtyShrinks
  <2>4. QED
    BY <2>2, <2>3
<1>2. /\ QtyOf(S \cup {x}, k) = Total(S \cup {x}, f, MaxQty)
      /\ QtyOf(S, k) = Total(S, f, MaxQty) /\ f \in [Links -> 0..MaxQty]
  <2>1. S \cup {x} \in SUBSET Links
    OBVIOUS
  <2> HIDE DEF f
  <2>2. QtyOf(S \cup {x}, k) = Total(S \cup {x}, f, MaxQty) /\ f \in [Links -> 0..MaxQty]
    BY <2>1, QtyAll DEF f
  <2>3. QtyOf(S, k) = Total(S, f, MaxQty)
    BY QtyAll DEF f
  <2>4. QED
    BY <2>2, <2>3
<1>3. f[x] = k[x].qty
  OBVIOUS
<1> HIDE DEF f
<1>4. Total(S \cup {x}, f, MaxQty) = Total(S, f, MaxQty) + f[x]
  BY <1>2, TotalInsert DEF CommercialAssumption
<1>5. k[x].qty \in 0..MaxQty
  BY DEF LinkDoc
<1>6. QED
  BY <1>1, <1>2, <1>3, <1>4, <1>5 DEF CommercialAssumption

LEMMA NoneApprovedCaps ==
  ASSUME CommercialAssumption, IInv, IInv', PostedFirst, AllocationCaps,
         RowsMove, NoneApproved
  PROVE  AllocationCaps'
<1> USE DEF IInv
<1>1. link \in [Links -> LinkDoc] /\ link' \in [Links -> LinkDoc]
  BY DEF TypeOK
<1>2. \A x \in ApprovedLinks(link') : x \in ApprovedLinks(link) /\ RowKept(x)
  BY DEF ApprovedLinks, NoneApproved, RowsMove
<1>3. ASSUME NEW s \in Sales
      PROVE  QtyOf(ActiveLinksOf(link, s), link)' <= SaleQty[s]
  <2> DEFINE A == ActiveLinksOf(link, s)
             B == ActiveLinksOf(link, s)'
  <2>1. A \in SUBSET Links
    BY DEF ActiveLinksOf, LinksOf, ApprovedLinks
  <2>2. B \in SUBSET A
    <3> SUFFICES ASSUME NEW x \in B
                 PROVE  x \in A
      OBVIOUS
    <3>1. x \in ApprovedLinks(link') /\ link'[x].sale = s
          /\ outward'[link'[x].outward] = "POSTED"
      BY DEF ActiveLinksOf, LinksOf, ApprovedLinks, OutwardActive
    <3>2. x \in ApprovedLinks(link) /\ link[x].sale = s
          /\ outward'[link[x].outward] = "POSTED"
      BY <1>2, <3>1 DEF RowKept
    <3>3. link[x].outward \in Outwards /\ outward[link[x].outward] # "DRAFT"
      BY <3>2 DEF LinkedTo, PostedFirst, ApprovedLinks
    <3>4. outward[link[x].outward] = "POSTED"
      BY <3>2, <3>3 DEF RowsMove, OutwardsMove
    <3>5. QED
      BY <3>2, <3>4 DEF ActiveLinksOf, LinksOf, OutwardActive
  <2>3. \A x \in B : link'[x].qty = link[x].qty
    BY <1>2, <2>2 DEF ActiveLinksOf, LinksOf, RowKept
  <2>4. QtyOf(A, link) <= SaleQty[s] /\ SaleQty[s] \in 1..MaxQty
    BY DEF AllocationCaps, CommercialAssumption
  <2>5. QtyOf(ActiveLinksOf(link, s), link)' = QtyOf(B, link')
    BY DEF QtyOf
  <2> HIDE DEF A, B
  <2>6. QtyOf(B, link') \in Nat /\ QtyOf(A, link) \in Nat
        /\ QtyOf(B, link') <= QtyOf(A, link)
    BY <1>1, <2>1, <2>2, <2>3, QtyShrinks
  <2>7. QED
    BY <2>4, <2>5, <2>6
<1>4. ASSUME NEW o \in Outwards
      PROVE  QtyOf(LinksTo(link, o), link)' <= OutwardQty[o]
  <2> DEFINE A == LinksTo(link, o)
             B == LinksTo(link', o)
  <2>1. A \in SUBSET Links
    BY DEF LinksTo, ApprovedLinks
  <2>2. B \in SUBSET A /\ \A x \in B : link'[x].qty = link[x].qty
    BY <1>2 DEF LinksTo, RowKept
  <2>3. QtyOf(A, link) <= OutwardQty[o] /\ OutwardQty[o] \in 1..MaxQty
    BY DEF AllocationCaps, CommercialAssumption
  <2>4. QtyOf(LinksTo(link, o), link)' = QtyOf(B, link')
    BY DEF QtyOf, LinksTo, ApprovedLinks
  <2> HIDE DEF A, B
  <2>5. QtyOf(B, link') \in Nat /\ QtyOf(A, link) \in Nat
        /\ QtyOf(B, link') <= QtyOf(A, link)
    BY <1>1, <2>1, <2>2, QtyShrinks
  <2>6. QED
    BY <2>3, <2>4, <2>5
<1>5. \A x, y \in ApprovedLinks(link') :
        link'[x].sale = link'[y].sale /\ link'[x].outward = link'[y].outward => x = y
  BY <1>2 DEF AllocationCaps, RowKept
<1>6. QED
  BY <1>3, <1>4, <1>5 DEF AllocationCaps, ApprovedLinks

LEMMA ApproveLinkCaps ==
  ASSUME CommercialAssumption, IInv, IInv', AllocationCaps,
         NEW x \in Links, ApproveLink(x)
  PROVE  AllocationCaps'
<1> USE DEF IInv
<1> DEFINE p == link[x].supersedes
<1>1. link \in [Links -> LinkDoc] /\ link' \in [Links -> LinkDoc]
  BY DEF TypeOK
<1>2. UNCHANGED outward /\ x \notin ApprovedLinks(link)
  BY DEF ApproveLink, ApprovedLinks
<1>3. \A y \in ApprovedLinks(link') : /\ y \in (ApprovedLinks(link) \ {p}) \cup {x}
                                      /\ link'[y].sale = link[y].sale
                                      /\ link'[y].outward = link[y].outward
                                      /\ link'[y].qty = link[y].qty
  BY ApproveLinkRows DEF ApprovedLinks, RowKept
<1>4. /\ WithinLines(link[x].sale, link[x].outward, p, link[x].qty)
      /\ PairFree(link[x].sale, link[x].outward, p)
      /\ link[x].qty \in 0..MaxQty
  BY DEF ApproveLink, TypeOK, LinkDoc
<1>5. ASSUME NEW s \in Sales
      PROVE  QtyOf(ActiveLinksOf(link, s), link)' <= SaleQty[s]
  <2> DEFINE A == ActiveLinksOf(link, s)
             B == ActiveLinksOf(link, s)'
  <2>1. A \in SUBSET Links /\ x \notin A
    BY <1>2 DEF ActiveLinksOf, LinksOf, ApprovedLinks
  <2>2. /\ B \in SUBSET ((A \ {p}) \cup {x})
        /\ link[x].sale # s => B \in SUBSET A
        /\ \A y \in B : link'[y].qty = link[y].qty
    BY <1>2, <1>3 DEF ActiveLinksOf, LinksOf, ApprovedLinks, OutwardActive
  <2>3. QtyOf(A, link) <= SaleQty[s] /\ SaleQty[s] \in 1..MaxQty
    BY DEF AllocationCaps, CommercialAssumption
  <2>4. QtyOf(ActiveLinksOf(link, s), link)' = QtyOf(B, link')
    BY DEF QtyOf
  <2>5. link[x].sale = s => QtyOf(A \ {p}, link) + link[x].qty <= SaleQty[s]
    BY <1>4 DEF WithinLines
  <2> HIDE DEF A, B
  <2>6. CASE link[x].sale = s
    <3>1. A \ {p} \in SUBSET Links /\ x \notin A \ {p}
      BY <2>1
    <3>2. QtyOf(A \ {p}, link) \in Nat
      BY <1>1, <3>1, QtyShrinks
    <3>3. QtyOf(B, link') \in Nat
          /\ QtyOf(B, link') <= QtyOf(A \ {p}, link) + link[x].qty
      BY <1>1, <2>2, <3>1, QtyGrows
    <3>4. QED
      BY <1>4, <2>3, <2>4, <2>5, <2>6, <3>2, <3>3 DEF CommercialAssumption
  <2>7. CASE link[x].sale # s
    <3>1. QtyOf(B, link') \in Nat /\ QtyOf(A, link) \in Nat
          /\ QtyOf(B, link') <= QtyOf(A, link)
      BY <1>1, <2>1, <2>2, <2>7, QtyShrinks
    <3>2. QED
      BY <2>3, <2>4, <3>1
  <2>8. QED
    BY <2>6, <2>7
<1>6. ASSUME NEW o \in Outwards
      PROVE  QtyOf(LinksTo(link, o), link)' <= OutwardQty[o]
  <2> DEFINE A == LinksTo(link, o)
             B == LinksTo(link', o)
  <2>1. A \in SUBSET Links /\ x \notin A
    BY <1>2 DEF LinksTo, ApprovedLinks
  <2>2. /\ B \in SUBSET ((A \ {p}) \cup {x})
        /\ link[x].outward # o => B \in SUBSET A
        /\ \A y \in B : link'[y].qty = link[y].qty
    BY <1>3 DEF LinksTo
  <2>3. QtyOf(A, link) <= OutwardQty[o] /\ OutwardQty[o] \in 1..MaxQty
    BY DEF AllocationCaps, CommercialAssumption
  <2>4. QtyOf(LinksTo(link, o), link)' = QtyOf(B, link')
    BY DEF QtyOf, LinksTo, ApprovedLinks
  <2>5. link[x].outward = o => QtyOf(A \ {p}, link) + link[x].qty <= OutwardQty[o]
    BY <1>4 DEF WithinLines
  <2> HIDE DEF A, B
  <2>6. CASE link[x].outward = o
    <3>1. A \ {p} \in SUBSET Links /\ x \notin A \ {p}
      BY <2>1
    <3>2. QtyOf(A \ {p}, link) \in Nat
      BY <1>1, <3>1, QtyShrinks
    <3>3. QtyOf(B, link') \in Nat
          /\ QtyOf(B, link') <= QtyOf(A \ {p}, link) + link[x].qty
      BY <1>1, <2>2, <3>1, QtyGrows
    <3>4. QED
      BY <1>4, <2>3, <2>4, <2>5, <2>6, <3>2, <3>3 DEF CommercialAssumption
  <2>7. CASE link[x].outward # o
    <3>1. QtyOf(B, link') \in Nat /\ QtyOf(A, link) \in Nat
          /\ QtyOf(B, link') <= QtyOf(A, link)
      BY <1>1, <2>1, <2>2, <2>7, QtyShrinks
    <3>2. QED
      BY <2>3, <2>4, <3>1
  <2>8. QED
    BY <2>6, <2>7
<1>7. ASSUME NEW y \in ApprovedLinks(link'), NEW z \in ApprovedLinks(link'),
             link'[y].sale = link'[z].sale, link'[y].outward = link'[z].outward
      PROVE  y = z
  <2>1. CASE y \in ApprovedLinks(link) /\ z \in ApprovedLinks(link)
    BY <1>3, <1>7, <2>1 DEF AllocationCaps
  <2>2. \A w \in ApprovedLinks(link) \ {p} :
          ~(link[w].sale = link[x].sale /\ link[w].outward = link[x].outward)
    BY <1>4 DEF PairFree, LinksOf, LinksTo
  <2>3. CASE y \notin ApprovedLinks(link) \/ z \notin ApprovedLinks(link)
    BY <1>3, <1>7, <2>2, <2>3
  <2>4. QED
    BY <2>1, <2>3
<1>8. QED
  BY <1>5, <1>6, <1>7 DEF AllocationCaps, ApprovedLinks

-----------------------------------------------------------------------------
(* What is stored about each sale and outward.                             *)

\* One of the outwards of s was reversed under its allocation.
Behind(s) == \E x \in LinksOf(link, s) : outward[link[x].outward] = "REVERSED"

MovementCurrent(s) ==
  \/ Behind(s)
  \/ sale[s].movement = Effective(link, s)
  \/ sale[s].movement = "UNKNOWN" /\ LinksOf(link, s) = {}

ExceptionsFollow(s) ==
  sale[s].status # "ABSENT" =>
    /\ exc[s] \subseteq Conditions(sale[s], link, s)
    /\ Conditions(sale[s], link, s) \ exc[s] \subseteq
         IF Behind(s) THEN {"SALE_WITHOUT_OUTWARD"} ELSE {}

\* Sales that were never entered have no movement either.
SalesFollow == \A s \in Sales : MovementCurrent(s) /\ ExceptionsFollow(s)

\* The approved allocations of s stay as they are, and so do their outwards.
SameLinks(s) ==
  /\ \A x \in Links : (link'[x].state = "APPROVED" /\ link'[x].sale = s)
                        <=> (link[x].state = "APPROVED" /\ link[x].sale = s)
  /\ \A x \in LinksOf(link, s) :
       /\ link'[x].outward = link[x].outward /\ link'[x].qty = link[x].qty
       /\ outward'[link[x].outward] = outward[link[x].outward]

\* The exceptions of s are those of a save with the links of the next state.
SavedWith(s) ==
  /\ exc'[s] = Conditions(sale'[s], link', s)
  /\ UNCHANGED outward

\* What a step may do to s.
FlagStep(s) ==
  \/ SameLinks(s) /\ sale'[s] = sale[s] /\ exc'[s] = exc[s]
  \/ SavedWith(s) /\ SameLinks(s) /\ sale'[s].movement = sale[s].movement
  \/ /\ SavedWith(s) /\ LinksOf(link', s) = {}
     /\ sale'[s].movement \in {"UNKNOWN", "NOT_EVIDENCED"}
  \/ SavedWith(s) /\ sale'[s].movement = Effective(link', s)

LEMMA OutwardsStill ==
  ASSUME UNCHANGED outward, NEW s \in Sales
  PROVE  /\ LinksOf(link, s)' = LinksOf(link', s)
         /\ Effective(link, s)' = Effective(link', s)
         /\ Conditions(sale[s], link, s)' = Conditions(sale'[s], link', s)
<1>1. LinksOf(link, s)' = LinksOf(link', s)
  BY DEF LinksOf, ApprovedLinks
<1>2. ActiveLinksOf(link, s)' = ActiveLinksOf(link', s)
  BY DEF ActiveLinksOf, LinksOf, ApprovedLinks, OutwardActive
<1>3. Effective(link, s)' = Effective(link', s)
  BY <1>2 DEF Effective, QtyOf
<1>4. Conditions(sale[s], link, s)' = Conditions(sale'[s], link', s)
  BY <1>3 DEF Conditions
<1>5. QED
  BY <1>1, <1>3, <1>4

LEMMA SameLinksSame ==
  ASSUME NEW s \in Sales, SameLinks(s)
  PROVE  /\ LinksOf(link, s)' = LinksOf(link, s)
         /\ Effective(link, s)' = Effective(link, s)
         /\ Behind(s)' = Behind(s)
<1>1. LinksOf(link, s)' = LinksOf(link, s)
  BY DEF SameLinks, LinksOf, ApprovedLinks
<1>2. ActiveLinksOf(link, s)' = ActiveLinksOf(link, s)
  BY <1>1 DEF SameLinks, ActiveLinksOf, OutwardActive
<1>3. \A x \in ActiveLinksOf(link, s) : link'[x].qty = link[x].qty
  BY DEF SameLinks, ActiveLinksOf
<1>4. QtyOf(ActiveLinksOf(link, s), link)' = QtyOf(ActiveLinksOf(link, s), link)
  BY <1>2, <1>3 DEF QtyOf
<1>5. Effective(link, s)' = Effective(link, s)
  BY <1>2, <1>4 DEF Effective
<1>6. Behind(s)' = Behind(s)
  BY <1>1 DEF SameLinks, Behind
<1>7. QED
  BY <1>1, <1>5, <1>6

LEMMA FlagStepKeeps ==
  ASSUME NEW s \in Sales, MovementCurrent(s), ExceptionsFollow(s), FlagStep(s)
  PROVE  MovementCurrent(s)' /\ ExceptionsFollow(s)'
<1>1. CASE SameLinks(s) /\ sale'[s] = sale[s] /\ exc'[s] = exc[s]
  <2>1. /\ LinksOf(link, s)' = LinksOf(link, s)
        /\ Effective(link, s)' = Effective(link, s)
        /\ Behind(s)' = Behind(s)
    BY <1>1, SameLinksSame
  <2>2. Conditions(sale[s], link, s)' = Conditions(sale[s], link, s)
    BY <1>1, <2>1 DEF Conditions
  <2>3. QED
    BY <1>1, <2>1, <2>2 DEF MovementCurrent, ExceptionsFollow
<1>2. CASE SavedWith(s)
  <2>1. UNCHANGED outward /\ exc'[s] = Conditions(sale[s], link, s)'
    BY <1>2, OutwardsStill DEF SavedWith
  <2>2. ExceptionsFollow(s)'
    BY <2>1 DEF ExceptionsFollow
  <2>3. CASE SameLinks(s) /\ sale'[s].movement = sale[s].movement
    <3>1. /\ LinksOf(link, s)' = LinksOf(link, s)
          /\ Effective(link, s)' = Effective(link, s)
          /\ Behind(s)' = Behind(s)
      BY <2>3, SameLinksSame
    <3>2. QED
      BY <2>2, <2>3, <3>1 DEF MovementCurrent
  <2>4. CASE LinksOf(link', s) = {} /\ sale'[s].movement \in {"UNKNOWN", "NOT_EVIDENCED"}
    <3>1. Effective(link', s) = "NOT_EVIDENCED"
      BY <2>4 DEF Effective, ActiveLinksOf
    <3>2. Effective(link, s)' = "NOT_EVIDENCED"
      BY <2>1, <3>1, OutwardsStill
    <3>3. LinksOf(link, s)' = {}
      BY <2>1, <2>4, OutwardsStill
    <3>4. QED
      BY <2>2, <2>4, <3>2, <3>3 DEF MovementCurrent
  <2>5. CASE sale'[s].movement = Effective(link', s)
    <3>1. sale'[s].movement = Effective(link, s)'
      BY <2>1, <2>5, OutwardsStill
    <3>2. QED
      BY <2>2, <3>1 DEF MovementCurrent
  <2>6. QED
    BY <1>1, <2>3, <2>4, <2>5 DEF FlagStep
<1>3. QED
  BY <1>1, <1>2 DEF FlagStep

LEMMA SaveRow ==
  ASSUME NEW t, NEW k, NEW S, SaveSales(t, k, S), NEW s \in Sales
  PROVE  /\ sale'[s] = t[s]
         /\ exc'[s] = IF s \in S THEN Conditions(t[s], k, s) ELSE exc[s]
BY DEF SaveSales

LEMMA SaveOneRow ==
  ASSUME TypeOK, NEW s \in Sales, NEW n, NEW k,
         SaveSales([sale EXCEPT ![s] = n], k, {s}), NEW u \in Sales
  PROVE  /\ sale'[u] = IF u = s THEN n ELSE sale[u]
         /\ exc'[u] = IF u = s THEN Conditions(n, k, s) ELSE exc[u]
BY DEF SaveSales, TypeOK

LEMMA NoLinks ==
  ASSUME IInv, NEW s \in Sales, sale[s].status # "APPROVED"
  PROVE  LinksOf(link, s) = {}
BY DEF IInv, AllocatedWhileSold, LinksOf

\* Links and outwards as they are.
LEMMA StillSame ==
  ASSUME UNCHANGED <<link, outward>>, NEW s \in Sales
  PROVE  SameLinks(s)
BY DEF SameLinks

LEMMA CreateSaleFlags ==
  ASSUME IInv, NEW s \in Sales, NEW prior \in Sales \cup {None},
         CreateSale(s, prior), NEW u \in Sales
  PROVE  FlagStep(u)
<1> USE DEF IInv
<1> DEFINE r == [status |-> "DRAFT", mapping |-> None, customer |-> NoCustomer,
                 remapped |-> FALSE, movement |-> "UNKNOWN", supersedes |-> prior,
                 successor |-> None]
<1>1. PICK n \in IF Current = {} THEN {r} ELSE {Mapped(r, m) : m \in Current} :
        SaveSales([sale EXCEPT ![s] = n], link, {s})
  BY DEF CreateSale
<1>2. n.movement = "UNKNOWN"
  <2>1. n = r \/ \E m \in Current : n = Mapped(r, m)
    BY <1>1
  <2>2. r.movement = "UNKNOWN" /\ \A m \in Current : Mapped(r, m).movement = "UNKNOWN"
    BY DEF Mapped
  <2> HIDE DEF r
  <2>3. QED
    BY <2>1, <2>2
<1>3. UNCHANGED <<link, outward>> /\ sale[s].status = "ABSENT" /\ DOMAIN sale = Sales
  BY DEF CreateSale, TypeOK
<1>4. CASE u = s
  <2>1. sale'[u] = n /\ exc'[u] = Conditions(n, link, u)
    <3>1. SaveSales([sale EXCEPT ![s] = n], link, {s}) /\ TypeOK
      BY <1>1
    <3>2. QED
      BY ONLY <1>4, <3>1, u \in Sales DEF SaveSales, TypeOK
  <2>2. LinksOf(link', u) = {}
    BY <1>3, <1>4, NoLinks
  <2>3. SavedWith(u)
    <3>1. link' = link /\ outward' = outward
      BY <1>3
    <3>2. QED
      BY ONLY <2>1, <3>1 DEF SavedWith
  <2>4. sale'[u].movement = "UNKNOWN"
    BY <1>2, <2>1
  <2>5. QED
    BY ONLY <2>2, <2>3, <2>4 DEF FlagStep
<1>5. CASE u # s
  <2>1. sale'[u] = sale[u] /\ exc'[u] = exc[u]
    BY <1>1, <1>5, SaveOneRow
  <2>2. QED
    BY <1>3, <2>1, StillSame DEF FlagStep
<1>6. QED
  BY <1>4, <1>5

LEMMA SaleStatusFlags ==
  ASSUME IInv, NEW s \in Sales, SubmitSale(s) \/ RejectSale(s) \/ VerifySale(s),
         NEW u \in Sales
  PROVE  FlagStep(u)
<1> USE DEF IInv
<1>1. UNCHANGED <<link, outward>> /\ DOMAIN sale = Sales /\ sale[s] \in SaleDoc
  BY DEF SubmitSale, RejectSale, VerifySale, TypeOK
<1>2. PICK n : /\ SaveSales([sale EXCEPT ![s] = n], link, {s})
               /\ n.movement = sale[s].movement
  <2>1. ASSUME NEW v
        PROVE  [sale[s] EXCEPT !.status = v].movement = sale[s].movement
    BY <1>1 DEF SaleDoc
  <2>2. CASE SubmitSale(s) \/ RejectSale(s)
    <3>1. PICK v : SaveSales([sale EXCEPT ![s].status = v], link, {s})
      BY <2>2 DEF SubmitSale, RejectSale
    <3>2. SaveSales([sale EXCEPT ![s] = [sale[s] EXCEPT !.status = v]], link, {s})
      BY <3>1
    <3>3. QED
      BY <2>1, <3>2
  <2>3. CASE VerifySale(s)
    <3>1. PICK n \in VerifiedRows(s) : SaveSales([sale EXCEPT ![s] = n], link, {s})
      BY <2>3 DEF VerifySale
    <3>2. n.movement = sale[s].movement
      <4> DEFINE r == [sale[s] EXCEPT !.status = "VERIFIED"]
      <4>1. r \in [status: SaleStatuses, mapping: Mappings \cup {None},
                   customer: Customers \cup {NoCustomer}, remapped: BOOLEAN,
                   movement: Movements, supersedes: Sales \cup {None},
                   successor: Sales \cup {None}]
            /\ r.movement = sale[s].movement
        BY <1>1, <2>1 DEF SaleDoc, SaleStatuses
      <4>2. n = r \/ \E m \in Current : n = Mapped(r, m)
        BY <3>1 DEF VerifiedRows
      <4> HIDE DEF r
      <4>3. QED
        BY <4>1, <4>2 DEF Mapped
    <3>3. QED
      BY <3>1, <3>2
  <2>4. QED
    BY <2>2, <2>3
<1>3. SameLinks(u)
  BY <1>1, StillSame
<1>4. CASE u = s
  <2>1. SaveSales([sale EXCEPT ![s] = n], link, {s}) /\ TypeOK
    BY <1>2
  <2>2. sale'[s] = n /\ exc'[s] = Conditions(n, link, s)
    BY ONLY <2>1, s \in Sales, SaveOneRow
  <2>3. QED
    BY <1>1, <1>2, <1>3, <1>4, <2>2 DEF FlagStep, SavedWith
<1>5. CASE u # s
  <2>1. sale'[u] = sale[u] /\ exc'[u] = exc[u]
    BY <1>2, <1>5, SaveOneRow
  <2>2. QED
    BY <1>3, <2>1 DEF FlagStep
<1>6. QED
  BY <1>4, <1>5

\* Reversing the allocations of S leaves those of other sales alone.
LEMMA ReversedLinks ==
  ASSUME IInv, NEW S, link' = ReversedOf(S), UNCHANGED outward, NEW u \in Sales
  PROVE  /\ u \notin S => SameLinks(u)
         /\ u \in S => LinksOf(link', u) = {}
         /\ LinksOf(link, u) = {} => SameLinks(u)
<1> USE DEF IInv
<1>1. \A x \in Links :
        /\ link'[x].sale = link[x].sale
        /\ link[x].state = "APPROVED" /\ link[x].sale \in S => link'[x].state = "REVERSED"
        /\ ~(link[x].state = "APPROVED" /\ link[x].sale \in S) => link'[x] = link[x]
  BY ReversedRows
<1>2. u \notin S => SameLinks(u)
  BY <1>1 DEF SameLinks, LinksOf, ApprovedLinks
<1>3. u \in S => LinksOf(link', u) = {}
  BY <1>1 DEF LinksOf, ApprovedLinks
<1>4. LinksOf(link, u) = {} => SameLinks(u)
  BY <1>1 DEF SameLinks, LinksOf, ApprovedLinks
<1>5. QED
  BY <1>2, <1>3, <1>4

LEMMA UnmovedMovement ==
  ASSUME NEW s, NEW r \in SaleDoc
  PROVE  Unmoved(s, r).movement =
           IF LinksOf(link, s) = {} THEN r.movement ELSE "NOT_EVIDENCED"
BY DEF Unmoved, SaleDoc

LEMMA ApproveSaleFlags ==
  ASSUME CommercialAssumption, IInv, NEW s \in Sales, ApproveSale(s), NEW u \in Sales
  PROVE  FlagStep(u)
<1> USE DEF IInv
<1> DEFINE p == sale[s].supersedes
           P == {p} \cap Sales
           t == [v \in Sales |->
                   IF v = s THEN [sale[s] EXCEPT !.status = "APPROVED"]
                   ELSE IF v = p THEN [Unmoved(p, sale[p]) EXCEPT
                                         !.status = "SUPERSEDED", !.successor = s]
                   ELSE sale[v]]
<1>1. /\ link' = ReversedOf(P) /\ UNCHANGED outward
      /\ SaveSales(t, link', {s} \cup P)
      /\ sale[s].status = "VERIFIED" /\ p # s /\ sale[u] \in SaleDoc
  BY DEF ApproveSale, CorrectsAnother, TypeOK
<1>2. /\ sale'[u] = t[u]
      /\ exc'[u] = IF u \in {s} \cup P THEN Conditions(t[u], link', u) ELSE exc[u]
  BY <1>1, SaveRow
<1>3. /\ u \notin P => SameLinks(u)
      /\ u \in P => LinksOf(link', u) = {}
      /\ LinksOf(link, u) = {} => SameLinks(u)
  <2> HIDE DEF P
  <2>1. QED
    BY <1>1, ReversedLinks
<1>4. CASE u = s
  <2>1. sale'[u] = [sale[u] EXCEPT !.status = "APPROVED"]
    BY <1>2, <1>4
  <2>2. sale'[u].movement = sale[u].movement
    BY <1>1, <2>1 DEF SaleDoc
  <2>3. SameLinks(u)
    BY <1>1, <1>3, <1>4
  <2>4. SavedWith(u)
    BY <1>1, <1>2, <1>4 DEF SavedWith
  <2>5. QED
    BY <2>2, <2>3, <2>4 DEF FlagStep
<1>5. CASE u = p
  <2> DEFINE r == Unmoved(u, sale[u])
  <2>1. sale'[u] = [r EXCEPT !.status = "SUPERSEDED", !.successor = s]
    BY <1>1, <1>2, <1>5
  <2>2. r \in SaleDoc /\ r.movement =
           IF LinksOf(link, u) = {} THEN sale[u].movement ELSE "NOT_EVIDENCED"
    BY <1>1, UnmovedTyped, UnmovedMovement
  <2> HIDE DEF r
  <2>3. sale'[u].movement = r.movement
    BY <2>1, <2>2 DEF SaleDoc
  <2>4. SavedWith(u) /\ LinksOf(link', u) = {}
    BY <1>1, <1>2, <1>3, <1>5 DEF SavedWith
  <2>5. QED
    BY <1>3, <2>2, <2>3, <2>4 DEF FlagStep
<1>6. CASE u \notin {s, p}
  <2>1. sale'[u] = sale[u] /\ exc'[u] = exc[u] /\ SameLinks(u)
    BY <1>2, <1>3, <1>6
  <2>2. QED
    BY <2>1 DEF FlagStep
<1>7. QED
  BY <1>4, <1>5, <1>6

LEMMA ApproveRemapFlags ==
  ASSUME CommercialAssumption, IInv, NEW m \in Mappings, ApproveRemap(m), NEW u \in Sales
  PROVE  FlagStep(u)
<1> USE DEF IInv
<1> DEFINE S == Holders(mapping[m].supersedes)
           t == [s \in Sales |->
                   IF s \in S THEN [Unmoved(s, sale[s]) EXCEPT
                                      !.status = "REVIEW_PENDING", !.mapping = None,
                                      !.customer = NoCustomer, !.remapped = TRUE]
                   ELSE sale[s]]
<1>1. /\ link' = ReversedOf(S) /\ UNCHANGED outward
      /\ SaveSales(t, link', S) /\ sale[u] \in SaleDoc
  BY DEF ApproveRemap, TypeOK
<1>2. /\ sale'[u] = t[u]
      /\ exc'[u] = IF u \in S THEN Conditions(t[u], link', u) ELSE exc[u]
  <2> HIDE DEF S, t
  <2>1. QED
    BY <1>1, SaveRow
<1>3. /\ u \notin S => SameLinks(u)
      /\ u \in S => LinksOf(link', u) = {}
      /\ LinksOf(link, u) = {} => SameLinks(u)
  <2> HIDE DEF S
  <2>1. QED
    BY <1>1, ReversedLinks
<1>4. CASE u \in S
  <2> DEFINE r == Unmoved(u, sale[u])
  <2>1. sale'[u] = [r EXCEPT !.status = "REVIEW_PENDING", !.mapping = None,
                             !.customer = NoCustomer, !.remapped = TRUE]
    BY <1>2, <1>4
  <2>2. r \in SaleDoc /\ r.movement =
           IF LinksOf(link, u) = {} THEN sale[u].movement ELSE "NOT_EVIDENCED"
    BY <1>1, UnmovedTyped, UnmovedMovement
  <2> HIDE DEF r
  <2>3. sale'[u].movement = r.movement
    BY <2>1, <2>2 DEF SaleDoc
  <2>4. SavedWith(u) /\ LinksOf(link', u) = {}
    BY <1>1, <1>2, <1>3, <1>4 DEF SavedWith
  <2>5. QED
    BY <1>3, <2>2, <2>3, <2>4 DEF FlagStep
<1>5. CASE u \notin S
  <2>1. sale'[u] = sale[u] /\ exc'[u] = exc[u] /\ SameLinks(u)
    BY <1>2, <1>3, <1>5
  <2>2. QED
    BY <2>1 DEF FlagStep
<1>6. QED
  BY <1>4, <1>5

LEMMA ApproveFirstFlags ==
  ASSUME CommercialAssumption, IInv, NEW m \in Mappings, ApproveFirstMapping(m),
         NEW u \in Sales
  PROVE  FlagStep(u)
<1> USE DEF IInv
<1> DEFINE S == {s \in Sales : sale[s].mapping = None
                                /\ sale[s].status \notin Closed \cup {"ABSENT"}}
           t == [s \in Sales |-> IF s \in S THEN Mapped(sale[s], m) ELSE sale[s]]
<1>1. UNCHANGED <<link, outward>> /\ SaveSales(t, link, S) /\ sale[u] \in SaleDoc
  BY DEF ApproveFirstMapping, TypeOK
<1>2. /\ sale'[u] = t[u] /\ SameLinks(u)
      /\ exc'[u] = IF u \in S THEN Conditions(t[u], link, u) ELSE exc[u]
  BY <1>1, SaveRow, StillSame
<1>3. CASE u \in S
  <2>1. sale'[u] = Mapped(sale[u], m)
    BY <1>2, <1>3
  <2>2. sale'[u].movement = sale[u].movement
    BY <1>1, <2>1 DEF Mapped, SaleDoc
  <2>3. SavedWith(u)
    BY <1>1, <1>2, <1>3 DEF SavedWith
  <2>4. QED
    BY <1>2, <2>2, <2>3 DEF FlagStep
<1>4. CASE u \notin S
  BY <1>2, <1>4 DEF FlagStep
<1>5. QED
  BY <1>3, <1>4

LEMMA MovedRow ==
  ASSUME TypeOK, NEW k, NEW S, Moved(k, S), NEW u \in Sales
  PROVE  /\ u \in S => /\ sale'[u].movement = Effective(k, u)
                       /\ exc'[u] = Conditions(sale'[u], k, u)
         /\ u \notin S => sale'[u] = sale[u] /\ exc'[u] = exc[u]
<1>1. sale[u] \in SaleDoc
  BY DEF TypeOK
<1>2. /\ sale'[u] = IF u \in S THEN [sale[u] EXCEPT !.movement = Effective(k, u)]
                    ELSE sale[u]
      /\ exc'[u] = IF u \in S THEN Conditions(sale'[u], k, u) ELSE exc[u]
  BY DEF Moved, SaveSales
<1>3. [sale[u] EXCEPT !.movement = Effective(k, u)].movement = Effective(k, u)
  BY <1>1 DEF SaleDoc
<1>4. QED
  BY <1>2, <1>3

LEMMA LinkFlags ==
  ASSUME CommercialAssumption, IInv, Kin, NEW x \in Links, LinkStep(x), NEW u \in Sales
  PROVE  FlagStep(u)
<1> USE DEF IInv
<1>1. ASSUME Moved(link', {link[x].sale}), UNCHANGED outward,
             \A y \in Links : link[y].sale # link[x].sale \/ link[y].state = "ABSENT"
                                => \/ link'[y] = link[y]
                                   \/ /\ link[y].state # "APPROVED"
                                      /\ link'[y].state # "APPROVED",
             \A y \in Links : link'[y].state = "APPROVED" =>
                                link'[y].sale = link[y].sale
      PROVE  FlagStep(u)
  <2>1. CASE u = link[x].sale
    <3>1. sale'[u].movement = Effective(link', u) /\ exc'[u] = Conditions(sale'[u], link', u)
      BY <1>1, <2>1, MovedRow
    <3>2. QED
      BY <1>1, <3>1 DEF FlagStep, SavedWith
  <2>2. CASE u # link[x].sale
    <3>1. sale'[u] = sale[u] /\ exc'[u] = exc[u]
      BY <1>1, <2>2, MovedRow
    <3>2. SameLinks(u)
      BY <1>1, <2>2 DEF SameLinks, LinksOf, ApprovedLinks
    <3>3. QED
      BY <3>1, <3>2 DEF FlagStep
  <2>3. QED
    BY <2>1, <2>2
<1>2. ASSUME UNCHANGED <<sale, exc, outward>>,
             \A y \in Links : \/ link'[y] = link[y]
                              \/ /\ link[y].state # "APPROVED"
                                 /\ link'[y].state # "APPROVED"
      PROVE  FlagStep(u)
  <2>1. SameLinks(u)
    BY <1>2 DEF SameLinks, LinksOf, ApprovedLinks
  <2>2. QED
    BY <1>2, <2>1 DEF FlagStep
<1>3. CASE \E s \in Sales, o \in Outwards, q \in Quantities, prior \in Links \cup {None} :
             ProposeLink(x, s, o, q, prior)
  <2>1. \A y \in Links : /\ y # x => link'[y] = link[y]
                         /\ y = x => link[x].state = "ABSENT" /\ RowProposed(x)
    BY <1>3, ProposeLinkRows
  <2>2. UNCHANGED <<sale, exc, outward>>
    BY <1>3 DEF ProposeLink
  <2>3. QED
    BY <1>2, <2>1, <2>2 DEF RowProposed
<1>4. CASE VerifyLink(x) \/ RejectLink(x)
  <2>1. \A y \in Links : /\ y # x => link'[y] = link[y]
                         /\ y = x => link'[x].state # "APPROVED"
    BY <1>4, LinkStepRows
  <2>2. UNCHANGED <<sale, exc, outward>> /\ link[x].state # "APPROVED"
    BY <1>4 DEF VerifyLink, RejectLink
  <2>3. QED
    BY <1>2, <2>1, <2>2
<1>5. CASE ReverseLink(x)
  <2>1. \A y \in Links : /\ y # x => link'[y] = link[y]
                         /\ y = x => link[x].state # "ABSENT" /\ link'[x].state # "APPROVED"
    BY <1>5, LinkStepRows
  <2>2. Moved(link', {link[x].sale}) /\ UNCHANGED outward
    BY <1>5 DEF ReverseLink
  <2>3. QED
    BY <1>1, <2>1, <2>2
<1>6. CASE ApproveLink(x)
  <2> DEFINE p == link[x].supersedes
  <2>1. \A y \in Links : /\ y \notin {x, p} => link'[y] = link[y]
                         /\ y \in {x, p} => link[y].state # "ABSENT" /\ RowKept(y)
                         /\ y = p => link'[y].state = "REVERSED"
    BY <1>6, ApproveLinkRows
  <2>2. link[x].state # "ABSENT" /\ (p \in Links => link[p].sale = link[x].sale)
    BY <2>1 DEF Kin, CommercialAssumption
  <2>3. Moved(link', {link[x].sale}) /\ UNCHANGED outward
    BY <1>6 DEF ApproveLink
  <2>4. QED
    BY <1>1, <2>1, <2>2, <2>3 DEF RowKept
<1>7. QED
  BY <1>3, <1>4, <1>5, <1>6 DEF LinkStep

\* The reversal of an outward leaves the sales that were allocated from it
\* behind; nothing else happens to a sale that is not saved.
LEMMA ReverseOutwardFlags ==
  ASSUME IInv, SalesFollow, NEW o \in Outwards, ReverseOutward(o), NEW s \in Sales
  PROVE  MovementCurrent(s)' /\ ExceptionsFollow(s)'
<1> USE DEF IInv
<1>1. /\ UNCHANGED <<sale, mapping, link, exc, unsold>>
      /\ outward[o] = "POSTED" /\ outward'[o] = "REVERSED"
      /\ \A u \in Outwards \ {o} : outward'[u] = outward[u]
  BY DEF ReverseOutward, TypeOK, Physical!Reverses
<1>2. \A x \in LinksOf(link, s) : link[x].outward \in Outwards
  BY DEF LinksOf, ApprovedLinks, LinkedTo
<1>3. CASE \E x \in LinksOf(link, s) : link[x].outward = o
  <2>1. Behind(s)'
    BY <1>1, <1>3 DEF Behind, LinksOf, ApprovedLinks
  <2>2. ActiveLinksOf(link, s)' \subseteq ActiveLinksOf(link, s)
    BY <1>1, <1>2 DEF ActiveLinksOf, LinksOf, ApprovedLinks, OutwardActive
  <2>3. Effective(link, s) = "NOT_EVIDENCED" => Effective(link, s)' = "NOT_EVIDENCED"
    BY <2>2 DEF Effective
  <2>4. /\ Conditions(sale[s], link, s) \subseteq Conditions(sale[s], link, s)'
        /\ Conditions(sale[s], link, s)' \subseteq
             Conditions(sale[s], link, s) \cup {"SALE_WITHOUT_OUTWARD"}
    BY <1>1, <2>3 DEF Conditions
  <2>5. ExceptionsFollow(s)
    BY DEF SalesFollow
  <2>6. ExceptionsFollow(s)'
    BY <1>1, <2>1, <2>4, <2>5 DEF ExceptionsFollow
  <2>7. QED
    BY <2>1, <2>6 DEF MovementCurrent
<1>4. CASE \A x \in LinksOf(link, s) : link[x].outward # o
  <2>1. SameLinks(s)
    BY <1>1, <1>2, <1>4 DEF SameLinks
  <2>2. QED
    BY <1>1, <2>1, FlagStepKeeps DEF FlagStep, SalesFollow
<1>5. QED
  BY <1>3, <1>4

LEMMA SalesFollowKept ==
  ASSUME CommercialAssumption, IInv, PostedFirst, Kin, SalesFollow, [Next]_vars
  PROVE  SalesFollow'
<1> USE DEF IInv
<1>1. ASSUME \A s \in Sales : FlagStep(s)
      PROVE  SalesFollow'
  BY <1>1, FlagStepKeeps DEF SalesFollow
<1>2. ASSUME UNCHANGED <<sale, exc, link, outward>>
      PROVE  SalesFollow'
  BY <1>1, <1>2, StillSame DEF FlagStep
<1>3. CASE \E s \in Sales : SaleStep(s)
  <2>1. PICK s \in Sales : SaleStep(s)
    BY <1>3
  <2>2. CASE Pay(s)
    BY <1>2, <2>2 DEF Pay
  <2>3. CASE ~Pay(s)
    BY <1>1, <2>1, <2>3, CreateSaleFlags, SaleStatusFlags, ApproveSaleFlags DEF SaleStep
  <2>4. QED
    BY <2>2, <2>3
<1>4. CASE \E m \in Mappings : MappingStep(m)
  <2>1. PICK m \in Mappings : MappingStep(m)
    BY <1>4
  <2>2. CASE ApproveFirstMapping(m) \/ ApproveRemap(m)
    BY <1>1, <2>2, ApproveFirstFlags, ApproveRemapFlags
  <2>3. CASE ~(ApproveFirstMapping(m) \/ ApproveRemap(m))
    BY <1>2, <2>1, <2>3 DEF MappingStep, ProposeMapping, VerifyMapping, RejectMapping
  <2>4. QED
    BY <2>2, <2>3
<1>5. CASE \E x \in Links : LinkStep(x)
  BY <1>1, <1>5, LinkFlags
<1>6. CASE \E o \in Outwards : Post(o)
  <2>1. PICK o \in Outwards : Post(o)
    BY <1>6
  <2>2. ASSUME NEW s \in Sales
        PROVE  FlagStep(s)
    <3>1. \A x \in LinksOf(link, s) : link[x].outward \in Outwards \ {o}
      BY <2>1 DEF LinksOf, ApprovedLinks, LinkedTo, PostedFirst, Post, Physical!Posts
    <3>2. SameLinks(s)
      BY <2>1, <3>1 DEF SameLinks, Post, TypeOK, Physical!Posts
    <3>3. QED
      BY <2>1, <3>2 DEF FlagStep, Post, Physical!Posts
  <2>3. QED
    BY <1>1, <2>2
<1>7. CASE \E o \in Outwards : ReverseOutward(o)
  BY <1>7, ReverseOutwardFlags DEF SalesFollow
<1>8. CASE Refresh
  <2>1. Moved(link', {s \in Sales : sale[s].status # "ABSENT"}) /\ UNCHANGED <<link, outward>>
    BY <1>8 DEF Refresh
  <2>2. ASSUME NEW u \in Sales
        PROVE  FlagStep(u)
    <3> DEFINE S == {s \in Sales : sale[s].status # "ABSENT"}
    <3>1. /\ u \in S => /\ sale'[u].movement = Effective(link', u)
                        /\ exc'[u] = Conditions(sale'[u], link', u)
          /\ u \notin S => sale'[u] = sale[u] /\ exc'[u] = exc[u]
      <4>1. Moved(link', S)
        BY <2>1
      <4> HIDE DEF S
      <4>2. QED
        BY <4>1, MovedRow
    <3>2. QED
      BY <2>1, <3>1, StillSame DEF FlagStep, SavedWith
  <2>3. QED
    BY <1>1, <2>2
<1>9. CASE UNCHANGED vars
  BY <1>2, <1>9 DEF vars
<1>10. QED
  BY <1>3, <1>4, <1>5, <1>6, <1>7, <1>8, <1>9 DEF Next

-----------------------------------------------------------------------------
(* The outward's side.                                                     *)

\* The approved allocations to o stay as they are.
SameLinksTo(o) ==
  /\ \A x \in Links : (link'[x].state = "APPROVED" /\ link'[x].outward = o)
                        <=> (link[x].state = "APPROVED" /\ link[x].outward = o)
  /\ \A x \in LinksTo(link, o) : link'[x].qty = link[x].qty

\* What a step may do to o.
UnsoldStep(o) ==
  \/ SameLinksTo(o) /\ outward'[o] = outward[o] /\ unsold'[o] = unsold[o]
  \/ UNCHANGED outward /\ unsold'[o] = Refreshed(link', {o})[o]

\* The mark of o, as UnsoldFlagged asks for it.
UnsoldRight(o) ==
  CASE unsold[o] = "Open" -> QtyOf(LinksTo(link, o), link) # OutwardQty[o]
    [] unsold[o] = "Resolved" -> QtyOf(LinksTo(link, o), link) = OutwardQty[o]
    [] OTHER -> LinksTo(link, o) = {}
                  \/ QtyOf(LinksTo(link, o), link) = OutwardQty[o]

OutwardsFollow == UnsoldFlagged /\ DraftUnmarked

LEMMA UnsoldStepKeeps ==
  ASSUME TypeOK, OutwardsFollow, \A o \in Outwards : UnsoldStep(o)
  PROVE  OutwardsFollow'
<1>1. ASSUME NEW o \in Outwards, SameLinksTo(o), outward'[o] = outward[o],
             unsold'[o] = unsold[o]
      PROVE  LinksTo(link, o)' = LinksTo(link, o)
             /\ QtyOf(LinksTo(link, o), link)' = QtyOf(LinksTo(link, o), link)
  <2>1. LinksTo(link, o)' = LinksTo(link, o)
    BY <1>1 DEF SameLinksTo, LinksTo, ApprovedLinks
  <2>2. \A x \in LinksTo(link, o) : link'[x].qty = link[x].qty
    BY <1>1 DEF SameLinksTo
  <2>3. QED
    BY <2>1, <2>2 DEF QtyOf
<1>2. ASSUME NEW o \in Outwards, UNCHANGED outward, unsold'[o] = Refreshed(link', {o})[o]
      PROVE  /\ unsold'[o] = IF outward[o] = "POSTED"
                                /\ QtyOf(LinksTo(link, o), link)' # OutwardQty[o]
                             THEN "Open"
                             ELSE IF unsold[o] = "None" THEN "None" ELSE "Resolved"
  <2>1. QtyOf(LinksTo(link, o), link)' = QtyOf(LinksTo(link', o), link')
    BY DEF QtyOf, LinksTo, ApprovedLinks
  <2>2. QED
    BY <1>2, <2>1 DEF Refreshed, OutwardActive
<1>3. \A o \in Outwards : unsold[o] \in {"None", "Open", "Resolved"}
  BY DEF TypeOK
<1>4. DraftUnmarked'
  <2> SUFFICES ASSUME NEW o \in Outwards, outward'[o] = "DRAFT"
               PROVE  unsold'[o] = "None"
    BY DEF DraftUnmarked
  <2>1. outward[o] = "DRAFT" /\ unsold[o] = "None"
    BY DEF UnsoldStep, OutwardsFollow, DraftUnmarked
  <2>2. QED
    BY <1>2, <2>1 DEF UnsoldStep
<1>5. UnsoldFlagged'
  <2> SUFFICES ASSUME NEW o \in Outwards, outward'[o] = "POSTED"
               PROVE  UnsoldRight(o)'
    BY DEF UnsoldFlagged, UnsoldRight
  <2>1. CASE SameLinksTo(o) /\ outward'[o] = outward[o] /\ unsold'[o] = unsold[o]
    <3>1. UnsoldRight(o)
      BY <2>1 DEF OutwardsFollow, UnsoldFlagged, UnsoldRight
    <3>2. LinksTo(link, o)' = LinksTo(link, o)
          /\ QtyOf(LinksTo(link, o), link)' = QtyOf(LinksTo(link, o), link)
      BY <1>1, <2>1
    <3>3. QED
      BY <2>1, <3>1, <3>2 DEF UnsoldRight
  <2>2. CASE UNCHANGED outward /\ unsold'[o] = Refreshed(link', {o})[o]
    <3>1. unsold'[o] = IF QtyOf(LinksTo(link, o), link)' # OutwardQty[o]
                       THEN "Open"
                       ELSE IF unsold[o] = "None" THEN "None" ELSE "Resolved"
      BY <1>2, <2>2
    <3>2. QED
      BY <3>1 DEF UnsoldRight
  <2>3. QED
    BY <2>1, <2>2 DEF UnsoldStep
<1>6. QED
  BY <1>4, <1>5 DEF OutwardsFollow

\* A refresh of the outwards in O with the links of the next state.
LEMMA RefreshedUnsold ==
  ASSUME NEW O, UNCHANGED outward, unsold' = Refreshed(link', O),
         NEW o \in Outwards, o \in O \/ SameLinksTo(o)
  PROVE  UnsoldStep(o)
<1>1. CASE o \in O
  <2>1. unsold'[o] = Refreshed(link', {o})[o]
    BY <1>1 DEF Refreshed
  <2>2. QED
    BY <2>1 DEF UnsoldStep
<1>2. CASE o \notin O
  BY <1>2 DEF Refreshed, UnsoldStep
<1>3. QED
  BY <1>1, <1>2

LEMMA ReversedUnsold ==
  ASSUME IInv, NEW S, link' = ReversedOf(S), UNCHANGED outward,
         unsold' = Refreshed(link', FreedBy(S)), NEW o \in Outwards
  PROVE  UnsoldStep(o)
<1> USE DEF IInv
<1>1. \A x \in Links :
        /\ link'[x].outward = link[x].outward /\ link'[x].qty = link[x].qty
        /\ link[x].state = "APPROVED" /\ link[x].sale \in S => link'[x].state = "REVERSED"
        /\ ~(link[x].state = "APPROVED" /\ link[x].sale \in S) => link'[x] = link[x]
  BY ReversedRows
<1>2. o \notin FreedBy(S) => \A x \in Links :
        ~(link[x].state = "APPROVED" /\ link[x].sale \in S /\ link[x].outward = o)
  BY DEF FreedBy, ApprovedLinks
<1>3. o \notin FreedBy(S) => SameLinksTo(o)
  BY <1>1, <1>2 DEF SameLinksTo, LinksTo, ApprovedLinks
<1>4. QED
  BY <1>3, RefreshedUnsold

LEMMA LinkUnsold ==
  ASSUME CommercialAssumption, IInv, Kin, NEW x \in Links, LinkStep(x), NEW o \in Outwards
  PROVE  UnsoldStep(o)
<1> USE DEF IInv
<1>1. ASSUME UNCHANGED <<unsold, outward>>,
             \A y \in Links : \/ link'[y] = link[y]
                              \/ /\ link[y].state # "APPROVED"
                                 /\ link'[y].state # "APPROVED"
      PROVE  UnsoldStep(o)
  <2>1. SameLinksTo(o)
    BY <1>1 DEF SameLinksTo, LinksTo, ApprovedLinks
  <2>2. QED
    BY <1>1, <2>1 DEF UnsoldStep
<1>2. CASE \E s \in Sales, u \in Outwards, q \in Quantities, prior \in Links \cup {None} :
             ProposeLink(x, s, u, q, prior)
  <2>1. \A y \in Links : /\ y # x => link'[y] = link[y]
                         /\ y = x => link[x].state = "ABSENT" /\ RowProposed(x)
    BY <1>2, ProposeLinkRows
  <2>2. UNCHANGED <<unsold, outward>>
    BY <1>2 DEF ProposeLink
  <2>3. QED
    BY <1>1, <2>1, <2>2 DEF RowProposed
<1>3. CASE VerifyLink(x) \/ RejectLink(x)
  <2>1. \A y \in Links : /\ y # x => link'[y] = link[y]
                         /\ y = x => link'[x].state # "APPROVED"
    BY <1>3, LinkStepRows
  <2>2. UNCHANGED <<unsold, outward>> /\ link[x].state # "APPROVED"
    BY <1>3 DEF VerifyLink, RejectLink
  <2>3. QED
    BY <1>1, <2>1, <2>2
<1>4. CASE ReverseLink(x)
  <2>1. \A y \in Links : /\ y # x => link'[y] = link[y]
                         /\ y = x => RowKept(x)
    BY <1>4, LinkStepRows
  <2>2. unsold' = Refreshed(link', {link[x].outward}) /\ UNCHANGED outward
    BY <1>4 DEF ReverseLink
  <2>3. o # link[x].outward => SameLinksTo(o)
    BY <2>1 DEF SameLinksTo, LinksTo, ApprovedLinks, RowKept
  <2>4. QED
    BY <2>2, <2>3, RefreshedUnsold
<1>5. CASE ApproveLink(x)
  <2> DEFINE p == link[x].supersedes
  <2>1. \A y \in Links : /\ y \notin {x, p} => link'[y] = link[y]
                         /\ y \in {x, p} => link[y].state # "ABSENT" /\ RowKept(y)
    BY <1>5, ApproveLinkRows
  <2>2. link[x].state # "ABSENT" /\ (p \in Links => link[p].outward = link[x].outward)
    BY <2>1 DEF Kin, CommercialAssumption
  <2>3. unsold' = Refreshed(link', {link[x].outward}) /\ UNCHANGED outward
    BY <1>5 DEF ApproveLink
  <2>4. o # link[x].outward => SameLinksTo(o)
    BY <2>1, <2>2 DEF SameLinksTo, LinksTo, ApprovedLinks, RowKept
  <2>5. QED
    BY <2>3, <2>4, RefreshedUnsold
<1>6. QED
  BY <1>2, <1>3, <1>4, <1>5 DEF LinkStep

LEMMA OutwardsFollowKept ==
  ASSUME CommercialAssumption, IInv, PostedFirst, Kin, OutwardsFollow, [Next]_vars
  PROVE  OutwardsFollow'
<1> USE DEF IInv
<1>1. ASSUME \A o \in Outwards : UnsoldStep(o)
      PROVE  OutwardsFollow'
  BY <1>1, UnsoldStepKeeps
<1>2. ASSUME UNCHANGED <<unsold, link, outward>>
      PROVE  OutwardsFollow'
  BY <1>1, <1>2 DEF UnsoldStep, SameLinksTo
<1>3. CASE \E s \in Sales : SaleStep(s)
  <2>1. PICK s \in Sales : SaleStep(s)
    BY <1>3
  <2>2. CASE ApproveSale(s)
    BY <1>1, <2>2, ReversedUnsold DEF ApproveSale
  <2>3. CASE ~ApproveSale(s)
    BY <1>2, <2>1, <2>3 DEF SaleStep, CreateSale, SubmitSale, VerifySale, RejectSale, Pay
  <2>4. QED
    BY <2>2, <2>3
<1>4. CASE \E m \in Mappings : MappingStep(m)
  <2>1. PICK m \in Mappings : MappingStep(m)
    BY <1>4
  <2>2. CASE ApproveRemap(m)
    BY <1>1, <2>2, ReversedUnsold DEF ApproveRemap
  <2>3. CASE ~ApproveRemap(m)
    BY <1>2, <2>1, <2>3 DEF MappingStep, ProposeMapping, VerifyMapping, RejectMapping,
                            ApproveFirstMapping
  <2>4. QED
    BY <2>2, <2>3
<1>5. CASE \E x \in Links : LinkStep(x)
  BY <1>1, <1>5, LinkUnsold
<1>6. CASE \E o \in Outwards : Post(o) \/ ReverseOutward(o)
  <2>1. PICK o \in Outwards : Post(o) \/ ReverseOutward(o)
    BY <1>6
  <2>2. /\ UNCHANGED <<link, unsold>> /\ \A u \in Outwards \ {o} : outward'[u] = outward[u]
        /\ \/ outward[o] = "DRAFT" /\ outward'[o] = "POSTED"
           \/ outward'[o] = "REVERSED"
    BY <2>1 DEF Post, ReverseOutward, TypeOK, Physical!Posts, Physical!Reverses
  <2>3. outward[o] = "DRAFT" => unsold[o] = "None" /\ LinksTo(link, o) = {}
    BY DEF OutwardsFollow, DraftUnmarked, PostedFirst, LinksTo, ApprovedLinks
  <2>4. DraftUnmarked'
    BY <2>2 DEF OutwardsFollow, DraftUnmarked
  <2>5. \A u \in Outwards : LinksTo(link, u)' = LinksTo(link, u)
                            /\ QtyOf(LinksTo(link, u), link)' = QtyOf(LinksTo(link, u), link)
    BY <2>2 DEF LinksTo, ApprovedLinks, QtyOf
  <2>6. UnsoldFlagged'
    BY <2>2, <2>3, <2>5 DEF OutwardsFollow, UnsoldFlagged
  <2>7. QED
    BY <2>4, <2>6 DEF OutwardsFollow
<1>7. CASE Refresh
  <2>1. /\ UNCHANGED <<link, outward>>
        /\ unsold' = Refreshed(link', {o \in Outwards : outward[o] # "DRAFT"})
    BY <1>7 DEF Refresh
  <2>2. QED
    BY <1>1, <2>1, RefreshedUnsold DEF SameLinksTo
<1>8. CASE UNCHANGED vars
  BY <1>2, <1>8 DEF vars
<1>9. QED
  BY <1>3, <1>4, <1>5, <1>6, <1>7, <1>8 DEF Next

-----------------------------------------------------------------------------
(* The stored flags and the caps, for ever.                                *)

FlagsInv ==
  /\ IInv
  /\ PostedFirst /\ Kin
  /\ AllocationCaps
  /\ SalesFollow /\ OutwardsFollow

LEMMA FlagsInit ==
  ASSUME CommercialAssumption, Init
  PROVE  FlagsInv
<1>1. IInv
  BY InitKeeps
<1>2. /\ ApprovedLinks(link) = {}
      /\ \A x \in Links : link[x].state = "ABSENT"
      /\ \A s \in Sales : sale[s].status = "ABSENT" /\ sale[s].movement = "UNKNOWN"
      /\ \A o \in Outwards : outward[o] = "DRAFT" /\ unsold[o] = "None"
  BY DEF Init, ApprovedLinks, Physical!OutwardInit
<1>3. QtyOf({}, link) = 0
  BY TotalEmpty DEF QtyOf
<1>4. AllocationCaps
  <2>1. \A s \in Sales : ActiveLinksOf(link, s) = {} /\ SaleQty[s] >= 0
    BY <1>2 DEF ActiveLinksOf, LinksOf, CommercialAssumption
  <2>2. \A o \in Outwards : LinksTo(link, o) = {} /\ OutwardQty[o] >= 0
    BY <1>2 DEF LinksTo, CommercialAssumption
  <2>3. QED
    BY <1>2, <1>3, <2>1, <2>2 DEF AllocationCaps
<1>5. PostedFirst /\ Kin
  BY <1>2 DEF PostedFirst, Kin
<1>6. SalesFollow
  BY <1>2 DEF SalesFollow, MovementCurrent, ExceptionsFollow, LinksOf
<1>7. OutwardsFollow
  BY <1>2 DEF OutwardsFollow, UnsoldFlagged, DraftUnmarked
<1>8. QED
  BY <1>1, <1>4, <1>5, <1>6, <1>7 DEF FlagsInv

LEMMA FlagsNext ==
  ASSUME CommercialAssumption, FlagsInv, [Next]_vars
  PROVE  FlagsInv'
<1> USE DEF FlagsInv
<1>1. IInv'
  BY NextKeeps
<1>2. RowsMove /\ (NoneApproved \/ \E x \in Links : ApproveLink(x))
  BY RowsMoveAlways
<1>3. PostedFirst' /\ Kin'
  BY <1>2, RowsMoveKeeps
<1>4. AllocationCaps'
  BY <1>1, <1>2, NoneApprovedCaps, ApproveLinkCaps
<1>5. SalesFollow' /\ OutwardsFollow'
  BY SalesFollowKept, OutwardsFollowKept
<1>6. QED
  BY <1>1, <1>3, <1>4, <1>5

\* Allocations keep to the caps and the stored flags to the allocations, in
\* every reachable state.
THEOREM FlagsInvariant == Spec => []FlagsInv
<1>1. Init => FlagsInv
  BY FlagsInit, CommercialAssumption
<1>2. FlagsInv /\ [Next]_vars => FlagsInv'
  BY FlagsNext, CommercialAssumption
<1>3. QED
  BY <1>1, <1>2, PTL DEF Spec

\* ALLOCATION_OVERDRAW: what is allocated of a sale and of an outward fits both
\* lines, and no pair has two approved allocations, whichever allocation
\* replaces which and whichever side is reversed or corrected in between
\* (approve_sale_outward_allocation checks against the state it locks).
THEOREM CapsHold == Spec => []AllocationCaps
<1>1. FlagsInv => AllocationCaps
  BY DEF FlagsInv
<1>2. QED
  BY <1>1, FlagsInvariant, PTL

\* The movement and the exceptions stored on a sale, and the exception stored
\* on an outward, are those the allocations call for; the reversal of an
\* outward alone may leave its sales behind.
THEOREM FlagsHold == Spec => []FlagsCurrent
<1>1. FlagsInv => FlagsCurrent
  <2> SUFFICES ASSUME FlagsInv
               PROVE  SaleFlagsCurrent /\ UnsoldFlagged
    BY DEF FlagsCurrent
  <2>1. SaleFlagsCurrent
    BY DEF FlagsInv, SalesFollow, MovementCurrent, ExceptionsFollow, Behind,
           SaleFlagsCurrent
  <2>2. UnsoldFlagged
    BY DEF FlagsInv, OutwardsFollow
  <2>3. QED
    BY <2>1, <2>2
<1>2. QED
  BY <1>1, FlagsInvariant, PTL

=============================================================================
