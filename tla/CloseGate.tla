------------------------------ MODULE CloseGate ------------------------------
(***************************************************************************)
(* When a Container may be called Fully Reconciled: close_gate_service.py, *)
(* close_policy.py and the saves of fresko_container.py, over the quantity *)
(* variances of QuantityLedger, the exceptions that name the container and *)
(* those of receipts that concern it.                                      *)
(*                                                                         *)
(* The gate locks what it reads and reads it as it is, so a save is one    *)
(* action.  Other parts of the system open and close exceptions and move   *)
(* allocations as they like: here any change of theirs may happen.         *)
(***************************************************************************)
EXTENDS QuantityLedger

CONSTANTS
  Issues,       \* exceptions that name this container
  Kinds,        \* their types and severities: records [type, severity]
  Receipts      \* receipts with an open exception, by its type and the
                \* container of the receipt's snapshot: [type, source]

VARIABLES
  issue,        \* kind and status of each issue
  receipt,      \* status of each receipt's exception and of its allocation here
  phase,        \* status of the container
  label         \* its closing status

closeVars == <<issue, receipt, phase, label>>
vars == <<quantityVars, closeVars>>

Material == {"BUYER_UNRESOLVED", "PHYSICAL_VARIANCE", "BANK_PENDING", "MONEY_UNALLOCATED"}
BySeverity == {"OTHER"}
OpenStatuses == {"OPEN", "IN_PROGRESS"}
IssueStatuses == OpenStatuses \cup {"RESOLVED", "WAIVED"}
Proposed == {"DRAFT", "REVIEW_PENDING", "VERIFIED", "APPROVED"}
Allocations == Proposed \cup {"NONE", "REJECTED"}

\* Transitions of CONTAINER_STATUS_TRANSITIONS around closing.
Transitions == {<<"SELLING", "CLOSING">>, <<"CLOSING", "CLOSED">>, <<"CLOSING", "SELLING">>}
Phases == {"SELLING", "CLOSING", "CLOSED"}

Kind == [type: Material \cup BySeverity, severity: {"LOW", "MATERIAL"}]

ASSUME CloseAssumption ==
  /\ Kinds \subseteq Kind /\ Kinds # {}
  /\ Receipts \subseteq [type: {"BANK_PENDING", "MONEY_UNALLOCATED"},
                         source: {"HERE", "ELSEWHERE"}]

Init ==
  /\ QuantityInit
  /\ issue = [i \in Issues |-> [kind |-> CHOOSE k \in Kinds : TRUE, status |-> "RESOLVED"]]
  /\ receipt = [r \in Receipts |-> [status |-> "RESOLVED", allocation |-> "NONE"]]
  /\ phase = "CLOSING"
  /\ label = "OPEN"

-----------------------------------------------------------------------------
\* exception_is_material.
IsMaterial(k) == k.type \in Material \/ k.severity = "MATERIAL"

\* Mutant: work on an exception has begun, so it is taken for settled.
OpenIssuesOnly ==
  {i \in Issues : issue[i].status = "OPEN" /\ IsMaterial(issue[i].kind)}

\* Open exceptions that name the container and are material.
Blocking ==
  {i \in Issues : issue[i].status \in OpenStatuses /\ IsMaterial(issue[i].kind)}

\* Receipt exceptions attributed to the container: by the receipt's snapshot,
\* or by an allocation under way, which does not place what is unallocated.
Attributed ==
  {r \in Receipts :
     /\ receipt[r].status \in OpenStatuses
     /\ \/ r.source = "HERE"
        \/ r.type # "MONEY_UNALLOCATED" /\ receipt[r].allocation \in Proposed}

\* Open variances: PHYSICAL_VARIANCE exceptions name the container as well.
Undecided == {p \in Pairs : exc[p] = "OPEN"}

\* assert_container_can_fully_reconcile.
CanReconcile == Blocking = {} /\ Attributed = {} /\ Undecided = {}

\* A save of the container with status s and closing status l.
SaveContainer(s, l) ==
  /\ s = phase \/ <<phase, s>> \in Transitions
  /\ l = "FULLY_RECONCILED" => s = "CLOSED" /\ CanReconcile
  /\ phase' = s /\ label' = l
  /\ UNCHANGED <<quantityVars, issue, receipt>>

\* Exceptions of Deals, outwards, sales and Desk.
ChangeIssue(i) ==
  /\ \/ \E k \in Kinds : issue' = [issue EXCEPT ![i].kind = k]
     \/ \E s \in IssueStatuses : issue' = [issue EXCEPT ![i].status = s]
  /\ UNCHANGED <<quantityVars, receipt, phase, label>>

\* Exceptions and allocations of the money ledger.
ChangeReceipt(r) ==
  /\ \/ \E s \in {"OPEN", "RESOLVED"} : receipt' = [receipt EXCEPT ![r].status = s]
     \/ \E l \in Allocations : receipt' = [receipt EXCEPT ![r].allocation = l]
  /\ UNCHANGED <<quantityVars, issue, phase, label>>

-----------------------------------------------------------------------------
Next ==
  \/ QuantityNext /\ UNCHANGED closeVars
  \/ \E s \in Phases, l \in {"OPEN", "FULLY_RECONCILED"} : SaveContainer(s, l)
  \/ \E i \in Issues : ChangeIssue(i)
  \/ \E r \in Receipts : ChangeReceipt(r)

Spec == Init /\ [][Next]_vars

-----------------------------------------------------------------------------
(* Properties.                                                             *)

\* Rows keep the shape of their doctypes.
TypeOK ==
  /\ QuantityTypeOK
  /\ issue \in [Issues -> [kind: Kinds, status: IssueStatuses]]
  /\ receipt \in [Receipts -> [status: IssueStatuses, allocation: Allocations]]
  /\ phase \in Phases /\ label \in {"OPEN", "FULLY_RECONCILED"}

\* A container becomes Fully Reconciled only once it is closed, every
\* difference between its declared and operating quantities that a reviewer
\* could see was resolved or waived, no material exception of its own is open,
\* and no receipt of its own or under allocation to it is in question
\* (PILOT_SAFETY_CLOSE_POLICY.md, _validate_close_gate,
\* _ensure_physical_variance).
ReconciledSettled ==
  [][(label' = "FULLY_RECONCILED" /\ (label # label' \/ phase # phase')) =>
       /\ phase' = "CLOSED"
       /\ \A p \in Differing : Met(p) => exc[p] \in {"RESOLVED", "WAIVED"}
       /\ \A i \in Issues : issue[i].status \in {"RESOLVED", "WAIVED"} \/
            (issue[i].kind.type = "OTHER" /\ issue[i].kind.severity = "LOW")
       /\ \A r \in Receipts : receipt[r].status \in OpenStatuses =>
            /\ r.source = "ELSEWHERE"
            /\ r.type = "BANK_PENDING" => receipt[r].allocation \in {"NONE", "REJECTED"}]_vars

=============================================================================
