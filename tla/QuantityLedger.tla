--------------------------- MODULE QuantityLedger ---------------------------
(***************************************************************************)
(* The quantity assertions of one Container and the PHYSICAL_VARIANCE      *)
(* exceptions between what was declared and what came in:                  *)
(* quantity_assertion_service.py and the assertion's doctype.              *)
(*                                                                         *)
(* Every operation locks the Container and reads the assertions it decides *)
(* on under that lock.  The reads that take no lock (the latest active     *)
(* assertion of a basis, the exception of a pair, the status a row had) see *)
(* the snapshot the request took before it waited for the lock, and what   *)
(* the request itself has written: such a request is a job with the view   *)
(* it took.  Evidence, replays of a create, the maker-checker rule and     *)
(* Decimal texts are left out.                                             *)
(***************************************************************************)
EXTENDS Integers

CONSTANTS
  Assertions,     \* quantity assertions, each created once
  Units,          \* units of measure
  Quantities,     \* quantities asserted; Unknown: none
  Jobs,           \* requests that may be waiting for the lock at once
  Unknown, None

ASSUME QuantityAssumption ==
  /\ Unknown \notin Quantities /\ None \notin Assertions

VARIABLES
  claim,      \* the assertions
  clock,      \* how many were activated
  exc,        \* the status of the exception of each pair, or NONE
  job         \* the view of each waiting request, or None

quantityVars == <<claim, clock, exc, job>>

Bases == {"DECLARED_SHIPPING", "CUSTOMS_DECLARED", "OPERATING_INWARD"}
Pairs == Assertions \X Assertions

\* at: when it was activated, 0 before; saw: the assertions that were active in
\* the view it was activated from.
Claim == [status: {"ABSENT", "DRAFT", "REVIEW_PENDING", "ACTIVE", "REJECTED",
                   "SUPERSEDED"},
          basis: Bases, unit: Units, quantity: Quantities \cup {Unknown},
          supersedes: Assertions \cup {None}, successor: Assertions \cup {None},
          at: Nat, saw: SUBSET Assertions]

\* doc: the assertion to activate, None for ensure_physical_variance.
View == [doc: Assertions \cup {None}, active: SUBSET Assertions, known: SUBSET Pairs]

QuantityInit ==
  /\ \E u \in Units :
       claim = [a \in Assertions |->
                  [status |-> "ABSENT", basis |-> "DECLARED_SHIPPING", unit |-> u,
                   quantity |-> Unknown, supersedes |-> None, successor |-> None,
                   at |-> 0, saw |-> {}]]
  /\ clock = 0
  /\ exc = [p \in Pairs |-> "NONE"]
  /\ job = [j \in Jobs |-> None]

-----------------------------------------------------------------------------
(* Making and submitting assertions.                                       *)

Actives == {a \in Assertions : claim[a].status = "ACTIVE"}
Scope(a) == {b \in Assertions : claim[b].basis = claim[a].basis /\ claim[b].unit = claim[a].unit}

\* _validate_supersession reads the prior assertion from the snapshot, where
\* one superseded since is still active.
Create(a, basis, unit, quantity, prior) ==
  /\ claim[a].status = "ABSENT"
  /\ prior # None => /\ claim[prior].status \in {"ACTIVE", "SUPERSEDED"}
                     /\ claim[prior].basis = basis /\ claim[prior].unit = unit
  /\ claim' = [claim EXCEPT ![a] =
                 [status |-> "DRAFT", basis |-> basis, unit |-> unit,
                  quantity |-> quantity, supersedes |-> prior, successor |-> None,
                  at |-> 0, saw |-> {}]]
  /\ UNCHANGED <<clock, exc, job>>

Submit(a) ==
  /\ claim[a].status = "DRAFT"
  /\ claim' = [claim EXCEPT ![a].status = "REVIEW_PENDING"]
  /\ UNCHANGED <<clock, exc, job>>

Reject(a) ==
  /\ claim[a].status = "REVIEW_PENDING"
  /\ claim' = [claim EXCEPT ![a].status = "REJECTED"]
  /\ UNCHANGED <<clock, exc, job>>

-----------------------------------------------------------------------------
(* Activation.                                                             *)

\* A request takes its snapshot, with a probe for the row it is about.
Take(j, a) ==
  /\ job[j] = None
  /\ a # None => claim[a].status = "REVIEW_PENDING"
  /\ job' = [job EXCEPT ![j] = [doc |-> a, active |-> Actives,
                                known |-> {p \in Pairs : exc[p] # "NONE"}]]
  /\ UNCHANGED <<claim, clock, exc>>

\* It is refused, or its caller gives up.
Abandon(j) ==
  /\ job[j] # None
  /\ job' = [job EXCEPT ![j] = None]
  /\ UNCHANGED <<claim, clock, exc>>

\* Mutant: the snapshot decides, not the locked rows.
ActivableInView(v) ==
  LET a == v.doc IN
  /\ claim[a].status = "REVIEW_PENDING"
  /\ IF claim[a].supersedes = None THEN v.active \cap Scope(a) = {}
     ELSE v.active \cap Scope(a) = {claim[a].supersedes}

\* _activate: from the rows as they are, the prior one saved over the status
\* the snapshot has for it.
Activable(v) ==
  LET a == v.doc
      prior == claim[a].supersedes
  IN /\ claim[a].status = "REVIEW_PENDING"
     /\ IF prior = None THEN Actives \cap Scope(a) = {}
        ELSE /\ Actives \cap Scope(a) = {prior}
             /\ prior \in v.active
             /\ \A b \in Assertions : claim[b].supersedes = prior =>
                                        claim[b].status \notin {"ACTIVE", "SUPERSEDED"}

\* The assertions once a is active, from a view in which those of S were.
Activated(a, S) ==
  [b \in Assertions |->
     CASE b = a -> [claim[a] EXCEPT !.status = "ACTIVE", !.at = clock + 1, !.saw = S]
       [] b = claim[a].supersedes ->
            [claim[b] EXCEPT !.status = "SUPERSEDED", !.successor = a]
       [] OTHER -> claim[b]]

\* _latest: of the assertions S, the one of basis b activated last, as a set;
\* c: the rows.
Latest(c, S, b) ==
  {a \in S : c[a].basis = b /\ \A x \in S : c[x].basis = b => c[x].at <= c[a].at}

\* Both quantities of a pair are known, and differ.
Differ(c, p) ==
  /\ Unknown \notin {c[p[1]].quantity, c[p[2]].quantity}
  /\ c[p[1]].quantity # c[p[2]].quantity

\* The last declared and the last operating quantity of its unit, of S.
Compared(c, S) ==
  {p \in S \X S :
     /\ p[1] \in Latest(c, S, "DECLARED_SHIPPING")
     /\ p[2] \in Latest(c, {a \in S : c[a].unit = c[p[1]].unit}, "OPERATING_INWARD")}

\* Mutant: only the declaration just activated is compared.
VarianceOfDeclared(c, S) ==
  {p \in Compared(c, S) : c[p[1]].at > c[p[2]].at /\ Differ(c, p)}

\* Mutant: that the two quantities agree is not looked at.
VarianceOfAny(c, S) == Compared(c, S)

\* _ensure_physical_variance: the pair that differs, if there is one, of the
\* active assertions S.
Variance(c, S) == {p \in Compared(c, S) : Differ(c, p)}

\* The exception is opened unless the view has it; one opened since the view
\* was taken makes the insert, and the request, fail.
Ensured(pairs, known) ==
  /\ \A p \in pairs \ known : exc[p] = "NONE"
  /\ exc' = [p \in Pairs |-> IF p \in pairs \ known THEN "OPEN" ELSE exc[p]]

Activate(j) ==
  LET v == job[j]
      a == v.doc
  IN /\ v # None /\ a # None
     /\ Activable(v)
     /\ claim' = Activated(a, v.active)
     /\ clock' = clock + 1
     /\ Ensured(Variance(claim', (v.active \cup {a}) \ {claim[a].supersedes}), v.known)
     /\ job' = [job EXCEPT ![j] = None]

\* ensure_physical_variance.
Ensure(j) ==
  LET v == job[j] IN
  /\ v # None /\ v.doc = None
  /\ Ensured(Variance(claim, v.active), v.known)
  /\ job' = [job EXCEPT ![j] = None]
  /\ UNCHANGED <<claim, clock>>

\* resolve_physical_variance.
Decide(p, s) ==
  /\ exc[p] = "OPEN"
  /\ exc' = [exc EXCEPT ![p] = s]
  /\ UNCHANGED <<claim, clock, job>>

-----------------------------------------------------------------------------
QuantityNext ==
  \/ \E a \in Assertions :
       \/ \E b \in Bases, u \in Units, q \in Quantities \cup {Unknown},
             prior \in Assertions \cup {None} : Create(a, b, u, q, prior)
       \/ Submit(a) \/ Reject(a)
  \/ \E j \in Jobs :
       \/ \E a \in Assertions \cup {None} : Take(j, a)
       \/ Abandon(j) \/ Activate(j) \/ Ensure(j)
  \/ \E p \in Pairs, s \in {"RESOLVED", "WAIVED"} : Decide(p, s)

QuantitySpec == QuantityInit /\ [][QuantityNext]_quantityVars

-----------------------------------------------------------------------------
(* Properties.                                                             *)

\* Rows keep the shape of their doctypes, and the exception of a pair is one of
\* a declared with an operating quantity that differ.
QuantityTypeOK ==
  /\ claim \in [Assertions -> Claim]
  /\ clock \in Nat
  /\ exc \in [Pairs -> {"NONE", "OPEN", "RESOLVED", "WAIVED"}]
  /\ job \in [Jobs -> View \cup {None}]
  /\ \A p \in Pairs : exc[p] # "NONE" =>
       /\ claim[p[1]].basis = "DECLARED_SHIPPING" /\ claim[p[2]].basis = "OPERATING_INWARD"
       /\ claim[p[1]].unit = claim[p[2]].unit
       /\ claim[p[1]].quantity # claim[p[2]].quantity

\* Of the assertions of one basis and unit at most one is in force, and those
\* that took effect form one line of succession, however the reviews of two
\* requests overlap (_activate, under the Container lock).
OneInForce ==
  \A a \in Assertions :
    LET heirs == {b \in Assertions : /\ claim[b].supersedes = a
                                     /\ claim[b].status \in {"ACTIVE", "SUPERSEDED"}}
    IN /\ claim[a].status = "ACTIVE" => Actives \cap Scope(a) = {a} /\ heirs = {}
       /\ claim[a].status = "SUPERSEDED" => heirs = {claim[a].successor}
       /\ heirs \subseteq Scope(a)

\* The declared quantity asserted last and an operating one of its unit, both in
\* force and known, that differ.
Differing ==
  {p \in Actives \X Actives :
     /\ \A x \in Actives : claim[x].basis = "DECLARED_SHIPPING" => claim[x].at <= claim[p[1]].at
     /\ claim[p[1]].basis = "DECLARED_SHIPPING" /\ claim[p[2]].basis = "OPERATING_INWARD"
     /\ claim[p[1]].unit = claim[p[2]].unit /\ Differ(claim, p)}

\* One of the pair was activated by a request whose view had the other.
Met(p) == p[1] \in claim[p[2]].saw \/ p[2] \in claim[p[1]].saw

\* When the declared and the operating quantity in force differ, an exception
\* says so, whichever was asserted, corrected or activated first, as soon as
\* one of them was activated by a request that could see the other
\* (_ensure_physical_variance, review_quantity_assertion).
VarianceFlagged == \A p \in Differing : Met(p) => exc[p] # "NONE"

\* What the projection tells its reader: the exception is created automatically
\* on assertion activation.
VarianceAlwaysFlagged == \A p \in Differing : exc[p] # "NONE"

=============================================================================
