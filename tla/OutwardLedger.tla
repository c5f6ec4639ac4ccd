--------------------------- MODULE OutwardLedger ---------------------------
(***************************************************************************)
(* The physical outwards of one Container and the rate assertions made     *)
(* about them: outward_service.py, physical.py and the inward edits of     *)
(* fresko_container.py that must not undercut them.                        *)
(*                                                                         *)
(* A member of Outwards is a source event, which names at most one         *)
(* document: a replayed event finds its document and changes nothing.      *)
(* Every mutator locks the Container first and reads the rows it decides   *)
(* on under that lock, so each is one action; the one decision taken on an *)
(* older read is named with SnapshotReads.  Units of measure, evidence,    *)
(* the value of a rate and who acts are left out.                          *)
(***************************************************************************)
EXTENDS Totals

CONSTANTS
  Outwards,          \* source events of outwards and reversals
  Claims,            \* Field Assertions
  Lots, Unmapped,    \* lots of the container; the lot of an unresolved line
  Lines, Header,     \* line keys; the scope of an assertion on a whole outward
  Cargoes,           \* loads users enter: functions from lines to [lot, qty]
  Gatepasses,        \* comparison keys of the gatepasses users enter, or None
  Deals, Rates,      \* is a Deal given, is a rate given: of BOOLEAN
  Inwards,           \* inward quantities of the lots users save
  MaxQty,            \* bound on every quantity
  SnapshotReads,     \* may a prior assertion be read from an old snapshot
  None

Places == Lots \cup {Unmapped}
Cargo == UNION {[L -> [lot: Places, qty: 1..MaxQty]] : L \in SUBSET Lines}

ASSUME OutwardAssumption ==
  /\ IsFiniteSet(Outwards) /\ IsFiniteSet(Lines) /\ IsFiniteSet(Lots)
  /\ MaxQty \in Nat /\ SnapshotReads \in BOOLEAN
  /\ Unmapped \notin Lots /\ Header \notin Lines
  /\ Cargoes \subseteq Cargo /\ \A c \in Cargoes : DOMAIN c # {}
  /\ Inwards \subseteq [Lots -> 0..MaxQty]
  /\ Deals \subseteq BOOLEAN /\ Rates \subseteq BOOLEAN
  /\ None \notin Outwards \cup Claims

VARIABLES
  inward,    \* inward quantity of each lot
  doc,       \* the outwards and reversals
  claim,     \* the rate assertions
  flag,      \* exceptions of each outward
  pairs      \* DUPLICATE_GATEPASS: an outward and the earlier one it is like

vars == <<inward, doc, claim, flag, pairs>>

FlagTypes == {"OUTWARD_UNPRICED", "OUTWARD_WITHOUT_DEAL", "LOT_UNRESOLVED"}

OutwardDoc == [status: {"ABSENT", "DRAFT", "REVIEW_PENDING", "POSTED"},
               reverses: Outwards \cup {None},   \* None on an OUTWARD
               cargo: Cargo, gatepass: Gatepasses \cup {None}, deal: BOOLEAN]

ClaimDoc == [status: {"ABSENT", "DRAFT", "REVIEW_PENDING", "ACTIVE",
                      "REJECTED", "SUPERSEDED"},
             outward: Outwards \cup {None}, scope: Lines \cup {Header},
             known: BOOLEAN,                     \* a rate is given
             supersedes: Claims \cup {None}, successor: Claims \cup {None}]

NoDoc == [status |-> "ABSENT", reverses |-> None, cargo |-> <<>>,
          gatepass |-> None, deal |-> FALSE]
NoClaim == [status |-> "ABSENT", outward |-> None, scope |-> Header,
            known |-> FALSE, supersedes |-> None, successor |-> None]

Init ==
  /\ inward \in Inwards
  /\ doc = [o \in Outwards |-> NoDoc]
  /\ claim = [a \in Claims |-> NoClaim]
  /\ flag = [o \in Outwards |-> [e \in FlagTypes |-> "NONE"]]
  /\ pairs = {}

-----------------------------------------------------------------------------
(* Physical quantities.                                                    *)

\* A posted OUTWARD, a posted REVERSAL.
Left(o) == doc[o].status = "POSTED" /\ doc[o].reverses = None
Returned(r) == doc[r].status = "POSTED" /\ doc[r].reverses # None

IsReversed(o) == \E r \in Outwards : Returned(r) /\ doc[r].reverses = o

\* The units the lines of the documents D take from the places P.
Loaded(D, P) ==
  LET rows == {x \in D \X Lines :
                 x[2] \in DOMAIN doc[x[1]].cargo /\ doc[x[1]].cargo[x[2]].lot \in P}
  IN Total(rows, [x \in rows |-> doc[x[1]].cargo[x[2]].qty], MaxQty)

\* posted_physical_quantities.
Posted(P) == Loaded({o \in Outwards : Left(o)}, P)
               - Loaded({r \in Outwards : Returned(r)}, P)

\* assert_container_capacity.
FitsContainer(o) ==
  Posted(Places) + Loaded({o}, Places) <= Total(Lots, inward, MaxQty)

\* assert_mapped_lot_capacity, for each lot of the outward.
FitsLots(o) ==
  \A lot \in Lots : Loaded({o}, {lot}) > 0 =>
                      Posted({lot}) + Loaded({o}, {lot}) <= inward[lot]

\* Container.validate: the inward quantities q leave room for what is posted.
Covers(q) ==
  /\ \A lot \in Lots : Posted({lot}) <= q[lot]
  /\ Posted(Places) <= Total(Lots, q, MaxQty)

EditInward(q) ==
  /\ Covers(q)
  /\ inward' = q
  /\ UNCHANGED <<doc, claim, flag, pairs>>

-----------------------------------------------------------------------------
(* Outwards and reversals.                                                 *)

CreateOutward(o, c, g, deal) ==
  /\ doc[o].status = "ABSENT"
  /\ doc' = [doc EXCEPT ![o] = [status |-> "DRAFT", reverses |-> None,
                                cargo |-> c, gatepass |-> g, deal |-> deal]]
  /\ UNCHANGED <<inward, claim, flag, pairs>>

\* Mutant: a reversal that is posted no longer counts.
OtherReversalsPending(o, r) ==
  {x \in Outwards \ {r} : doc[x].reverses = o /\ doc[x].status # "POSTED"}

\* _current_reversal_name: the reversals of o other than r, in any status.
OtherReversals(o, r) == {x \in Outwards \ {r} : doc[x].reverses = o}

\* Mutant: a reversal can itself be reversed.
ReversibleOnce(o, r) == doc[o].status = "POSTED" /\ OtherReversals(o, r) = {}

\* Mutant: an outward that was not posted yet can be reversed.
ReversibleUnposted(o, r) ==
  doc[o].status # "ABSENT" /\ doc[o].reverses = None /\ OtherReversals(o, r) = {}

Reversible(o, r) == Left(o) /\ OtherReversals(o, r) = {}

\* The copied lines, gatepass and deal are those of the original.
CreateReversal(r, o) ==
  /\ doc[r].status = "ABSENT"
  /\ Reversible(o, r)
  /\ doc' = [doc EXCEPT ![r] = [doc[o] EXCEPT !.status = "DRAFT", !.reverses = o]]
  /\ UNCHANGED <<inward, claim, flag, pairs>>

SubmitOutward(o) ==
  /\ doc[o].status = "DRAFT"
  /\ doc' = [doc EXCEPT ![o].status = "REVIEW_PENDING"]
  /\ UNCHANGED <<inward, claim, flag, pairs>>

\* The exceptions _ensure_open_exception opens when o is posted.
Called(o) ==
  {e \in FlagTypes :
     \/ e = "OUTWARD_UNPRICED"
     \/ e = "OUTWARD_WITHOUT_DEAL" /\ ~doc[o].deal
     \/ e = "LOT_UNRESOLVED" /\ Loaded({o}, {Unmapped}) > 0}

\* _ensure_duplicate_gatepass_exceptions: posted outwards of o's gatepass.
Likes(o) ==
  {p \in Outwards \ {o} : /\ Left(p) /\ doc[p].gatepass = doc[o].gatepass
                          /\ doc[o].gatepass # None}

PostOutward(o) ==
  /\ doc[o].status = "REVIEW_PENDING" /\ doc[o].reverses = None
  /\ FitsContainer(o) /\ FitsLots(o)
  /\ doc' = [doc EXCEPT ![o].status = "POSTED"]
  /\ flag' = [flag EXCEPT ![o] = [e \in FlagTypes |->
                                    IF e \in Called(o) THEN "OPEN" ELSE "NONE"]]
  /\ pairs' = pairs \cup {<<o, p>> : p \in Likes(o)}
  /\ UNCHANGED <<inward, claim>>

\* Flags f with those of the types E closed where they are open.
Resolved(f, E) ==
  [e \in FlagTypes |-> IF e \in E /\ f[e] = "OPEN" THEN "RESOLVED" ELSE f[e]]

\* _validate_reversal_for_post and _resolve_reversed_outward_exceptions; the
\* DUPLICATE_GATEPASS pairs of the original stay open.
PostReversal(r) ==
  LET o == doc[r].reverses IN
  /\ doc[r].status = "REVIEW_PENDING" /\ o # None
  /\ Reversible(o, r)
  /\ doc[r].cargo = doc[o].cargo
  /\ doc' = [doc EXCEPT ![r].status = "POSTED"]
  /\ flag' = [flag EXCEPT ![o] = Resolved(flag[o], FlagTypes)]
  /\ UNCHANGED <<inward, claim, pairs>>

-----------------------------------------------------------------------------
(* Rate assertions.                                                        *)

SameScope(a, b) ==
  claim[a].outward = claim[b].outward /\ claim[a].scope = claim[b].scope

\* _validate_supersession reads the prior assertion from the snapshot of the
\* request, where one superseded since is still active.
Supersedable(p, o, scope) ==
  /\ claim[p].status \in {"ACTIVE"} \cup IF SnapshotReads THEN {"SUPERSEDED"} ELSE {}
  /\ claim[p].outward = o /\ claim[p].scope = scope

\* A reversed outward still takes assertions.
CreateClaim(a, o, scope, known, prior) ==
  /\ claim[a].status = "ABSENT"
  /\ Left(o) /\ scope \in DOMAIN doc[o].cargo \cup {Header}
  /\ prior # None => Supersedable(prior, o, scope)
  /\ claim' = [claim EXCEPT ![a] =
                 [status |-> "DRAFT", outward |-> o, scope |-> scope,
                  known |-> known, supersedes |-> prior, successor |-> None]]
  /\ UNCHANGED <<inward, doc, flag, pairs>>

SubmitClaim(a) ==
  /\ claim[a].status = "DRAFT"
  /\ claim' = [claim EXCEPT ![a].status = "REVIEW_PENDING"]
  /\ UNCHANGED <<inward, doc, flag, pairs>>

RejectClaim(a) ==
  /\ claim[a].status = "REVIEW_PENDING"
  /\ claim' = [claim EXCEPT ![a].status = "REJECTED"]
  /\ UNCHANGED <<inward, doc, flag, pairs>>

\* Active assertions of a's scope.
Actives(a) == {b \in Claims : claim[b].status = "ACTIVE" /\ SameScope(a, b)}

\* Mutant: what creation checked of the prior assertion is not checked again.
ActivableAsCreated(a) ==
  claim[a].supersedes = None => Actives(a) = {}

\* _activate_assertion.
Activable(a) ==
  LET p == claim[a].supersedes IN
  IF p = None THEN Actives(a) = {}
  ELSE /\ claim[p].status = "ACTIVE" /\ SameScope(a, p)
       /\ Actives(a) \subseteq {p}
       /\ \A b \in Claims : claim[b].supersedes = p =>
                              claim[b].status \notin {"ACTIVE", "SUPERSEDED"}

\* Mutant: one line with a rate prices the outward.
PricedInPart(k, o) ==
  \E a \in Claims : /\ k[a].status = "ACTIVE" /\ k[a].outward = o
                    /\ k[a].known

\* _resolve_unpriced_when_complete: in claims k, a known rate on the whole of
\* o or on each of its lines.
Priced(k, o) ==
  LET scopes == {k[a].scope : a \in {b \in Claims : /\ k[b].status = "ACTIVE"
                                                    /\ k[b].outward = o
                                                    /\ k[b].known}}
  IN Header \in scopes \/ DOMAIN doc[o].cargo \subseteq scopes

\* Claims once a is active and the one it supersedes, if any, is not.
Activated(a) ==
  [b \in Claims |->
     IF b = a THEN [claim[a] EXCEPT !.status = "ACTIVE"]
     ELSE IF b = claim[a].supersedes
          THEN [claim[b] EXCEPT !.status = "SUPERSEDED", !.successor = a]
     ELSE claim[b]]

ActivateClaim(a) ==
  LET o == claim[a].outward IN
  /\ claim[a].status = "REVIEW_PENDING" /\ Activable(a)
  /\ claim' = Activated(a)
  /\ flag' = IF Priced(Activated(a), o)
             THEN [flag EXCEPT ![o] = Resolved(flag[o], {"OUTWARD_UNPRICED"})]
             ELSE flag
  /\ UNCHANGED <<inward, doc, pairs>>

-----------------------------------------------------------------------------
Next ==
  \/ \E q \in Inwards : EditInward(q)
  \/ \E o \in Outwards :
       \/ \E c \in Cargoes, g \in Gatepasses, deal \in Deals :
            CreateOutward(o, c, g, deal)
       \/ \E p \in Outwards : CreateReversal(o, p)
       \/ SubmitOutward(o) \/ PostOutward(o) \/ PostReversal(o)
  \/ \E a \in Claims :
       \/ \E o \in Outwards, scope \in Lines \cup {Header}, known \in Rates,
             prior \in Claims \cup {None} : CreateClaim(a, o, scope, known, prior)
       \/ SubmitClaim(a) \/ RejectClaim(a) \/ ActivateClaim(a)

Spec == Init /\ [][Next]_vars

-----------------------------------------------------------------------------
(* Properties.                                                             *)

\* Every row keeps the shape of its doctype, a reversal names a posted OUTWARD
\* and mirrors its lines, and an assertion names a posted OUTWARD and a line of
\* it or none.
TypeOK ==
  /\ inward \in [Lots -> 0..MaxQty]
  /\ doc \in [Outwards -> OutwardDoc]
  /\ claim \in [Claims -> ClaimDoc]
  /\ flag \in [Outwards -> [FlagTypes -> {"NONE", "OPEN", "RESOLVED"}]]
  /\ pairs \subseteq Outwards \X Outwards
  /\ \A r \in Outwards : doc[r].reverses # None =>
       Left(doc[r].reverses) /\ doc[r].cargo = doc[doc[r].reverses].cargo
  /\ \A a \in Claims : claim[a].status # "ABSENT" =>
       /\ claim[a].outward \in Outwards /\ Left(claim[a].outward)
       /\ claim[a].scope \in DOMAIN doc[claim[a].outward].cargo \cup {Header}

\* What has left, less what was reversed, never passes the inward quantity of
\* a lot or of the container, and no place gets back more than left it, however
\* postings, reversals of one outward from several events, unmapped lines and
\* inward edits interleave (physical.py, Container.validate,
\* _validate_reversal_for_post).
WithinInward ==
  /\ \A lot \in Lots : Posted({lot}) <= inward[lot]
  /\ Posted(Places) <= Total(Lots, inward, MaxQty)
  /\ \A p \in Places : Posted({p}) >= 0

\* The rate assertions that took effect on a scope form one line of succession:
\* each one superseded has one successor, of its own scope, that took effect,
\* and the one in force, at most one, has none, though rivals name a
\* predecessor they read before it was superseded (_activate_assertion).
ClaimChain ==
  \A p \in Claims :
    LET heirs == {b \in Claims : /\ claim[b].supersedes = p
                                 /\ claim[b].status \in {"ACTIVE", "SUPERSEDED"}}
    IN /\ claim[p].status = "SUPERSEDED" => heirs = {claim[p].successor}
       /\ claim[p].status = "ACTIVE" => heirs = {} /\ Actives(p) = {p}
       /\ \A b \in heirs : SameScope(b, p)

\* The exceptions of an outward say what is missing: those of deal and lot
\* are open until it is reversed; OUTWARD_UNPRICED is closed once it is
\* priced or reversed, and is not closed while it is neither reversed nor
\* has an assertion in force over all its lines (post_outward,
\* _resolve_unpriced_when_complete, _resolve_reversed_outward_exceptions).
FlagsCurrent ==
  \A o \in Outwards : Left(o) =>
    LET asserted == {claim[a].scope : a \in {b \in Claims : claim[b].status = "ACTIVE"
                                                         /\ claim[b].outward = o}}
    IN /\ \A e \in Called(o) \ {"OUTWARD_UNPRICED"} :
            flag[o][e] = "OPEN" <=> ~IsReversed(o)
       /\ flag[o]["OUTWARD_UNPRICED"] = "OPEN" => ~IsReversed(o) /\ ~Priced(claim, o)
       /\ flag[o]["OUTWARD_UNPRICED"] = "RESOLVED" =>
            \/ IsReversed(o) \/ Header \in asserted
            \/ DOMAIN doc[o].cargo \subseteq asserted

\* Of two outwards posted with one gatepass, one is reported as the duplicate
\* of the other, whichever came first and whatever was reversed since
\* (_ensure_duplicate_gatepass_exceptions).
DuplicatesReported ==
  \A o, p \in Outwards :
    /\ Left(o) /\ Left(p) /\ o # p
    /\ doc[o].gatepass = doc[p].gatepass /\ doc[o].gatepass # None
    => (<<o, p>> \in pairs) # (<<p, o>> \in pairs)

\* What is wrong with an outward is on record, whatever order lines are priced
\* and outwards posted and reversed in.
ExceptionsCurrent == FlagsCurrent /\ DuplicatesReported

\* What the sales see of an outward (_outward_active of commercial_service).
shown ==
  [o \in Outwards |-> IF ~Left(o) THEN "DRAFT"
                     ELSE IF IsReversed(o) THEN "REVERSED" ELSE "POSTED"]

Physical == INSTANCE OutwardRegister WITH outward <- shown

\* The register CommercialSale is built on: whatever documents stand behind it
\* and in whatever order they are drafted and posted, an outward goes from
\* posted to reversed, one outward at a time, and never back.
KeepsOutwards == Physical!OutwardSpec

=============================================================================
