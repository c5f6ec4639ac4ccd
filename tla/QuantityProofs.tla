--------------------------- MODULE QuantityProofs ---------------------------
(***************************************************************************)
(* What is proved of QuantityLedger and CloseGate for any number of        *)
(* assertions, units, requests, issues and receipts: of one scope one      *)
(* assertion is in force, a difference a request could see has its         *)
(* exception, and a container is Fully Reconciled only when it is settled. *)
(***************************************************************************)
EXTENDS CloseGate, TLAPS

InEffect(c, a) == c[a].status \in {"ACTIVE", "SUPERSEDED"}
SameScope(c, a, b) == c[b].basis = c[a].basis /\ c[b].unit = c[a].unit

Typed ==
  /\ claim \in [Assertions -> Claim]
  /\ clock \in Nat
  /\ exc \in [Pairs -> {"NONE", "OPEN", "RESOLVED", "WAIVED"}]
  /\ job \in [Jobs -> View \cup {None}]

\* What took effect did so at a time of its own.
Timed ==
  /\ \A a \in Assertions : InEffect(claim, a) => claim[a].at \in 1..clock
  /\ \A a, b \in Assertions :
       InEffect(claim, a) /\ InEffect(claim, b) /\ claim[a].at = claim[b].at => a = b

\* An assertion supersedes one of its scope that took effect.
Sourced ==
  \A a \in Assertions :
    LET p == claim[a].supersedes IN
    /\ claim[a].status = "ABSENT" => p = None
    /\ p # None => p \in Assertions /\ InEffect(claim, p) /\ SameScope(claim, a, p)

\* One of a scope is in force, and what was superseded has one heir, and one in
\* force that is later.
Chained ==
  /\ \A a, b \in Assertions :
       /\ claim[a].status = "ACTIVE" /\ claim[b].status = "ACTIVE" /\ SameScope(claim, a, b)
       => a = b
  /\ \A a, b \in Assertions :
       InEffect(claim, b) /\ claim[b].supersedes = a =>
         claim[a].status = "SUPERSEDED" /\ b = claim[a].successor
  /\ \A a \in Assertions : claim[a].status = "SUPERSEDED" =>
       /\ claim[a].successor \in Assertions
       /\ InEffect(claim, claim[a].successor) /\ claim[claim[a].successor].supersedes = a
       /\ \E b \in Assertions :
            claim[b].status = "ACTIVE" /\ SameScope(claim, a, b) /\ claim[a].at < claim[b].at

\* What a request saw in force took effect, one of a scope, and the exceptions
\* it saw are there.
Viewed ==
  /\ \A j \in Jobs : job[j] # None =>
       /\ \A a \in job[j].active : InEffect(claim, a)
       /\ \A a, b \in job[j].active : SameScope(claim, a, b) => a = b
       /\ \A p \in job[j].known : exc[p] # "NONE"
  /\ \A a \in Assertions : \A b \in claim[a].saw : InEffect(claim, b)

\* An exception is of two assertions that took effect, of two bases, and differ.
Raised ==
  \A p \in Pairs : exc[p] # "NONE" =>
    /\ InEffect(claim, p[1]) /\ InEffect(claim, p[2])
    /\ claim[p[1]].basis = "DECLARED_SHIPPING" /\ claim[p[2]].basis = "OPERATING_INWARD"
    /\ claim[p[1]].unit = claim[p[2]].unit /\ claim[p[1]].quantity # claim[p[2]].quantity

QInv == Typed /\ Timed /\ Sourced /\ Chained /\ Viewed /\ Raised /\ VarianceFlagged

LEMMA QuantityStart == QuantityInit => QInv
<1> SUFFICES ASSUME QuantityInit PROVE QInv
    OBVIOUS
<1> USE QuantityAssumption DEF QuantityInit
<1>0. PICK u \in Units :
        claim = [a \in Assertions |->
                  [status |-> "ABSENT", basis |-> "DECLARED_SHIPPING", unit |-> u,
                   quantity |-> Unknown, supersedes |-> None, successor |-> None,
                   at |-> 0, saw |-> {}]]
  OBVIOUS
<1>1. Typed BY <1>0 DEF Typed, Claim, Bases
<1>2. Timed BY <1>0 DEF Timed, InEffect
<1>3. Sourced BY <1>0 DEF Sourced
<1>4. Chained BY <1>0 DEF Chained, InEffect
<1>5. Viewed BY <1>0 DEF Viewed
<1>6. Raised BY DEF Raised
<1>7. VarianceFlagged BY <1>0 DEF VarianceFlagged, Differing, Actives
<1> QED BY <1>1, <1>2, <1>3, <1>4, <1>5, <1>6, <1>7 DEF QInv

-----------------------------------------------------------------------------
(* Steps that leave what is in force alone.                                *)

\* An assertion that is not in effect, before or after, changes.
LEMMA AsideKeeps ==
  ASSUME QInv, NEW a \in Assertions, ~InEffect(claim, a), ~InEffect(claim', a),
         claim' \in [Assertions -> Claim],
         \A b \in Assertions \ {a} : claim'[b] = claim[b],
         \A b \in claim'[a].saw : b \in claim[a].saw,
         Sourced', UNCHANGED <<clock, exc, job>>
  PROVE  QInv'
<1> USE QuantityAssumption DEF QInv
<1>0. \A b \in Assertions : InEffect(claim, b) => b # a /\ claim'[b] = claim[b] /\ InEffect(claim', b)
  BY DEF InEffect
<1>1. \A b \in Assertions : InEffect(claim', b) => b # a /\ claim'[b] = claim[b] /\ InEffect(claim, b)
  BY DEF InEffect
<1>2. \A b \in Assertions : claim[b].status = "ACTIVE" => InEffect(claim, b)
  BY DEF InEffect
<1>3. \A b \in Assertions : claim'[b].status = "ACTIVE" => InEffect(claim', b)
  BY DEF InEffect
<1>4. Typed' BY DEF Typed
<1>5. Timed' BY <1>1 DEF Timed
<1>6. Chained'
  <2>1. ASSUME NEW b \in Assertions, NEW c \in Assertions,
               claim'[b].status = "ACTIVE", claim'[c].status = "ACTIVE", SameScope(claim', b, c)
        PROVE  b = c
    BY <2>1, <1>1, <1>3 DEF Chained, SameScope
  <2>2. ASSUME NEW b \in Assertions, NEW c \in Assertions,
               InEffect(claim', c), claim'[c].supersedes = b
        PROVE  claim'[b].status = "SUPERSEDED" /\ c = claim'[b].successor
    <3>1. InEffect(claim, c) /\ claim[c].supersedes = b BY <2>2, <1>1
    <3>2. claim[b].status = "SUPERSEDED" /\ c = claim[b].successor BY <3>1 DEF Chained
    <3>3. InEffect(claim, b) BY <3>2 DEF InEffect
    <3> QED BY <3>2, <3>3, <1>0
  <2>3. ASSUME NEW b \in Assertions, claim'[b].status = "SUPERSEDED"
        PROVE  /\ claim'[b].successor \in Assertions
               /\ InEffect(claim', claim'[b].successor)
               /\ claim'[claim'[b].successor].supersedes = b
               /\ \E c \in Assertions : claim'[c].status = "ACTIVE" /\ SameScope(claim', b, c)
                                          /\ claim'[b].at < claim'[c].at
    <3>1. InEffect(claim', b) BY <2>3 DEF InEffect
    <3>2. claim'[b] = claim[b] BY <3>1, <1>1
    <3>3. /\ claim[b].successor \in Assertions
          /\ InEffect(claim, claim[b].successor) /\ claim[claim[b].successor].supersedes = b
      BY <2>3, <3>2 DEF Chained
    <3>4. PICK c \in Assertions :
            claim[c].status = "ACTIVE" /\ SameScope(claim, b, c) /\ claim[b].at < claim[c].at
      BY <2>3, <3>2 DEF Chained
    <3>5. claim'[c] = claim[c] BY <3>4, <1>0, <1>2
    <3>6. SameScope(claim', b, c) BY <3>4, <3>5, <3>2 DEF SameScope
    <3> QED BY <3>2, <3>3, <3>4, <3>5, <3>6, <1>0
  <2> QED BY <2>1, <2>2, <2>3 DEF Chained
<1>7. Viewed'
  <2>1. ASSUME NEW j \in Jobs, job[j] # None
        PROVE  /\ \A b \in job[j].active : InEffect(claim', b)
               /\ \A b, c \in job[j].active : SameScope(claim', b, c) => b = c
               /\ \A p \in job[j].known : exc[p] # "NONE"
    <3>1. job[j].active \subseteq Assertions BY <2>1 DEF Typed, View
    <3>2. \A b \in job[j].active : claim'[b] = claim[b] /\ InEffect(claim', b)
      BY <2>1, <3>1, <1>0 DEF Viewed
    <3>3. \A b, c \in job[j].active : SameScope(claim', b, c) => b = c
      BY <2>1, <3>2 DEF Viewed, SameScope
    <3> QED BY <2>1, <3>2, <3>3 DEF Viewed
  <2>2. ASSUME NEW b \in Assertions, NEW c \in claim'[b].saw PROVE InEffect(claim', c)
    <3>1. c \in claim[b].saw BY <2>2
    <3>2. c \in Assertions BY <3>1 DEF Typed, Claim
    <3> QED BY <3>1, <3>2, <1>0 DEF Viewed
  <2> QED BY <2>1, <2>2 DEF Viewed
<1>8. Raised'
  <2>1. \A p \in Pairs : p[1] \in Assertions /\ p[2] \in Assertions BY DEF Pairs
  <2> QED BY <2>1, <1>0 DEF Raised
<1>9. VarianceFlagged'
  <2>1. Actives' = Actives BY <1>0, <1>1, <1>2, <1>3 DEF Actives
  <2>2. \A b \in Actives : b \in Assertions /\ claim'[b] = claim[b]
    BY <1>0, <1>2 DEF Actives
  <2>3. Differing' = Differing BY <2>1, <2>2 DEF Differing, Differ
  <2>4. \A p \in Differing : (Met(p))' <=> Met(p) BY <2>2 DEF Differing, Met
  <2> QED BY <2>3, <2>4 DEF VarianceFlagged
<1> QED BY <1>4, <1>5, <1>6, <1>7, <1>8, <1>9

LEMMA MakingKeeps ==
  ASSUME QInv, NEW a \in Assertions,
         \/ \E b \in Bases, u \in Units, q \in Quantities \cup {Unknown},
              prior \in Assertions \cup {None} : Create(a, b, u, q, prior)
         \/ Submit(a) \/ Reject(a)
  PROVE  QInv'
<1> USE QuantityAssumption
<1>0. claim \in [Assertions -> Claim] /\ Sourced BY DEF QInv, Typed
<1>1. ASSUME NEW b \in Bases, NEW u \in Units, NEW q \in Quantities \cup {Unknown},
             NEW prior \in Assertions \cup {None}, Create(a, b, u, q, prior)
      PROVE  QInv'
  <2> DEFINE new == [status |-> "DRAFT", basis |-> b, unit |-> u, quantity |-> q,
                     supersedes |-> prior, successor |-> None, at |-> 0, saw |-> {}]
  <2>1. new \in Claim BY <1>1 DEF Claim
  <2>2. claim' = [claim EXCEPT ![a] = new] /\ UNCHANGED <<clock, exc, job>>
    BY <1>1 DEF Create
  <2>3. claim[a].status = "ABSENT" BY <1>1 DEF Create
  <2>4. new.status = "DRAFT" /\ new.supersedes = prior /\ new.saw = {}
        /\ new.basis = b /\ new.unit = u
    OBVIOUS
  <2> HIDE DEF new
  <2>5. claim'[a] = new /\ \A x \in Assertions \ {a} : claim'[x] = claim[x]
    BY <2>2, <1>0
  <2>6. claim' \in [Assertions -> Claim] BY <2>1, <2>2, <1>0
  <2>7. ~InEffect(claim, a) /\ ~InEffect(claim', a) BY <2>3, <2>4, <2>5 DEF InEffect
  <2>8. Sourced'
    <3>1. prior # None => prior \in Assertions /\ InEffect(claim, prior) /\ prior # a
                          /\ claim[prior].basis = b /\ claim[prior].unit = u
      BY <1>1, <2>3 DEF Create, InEffect
    <3>2. prior # None => InEffect(claim', prior) /\ SameScope(claim', a, prior)
      BY <3>1, <2>4, <2>5 DEF InEffect, SameScope
    <3>3. ASSUME NEW x \in Assertions \ {a}, claim[x].supersedes # None
          PROVE  /\ claim[x].supersedes \in Assertions
                 /\ InEffect(claim', claim[x].supersedes) /\ SameScope(claim', x, claim[x].supersedes)
      <4>1. /\ claim[x].supersedes \in Assertions
            /\ InEffect(claim, claim[x].supersedes) /\ SameScope(claim, x, claim[x].supersedes)
        BY <3>3, <1>0 DEF Sourced
      <4>2. claim[x].supersedes # a BY <4>1, <2>7
      <4> QED BY <4>1, <4>2, <2>5 DEF InEffect, SameScope
    <3> QED BY <3>1, <3>2, <3>3, <2>4, <2>5, <1>0 DEF Sourced
  <2> QED BY <2>2, <2>4, <2>5, <2>6, <2>7, <2>8, AsideKeeps
<1>2. ASSUME NEW s \in {"REVIEW_PENDING", "REJECTED"},
             claim[a].status \in {"DRAFT", "REVIEW_PENDING"},
             claim' = [claim EXCEPT ![a].status = s], UNCHANGED <<clock, exc, job>>
      PROVE  QInv'
  <2>1. claim[a] \in Claim BY <1>0
  <2>2. [claim[a] EXCEPT !.status = s] \in Claim BY <2>1 DEF Claim
  <2>3. claim' \in [Assertions -> Claim] BY <1>2, <2>2, <1>0
  <2>4. \A x \in Assertions \ {a} : claim'[x] = claim[x] BY <1>2, <1>0
  <2>5. /\ claim'[a].status = s /\ claim'[a].saw = claim[a].saw
        /\ claim'[a].supersedes = claim[a].supersedes
        /\ claim'[a].basis = claim[a].basis /\ claim'[a].unit = claim[a].unit
    BY <1>2, <1>0, <2>1 DEF Claim
  <2>6. ~InEffect(claim, a) /\ ~InEffect(claim', a) BY <1>2, <2>5 DEF InEffect
  <2>7. Sourced'
    <3>1. ASSUME NEW x \in Assertions, claim'[x].supersedes # None
          PROVE  /\ claim'[x].supersedes \in Assertions
                 /\ InEffect(claim', claim'[x].supersedes) /\ SameScope(claim', x, claim'[x].supersedes)
      <4>1. claim'[x].supersedes = claim[x].supersedes BY <2>4, <2>5
      <4>2. /\ claim[x].supersedes \in Assertions
            /\ InEffect(claim, claim[x].supersedes) /\ SameScope(claim, x, claim[x].supersedes)
        BY <3>1, <4>1, <1>0 DEF Sourced
      <4>3. claim[x].supersedes # a BY <4>2, <2>6
      <4> QED BY <4>1, <4>2, <4>3, <2>4, <2>5 DEF InEffect, SameScope
    <3>2. \A x \in Assertions : claim'[x].status = "ABSENT" => claim'[x].supersedes = None
      BY <2>4, <2>5, <1>0, <1>2 DEF Sourced
    <3> QED BY <3>1, <3>2 DEF Sourced
  <2> QED BY <1>2, <2>3, <2>4, <2>5, <2>6, <2>7, AsideKeeps
<1>3. CASE Submit(a) BY <1>2, <1>3 DEF Submit
<1>4. CASE Reject(a) BY <1>2, <1>4 DEF Reject
<1> QED BY <1>1, <1>3, <1>4

-----------------------------------------------------------------------------
(* Steps that open and settle exceptions.                                  *)

\* Exceptions opened for assertions of S that took effect are of the right kind,
\* and none is lost.
LEMMA EnsuredKeeps ==
  ASSUME Typed, Raised, NEW S \in SUBSET Assertions, NEW K,
         claim' \in [Assertions -> Claim],
         \A a \in Assertions : InEffect(claim, a) => InEffect(claim', a),
         \A a \in Assertions : /\ claim'[a].basis = claim[a].basis
                               /\ claim'[a].unit = claim[a].unit
                               /\ claim'[a].quantity = claim[a].quantity,
         \A a \in S : InEffect(claim', a),
         Ensured(Variance(claim', S), K)
  PROVE  /\ exc' \in [Pairs -> {"NONE", "OPEN", "RESOLVED", "WAIVED"}]
         /\ \A p \in Pairs : exc[p] # "NONE" => exc'[p] # "NONE"
         /\ \A p \in Variance(claim', S) : p \in Pairs /\ (p \in K \/ exc'[p] # "NONE")
         /\ Raised'
<1> DEFINE V == Variance(claim', S)
<1>1. ASSUME NEW p \in V
      PROVE  /\ p \in Pairs /\ InEffect(claim', p[1]) /\ InEffect(claim', p[2])
             /\ claim'[p[1]].basis = "DECLARED_SHIPPING"
             /\ claim'[p[2]].basis = "OPERATING_INWARD"
             /\ claim'[p[1]].unit = claim'[p[2]].unit
             /\ claim'[p[1]].quantity # claim'[p[2]].quantity
  <2>1. p \in S \X S /\ Differ(claim', p)
        /\ p[1] \in Latest(claim', S, "DECLARED_SHIPPING")
        /\ p[2] \in Latest(claim', {a \in S : claim'[a].unit = claim'[p[1]].unit},
                           "OPERATING_INWARD")
    BY DEF Variance, Compared
  <2>2. p[1] \in S /\ p[2] \in S /\ p \in Pairs BY <2>1 DEF Pairs
  <2>3. claim'[p[1]].basis = "DECLARED_SHIPPING" BY <2>1 DEF Latest
  <2>4. claim'[p[2]].basis = "OPERATING_INWARD" /\ claim'[p[2]].unit = claim'[p[1]].unit
    BY <2>1 DEF Latest
  <2>5. claim'[p[1]].quantity # claim'[p[2]].quantity BY <2>1 DEF Differ
  <2> QED BY <2>2, <2>3, <2>4, <2>5
<1> HIDE DEF V
<1>2. exc' = [p \in Pairs |-> IF p \in V \ K THEN "OPEN" ELSE exc[p]] BY DEF V, Ensured
<1>3. exc' \in [Pairs -> {"NONE", "OPEN", "RESOLVED", "WAIVED"}] BY <1>2 DEF Typed
<1>4. \A p \in Pairs : exc[p] # "NONE" => exc'[p] # "NONE" BY <1>2
<1>5. \A p \in V : p \in Pairs /\ (p \in K \/ exc'[p] # "NONE") BY <1>1, <1>2
<1>6. ASSUME NEW p \in Pairs, exc'[p] # "NONE"
      PROVE  /\ InEffect(claim', p[1]) /\ InEffect(claim', p[2])
             /\ claim'[p[1]].basis = "DECLARED_SHIPPING"
             /\ claim'[p[2]].basis = "OPERATING_INWARD"
             /\ claim'[p[1]].unit = claim'[p[2]].unit
             /\ claim'[p[1]].quantity # claim'[p[2]].quantity
  <2>1. CASE p \in V BY <2>1, <1>1
  <2>2. CASE p \notin V
    <3>1. exc[p] # "NONE" BY <1>6, <2>2, <1>2
    <3>2. p[1] \in Assertions /\ p[2] \in Assertions BY DEF Pairs
    <3> QED BY <3>1, <3>2 DEF Raised
  <2> QED BY <2>1, <2>2
<1>7. Raised' BY <1>6 DEF Raised
<1> QED BY <1>3, <1>4, <1>5, <1>7 DEF V

\* Requests come and go, and exceptions are opened or settled; no assertion
\* changes.
LEMMA LookingKeeps ==
  ASSUME QInv, UNCHANGED <<claim, clock>>,
         exc' \in [Pairs -> {"NONE", "OPEN", "RESOLVED", "WAIVED"}], Raised',
         \A p \in Pairs : exc[p] # "NONE" => exc'[p] # "NONE",
         job' \in [Jobs -> View \cup {None}],
         \A i \in Jobs : job'[i] \in {job[i], None} \/
            (job'[i].active = Actives /\ job'[i].known = {p \in Pairs : exc[p] # "NONE"})
  PROVE  QInv'
<1> USE QuantityAssumption DEF QInv
<1>1. Typed' BY DEF Typed
<1>2. Timed' BY DEF Timed
<1>3. Sourced' BY DEF Sourced
<1>4. Chained' BY DEF Chained
<1>5. Viewed'
  <2>1. ASSUME NEW i \in Jobs, job'[i] # None
        PROVE  /\ \A a \in job'[i].active : InEffect(claim', a)
               /\ \A a, b \in job'[i].active : SameScope(claim', a, b) => a = b
               /\ \A p \in job'[i].known : exc'[p] # "NONE"
    <3>1. CASE job'[i] = job[i]
      <4>1. job[i] \in View BY <2>1, <3>1 DEF Typed
      <4>2. job[i].known \subseteq Pairs BY <4>1 DEF View
      <4> QED BY <2>1, <3>1, <4>2 DEF Viewed
    <3>2. CASE /\ job'[i].active = Actives
               /\ job'[i].known = {p \in Pairs : exc[p] # "NONE"}
      <4>1. \A a \in Actives : a \in Assertions /\ claim[a].status = "ACTIVE" BY DEF Actives
      <4>2. \A a \in Actives : InEffect(claim, a) BY <4>1 DEF InEffect
      <4>3. \A a, b \in Actives : SameScope(claim, a, b) => a = b BY <4>1 DEF Chained
      <4> QED BY <3>2, <4>2, <4>3
    <3> QED BY <2>1, <3>1, <3>2
  <2>2. \A a \in Assertions : \A b \in claim'[a].saw : InEffect(claim', b) BY DEF Viewed
  <2> QED BY <2>1, <2>2 DEF Viewed
<1>6. VarianceFlagged'
  <2>1. Differing' = Differing BY DEF Differing, Differ, Actives
  <2>2. ASSUME NEW p \in Differing, (Met(p))' PROVE exc'[p] # "NONE"
    <3>1. p \in Pairs BY DEF Differing, Actives, Pairs
    <3>2. Met(p) BY <2>2 DEF Met
    <3> QED BY <3>1, <3>2 DEF VarianceFlagged
  <2> QED BY <2>1, <2>2 DEF VarianceFlagged
<1> QED BY <1>1, <1>2, <1>3, <1>4, <1>5, <1>6

LEMMA RequestKeeps ==
  ASSUME QInv, NEW j \in Jobs,
         \/ \E a \in Assertions \cup {None} : Take(j, a)
         \/ Abandon(j) \/ Ensure(j)
  PROVE  QInv'
<1> USE QuantityAssumption
<1>0. Typed /\ Raised BY DEF QInv
<1>1. ASSUME NEW a \in Assertions \cup {None}, Take(j, a) PROVE QInv'
  <2> DEFINE v == [doc |-> a, active |-> Actives, known |-> {p \in Pairs : exc[p] # "NONE"}]
  <2>1. v \in View BY DEF View, Actives
  <2>2. job' = [job EXCEPT ![j] = v] /\ UNCHANGED <<claim, clock, exc>>
    BY <1>1 DEF Take
  <2>3. v.active = Actives /\ v.known = {p \in Pairs : exc[p] # "NONE"} OBVIOUS
  <2> HIDE DEF v
  <2>4. /\ job' \in [Jobs -> View \cup {None}] /\ job'[j] = v
        /\ \A i \in Jobs \ {j} : job'[i] = job[i]
    BY <2>1, <2>2, <1>0 DEF Typed
  <2>5. Raised' BY <2>2, <1>0 DEF Raised
  <2> QED BY <2>2, <2>3, <2>4, <2>5, <1>0, LookingKeeps DEF Typed
<1>2. CASE Abandon(j)
  <2>1. job' = [job EXCEPT ![j] = None] /\ UNCHANGED <<claim, clock, exc>>
    BY <1>2 DEF Abandon
  <2>2. /\ job' \in [Jobs -> View \cup {None}]
        /\ \A i \in Jobs : job'[i] \in {job[i], None}
    BY <2>1, <1>0 DEF Typed
  <2>3. Raised' BY <2>1, <1>0 DEF Raised
  <2> QED BY <2>1, <2>2, <2>3, <1>0, LookingKeeps DEF Typed
<1>3. CASE Ensure(j)
  <2>1. /\ job[j] # None /\ Ensured(Variance(claim, job[j].active), job[j].known)
        /\ job' = [job EXCEPT ![j] = None] /\ UNCHANGED <<claim, clock>>
    BY <1>3 DEF Ensure
  <2>2. /\ job' \in [Jobs -> View \cup {None}]
        /\ \A i \in Jobs : job'[i] \in {job[i], None}
    BY <2>1, <1>0 DEF Typed
  <2>3. job[j].active \in SUBSET Assertions BY <2>1, <1>0 DEF Typed, View
  <2>4. \A a \in job[j].active : InEffect(claim, a) BY <2>1 DEF QInv, Viewed
  <2>5. claim' = claim /\ claim \in [Assertions -> Claim] BY <2>1, <1>0 DEF Typed
  <2>6. /\ exc' \in [Pairs -> {"NONE", "OPEN", "RESOLVED", "WAIVED"}]
        /\ \A p \in Pairs : exc[p] # "NONE" => exc'[p] # "NONE"
        /\ Raised'
    BY <2>1, <2>3, <2>4, <2>5, <1>0, EnsuredKeeps
  <2> QED BY <2>1, <2>2, <2>6, LookingKeeps
<1> QED BY <1>1, <1>2, <1>3

LEMMA DecideKeeps ==
  ASSUME QInv, NEW p \in Pairs, NEW s \in {"RESOLVED", "WAIVED"}, Decide(p, s)
  PROVE  QInv'
<1> USE QuantityAssumption
<1>0. Typed /\ Raised BY DEF QInv
<1>1. /\ exc[p] = "OPEN" /\ exc' = [exc EXCEPT ![p] = s]
      /\ UNCHANGED <<claim, clock, job>>
  BY DEF Decide
<1>2. /\ exc' \in [Pairs -> {"NONE", "OPEN", "RESOLVED", "WAIVED"}]
      /\ \A q \in Pairs : exc[q] # "NONE" <=> exc'[q] # "NONE"
  BY <1>1, <1>0 DEF Typed
<1>3. Raised' BY <1>1, <1>2, <1>0 DEF Raised
<1> QED BY <1>1, <1>2, <1>3, <1>0, LookingKeeps DEF Typed

-----------------------------------------------------------------------------
(* Activation.                                                             *)

Promoted(r, n, S) == [r EXCEPT !.status = "ACTIVE", !.at = n, !.saw = S]
Retired(r, a) == [r EXCEPT !.status = "SUPERSEDED", !.successor = a]

\* What becomes of a row that is activated, and of one that is superseded.
LEMMA RowFields ==
  ASSUME NEW r \in Claim, NEW n \in Nat, NEW S \in SUBSET Assertions,
         NEW a \in Assertions
  PROVE  /\ Promoted(r, n, S) \in Claim /\ Promoted(r, n, S).status = "ACTIVE"
         /\ Promoted(r, n, S).at = n /\ Promoted(r, n, S).saw = S
         /\ Promoted(r, n, S).basis = r.basis /\ Promoted(r, n, S).unit = r.unit
         /\ Promoted(r, n, S).quantity = r.quantity
         /\ Promoted(r, n, S).supersedes = r.supersedes
         /\ Retired(r, a) \in Claim /\ Retired(r, a).status = "SUPERSEDED"
         /\ Retired(r, a).successor = a
         /\ Retired(r, a).at = r.at /\ Retired(r, a).saw = r.saw
         /\ Retired(r, a).basis = r.basis /\ Retired(r, a).unit = r.unit
         /\ Retired(r, a).quantity = r.quantity
         /\ Retired(r, a).supersedes = r.supersedes
BY DEF Claim, Promoted, Retired

\* The rows a request activates its assertion over.
LEMMA ActivateRows ==
  ASSUME QInv, NEW j \in Jobs, Activate(j), NEW a, a = job[j].doc,
         NEW p, p = claim[a].supersedes
  PROVE  /\ job[j] # None /\ job[j].active \in SUBSET Assertions
         /\ a \in Assertions /\ ~InEffect(claim, a) /\ p # a
         /\ p \in Assertions =>
              /\ claim[p].status = "ACTIVE" /\ SameScope(claim, a, p)
              /\ claim'[p] = Retired(claim[p], a)
         /\ p \notin Assertions => p = None
         /\ \A b \in Assertions :
              claim[b].status = "ACTIVE" /\ SameScope(claim, a, b) => b = p
         /\ claim'[a] = Promoted(claim[a], clock + 1, job[j].active)
         /\ \A b \in Assertions \ {a, p} : claim'[b] = claim[b]
         /\ claim' \in [Assertions -> Claim] /\ clock' = clock + 1 /\ clock \in Nat
<1> USE QuantityAssumption
<1> DEFINE v == job[j]
<1>1. claim \in [Assertions -> Claim] /\ clock \in Nat /\ job \in [Jobs -> View \cup {None}]
  BY DEF QInv, Typed
<1>2. /\ v # None /\ a # None /\ Activable(v) /\ claim' = Activated(a, v.active)
      /\ clock' = clock + 1
  BY DEF Activate
<1>3. v \in View BY <1>1, <1>2
<1>4. a \in Assertions /\ v.active \in SUBSET Assertions BY <1>2, <1>3 DEF View
<1>5. claim[a].status = "REVIEW_PENDING" BY <1>2 DEF Activable
<1>6. ~InEffect(claim, a) BY <1>5 DEF InEffect
<1>7. p \in Assertions \cup {None} BY <1>1, <1>4 DEF Claim
<1>8. p # None => Actives \cap Scope(a) = {p} BY <1>2 DEF Activable
<1>9. p = None => Actives \cap Scope(a) = {} BY <1>2 DEF Activable
<1>10. \A b \in Assertions :
         claim[b].status = "ACTIVE" /\ SameScope(claim, a, b) => b \in Actives \cap Scope(a)
  BY DEF Actives, Scope, SameScope
<1>11. p \in Assertions =>
         claim[p].status = "ACTIVE" /\ SameScope(claim, a, p) /\ InEffect(claim, p)
  <2>1. p \in Assertions => p \in Actives \cap Scope(a) BY <1>8
  <2> QED BY <2>1 DEF Actives, Scope, SameScope, InEffect
<1>12. p # a BY <1>4, <1>6, <1>11
<1>13. claim' = [b \in Assertions |->
                   CASE b = a -> Promoted(claim[a], clock + 1, v.active)
                     [] b = p -> Retired(claim[b], a)
                     [] OTHER -> claim[b]]
  <2>1. Activated(a, v.active) =
          [b \in Assertions |->
             CASE b = a -> Promoted(claim[a], clock + 1, v.active)
               [] b = claim[a].supersedes -> Retired(claim[b], a)
               [] OTHER -> claim[b]]
    BY DEF Activated, Promoted, Retired
  <2> QED BY <2>1, <1>2
<1>14. /\ claim'[a] = Promoted(claim[a], clock + 1, v.active)
       /\ p \in Assertions => claim'[p] = Retired(claim[p], a)
  BY <1>4, <1>12, <1>13
<1>15. \A b \in Assertions \ {a, p} : claim'[b] = claim[b] BY <1>13
<1>16. claim' \in [Assertions -> Claim]
  <2>1. ASSUME NEW b \in Assertions PROVE claim'[b] \in Claim
    <3>1. claim[b] \in Claim /\ clock + 1 \in Nat BY <1>1
    <3>2. CASE b = a BY <3>1, <3>2, <1>4, <1>14, RowFields
    <3>3. CASE b = p BY <3>1, <3>3, <1>4, <1>14, RowFields
    <3> QED BY <3>1, <3>2, <3>3, <1>15
  <2>2. claim' = [b \in Assertions |-> claim'[b]] BY <1>13
  <2> QED BY <2>1, <2>2
<1> QED BY <1>1, <1>2, <1>4, <1>6, <1>7, <1>8, <1>9, <1>10, <1>11, <1>12, <1>13, <1>14, <1>15, <1>16

\* The same, field by field.
LEMMA ActivateFields ==
  ASSUME QInv, NEW j \in Jobs, Activate(j), NEW a, a = job[j].doc,
         NEW p, p = claim[a].supersedes
  PROVE  /\ claim'[a].status = "ACTIVE" /\ claim'[a].at = clock + 1
         /\ claim'[a].saw = job[j].active
         /\ p \in Assertions => claim'[p].status = "SUPERSEDED" /\ claim'[p].successor = a
         /\ \A b \in Assertions \ {a, p} : /\ claim'[b].status = claim[b].status
                                           /\ claim'[b].successor = claim[b].successor
         /\ \A b \in Assertions \ {a} : /\ claim'[b].at = claim[b].at
                                        /\ claim'[b].saw = claim[b].saw
         /\ \A b \in Assertions : /\ claim'[b].basis = claim[b].basis
                                  /\ claim'[b].unit = claim[b].unit
                                  /\ claim'[b].quantity = claim[b].quantity
                                  /\ claim'[b].supersedes = claim[b].supersedes
         /\ \A b \in Assertions : InEffect(claim', b) <=> b = a \/ InEffect(claim, b)
         /\ \A b \in Assertions : claim'[b].status = "ACTIVE" <=>
                                    b = a \/ (claim[b].status = "ACTIVE" /\ b # p)
<1>1. claim \in [Assertions -> Claim] BY DEF QInv, Typed
<1>2. /\ a \in Assertions /\ ~InEffect(claim, a) /\ p # a
      /\ p \in Assertions =>
           /\ claim[p].status = "ACTIVE" /\ SameScope(claim, a, p)
           /\ claim'[p] = Retired(claim[p], a)
      /\ claim'[a] = Promoted(claim[a], clock + 1, job[j].active)
      /\ \A b \in Assertions \ {a, p} : claim'[b] = claim[b]
  BY ActivateRows
<1>3. /\ \A b \in Assertions : claim[b] \in Claim
      /\ clock + 1 \in Nat /\ job[j].active \in SUBSET Assertions
  BY <1>1, ActivateRows
<1>4. /\ claim'[a].status = "ACTIVE" /\ claim'[a].at = clock + 1
      /\ claim'[a].saw = job[j].active
      /\ claim'[a].basis = claim[a].basis /\ claim'[a].unit = claim[a].unit
      /\ claim'[a].quantity = claim[a].quantity
      /\ claim'[a].supersedes = claim[a].supersedes
  BY <1>2, <1>3, RowFields
<1>5. p \in Assertions =>
      /\ claim'[p].status = "SUPERSEDED" /\ claim'[p].successor = a
      /\ claim'[p].at = claim[p].at /\ claim'[p].saw = claim[p].saw
      /\ claim'[p].basis = claim[p].basis /\ claim'[p].unit = claim[p].unit
      /\ claim'[p].quantity = claim[p].quantity
      /\ claim'[p].supersedes = claim[p].supersedes
  <2> SUFFICES ASSUME p \in Assertions
               PROVE  /\ claim'[p].status = "SUPERSEDED" /\ claim'[p].successor = a
                      /\ claim'[p].at = claim[p].at /\ claim'[p].saw = claim[p].saw
                      /\ claim'[p].basis = claim[p].basis
                      /\ claim'[p].unit = claim[p].unit
                      /\ claim'[p].quantity = claim[p].quantity
                      /\ claim'[p].supersedes = claim[p].supersedes
    OBVIOUS
  <2>1. claim'[p] = Retired(claim[p], a) /\ claim[p] \in Claim
    BY <1>2, <1>3
  <2>2. QED
    BY ONLY <1>2, <1>3, <2>1, RowFields
<1>6. ASSUME NEW b \in Assertions
      PROVE  /\ InEffect(claim', b) <=> b = a \/ InEffect(claim, b)
             /\ claim'[b].status = "ACTIVE" <=>
                  b = a \/ (claim[b].status = "ACTIVE" /\ b # p)
  <2>1. CASE b = a BY <2>1, <1>2, <1>4 DEF InEffect
  <2>2. CASE b = p BY <2>2, <1>2, <1>5 DEF InEffect
  <2>3. CASE b # a /\ b # p BY <2>3, <1>2 DEF InEffect
  <2> QED BY <2>1, <2>2, <2>3
<1>7. /\ \A b \in Assertions : InEffect(claim', b) <=> b = a \/ InEffect(claim, b)
      /\ \A b \in Assertions : claim'[b].status = "ACTIVE" <=>
                                 b = a \/ (claim[b].status = "ACTIVE" /\ b # p)
  BY <1>6
<1>8. ASSUME NEW b \in Assertions
      PROVE  /\ claim'[b].basis = claim[b].basis /\ claim'[b].unit = claim[b].unit
             /\ claim'[b].quantity = claim[b].quantity
             /\ claim'[b].supersedes = claim[b].supersedes
             /\ b # a => claim'[b].at = claim[b].at /\ claim'[b].saw = claim[b].saw
  <2>1. CASE b = a BY <2>1, <1>4
  <2>2. CASE b = p BY <2>2, <1>2, <1>5
  <2>3. CASE b # a /\ b # p BY <2>3, <1>2
  <2> QED BY <2>1, <2>2, <2>3
<1>9. \A b \in Assertions \ {a, p} : /\ claim'[b].status = claim[b].status
                                     /\ claim'[b].successor = claim[b].successor
  BY <1>2
<1> QED BY <1>4, <1>5, <1>7, <1>8, <1>9

LEMMA ActivateKeeps ==
  ASSUME QInv, NEW j \in Jobs, Activate(j)
  PROVE  QInv'
<1> USE QuantityAssumption
<1>0. /\ Typed /\ Timed /\ Sourced /\ Chained /\ Viewed /\ Raised /\ VarianceFlagged
      /\ clock \in Nat
  BY DEF QInv, Typed
<1>1. PICK a : a = job[j].doc OBVIOUS
<1>2. PICK p : p = claim[a].supersedes OBVIOUS
<1> DEFINE S == (job[j].active \cup {a}) \ {p}
<1>3. /\ job[j] # None /\ job[j].active \in SUBSET Assertions
      /\ a \in Assertions /\ ~InEffect(claim, a) /\ p # a
      /\ p \in Assertions => claim[p].status = "ACTIVE" /\ SameScope(claim, a, p)
      /\ \A b \in Assertions :
           claim[b].status = "ACTIVE" /\ SameScope(claim, a, b) => b = p
      /\ claim' \in [Assertions -> Claim] /\ clock' = clock + 1
  BY <1>1, <1>2, ActivateRows
<1>4. /\ claim'[a].status = "ACTIVE" /\ claim'[a].at = clock + 1
      /\ claim'[a].saw = job[j].active
      /\ p \in Assertions => claim'[p].status = "SUPERSEDED" /\ claim'[p].successor = a
  BY <1>1, <1>2, ActivateFields
<1>5. /\ \A b \in Assertions \ {a, p} : /\ claim'[b].status = claim[b].status
                                        /\ claim'[b].successor = claim[b].successor
      /\ \A b \in Assertions \ {a} : /\ claim'[b].at = claim[b].at
                                     /\ claim'[b].saw = claim[b].saw
      /\ \A b \in Assertions : /\ claim'[b].basis = claim[b].basis
                               /\ claim'[b].unit = claim[b].unit
                               /\ claim'[b].quantity = claim[b].quantity
                               /\ claim'[b].supersedes = claim[b].supersedes
  BY <1>1, <1>2, ActivateFields
<1>6. /\ \A b \in Assertions : InEffect(claim', b) <=> b = a \/ InEffect(claim, b)
      /\ \A b \in Assertions : claim'[b].status = "ACTIVE" <=>
                                 b = a \/ (claim[b].status = "ACTIVE" /\ b # p)
  BY <1>1, <1>2, ActivateFields
<1>7. \A b, c \in Assertions : SameScope(claim', b, c) <=> SameScope(claim, b, c)
  BY <1>5 DEF SameScope
<1>8. /\ \A b \in Assertions : claim[b].status = "ACTIVE" => InEffect(claim, b)
      /\ \A b \in Assertions : claim[b].status = "SUPERSEDED" => InEffect(claim, b)
  BY DEF InEffect
<1>9. /\ \A b \in Assertions : InEffect(claim, b) => claim[b].at \in Nat /\ claim[b].at <= clock
      /\ \A b, c \in Assertions :
           InEffect(claim, b) /\ InEffect(claim, c) /\ claim[b].at = claim[c].at => b = c
  BY <1>0 DEF Timed
<1>10. \A b \in Assertions : InEffect(claim', b) =>
         claim'[b].at \in Nat /\ claim'[b].at <= claim'[a].at
  BY <1>0, <1>3, <1>4, <1>5, <1>6, <1>9
<1>11. S \in SUBSET Assertions /\ \A b \in S : InEffect(claim', b)
  BY <1>0, <1>3, <1>6 DEF Viewed
<1>12. /\ exc' \in [Pairs -> {"NONE", "OPEN", "RESOLVED", "WAIVED"}]
       /\ \A q \in Pairs : exc[q] # "NONE" => exc'[q] # "NONE"
       /\ \A q \in Variance(claim', S) : q \in Pairs /\ (q \in job[j].known \/ exc'[q] # "NONE")
       /\ Raised'
  <2>1. Ensured(Variance(claim', S), job[j].known) BY <1>1, <1>2 DEF Activate
  <2>2. \A b \in Assertions : InEffect(claim, b) => InEffect(claim', b) BY <1>6
  <2> HIDE DEF S
  <2> QED BY <2>1, <2>2, <1>0, <1>3, <1>5, <1>11, EnsuredKeeps
<1>13. job' = [job EXCEPT ![j] = None] BY DEF Activate
<1>14. Typed'
  <2>1. job' \in [Jobs -> View \cup {None}] BY <1>13, <1>0 DEF Typed
  <2> QED BY <2>1, <1>0, <1>3, <1>12 DEF Typed
<1>15. Timed'
  <2>1. ASSUME NEW b \in Assertions, InEffect(claim', b)
        PROVE  claim'[b].at \in 1..(clock + 1)
    <3>1. CASE b = a BY <3>1, <1>0, <1>4
    <3>2. CASE b # a
      <4>1. claim[b].at \in 1..clock BY <3>2, <2>1, <1>0, <1>6 DEF Timed
      <4> QED BY <4>1, <3>2, <1>0, <1>5
    <3> QED BY <3>1, <3>2
  <2>2. ASSUME NEW b \in Assertions, NEW c \in Assertions, InEffect(claim', b),
               InEffect(claim', c), claim'[b].at = claim'[c].at
        PROVE  b = c
    <3>1. \A x \in Assertions \ {a} : InEffect(claim', x) =>
            InEffect(claim, x) /\ claim'[x].at = claim[x].at /\ claim'[x].at # claim'[a].at
      BY <1>0, <1>4, <1>5, <1>6, <1>9
    <3> QED BY <2>2, <3>1, <1>9
  <2> QED BY <2>1, <2>2, <1>3 DEF Timed
<1>16. Sourced'
  <2>1. ASSUME NEW x \in Assertions, claim'[x].supersedes # None
        PROVE  /\ claim'[x].supersedes \in Assertions
               /\ InEffect(claim', claim'[x].supersedes)
               /\ SameScope(claim', x, claim'[x].supersedes)
    <3>1. /\ claim[x].supersedes \in Assertions
          /\ InEffect(claim, claim[x].supersedes)
          /\ SameScope(claim, x, claim[x].supersedes)
      BY <2>1, <1>0, <1>5 DEF Sourced
    <3> QED BY <3>1, <1>5, <1>6, <1>7
  <2>2. ASSUME NEW x \in Assertions, claim'[x].status = "ABSENT"
        PROVE  claim'[x].supersedes = None
    <3>1. x # a /\ x # p BY <2>2, <1>4
    <3> QED BY <3>1, <2>2, <1>0, <1>5 DEF Sourced
  <2> QED BY <2>1, <2>2 DEF Sourced
<1>17. Chained'
  <2>1. ASSUME NEW b \in Assertions, NEW c \in Assertions, claim'[b].status = "ACTIVE",
               claim'[c].status = "ACTIVE", SameScope(claim', b, c)
        PROVE  b = c
    <3>1. SameScope(claim, b, c) /\ SameScope(claim, c, b) BY <2>1, <1>7 DEF SameScope
    <3>2. CASE b # a /\ c # a
      <4>1. claim[b].status = "ACTIVE" /\ claim[c].status = "ACTIVE" BY <2>1, <3>2, <1>6
      <4> QED BY <4>1, <3>1, <1>0 DEF Chained
    <3> QED BY <2>1, <3>1, <3>2, <1>3, <1>6
  <2>2. ASSUME NEW b \in Assertions, NEW c \in Assertions,
               InEffect(claim', c), claim'[c].supersedes = b
        PROVE  claim'[b].status = "SUPERSEDED" /\ c = claim'[b].successor
    <3>1. CASE c = a BY <2>2, <3>1, <1>2, <1>4, <1>5
    <3>2. CASE c # a
      <4>1. InEffect(claim, c) /\ claim[c].supersedes = b BY <2>2, <3>2, <1>5, <1>6
      <4>2. claim[b].status = "SUPERSEDED" /\ c = claim[b].successor
        BY <4>1, <1>0 DEF Chained
      <4>3. b # a /\ b # p BY <4>2, <1>3, <1>8
      <4> QED BY <4>2, <4>3, <1>5
    <3> QED BY <3>1, <3>2
  <2>3. ASSUME NEW b \in Assertions, claim'[b].status = "SUPERSEDED"
        PROVE  /\ claim'[b].successor \in Assertions
               /\ InEffect(claim', claim'[b].successor)
               /\ claim'[claim'[b].successor].supersedes = b
               /\ \E c \in Assertions : claim'[c].status = "ACTIVE" /\ SameScope(claim', b, c)
                                          /\ claim'[b].at < claim'[c].at
    <3>1. b # a BY <2>3, <1>4
    <3>2. CASE b = p
      <4>1. claim'[b].successor = a /\ claim'[a].supersedes = b
        BY <3>2, <1>2, <1>3, <1>4, <1>5
      <4>2. InEffect(claim', a) /\ SameScope(claim', b, a)
        BY <3>2, <1>3, <1>6, <1>7 DEF SameScope
      <4>3. claim'[b].at < claim'[a].at BY <3>1, <3>2, <1>0, <1>3, <1>4, <1>5, <1>8, <1>9
      <4> QED BY <4>1, <4>2, <4>3, <1>3, <1>4
    <3>3. CASE b # p
      <4>1. claim[b].status = "SUPERSEDED" /\ claim'[b].successor = claim[b].successor
        BY <2>3, <3>1, <3>3, <1>5
      <4>2. /\ claim[b].successor \in Assertions
            /\ InEffect(claim, claim[b].successor) /\ claim[claim[b].successor].supersedes = b
        BY <4>1, <1>0 DEF Chained
      <4>3. PICK c \in Assertions : claim[c].status = "ACTIVE" /\ SameScope(claim, b, c)
                                      /\ claim[b].at < claim[c].at
        BY <4>1, <1>0 DEF Chained
      <4>4. InEffect(claim, b) /\ InEffect(claim, c) BY <4>1, <4>3, <1>8
      <4>5. c # a BY <4>4, <1>3
      <4>6. claim'[b].at = claim[b].at /\ claim'[c].at = claim[c].at BY <3>1, <4>5, <1>5
      <4>7. claim'[b].at < claim'[c].at BY <4>3, <4>6
      <4>8. \E d \in Assertions : claim'[d].status = "ACTIVE" /\ SameScope(claim', b, d)
                                 /\ claim'[b].at < claim'[d].at
        <5>1. CASE c # p BY <5>1, <4>3, <4>5, <4>7, <1>6, <1>7
        <5>2. CASE c = p
          <6>1. SameScope(claim', b, a) BY <5>2, <4>3, <1>3, <1>7 DEF SameScope
          <6>2. claim'[b].at < claim'[a].at BY <4>4, <4>6, <4>7, <1>0, <1>4, <1>9
          <6> QED BY <6>1, <6>2, <1>3, <1>4
        <5> QED BY <5>1, <5>2
      <4> QED BY <4>1, <4>2, <4>8, <1>5, <1>6
    <3> QED BY <3>2, <3>3
  <2> QED BY <2>1, <2>2, <2>3 DEF Chained
<1>18. Viewed'
  <2>1. ASSUME NEW i \in Jobs, job'[i] # None
        PROVE  /\ \A b \in job'[i].active : InEffect(claim', b)
               /\ \A b, c \in job'[i].active : SameScope(claim', b, c) => b = c
               /\ \A q \in job'[i].known : exc'[q] # "NONE"
    <3>1. job'[i] = job[i] BY <2>1, <1>0, <1>13 DEF Typed
    <3>2. job[i] \in View BY <2>1, <3>1, <1>0 DEF Typed
    <3>3. job[i].active \subseteq Assertions /\ job[i].known \subseteq Pairs
      BY <3>2 DEF View
    <3>4. /\ \A b \in job[i].active : InEffect(claim, b)
          /\ \A b, c \in job[i].active : SameScope(claim, b, c) => b = c
          /\ \A q \in job[i].known : exc[q] # "NONE"
      BY <2>1, <3>1, <1>0 DEF Viewed
    <3> QED BY <3>1, <3>3, <3>4, <1>6, <1>7, <1>12
  <2>2. ASSUME NEW b \in Assertions, NEW c \in claim'[b].saw PROVE InEffect(claim', c)
    <3>1. c \in Assertions BY <1>3 DEF Claim
    <3>2. InEffect(claim, c)
      <4>1. CASE b = a BY <4>1, <1>0, <1>3, <1>4 DEF Viewed
      <4>2. CASE b # a BY <4>2, <1>0, <1>5 DEF Viewed
      <4> QED BY <4>1, <4>2
    <3> QED BY <3>1, <3>2, <1>6
  <2> QED BY <2>1, <2>2 DEF Viewed
<1>19. VarianceFlagged'
  <2> SUFFICES ASSUME NEW q \in Differing', (Met(q))' PROVE exc'[q] # "NONE"
    BY DEF VarianceFlagged
  <2> DEFINE d == q[1]
             i == q[2]
  <2>1. /\ q \in Pairs /\ d \in Assertions /\ i \in Assertions /\ q = <<d, i>>
        /\ claim'[d].status = "ACTIVE" /\ claim'[i].status = "ACTIVE"
        /\ claim'[d].basis = "DECLARED_SHIPPING" /\ claim'[i].basis = "OPERATING_INWARD"
        /\ claim'[d].unit = claim'[i].unit /\ Differ(claim', q)
        /\ \A x \in Assertions :
             claim'[x].status = "ACTIVE" /\ claim'[x].basis = "DECLARED_SHIPPING" =>
               claim'[x].at <= claim'[d].at
    BY DEF Differing, Actives, Pairs, Differ
  <2>2. d \in claim'[i].saw \/ i \in claim'[d].saw BY DEF Met
  <2> HIDE DEF d, i
  <2>3. \A b \in Assertions \ {a} : a \notin claim'[b].saw
    BY <1>0, <1>3, <1>5 DEF Viewed
  <2>4. d # i BY <2>1
  <2>5. CASE d = a
    <3>1. i \in job[j].active BY <2>2, <2>3, <2>4, <2>5, <1>4, <2>1
    <3>2. i # p BY <2>1, <2>4, <2>5, <1>6
    <3>3. d \in S /\ i \in S BY <2>5, <3>1, <3>2, <1>3
    <3>4. d \in Latest(claim', S, "DECLARED_SHIPPING")
      BY <2>1, <2>5, <3>3, <1>10, <1>11 DEF Latest
    <3>5. ASSUME NEW y \in S, claim'[y].unit = claim'[d].unit,
                 claim'[y].basis = "OPERATING_INWARD"
          PROVE  y = i
      <4>1. y # a BY <3>5, <2>1, <2>5
      <4>2. y \in job[j].active /\ y \in Assertions BY <3>5, <4>1, <1>11
      <4>3. SameScope(claim', y, i) BY <3>5, <2>1 DEF SameScope
      <4> QED BY <4>2, <4>3, <3>1, <2>1, <1>0, <1>3, <1>7 DEF Viewed
    <3>6. claim'[i].at <= claim'[i].at
      <4>1. InEffect(claim', i) BY <2>1 DEF InEffect
      <4> QED BY <4>1, <2>1, <1>10
    <3>7. i \in Latest(claim', {y \in S : claim'[y].unit = claim'[d].unit}, "OPERATING_INWARD")
      BY <2>1, <3>3, <3>5, <3>6 DEF Latest
    <3>8. q \in Variance(claim', S) BY <2>1, <3>3, <3>4, <3>7 DEF Variance, Compared, d, i
    <3> QED BY <3>8, <1>0, <1>3, <1>12 DEF Viewed
  <2>6. CASE i = a
    <3>1. d \in job[j].active BY <2>2, <2>3, <2>4, <2>6, <1>4, <2>1
    <3>2. d # p BY <2>1, <2>4, <2>6, <1>6
    <3>3. d \in S /\ i \in S BY <2>6, <3>1, <3>2, <1>3
    <3>4. i \in Latest(claim', {y \in S : claim'[y].unit = claim'[d].unit}, "OPERATING_INWARD")
      BY <2>1, <2>6, <3>3, <1>10, <1>11 DEF Latest
    <3>5. ASSUME NEW x \in S, claim'[x].basis = "DECLARED_SHIPPING"
          PROVE  claim'[x].at <= claim'[d].at
      <4>1. x \in Assertions /\ InEffect(claim', x) BY <1>11
      <4>2. CASE claim'[x].status = "ACTIVE" BY <4>1, <4>2, <3>5, <2>1
      <4>3. CASE claim'[x].status = "SUPERSEDED"
        <5>1. PICK c \in Assertions : claim'[c].status = "ACTIVE" /\ SameScope(claim', x, c)
                                        /\ claim'[x].at < claim'[c].at
          BY <4>1, <4>3, <1>17 DEF Chained
        <5>2. claim'[c].at <= claim'[d].at BY <5>1, <3>5, <2>1 DEF SameScope
        <5>3. InEffect(claim', c) /\ InEffect(claim', d) BY <5>1, <2>1 DEF InEffect
        <5>4. claim'[x].at \in Nat /\ claim'[c].at \in Nat /\ claim'[d].at \in Nat
          BY <5>3, <4>1, <2>1, <1>10
        <5> QED BY <5>1, <5>2, <5>4
      <4> QED BY <4>1, <4>2, <4>3 DEF InEffect
    <3>6. d \in Latest(claim', S, "DECLARED_SHIPPING") BY <2>1, <3>3, <3>5 DEF Latest
    <3>7. q \in Variance(claim', S) BY <2>1, <3>3, <3>4, <3>6 DEF Variance, Compared, d, i
    <3> QED BY <3>7, <1>0, <1>3, <1>12 DEF Viewed
  <2>7. CASE d # a /\ i # a
    <3>1. /\ claim[d].status = "ACTIVE" /\ claim[i].status = "ACTIVE"
          /\ claim[d].basis = "DECLARED_SHIPPING" /\ claim[i].basis = "OPERATING_INWARD"
          /\ claim[d].unit = claim[i].unit
      BY <2>1, <2>7, <1>5, <1>6
    <3>2. Differ(claim, q) BY <2>1, <1>5 DEF Differ, d, i
    <3>3. claim'[a].basis # "DECLARED_SHIPPING"
      <4>1. InEffect(claim, d) /\ claim'[d].at = claim[d].at BY <3>1, <2>1, <2>7, <1>5, <1>8
      <4>2. ~ (claim'[a].at <= claim'[d].at) BY <4>1, <2>1, <1>0, <1>4, <1>9
      <4> QED BY <4>2, <2>1, <1>3, <1>4
    <3>4. ASSUME NEW x \in Assertions, claim[x].status = "ACTIVE",
                 claim[x].basis = "DECLARED_SHIPPING"
          PROVE  claim[x].at <= claim[d].at
      <4>1. x # a BY <3>3, <3>4, <1>5
      <4>2. x # p BY <3>3, <3>4, <1>3, <1>5 DEF SameScope
      <4>3. claim'[x].status = "ACTIVE" /\ claim'[x].basis = "DECLARED_SHIPPING"
        BY <3>4, <4>1, <4>2, <1>5, <1>6
      <4>4. claim'[x].at <= claim'[d].at BY <4>3, <2>1
      <4> QED BY <4>1, <4>4, <2>1, <2>7, <1>5
    <3>5. q \in Differing BY <2>1, <3>1, <3>2, <3>4 DEF Differing, Actives, d, i
    <3>6. Met(q) BY <2>2, <2>1, <2>7, <1>5 DEF Met, d, i
    <3> QED BY <3>5, <3>6, <2>1, <1>0, <1>12 DEF VarianceFlagged
  <2> QED BY <2>5, <2>6, <2>7
<1> QED BY <1>12, <1>14, <1>15, <1>16, <1>17, <1>18, <1>19 DEF QInv

LEMMA QuantityStep == QInv /\ QuantityNext => QInv'
<1> SUFFICES ASSUME QInv, QuantityNext PROVE QInv'
    OBVIOUS
<1>1. ASSUME NEW a \in Assertions,
             \/ \E b \in Bases, u \in Units, q \in Quantities \cup {Unknown},
                  prior \in Assertions \cup {None} : Create(a, b, u, q, prior)
             \/ Submit(a) \/ Reject(a)
      PROVE  QInv'
  BY <1>1, MakingKeeps
<1>2. ASSUME NEW j \in Jobs,
             \/ \E a \in Assertions \cup {None} : Take(j, a)
             \/ Abandon(j) \/ Ensure(j)
      PROVE  QInv'
  BY <1>2, RequestKeeps
<1>3. ASSUME NEW j \in Jobs, Activate(j) PROVE QInv'
  BY <1>3, ActivateKeeps
<1>4. ASSUME NEW p \in Pairs, NEW s \in {"RESOLVED", "WAIVED"}, Decide(p, s) PROVE QInv'
  BY <1>4, DecideKeeps
<1> QED BY <1>1, <1>2, <1>3, <1>4 DEF QuantityNext

LEMMA QuantityStays == QInv /\ UNCHANGED quantityVars => QInv'
BY DEF QInv, quantityVars, Typed, Timed, Sourced, Chained, Viewed, Raised, VarianceFlagged,
       Differing, Differ, Actives, Met

-----------------------------------------------------------------------------
(* The gate.                                                               *)

CloseTyped ==
  /\ issue \in [Issues -> [kind: Kinds, status: IssueStatuses]]
  /\ receipt \in [Receipts -> [status: IssueStatuses, allocation: Allocations]]
  /\ phase \in Phases /\ label \in {"OPEN", "FULLY_RECONCILED"}

CInv == QInv /\ CloseTyped

LEMMA CloseStart == Init => CInv
<1> SUFFICES ASSUME Init PROVE CInv
    OBVIOUS
<1>1. QInv BY QuantityStart DEF Init
<1>2. (CHOOSE k \in Kinds : TRUE) \in Kinds BY CloseAssumption
<1>3. CloseTyped BY <1>2 DEF Init, CloseTyped, IssueStatuses, OpenStatuses, Allocations, Phases
<1> QED BY <1>1, <1>3 DEF CInv

LEMMA CloseStep == CInv /\ [Next]_vars => CInv'
<1> SUFFICES ASSUME CInv, [Next]_vars PROVE CInv'
    OBVIOUS
<1> USE DEF CInv
<1>1. CASE QuantityNext /\ UNCHANGED closeVars
  <2>1. QInv' BY <1>1, QuantityStep
  <2>2. CloseTyped' BY <1>1 DEF CloseTyped, closeVars
  <2> QED BY <2>1, <2>2
<1>2. ASSUME NEW s \in Phases, NEW l \in {"OPEN", "FULLY_RECONCILED"}, SaveContainer(s, l)
      PROVE  CInv'
  <2>1. QInv' BY <1>2, QuantityStays DEF SaveContainer
  <2>2. CloseTyped' BY <1>2 DEF SaveContainer, CloseTyped
  <2> QED BY <2>1, <2>2
<1>3. ASSUME NEW i \in Issues, ChangeIssue(i) PROVE CInv'
  <2>1. QInv' BY <1>3, QuantityStays DEF ChangeIssue
  <2>2. issue[i] \in [kind: Kinds, status: IssueStatuses] BY DEF CloseTyped
  <2>3. issue' \in [Issues -> [kind: Kinds, status: IssueStatuses]]
    BY <1>3, <2>2 DEF ChangeIssue, CloseTyped
  <2>4. CloseTyped' BY <1>3, <2>3 DEF ChangeIssue, CloseTyped
  <2> QED BY <2>1, <2>4
<1>4. ASSUME NEW r \in Receipts, ChangeReceipt(r) PROVE CInv'
  <2>1. QInv' BY <1>4, QuantityStays DEF ChangeReceipt
  <2>2. receipt[r] \in [status: IssueStatuses, allocation: Allocations] BY DEF CloseTyped
  <2>3. {"OPEN", "RESOLVED"} \subseteq IssueStatuses BY DEF IssueStatuses, OpenStatuses
  <2>4. receipt' \in [Receipts -> [status: IssueStatuses, allocation: Allocations]]
    BY <1>4, <2>2, <2>3 DEF ChangeReceipt, CloseTyped
  <2>5. CloseTyped' BY <1>4, <2>4 DEF ChangeReceipt, CloseTyped
  <2> QED BY <2>1, <2>5
<1>5. CASE UNCHANGED vars
  <2>1. QInv' BY <1>5, QuantityStays DEF vars
  <2>2. CloseTyped' BY <1>5 DEF vars, closeVars, CloseTyped
  <2> QED BY <2>1, <2>2
<1> QED BY <1>1, <1>2, <1>3, <1>4, <1>5 DEF Next

\* The inductive invariant of the gate and the quantities it waits for.
THEOREM CloseInvariant == Spec => []CInv
BY CloseStart, CloseStep, PTL DEF Spec

\* Rows keep the shape of their doctypes, and an exception is of two quantities
\* that differ.
THEOREM CloseTypeCorrect == Spec => []TypeOK
<1>1. CInv => TypeOK
  BY DEF CInv, QInv, Typed, Raised, CloseTyped, TypeOK, QuantityTypeOK
<1> QED BY <1>1, CloseInvariant, PTL

\* However reviews overlap, one assertion of a scope is in force, and what took
\* effect forms one line of succession.
THEOREM SoleInForce == Spec => []OneInForce
<1>1. ASSUME CInv, NEW a \in Assertions
      PROVE  LET heirs == {b \in Assertions : /\ claim[b].supersedes = a
                                              /\ claim[b].status \in {"ACTIVE", "SUPERSEDED"}}
             IN /\ claim[a].status = "ACTIVE" => Actives \cap Scope(a) = {a} /\ heirs = {}
                /\ claim[a].status = "SUPERSEDED" => heirs = {claim[a].successor}
                /\ heirs \subseteq Scope(a)
  <2> DEFINE heirs == {b \in Assertions : /\ claim[b].supersedes = a
                                          /\ claim[b].status \in {"ACTIVE", "SUPERSEDED"}}
  <2>1. Sourced /\ Chained BY <1>1 DEF CInv, QInv
  <2>2. \A b \in heirs : b \in Assertions /\ InEffect(claim, b) /\ claim[b].supersedes = a
    BY DEF InEffect
  <2>3. claim[a].status = "ACTIVE" => Actives \cap Scope(a) = {a}
    BY <2>1 DEF Chained, Actives, Scope, SameScope
  <2>4. claim[a].status = "ACTIVE" => heirs = {} BY <2>1, <2>2 DEF Chained
  <2>5. claim[a].status = "SUPERSEDED" => heirs = {claim[a].successor}
    BY <2>1, <2>2 DEF Chained, InEffect
  <2>6. heirs \subseteq Scope(a)
    <3>1. ASSUME NEW b \in heirs PROVE SameScope(claim, b, a)
      BY <2>1, <2>2, QuantityAssumption DEF Sourced
    <3> QED BY <3>1, <2>2 DEF Scope, SameScope
  <2> QED BY <2>3, <2>4, <2>5, <2>6
<1>2. CInv => OneInForce BY <1>1 DEF OneInForce
<1> QED BY <1>2, CloseInvariant, PTL

\* A difference between the declared and the operating quantity in force has its
\* exception once one of them was activated by a request that saw the other.
THEOREM VarianceNeverMissed == Spec => []VarianceFlagged
<1>1. CInv => VarianceFlagged BY DEF CInv, QInv
<1> QED BY <1>1, CloseInvariant, PTL

\* A container becomes Fully Reconciled only when it is closed and settled.
THEOREM OnlyReconciledWhenSettled == Spec => ReconciledSettled
<1> DEFINE Becomes == label' = "FULLY_RECONCILED" /\ (label # label' \/ phase # phase')
           Settled ==
             /\ phase' = "CLOSED"
             /\ \A p \in Differing : Met(p) => exc[p] \in {"RESOLVED", "WAIVED"}
             /\ \A i \in Issues : issue[i].status \in {"RESOLVED", "WAIVED"} \/
                  (issue[i].kind.type = "OTHER" /\ issue[i].kind.severity = "LOW")
             /\ \A r \in Receipts : receipt[r].status \in OpenStatuses =>
                  /\ r.source = "ELSEWHERE"
                  /\ r.type = "BANK_PENDING" => receipt[r].allocation \in {"NONE", "REJECTED"}
<1>1. ASSUME CInv, [Next]_vars, Becomes PROVE Settled
  <2>1. PICK s \in Phases, l \in {"OPEN", "FULLY_RECONCILED"} : SaveContainer(s, l)
    BY <1>1 DEF Next, vars, closeVars, ChangeIssue, ChangeReceipt
  <2>2. l = "FULLY_RECONCILED" /\ s = "CLOSED" /\ phase' = "CLOSED" /\ CanReconcile
    BY <1>1, <2>1 DEF SaveContainer
  <2>3. ASSUME NEW p \in Differing, Met(p) PROVE exc[p] \in {"RESOLVED", "WAIVED"}
    <3>1. p \in Pairs BY DEF Differing, Actives, Pairs
    <3>2. exc[p] # "NONE" BY <1>1, <2>3 DEF CInv, QInv, VarianceFlagged
    <3>3. exc[p] # "OPEN" BY <2>2, <3>1 DEF CanReconcile, Undecided
    <3> QED BY <1>1, <3>1, <3>2, <3>3 DEF CInv, QInv, Typed
  <2>4. ASSUME NEW i \in Issues
        PROVE  issue[i].status \in {"RESOLVED", "WAIVED"} \/
                 (issue[i].kind.type = "OTHER" /\ issue[i].kind.severity = "LOW")
    <3>1. issue[i].kind \in Kind /\ issue[i].status \in IssueStatuses
      BY <1>1, CloseAssumption DEF CInv, CloseTyped
    <3>2. issue[i].status \in OpenStatuses => ~ IsMaterial(issue[i].kind)
      BY <2>2 DEF CanReconcile, Blocking
    <3> QED BY <3>1, <3>2 DEF IsMaterial, Kind, Material, BySeverity, IssueStatuses
  <2>5. ASSUME NEW r \in Receipts, receipt[r].status \in OpenStatuses
        PROVE  /\ r.source = "ELSEWHERE"
               /\ r.type = "BANK_PENDING" => receipt[r].allocation \in {"NONE", "REJECTED"}
    <3>1. r.source \in {"HERE", "ELSEWHERE"} BY CloseAssumption
    <3>2. receipt[r].allocation \in Allocations BY <1>1 DEF CInv, CloseTyped
    <3>3. ~ (r.source = "HERE" \/
             (r.type # "MONEY_UNALLOCATED" /\ receipt[r].allocation \in Proposed))
      BY <2>2, <2>5 DEF CanReconcile, Attributed
    <3> QED BY <3>1, <3>2, <3>3 DEF Allocations
  <2> QED BY <2>2, <2>3, <2>4, <2>5
<1>2. CInv /\ [Next]_vars => [Becomes => Settled]_vars BY <1>1
<1> QED BY <1>2, CloseInvariant, PTL DEF Spec, ReconciledSettled

=============================================================================
