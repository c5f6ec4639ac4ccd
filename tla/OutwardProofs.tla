---------------------------- MODULE OutwardProofs ----------------------------
(***************************************************************************)
(* What OutwardLedger guarantees for every set of source events,           *)
(* assertions, lots, lines and loads.                                      *)
(*                                                                         *)
(* The bound on the stock rests on NetStanding: what left less what was    *)
(* reversed is what the outwards that still stand took, since an outward   *)
(* has one reversal at most (SoleReversal) and the reversal carries the    *)
(* same lines.  The succession of assertions rests on Heired: an assertion *)
(* that took effect has a superseded predecessor, never one in force.      *)
(* The outwards the sales allocate from are implemented by it: a reversal  *)
(* names an outward that has left and that nothing reversed before.        *)
(***************************************************************************)
EXTENDS OutwardLedger, TotalsProofs

\* An outward is reversed by one document at most, in any status.
SoleReversal ==
  \A r, x \in Outwards : doc[r].reverses # None /\ doc[r].reverses = doc[x].reverses
                           => r = x

\* A document has lines.
Laden == \A o \in Outwards : doc[o].status # "ABSENT" => DOMAIN doc[o].cargo # {}

Lefts == {o \in Outwards : Left(o)}
Returns == {r \in Outwards : Returned(r)}

Standing == {o \in Outwards : Left(o) /\ ~IsReversed(o)}

NetStanding == \A P \in SUBSET Places : Posted(P) = Loaded(Standing, P)

\* An assertion that took effect superseded the one it names.
Heired ==
  \A b \in Claims :
    claim[b].status \in {"ACTIVE", "SUPERSEDED"} /\ claim[b].supersedes # None =>
      claim[claim[b].supersedes].status = "SUPERSEDED"

PairsLeft == \A o, p \in Outwards : <<o, p>> \in pairs => Left(o) /\ Left(p)

OInv ==
  /\ TypeOK
  /\ SoleReversal /\ Laden /\ NetStanding /\ WithinInward
  /\ Heired /\ ClaimChain
  /\ FlagsCurrent
  /\ PairsLeft /\ DuplicatesReported

-----------------------------------------------------------------------------
(* Loads.                                                                  *)

LEMMA CargoTyped ==
  ASSUME NEW c \in Cargo
  PROVE  /\ DOMAIN c \in SUBSET Lines
         /\ \A l \in DOMAIN c : c[l].lot \in Places /\ c[l].qty \in 1..MaxQty
<1>1. PICK L \in SUBSET Lines : c \in [L -> [lot: Places, qty: 1..MaxQty]]
  BY DEF Cargo
<1>2. QED
  BY <1>1

\* The lines of the documents D that take from P, and what a line takes.
Rows(D, P) == {x \in D \X Lines :
                 x[2] \in DOMAIN doc[x[1]].cargo /\ doc[x[1]].cargo[x[2]].lot \in P}
Take(x) == doc[x[1]].cargo[x[2]].qty

LEMMA RowsTyped ==
  ASSUME OutwardAssumption, TypeOK, NEW D \in SUBSET Outwards, NEW P
  PROVE  /\ IsFiniteSet(Rows(D, P))
         /\ \A x \in Rows(D, P) : Take(x) \in 0..MaxQty
<1>1. IsFiniteSet(D \X Lines)
  BY FS_Subset, FS_Product DEF OutwardAssumption
<1>2. IsFiniteSet(Rows(D, P))
  BY <1>1, FS_Subset DEF Rows
<1>3. ASSUME NEW x \in Rows(D, P)
      PROVE  Take(x) \in 0..MaxQty
  <2>1. x[1] \in Outwards /\ x[2] \in DOMAIN doc[x[1]].cargo
    BY DEF Rows
  <2>2. doc[x[1]].cargo \in Cargo
    BY <2>1 DEF TypeOK, OutwardDoc
  <2>3. doc[x[1]].cargo[x[2]].qty \in 1..MaxQty
    BY <2>1, <2>2, CargoTyped
  <2>4. QED
    BY <2>3 DEF Take, OutwardAssumption
<1>4. QED
  BY <1>2, <1>3

LEMMA LoadedRows ==
  ASSUME NEW D, NEW P
  PROVE  Loaded(D, P) = Total(Rows(D, P), [x \in D \X Lines |-> Take(x)], MaxQty)
<1> DEFINE R == Rows(D, P)
           f == [x \in R |-> doc[x[1]].cargo[x[2]].qty]
           g == [x \in D \X Lines |-> Take(x)]
<1>1. Loaded(D, P) = Total(R, f, MaxQty)
  BY DEF Loaded, Rows
<1>2. \A x \in R : f[x] = g[x]
  BY DEF Rows, Take
<1> HIDE DEF R, f, g
<1>3. Total(R, f, MaxQty) = Total(R, g, MaxQty)
  BY <1>2, TotalSame
<1>4. QED
  BY <1>1, <1>3 DEF R, f, g

LEMMA LoadedNat ==
  ASSUME OutwardAssumption, TypeOK, NEW D \in SUBSET Outwards, NEW P
  PROVE  Loaded(D, P) \in Nat
BY LoadedRows, RowsTyped, TotalType DEF OutwardAssumption

\* Loads of sets of documents apart add up.
LEMMA LoadedUnion ==
  ASSUME OutwardAssumption, TypeOK, NEW D \in SUBSET Outwards,
         NEW E \in SUBSET Outwards, D \cap E = {}, NEW P
  PROVE  Loaded(D \cup E, P) = Loaded(D, P) + Loaded(E, P)
<1> DEFINE h == [x \in Outwards \X Lines |-> Take(x)]
<1>1. ASSUME NEW F \in SUBSET Outwards
      PROVE  Loaded(F, P) = Total(Rows(F, P), h, MaxQty)
  <2> DEFINE g == [x \in F \X Lines |-> Take(x)]
             R == Rows(F, P)
  <2>1. Loaded(F, P) = Total(R, g, MaxQty)
    BY LoadedRows
  <2>2. \A x \in R : g[x] = h[x]
    BY DEF Rows
  <2> HIDE DEF R, g, h
  <2>3. Total(R, g, MaxQty) = Total(R, h, MaxQty)
    BY <2>2, TotalSame
  <2>4. QED
    BY <2>1, <2>3 DEF R
<1>2. Rows(D \cup E, P) = Rows(D, P) \cup Rows(E, P) /\ Rows(D, P) \cap Rows(E, P) = {}
  <2>1. \A x : x \in Rows(D \cup E, P) <=> x \in Rows(D, P) \/ x \in Rows(E, P)
    BY DEF Rows
  <2>2. \A x : ~(x \in Rows(D, P) /\ x \in Rows(E, P))
    BY DEF Rows
  <2>3. QED
    BY <2>1, <2>2
<1>3. IsFiniteSet(Rows(D, P)) /\ IsFiniteSet(Rows(E, P))
  BY RowsTyped
<1> DEFINE A == Rows(D, P)
           B == Rows(E, P)
<1>4. /\ Rows(D \cup E, P) = A \cup B /\ A \cap B = {}
      /\ IsFiniteSet(A) /\ IsFiniteSet(B) /\ MaxQty \in Nat
  BY <1>2, <1>3 DEF OutwardAssumption
<1> HIDE DEF h, A, B
<1>5. Total(A \cup B, h, MaxQty) = Total(A, h, MaxQty) + Total(B, h, MaxQty)
  BY <1>4, TotalUnion
<1>6. QED
  BY <1>1, <1>4, <1>5 DEF A, B

\* A document with the lines of another takes what the other takes.
LEMMA LoadedCopyBelow ==
  ASSUME OutwardAssumption, TypeOK, NEW r \in Outwards, NEW o \in Outwards,
         doc[r].cargo = doc[o].cargo, NEW P
  PROVE  Loaded({r}, P) <= Loaded({o}, P)
<1> DEFINE S == Rows({r}, P)
           T == Rows({o}, P)
           f == [x \in {r} \X Lines |-> Take(x)]
           g == [x \in {o} \X Lines |-> Take(x)]
           h == [x \in S |-> <<o, x[2]>>]
<1>1. ASSUME NEW x \in S
      PROVE  /\ x = <<r, x[2]>> /\ h[x] = <<o, x[2]>> /\ h[x] \in T
             /\ f[x] = Take(x) /\ g[h[x]] = Take(h[x]) /\ Take(x) = Take(h[x])
             /\ Take(x) \in 0..MaxQty
  <2>1. x \in {r} \X Lines /\ x[2] \in DOMAIN doc[x[1]].cargo
        /\ doc[x[1]].cargo[x[2]].lot \in P
    BY DEF Rows
  <2>2. x = <<r, x[2]>> /\ x[1] = r /\ x[2] \in Lines
    BY <2>1
  <2>3. <<o, x[2]>> \in T
    BY <2>1, <2>2 DEF Rows
  <2>4. Take(x) = Take(<<o, x[2]>>)
    BY <2>2 DEF Take
  <2>5. Take(x) \in 0..MaxQty
    BY RowsTyped
  <2>6. f[x] = Take(x) /\ g[<<o, x[2]>>] = Take(<<o, x[2]>>)
    BY <2>1, <2>2
  <2>7. QED
    BY <2>2, <2>3, <2>4, <2>5, <2>6
<1>2. h \in [S -> T]
  BY <1>1
<1>3. ASSUME NEW x \in S, NEW y \in S, h[x] = h[y]
      PROVE  x = y
  <2>1. x = <<r, x[2]>> /\ y = <<r, y[2]>> /\ <<o, x[2]>> = <<o, y[2]>>
    BY <1>1, <1>3
  <2> HIDE DEF S, h
  <2>2. x[2] = y[2]
    BY <2>1
  <2>3. QED
    BY <2>1, <2>2
<1>4. ASSUME NEW x \in S
      PROVE  f[x] \in 0..MaxQty /\ g[h[x]] \in 0..MaxQty /\ f[x] <= g[h[x]]
  <2>1. f[x] = Take(x) /\ g[h[x]] = Take(x) /\ Take(x) \in 0..MaxQty
    BY <1>1
  <2> HIDE DEF f, g, h, S
  <2>2. QED
    BY <2>1
<1>5. IsFiniteSet(T)
  BY RowsTyped
<1>6. Loaded({r}, P) = Total(S, f, MaxQty) /\ Loaded({o}, P) = Total(T, g, MaxQty)
  BY LoadedRows
<1> HIDE DEF S, T, f, g, h
<1>7. Total(S, f, MaxQty) <= Total(T, g, MaxQty)
  BY <1>2, <1>3, <1>4, <1>5, TotalInjection DEF OutwardAssumption
<1>8. QED
  BY <1>6, <1>7

LEMMA LoadedCopy ==
  ASSUME OutwardAssumption, TypeOK, NEW r \in Outwards, NEW o \in Outwards,
         doc[r].cargo = doc[o].cargo, NEW P
  PROVE  Loaded({r}, P) = Loaded({o}, P)
<1>1. Loaded({r}, P) <= Loaded({o}, P) /\ Loaded({o}, P) <= Loaded({r}, P)
  BY LoadedCopyBelow
<1>2. Loaded({r}, P) \in Nat /\ Loaded({o}, P) \in Nat
  BY LoadedNat
<1>3. QED
  BY <1>1, <1>2

\* Documents that keep their lines take what they took.
LEMMA LoadedKept ==
  ASSUME NEW D, NEW P, \A o \in D : doc'[o].cargo = doc[o].cargo
  PROVE  Loaded(D, P)' = Loaded(D, P)
<1>1. /\ {x \in D \X Lines :
             x[2] \in DOMAIN doc'[x[1]].cargo /\ doc'[x[1]].cargo[x[2]].lot \in P}
           = Rows(D, P)
      /\ \A x \in Rows(D, P) : doc'[x[1]].cargo[x[2]].qty = Take(x)
  BY DEF Rows, Take
<1>2. Loaded(D, P)' = Total(Rows(D, P), [x \in Rows(D, P) |-> Take(x)], MaxQty)
  BY <1>1 DEF Loaded
<1>3. Loaded(D, P) = Total(Rows(D, P), [x \in Rows(D, P) |-> Take(x)], MaxQty)
  BY DEF Loaded, Rows, Take
<1>4. QED
  BY <1>2, <1>3

\* The postings of the next state, of documents that keep their lines.
LEMMA PostedNext ==
  ASSUME NEW D, NEW E, Lefts' = D, Returns' = E, NEW P,
         \A o \in D \cup E : doc'[o].cargo = doc[o].cargo
  PROVE  Posted(P)' = Loaded(D, P) - Loaded(E, P)
<1>1. Loaded(D, P)' = Loaded(D, P) /\ Loaded(E, P)' = Loaded(E, P)
  BY LoadedKept
<1>2. Posted(P)' = Loaded(D, P)' - Loaded(E, P)'
  BY DEF Posted, Lefts, Returns
<1>3. QED
  BY <1>1, <1>2

-----------------------------------------------------------------------------
(* Steps of a document before it is posted.                                *)

\* Document o is saved with row n and is not posted yet.
DocEdit(o, n) ==
  /\ doc[o].status \in {"ABSENT", "DRAFT"}
  /\ n \in OutwardDoc /\ n.status \in {"DRAFT", "REVIEW_PENDING"}
  /\ DOMAIN n.cargo # {}
  /\ n.reverses # None =>
       /\ Left(n.reverses) /\ n.cargo = doc[n.reverses].cargo
       /\ \A x \in Outwards \ {o} : doc[x].reverses # n.reverses
  /\ doc' = [doc EXCEPT ![o] = n]
  /\ UNCHANGED <<inward, claim, flag, pairs>>

LEMMA DocEditKind ==
  ASSUME OutwardAssumption, OInv, NEW o \in Outwards,
         \/ \E c \in Cargoes, g \in Gatepasses, deal \in Deals : CreateOutward(o, c, g, deal)
         \/ \E p \in Outwards : CreateReversal(o, p)
         \/ SubmitOutward(o)
  PROVE  \E n : DocEdit(o, n)
<1> USE DEF OInv
<1>1. doc[o] \in OutwardDoc
  BY DEF TypeOK
<1>2. CASE \E c \in Cargoes, g \in Gatepasses, deal \in Deals : CreateOutward(o, c, g, deal)
  <2>1. PICK c \in Cargoes, g \in Gatepasses, deal \in Deals : CreateOutward(o, c, g, deal)
    BY <1>2
  <2> DEFINE n == [status |-> "DRAFT", reverses |-> None, cargo |-> c,
                   gatepass |-> g, deal |-> deal]
  <2>2. c \in Cargo /\ DOMAIN c # {} /\ deal \in BOOLEAN
    BY DEF OutwardAssumption
  <2>3. n \in OutwardDoc /\ n.status = "DRAFT" /\ n.reverses = None /\ DOMAIN n.cargo # {}
    BY <2>2 DEF OutwardDoc
  <2>4. /\ doc[o].status = "ABSENT" /\ doc' = [doc EXCEPT ![o] = n]
        /\ UNCHANGED <<inward, claim, flag, pairs>>
    BY <2>1 DEF CreateOutward
  <2> HIDE DEF n
  <2>5. DocEdit(o, n)
    BY <2>3, <2>4 DEF DocEdit
  <2>6. QED
    BY <2>5
<1>3. CASE \E p \in Outwards : CreateReversal(o, p)
  <2>1. PICK p \in Outwards : CreateReversal(o, p)
    BY <1>3
  <2> DEFINE n == [doc[p] EXCEPT !.status = "DRAFT", !.reverses = p]
  <2>2. doc[p] \in OutwardDoc
    BY DEF TypeOK
  <2>3. /\ n \in OutwardDoc /\ n.status = "DRAFT" /\ n.reverses = p
        /\ n.cargo = doc[p].cargo
    BY <2>2 DEF OutwardDoc
  <2>4. /\ doc[o].status = "ABSENT" /\ doc' = [doc EXCEPT ![o] = n]
        /\ UNCHANGED <<inward, claim, flag, pairs>>
        /\ Left(p) /\ OtherReversals(p, o) = {}
    BY <2>1 DEF CreateReversal, Reversible
  <2> HIDE DEF n
  <2>5. DOMAIN n.cargo # {}
    BY <2>3, <2>4 DEF Laden, Left
  <2>6. \A x \in Outwards \ {o} : doc[x].reverses # p
    BY <2>4 DEF OtherReversals
  <2>7. DocEdit(o, n)
    BY <2>3, <2>4, <2>5, <2>6 DEF DocEdit
  <2>8. QED
    BY <2>7
<1>4. CASE SubmitOutward(o)
  <2> DEFINE n == [doc[o] EXCEPT !.status = "REVIEW_PENDING"]
  <2>1. /\ n \in OutwardDoc /\ n.status = "REVIEW_PENDING"
        /\ n.reverses = doc[o].reverses /\ n.cargo = doc[o].cargo
    BY <1>1 DEF OutwardDoc
  <2>2. /\ doc[o].status = "DRAFT" /\ doc' = [doc EXCEPT ![o] = n]
        /\ UNCHANGED <<inward, claim, flag, pairs>>
    BY <1>4 DEF SubmitOutward
  <2> HIDE DEF n
  <2>3. DOMAIN n.cargo # {}
    BY <2>1, <2>2 DEF Laden
  <2>4. n.reverses # None =>
          /\ Left(n.reverses) /\ n.cargo = doc[n.reverses].cargo
          /\ \A x \in Outwards \ {o} : doc[x].reverses # n.reverses
    BY <2>1 DEF TypeOK, SoleReversal
  <2>5. DocEdit(o, n)
    BY <2>1, <2>2, <2>3, <2>4 DEF DocEdit
  <2>6. QED
    BY <2>5
<1>5. QED
  BY <1>2, <1>3, <1>4

\* Steps that leave the postings and their documents alone.
LEMMA PostedSame ==
  ASSUME \A o \in Outwards : Left(o)' = Left(o) /\ Returned(o)' = Returned(o),
         \A o \in Outwards : Left(o) \/ Returned(o) => doc'[o] = doc[o]
  PROVE  /\ Lefts' = Lefts /\ Returns' = Returns /\ Standing' = Standing
         /\ \A P : Posted(P)' = Posted(P)
         /\ \A P : Loaded(Standing, P)' = Loaded(Standing, P)
<1>1. Lefts' = Lefts /\ Returns' = Returns
  BY DEF Lefts, Returns
<1>2. \A o \in Outwards : IsReversed(o)' = IsReversed(o)
  BY DEF IsReversed
<1>3. Standing' = Standing
  BY <1>2 DEF Standing
<1>4. \A o \in Lefts \cup Returns : doc'[o].cargo = doc[o].cargo
  BY DEF Lefts, Returns
<1>5. ASSUME NEW P
      PROVE  Posted(P)' = Posted(P)
  <2>1. Posted(P)' = Loaded(Lefts, P) - Loaded(Returns, P)
    BY <1>1, <1>4, PostedNext
  <2>2. QED
    BY <2>1 DEF Posted, Lefts, Returns
<1>6. ASSUME NEW P
      PROVE  Loaded(Standing, P)' = Loaded(Standing, P)
  <2>1. \A D : (\A o \in D : doc'[o].cargo = doc[o].cargo) =>
                 Loaded(D, P)' = Loaded(D, P)
    BY LoadedKept
  <2>2. \A o \in Standing : doc'[o].cargo = doc[o].cargo
    BY <1>4 DEF Standing, Lefts
  <2>3. QED
    BY <1>3, <2>1, <2>2
<1>7. QED
  BY <1>1, <1>3, <1>5, <1>6

\* The scopes of o on which an assertion is in force, with a known rate or not.
Asserted(o) ==
  {claim[a].scope : a \in {b \in Claims : claim[b].status = "ACTIVE"
                                          /\ claim[b].outward = o}}

\* The exceptions of o, as FlagsCurrent asks for them.
FlagRight(o) ==
  /\ \A e \in Called(o) \ {"OUTWARD_UNPRICED"} : flag[o][e] = "OPEN" <=> ~IsReversed(o)
  /\ flag[o]["OUTWARD_UNPRICED"] = "OPEN" => ~IsReversed(o) /\ ~Priced(claim, o)
  /\ flag[o]["OUTWARD_UNPRICED"] = "RESOLVED" =>
       \/ IsReversed(o) \/ Header \in Asserted(o)
       \/ DOMAIN doc[o].cargo \subseteq Asserted(o)

LEMMA FlagsAreRight ==
  FlagsCurrent <=> \A o \in Outwards : Left(o) => FlagRight(o)
BY DEF FlagsCurrent, FlagRight, IsReversed, Asserted

LEMMA FlagsAreRightNext ==
  FlagsCurrent' <=> \A o \in Outwards : Left(o)' => FlagRight(o)'
BY DEF FlagsCurrent, FlagRight, IsReversed, Asserted

\* The assertions in force on o stay as they are.
SameClaims(o) ==
  \A a \in Claims :
    /\ (claim'[a].status = "ACTIVE" /\ claim'[a].outward = o)
         <=> (claim[a].status = "ACTIVE" /\ claim[a].outward = o)
    /\ claim[a].status = "ACTIVE" /\ claim[a].outward = o =>
         claim'[a].scope = claim[a].scope /\ claim'[a].known = claim[a].known

LEMMA CalledKept ==
  ASSUME NEW o \in Outwards, doc'[o].cargo = doc[o].cargo, doc'[o].deal = doc[o].deal
  PROVE  Called(o)' = Called(o)
<1>1. Loaded({o}, {Unmapped})' = Loaded({o}, {Unmapped})
  BY LoadedKept
<1>2. QED
  BY <1>1 DEF Called

LEMMA PricesKept ==
  ASSUME NEW o \in Outwards, doc'[o].cargo = doc[o].cargo, SameClaims(o)
  PROVE  Asserted(o)' = Asserted(o) /\ Priced(claim, o)' = Priced(claim, o)
<1>1. Asserted(o)' = Asserted(o)
  BY DEF SameClaims, Asserted
<1>2. {claim'[a].scope : a \in {b \in Claims : /\ claim'[b].status = "ACTIVE"
                                               /\ claim'[b].outward = o
                                               /\ claim'[b].known}}
        = {claim[a].scope : a \in {b \in Claims : /\ claim[b].status = "ACTIVE"
                                                  /\ claim[b].outward = o
                                                  /\ claim[b].known}}
  BY DEF SameClaims
<1>3. Priced(claim, o)' = Priced(claim, o)
  BY <1>2 DEF Priced
<1>4. QED
  BY <1>1, <1>3

LEMMA FlagKept ==
  ASSUME NEW o \in Outwards, FlagRight(o), doc'[o] = doc[o], flag'[o] = flag[o],
         IsReversed(o)' = IsReversed(o), SameClaims(o)
  PROVE  FlagRight(o)'
<1>1. Called(o)' = Called(o)
  BY CalledKept
<1>2. Asserted(o)' = Asserted(o) /\ Priced(claim, o)' = Priced(claim, o)
  BY PricesKept
<1>3. QED
  BY <1>1, <1>2 DEF FlagRight

LEMMA DocEditKeeps ==
  ASSUME OutwardAssumption, OInv, NEW o \in Outwards, NEW n, DocEdit(o, n)
  PROVE  OInv'
<1> USE DEF OInv
<1>1. /\ \A x \in Outwards : doc'[x] = IF x = o THEN n ELSE doc[x]
      /\ UNCHANGED <<inward, claim, flag, pairs>>
  BY DEF DocEdit, TypeOK
<1>2. \A x \in Outwards : /\ Left(x)' = Left(x) /\ Returned(x)' = Returned(x)
                          /\ Left(x) \/ Returned(x) => x # o /\ doc'[x] = doc[x]
  BY <1>1 DEF DocEdit, Left, Returned
<1>3. /\ Standing' = Standing /\ \A P : Posted(P)' = Posted(P)
      /\ \A P : Loaded(Standing, P)' = Loaded(Standing, P)
  BY <1>2, PostedSame
<1>4. \A r \in Outwards : doc[r].reverses # None =>
        /\ doc[r].reverses \in Outwards /\ Left(doc[r].reverses)
        /\ doc[r].cargo = doc[doc[r].reverses].cargo
  BY DEF TypeOK, OutwardDoc
<1>5. n.reverses # None => n.reverses \in Outwards
  BY DEF DocEdit, OutwardDoc
<1>6. TypeOK'
  <2>1. doc' \in [Outwards -> OutwardDoc]
    BY DEF DocEdit, TypeOK
  <2>2. ASSUME NEW r \in Outwards, doc'[r].reverses # None
        PROVE  /\ doc'[doc'[r].reverses].status = "POSTED"
               /\ doc'[doc'[r].reverses].reverses = None
               /\ doc'[r].cargo = doc'[doc'[r].reverses].cargo
    <3>1. PICK p \in Outwards : /\ p = doc'[r].reverses /\ Left(p)
                                /\ doc'[r].cargo = doc[p].cargo
      BY <1>1, <1>4, <1>5, <2>2 DEF DocEdit
    <3>2. doc'[p] = doc[p]
      BY <1>2, <3>1
    <3>3. QED
      BY <3>1, <3>2 DEF Left
  <2>3. ASSUME NEW a \in Claims, claim'[a].status # "ABSENT"
        PROVE  /\ claim'[a].outward \in Outwards
               /\ doc'[claim'[a].outward].status = "POSTED"
               /\ doc'[claim'[a].outward].reverses = None
               /\ claim'[a].scope \in DOMAIN doc'[claim'[a].outward].cargo \cup {Header}
    <3>1. PICK p \in Outwards : /\ p = claim'[a].outward /\ Left(p)
                                /\ claim'[a].scope \in DOMAIN doc[p].cargo \cup {Header}
      BY <1>1, <2>3 DEF TypeOK
    <3>2. doc'[p] = doc[p]
      BY <1>2, <3>1
    <3>3. QED
      BY <3>1, <3>2 DEF Left
  <2>4. /\ inward' \in [Lots -> 0..MaxQty] /\ claim' \in [Claims -> ClaimDoc]
        /\ flag' \in [Outwards -> [FlagTypes -> {"NONE", "OPEN", "RESOLVED"}]]
        /\ pairs' \subseteq Outwards \X Outwards
    BY <1>1 DEF TypeOK
  <2>5. QED
    BY <2>1, <2>2, <2>3, <2>4 DEF TypeOK, Left
<1>7. SoleReversal' /\ Laden'
  BY <1>1 DEF SoleReversal, Laden, DocEdit
<1>8. NetStanding' /\ WithinInward'
  BY <1>1, <1>3 DEF NetStanding, WithinInward
<1>9. Heired' /\ ClaimChain'
  BY <1>1 DEF Heired, ClaimChain, Actives, SameScope
<1>10. FlagsCurrent'
  <2>1. \A x \in Outwards : IsReversed(x)' = IsReversed(x)
    BY <1>2 DEF IsReversed
  <2>2. \A x \in Outwards : SameClaims(x)
    BY <1>1 DEF SameClaims
  <2>3. QED
    BY <1>1, <1>2, <2>1, <2>2, FlagKept, FlagsAreRight, FlagsAreRightNext
<1>11. PairsLeft' /\ DuplicatesReported'
  BY <1>1, <1>2 DEF PairsLeft, DuplicatesReported
<1>12. QED
  BY <1>6, <1>7, <1>8, <1>9, <1>10, <1>11

\* Steps that leave the documents alone keep what is said of them.
LEMMA DocSame ==
  ASSUME OInv, UNCHANGED <<doc, pairs>>
  PROVE  /\ SoleReversal' /\ Laden' /\ NetStanding'
         /\ PairsLeft' /\ DuplicatesReported'
         /\ \A P : Posted(P)' = Posted(P)
<1> USE DEF OInv
<1>1. \A o \in Outwards : Left(o)' = Left(o) /\ Returned(o)' = Returned(o) /\ doc'[o] = doc[o]
  BY DEF Left, Returned
<1>2. /\ Standing' = Standing /\ \A P : Posted(P)' = Posted(P)
      /\ \A P : Loaded(Standing, P)' = Loaded(Standing, P)
  BY <1>1, PostedSame
<1>3. SoleReversal' /\ Laden'
  BY DEF SoleReversal, Laden
<1>4. NetStanding'
  BY <1>2 DEF NetStanding
<1>5. PairsLeft' /\ DuplicatesReported'
  BY <1>1 DEF PairsLeft, DuplicatesReported
<1>6. QED
  BY <1>2, <1>3, <1>4, <1>5

LEMMA EditInwardKeeps ==
  ASSUME OutwardAssumption, OInv, NEW q \in Inwards, EditInward(q)
  PROVE  OInv'
<1> USE DEF OInv
<1>1. inward' = q /\ Covers(q) /\ UNCHANGED <<doc, claim, flag, pairs>>
  BY DEF EditInward
<1>2. /\ SoleReversal' /\ Laden' /\ NetStanding' /\ PairsLeft' /\ DuplicatesReported'
      /\ \A P : Posted(P)' = Posted(P)
  BY <1>1, DocSame
<1>3. TypeOK'
  <2>1. q \in [Lots -> 0..MaxQty]
    BY DEF OutwardAssumption
  <2>2. QED
    BY <1>1, <2>1 DEF TypeOK, Left
<1>4. WithinInward'
  BY <1>1, <1>2 DEF WithinInward, Covers
<1>5. Heired' /\ ClaimChain'
  BY <1>1 DEF Heired, ClaimChain, Actives, SameScope
<1>6. FlagsCurrent'
  <2>1. \A x \in Outwards : /\ IsReversed(x)' = IsReversed(x) /\ Left(x)' = Left(x)
                            /\ SameClaims(x)
    BY <1>1 DEF IsReversed, Returned, Left, SameClaims
  <2>2. QED
    BY <1>1, <2>1, FlagKept, FlagsAreRight, FlagsAreRightNext
<1>7. QED
  BY <1>2, <1>3, <1>4, <1>5, <1>6

-----------------------------------------------------------------------------
(* Postings.                                                               *)

\* Document o is posted.
Posts(o) ==
  /\ doc[o].status = "REVIEW_PENDING"
  /\ doc' = [doc EXCEPT ![o].status = "POSTED"]
  /\ UNCHANGED <<inward, claim>>

LEMMA PostsRows ==
  ASSUME OInv, NEW o \in Outwards, Posts(o)
  PROVE  /\ ~Left(o) /\ ~Returned(o)
         /\ \A x \in Outwards : /\ doc'[x].cargo = doc[x].cargo
                                /\ doc'[x].reverses = doc[x].reverses
                                /\ doc'[x].gatepass = doc[x].gatepass
                                /\ doc'[x].deal = doc[x].deal
                                /\ x # o => doc'[x] = doc[x]
         /\ doc'[o].status = "POSTED"
         /\ doc' \in [Outwards -> OutwardDoc]
<1>1. doc \in [Outwards -> OutwardDoc]
  BY DEF OInv, TypeOK
<1>2. doc[o] \in OutwardDoc
  BY <1>1
<1>3. doc' = [doc EXCEPT ![o] = [doc[o] EXCEPT !.status = "POSTED"]]
  BY <1>1 DEF Posts
<1>4. /\ \A x \in Outwards \ {o} : doc'[x] = doc[x]
      /\ doc'[o] = [doc[o] EXCEPT !.status = "POSTED"]
  BY <1>1, <1>3
<1>5. /\ [doc[o] EXCEPT !.status = "POSTED"] \in OutwardDoc
      /\ [doc[o] EXCEPT !.status = "POSTED"].status = "POSTED"
  BY <1>2 DEF OutwardDoc
<1>6. QED
  BY <1>1, <1>2, <1>3, <1>4, <1>5 DEF Posts, Left, Returned, OutwardDoc

\* A posting keeps what is said of single documents and of assertions.
LEMMA PostsKeeps ==
  ASSUME OutwardAssumption, OInv, NEW o \in Outwards, Posts(o),
         flag' \in [Outwards -> [FlagTypes -> {"NONE", "OPEN", "RESOLVED"}]],
         pairs' \subseteq Outwards \X Outwards
  PROVE  /\ TypeOK' /\ SoleReversal' /\ Laden' /\ Heired' /\ ClaimChain'
         /\ \A x \in Outwards : SameClaims(x)
<1> USE DEF OInv
<1>1. /\ \A x \in Outwards : /\ doc'[x].cargo = doc[x].cargo
                             /\ doc'[x].reverses = doc[x].reverses
                             /\ x # o => doc'[x] = doc[x]
      /\ doc'[o].status = "POSTED" /\ doc' \in [Outwards -> OutwardDoc]
      /\ ~Left(o) /\ UNCHANGED <<inward, claim>>
  BY PostsRows DEF Posts
<1>2. ASSUME NEW r \in Outwards, doc'[r].reverses # None
      PROVE  /\ doc'[doc'[r].reverses].status = "POSTED"
             /\ doc'[doc'[r].reverses].reverses = None
             /\ doc'[r].cargo = doc'[doc'[r].reverses].cargo
  <2>1. doc[r].reverses = doc'[r].reverses /\ doc[r].reverses # None
        /\ doc[r] \in OutwardDoc
    BY <1>1, <1>2 DEF TypeOK
  <2>2. doc[r].reverses \in Outwards
    BY <2>1 DEF OutwardDoc
  <2>3. PICK p \in Outwards : p = doc[r].reverses /\ Left(p) /\ doc[r].cargo = doc[p].cargo
    BY <2>1, <2>2 DEF TypeOK
  <2>4. doc'[p] = doc[p]
    BY <1>1, <2>3
  <2>5. QED
    BY <1>1, <2>1, <2>3, <2>4 DEF Left
<1>3. ASSUME NEW a \in Claims, claim'[a].status # "ABSENT"
      PROVE  /\ claim'[a].outward \in Outwards
             /\ doc'[claim'[a].outward].status = "POSTED"
             /\ doc'[claim'[a].outward].reverses = None
             /\ claim'[a].scope \in DOMAIN doc'[claim'[a].outward].cargo \cup {Header}
  <2>1. PICK p \in Outwards : /\ p = claim'[a].outward /\ Left(p)
                              /\ claim'[a].scope \in DOMAIN doc[p].cargo \cup {Header}
    BY <1>1, <1>3 DEF TypeOK
  <2>2. doc'[p] = doc[p]
    BY <1>1, <2>1
  <2>3. QED
    BY <2>1, <2>2 DEF Left
<1>4. TypeOK'
  <2>1. inward' \in [Lots -> 0..MaxQty] /\ claim' \in [Claims -> ClaimDoc]
    BY <1>1 DEF TypeOK
  <2>2. QED
    BY <1>1, <1>2, <1>3, <2>1 DEF TypeOK, Left
<1>5. SoleReversal'
  BY <1>1 DEF SoleReversal
<1>6. Laden'
  BY <1>1 DEF Laden, Posts
<1>7. Heired' /\ ClaimChain'
  BY <1>1 DEF Heired, ClaimChain, Actives, SameScope
<1>8. \A x \in Outwards : SameClaims(x)
  BY <1>1 DEF SameClaims
<1>9. QED
  BY <1>4, <1>5, <1>6, <1>7, <1>8

LEMMA PostedInt ==
  ASSUME OutwardAssumption, TypeOK, NEW P
  PROVE  Posted(P) \in Int
<1>1. Lefts \in SUBSET Outwards /\ Returns \in SUBSET Outwards
  BY DEF Lefts, Returns
<1>2. Loaded(Lefts, P) \in Nat /\ Loaded(Returns, P) \in Nat
  BY <1>1, LoadedNat
<1>3. Posted(P) = Loaded(Lefts, P) - Loaded(Returns, P)
  BY DEF Posted, Lefts, Returns
<1>4. QED
  BY <1>2, <1>3

\* An outward that is posted takes its load.
LEMMA OutwardTakes ==
  ASSUME OutwardAssumption, OInv, NEW o \in Outwards, Posts(o), doc[o].reverses = None
  PROVE  /\ Lefts' = Lefts \cup {o} /\ o \notin Lefts
         /\ \A x \in Outwards : IsReversed(x)' = IsReversed(x)
         /\ ~IsReversed(o)
         /\ \A P : Posted(P)' = Posted(P) + Loaded({o}, P)
         /\ NetStanding'
<1> USE DEF OInv
<1>1. /\ \A x \in Outwards : /\ doc'[x].cargo = doc[x].cargo
                             /\ doc'[x].reverses = doc[x].reverses
                             /\ x # o => doc'[x] = doc[x]
      /\ doc'[o].status = "POSTED" /\ ~Left(o) /\ ~Returned(o)
  BY PostsRows
<1>2. \A x \in Outwards : /\ Left(x)' <=> Left(x) \/ x = o
                          /\ Returned(x)' = Returned(x)
  BY <1>1 DEF Left, Returned
<1>3. Lefts' = Lefts \cup {o} /\ Returns' = Returns /\ o \notin Lefts
  BY <1>1, <1>2 DEF Lefts, Returns
<1>4. \A x \in Outwards : IsReversed(x)' = IsReversed(x)
  BY <1>1, <1>2 DEF IsReversed
<1>5. ~IsReversed(o)
  BY <1>1 DEF IsReversed, Returned, TypeOK
<1>6. Standing' = Standing \cup {o} /\ o \notin Standing
  BY <1>1, <1>2, <1>4, <1>5 DEF Standing
<1>7. Lefts \in SUBSET Outwards /\ Returns \in SUBSET Outwards /\ Standing \in SUBSET Outwards
  BY DEF Lefts, Returns, Standing
<1>8. ASSUME NEW P
      PROVE  Posted(P)' = Posted(P) + Loaded({o}, P)
  <2>1. Posted(P)' = Loaded(Lefts \cup {o}, P) - Loaded(Returns, P)
    <3>1. \A x \in (Lefts \cup {o}) \cup Returns : doc'[x].cargo = doc[x].cargo
      BY <1>1, <1>7
    <3>2. QED
      BY <1>3, <3>1, PostedNext
  <2>2. Loaded(Lefts \cup {o}, P) = Loaded(Lefts, P) + Loaded({o}, P)
    BY <1>3, <1>7, LoadedUnion
  <2>3. Posted(P) = Loaded(Lefts, P) - Loaded(Returns, P)
    BY DEF Posted, Lefts, Returns
  <2>4. Loaded(Lefts, P) \in Nat /\ Loaded(Returns, P) \in Nat /\ Loaded({o}, P) \in Nat
    BY <1>7, LoadedNat
  <2>5. QED
    BY <2>1, <2>2, <2>3, <2>4
<1>9. ASSUME NEW P \in SUBSET Places
      PROVE  Posted(P)' = Loaded(Standing, P)'
  <2>1. Loaded(Standing, P)' = Loaded(Standing \cup {o}, P)
    <3>1. \A x \in Standing \cup {o} : doc'[x].cargo = doc[x].cargo
      BY <1>1, <1>7
    <3>2. \A D : (\A x \in D : doc'[x].cargo = doc[x].cargo) => Loaded(D, P)' = Loaded(D, P)
      BY LoadedKept
    <3>3. QED
      BY <1>6, <3>1, <3>2
  <2>2. Loaded(Standing \cup {o}, P) = Loaded(Standing, P) + Loaded({o}, P)
    BY <1>6, <1>7, LoadedUnion
  <2>3. Posted(P) = Loaded(Standing, P)
    BY DEF NetStanding
  <2>4. QED
    BY <1>8, <2>1, <2>2, <2>3
<1>10. NetStanding'
  BY <1>9 DEF NetStanding
<1>11. QED
  BY <1>3, <1>4, <1>5, <1>8, <1>10

LEMMA PostOutwardPosts ==
  ASSUME TypeOK, NEW o \in Outwards, PostOutward(o)
  PROVE  /\ Posts(o) /\ doc[o].reverses = None /\ FitsContainer(o) /\ FitsLots(o)
         /\ \A x \in Outwards \ {o} : flag'[x] = flag[x]
         /\ \A e \in FlagTypes : flag'[o][e] = IF e \in Called(o) THEN "OPEN" ELSE "NONE"
         /\ flag' \in [Outwards -> [FlagTypes -> {"NONE", "OPEN", "RESOLVED"}]]
         /\ pairs' = pairs \cup {<<o, p>> : p \in Likes(o)}
<1> DEFINE F == [e \in FlagTypes |-> IF e \in Called(o) THEN "OPEN" ELSE "NONE"]
<1>1. /\ flag' = [flag EXCEPT ![o] = F]
      /\ flag \in [Outwards -> [FlagTypes -> {"NONE", "OPEN", "RESOLVED"}]]
  BY DEF PostOutward, TypeOK
<1>2. /\ F \in [FlagTypes -> {"NONE", "OPEN", "RESOLVED"}]
      /\ \A e \in FlagTypes : F[e] = IF e \in Called(o) THEN "OPEN" ELSE "NONE"
  OBVIOUS
<1> HIDE DEF F
<1>3. /\ \A x \in Outwards \ {o} : flag'[x] = flag[x]
      /\ flag'[o] = F
      /\ flag' \in [Outwards -> [FlagTypes -> {"NONE", "OPEN", "RESOLVED"}]]
  BY <1>1, <1>2
<1>4. QED
  BY <1>2, <1>3 DEF PostOutward, Posts

LEMMA PostOutwardFits ==
  ASSUME OutwardAssumption, OInv, NEW o \in Outwards, PostOutward(o)
  PROVE  WithinInward'
<1> USE DEF OInv
<1>1. /\ Posts(o) /\ doc[o].reverses = None /\ FitsContainer(o) /\ FitsLots(o)
      /\ inward' = inward
  BY PostOutwardPosts DEF Posts
<1>2. \A P : Posted(P)' = Posted(P) + Loaded({o}, P)
  BY <1>1, OutwardTakes
<1>3. \A P : Posted(P) \in Int /\ Loaded({o}, P) \in Nat
  <2>1. \A D \in SUBSET Outwards : \A P : Loaded(D, P) \in Nat
    BY LoadedNat
  <2>2. QED
    BY <2>1, PostedInt
<1>4. ASSUME NEW lot \in Lots
      PROVE  Posted({lot})' <= inward'[lot]
  <2>1. /\ Posted({lot}) <= inward[lot]
        /\ Loaded({o}, {lot}) > 0 => Posted({lot}) + Loaded({o}, {lot}) <= inward[lot]
    BY <1>1 DEF WithinInward, FitsLots
  <2>2. /\ Posted({lot})' = Posted({lot}) + Loaded({o}, {lot})
        /\ Posted({lot}) \in Int /\ Loaded({o}, {lot}) \in Nat
    BY <1>2, <1>3
  <2>3. inward'[lot] = inward[lot] /\ inward[lot] \in Int
    BY <1>1 DEF TypeOK, OutwardAssumption
  <2>4. QED
    BY <2>1, <2>2, <2>3
<1>5. Posted(Places)' <= Total(Lots, inward', MaxQty)
  BY <1>1, <1>2 DEF FitsContainer
<1>6. ASSUME NEW p \in Places
      PROVE  Posted({p})' >= 0
  <2>1. Posted({p}) >= 0
    BY DEF WithinInward
  <2>2. /\ Posted({p})' = Posted({p}) + Loaded({o}, {p})
        /\ Posted({p}) \in Int /\ Loaded({o}, {p}) \in Nat
    BY <1>2, <1>3
  <2>3. QED
    BY <2>1, <2>2
<1>7. QED
  BY <1>4, <1>5, <1>6 DEF WithinInward

LEMMA PostOutwardFlags ==
  ASSUME OutwardAssumption, OInv, NEW o \in Outwards, PostOutward(o)
  PROVE  FlagsCurrent'
<1> USE DEF OInv
<1>1. /\ Posts(o) /\ doc[o].reverses = None
      /\ \A x \in Outwards \ {o} : flag'[x] = flag[x]
      /\ \A e \in FlagTypes : flag'[o][e] = IF e \in Called(o) THEN "OPEN" ELSE "NONE"
      /\ flag' \in [Outwards -> [FlagTypes -> {"NONE", "OPEN", "RESOLVED"}]]
      /\ pairs' \subseteq Outwards \X Outwards
  BY PostOutwardPosts DEF TypeOK, Likes
<1>2. /\ \A x \in Outwards : doc'[x].cargo = doc[x].cargo /\ doc'[x].deal = doc[x].deal
      /\ \A x \in Outwards \ {o} : doc'[x] = doc[x]
      /\ ~Left(o)
  BY <1>1, PostsRows
<1>3. \A x \in Outwards : SameClaims(x)
  BY <1>1, PostsKeeps
<1>4. /\ \A x \in Outwards : IsReversed(x)' = IsReversed(x)
      /\ ~IsReversed(o)
  BY <1>1, OutwardTakes
<1>5. ASSUME NEW x \in Outwards, x # o, Left(x)'
      PROVE  FlagRight(x)'
  <2>1. doc'[x] = doc[x] /\ flag'[x] = flag[x]
    BY <1>1, <1>2, <1>5
  <2>2. Left(x)
    BY <1>5, <2>1 DEF Left
  <2>3. FlagRight(x)
    BY <2>2, FlagsAreRight
  <2>4. QED
    BY <1>3, <1>4, <2>1, <2>3, FlagKept
<1>6. FlagRight(o)'
  <2>1. Called(o)' = Called(o)
    BY <1>2, CalledKept
  <2>2. Asserted(o)' = Asserted(o) /\ Priced(claim, o)' = Priced(claim, o)
    BY <1>2, <1>3, PricesKept
  <2>3. ~Priced(claim, o)
    <3>1. \A a \in Claims : ~(claim[a].status = "ACTIVE" /\ claim[a].outward = o)
      BY <1>2 DEF TypeOK
    <3>2. {claim[a].scope : a \in {b \in Claims : /\ claim[b].status = "ACTIVE"
                                                  /\ claim[b].outward = o
                                                  /\ claim[b].known}} = {}
      BY <3>1
    <3>3. DOMAIN doc[o].cargo # {}
      BY <1>1 DEF Laden, Posts
    <3>4. QED
      BY <3>2, <3>3 DEF Priced
  <2>4. /\ Called(o) \subseteq FlagTypes /\ "OUTWARD_UNPRICED" \in FlagTypes
        /\ "OUTWARD_UNPRICED" \in Called(o)
    BY DEF Called, FlagTypes
  <2>5. /\ \A e \in Called(o) : flag'[o][e] = "OPEN"
        /\ flag'[o]["OUTWARD_UNPRICED"] = "OPEN"
    BY <1>1, <2>4
  <2>6. ~IsReversed(o)'
    BY <1>4
  <2>7. \A e \in Called(o)' \ {"OUTWARD_UNPRICED"} : flag'[o][e] = "OPEN" <=> ~IsReversed(o)'
    BY <2>1, <2>5, <2>6
  <2>8. /\ ~Priced(claim, o)'
        /\ flag'[o]["OUTWARD_UNPRICED"] # "RESOLVED"
    BY <2>2, <2>3, <2>5
  <2>9. QED
    BY <2>6, <2>7, <2>8 DEF FlagRight
<1>7. QED
  BY <1>5, <1>6, FlagsAreRightNext

LEMMA PostOutwardKeeps ==
  ASSUME OutwardAssumption, OInv, NEW o \in Outwards, PostOutward(o)
  PROVE  OInv'
<1> USE DEF OInv
<1>1. /\ Posts(o) /\ doc[o].reverses = None
      /\ flag' \in [Outwards -> [FlagTypes -> {"NONE", "OPEN", "RESOLVED"}]]
      /\ pairs' = pairs \cup {<<o, p>> : p \in Likes(o)}
      /\ pairs' \subseteq Outwards \X Outwards
  BY PostOutwardPosts DEF TypeOK, Likes
<1>2. TypeOK' /\ SoleReversal' /\ Laden' /\ Heired' /\ ClaimChain'
  BY <1>1, PostsKeeps
<1>3. NetStanding' /\ Lefts' = Lefts \cup {o} /\ o \notin Lefts
  BY <1>1, OutwardTakes
<1>4. \A x \in Outwards : /\ Left(x)' <=> Left(x) \/ x = o
                          /\ ~Left(o) /\ doc'[x].gatepass = doc[x].gatepass
  BY <1>1, <1>3, PostsRows DEF Lefts
<1>5. \A x \in Outwards : /\ <<o, x>> \notin pairs /\ <<x, o>> \notin pairs
  BY <1>4 DEF PairsLeft
<1>6. PairsLeft'
  BY <1>1, <1>4 DEF PairsLeft, Likes
<1>7. DuplicatesReported'
  <2> SUFFICES ASSUME NEW x \in Outwards, NEW p \in Outwards,
                      Left(x)', Left(p)', x # p,
                      doc'[x].gatepass = doc'[p].gatepass, doc'[x].gatepass # None
               PROVE  (<<x, p>> \in pairs') # (<<p, x>> \in pairs')
    BY DEF DuplicatesReported
  <2>1. doc[x].gatepass = doc[p].gatepass /\ doc[x].gatepass # None
    BY <1>4
  <2>2. CASE x = o
    <3>1. p \in Likes(o)
      BY <1>4, <2>1, <2>2 DEF Likes
    <3>2. <<o, p>> \in pairs'
      BY <1>1, <3>1
    <3>3. <<p, o>> \notin pairs'
      BY <1>1, <1>5, <2>2
    <3>4. QED
      BY <2>2, <3>2, <3>3
  <2>3. CASE p = o
    <3>1. x \in Likes(o)
      BY <1>4, <2>1, <2>3 DEF Likes
    <3>2. <<o, x>> \in pairs'
      BY <1>1, <3>1
    <3>3. <<x, o>> \notin pairs'
      BY <1>1, <1>5, <2>3
    <3>4. QED
      BY <2>3, <3>2, <3>3
  <2>4. CASE x # o /\ p # o
    <3>1. Left(x) /\ Left(p)
      BY <1>4, <2>4
    <3>2. (<<x, p>> \in pairs) # (<<p, x>> \in pairs)
      BY <2>1, <3>1 DEF DuplicatesReported
    <3>3. (<<x, p>> \in pairs' <=> <<x, p>> \in pairs) /\ (<<p, x>> \in pairs' <=> <<p, x>> \in pairs)
      BY <1>1, <2>4
    <3>4. QED
      BY <3>2, <3>3
  <2>5. QED
    BY <2>2, <2>3, <2>4
<1>8. WithinInward' /\ FlagsCurrent'
  BY PostOutwardFits, PostOutwardFlags
<1>9. QED
  BY <1>2, <1>3, <1>6, <1>7, <1>8

\* A reversal that is posted gives back what its outward took.
LEMMA ReversalReturns ==
  ASSUME OutwardAssumption, OInv, NEW r \in Outwards, NEW o \in Outwards,
         Posts(r), doc[r].reverses = o, Left(o)
  PROVE  /\ \A x \in Outwards : Left(x)' = Left(x)
         /\ \A x \in Outwards \ {o} : IsReversed(x)' = IsReversed(x)
         /\ IsReversed(o)'
         /\ \A P : Posted(P)' = Posted(P) - Loaded({o}, P)
         /\ NetStanding' /\ \A P \in SUBSET Places : Posted(P)' >= 0
<1> USE DEF OInv
<1>1. /\ \A x \in Outwards : /\ doc'[x].cargo = doc[x].cargo
                             /\ doc'[x].reverses = doc[x].reverses
                             /\ x # r => doc'[x] = doc[x]
      /\ doc'[r].status = "POSTED" /\ ~Left(r) /\ ~Returned(r)
  BY PostsRows
<1>2. o # None /\ o # r
  BY <1>1 DEF OutwardAssumption
<1>3. \A x \in Outwards : /\ Left(x)' = Left(x)
                          /\ Returned(x)' <=> Returned(x) \/ x = r
  BY <1>1, <1>2 DEF Left, Returned
<1>4. Lefts' = Lefts /\ Returns' = Returns \cup {r} /\ r \notin Returns
  BY <1>1, <1>3 DEF Lefts, Returns
<1>5. ~IsReversed(o)
  BY <1>1, <1>2 DEF IsReversed, SoleReversal
<1>6. /\ \A x \in Outwards \ {o} : IsReversed(x)' = IsReversed(x)
      /\ IsReversed(o)'
  BY <1>1, <1>3 DEF IsReversed
<1>7. Standing' = Standing \ {o} /\ o \in Standing
  BY <1>3, <1>5, <1>6 DEF Standing
<1>8. /\ Lefts \in SUBSET Outwards /\ Returns \in SUBSET Outwards
      /\ Standing \in SUBSET Outwards /\ Standing \ {o} \in SUBSET Outwards
  BY DEF Lefts, Returns, Standing
<1>9. ASSUME NEW P
      PROVE  Posted(P)' = Posted(P) - Loaded({o}, P)
  <2>1. Posted(P)' = Loaded(Lefts, P) - Loaded(Returns \cup {r}, P)
    <3>1. \A x \in Lefts \cup (Returns \cup {r}) : doc'[x].cargo = doc[x].cargo
      BY <1>1, <1>8
    <3>2. QED
      BY <1>4, <3>1, PostedNext
  <2>2. Loaded(Returns \cup {r}, P) = Loaded(Returns, P) + Loaded({r}, P)
    BY <1>4, <1>8, LoadedUnion
  <2>3. Loaded({r}, P) = Loaded({o}, P)
    <3>1. doc[r].cargo = doc[o].cargo
      BY <1>2 DEF TypeOK
    <3>2. QED
      BY <3>1, LoadedCopy
  <2>4. Posted(P) = Loaded(Lefts, P) - Loaded(Returns, P)
    BY DEF Posted, Lefts, Returns
  <2>5. Loaded(Lefts, P) \in Nat /\ Loaded(Returns, P) \in Nat /\ Loaded({o}, P) \in Nat
    BY <1>8, LoadedNat
  <2>6. QED
    BY <2>1, <2>2, <2>3, <2>4, <2>5
<1>10. ASSUME NEW P \in SUBSET Places
       PROVE  Posted(P)' = Loaded(Standing, P)' /\ Posted(P)' >= 0
  <2>1. Loaded(Standing, P)' = Loaded(Standing \ {o}, P)
    <3>1. \A x \in Standing \ {o} : doc'[x].cargo = doc[x].cargo
      BY <1>1, <1>8
    <3>2. \A D : (\A x \in D : doc'[x].cargo = doc[x].cargo) => Loaded(D, P)' = Loaded(D, P)
      BY LoadedKept
    <3>3. QED
      BY <1>7, <3>1, <3>2
  <2>2. Loaded((Standing \ {o}) \cup {o}, P) = Loaded(Standing \ {o}, P) + Loaded({o}, P)
    BY <1>8, LoadedUnion
  <2>3. (Standing \ {o}) \cup {o} = Standing
    BY <1>7
  <2>4. Posted(P) = Loaded(Standing, P)
    BY DEF NetStanding
  <2>5. Loaded(Standing \ {o}, P) \in Nat /\ Loaded({o}, P) \in Nat
    BY <1>8, LoadedNat
  <2>6. Posted(P)' = Posted(P) - Loaded({o}, P)
    BY <1>9
  <2>7. Loaded(Standing, P) = Loaded(Standing \ {o}, P) + Loaded({o}, P)
    BY <2>2, <2>3
  <2>8. Posted(P)' = Loaded(Standing \ {o}, P) /\ Posted(P)' >= 0
    BY <2>4, <2>5, <2>6, <2>7
  <2>9. QED
    BY <2>1, <2>8
<1>11. NetStanding'
  BY <1>10 DEF NetStanding
<1>12. QED
  BY <1>3, <1>6, <1>9, <1>10, <1>11

LEMMA PostReversalPosts ==
  ASSUME OutwardAssumption, OInv, NEW r \in Outwards, PostReversal(r)
  PROVE  \E o \in Outwards :
           /\ Posts(r) /\ doc[r].reverses = o /\ Left(o) /\ pairs' = pairs
           /\ \A x \in Outwards \ {o} : flag'[x] = flag[x]
           /\ \A e \in FlagTypes : flag'[o][e] # "OPEN"
           /\ flag' \in [Outwards -> [FlagTypes -> {"NONE", "OPEN", "RESOLVED"}]]
<1> DEFINE o == doc[r].reverses
           F == Resolved(flag[o], FlagTypes)
<1>1. doc[r] \in OutwardDoc /\ o # None
  BY DEF PostReversal, OInv, TypeOK
<1>2. o \in Outwards
  BY <1>1 DEF OutwardDoc
<1>3. /\ flag' = [flag EXCEPT ![o] = F]
      /\ flag \in [Outwards -> [FlagTypes -> {"NONE", "OPEN", "RESOLVED"}]]
  BY DEF PostReversal, OInv, TypeOK
<1>4. flag[o] \in [FlagTypes -> {"NONE", "OPEN", "RESOLVED"}]
  BY <1>2, <1>3
<1>5. /\ F \in [FlagTypes -> {"NONE", "OPEN", "RESOLVED"}]
      /\ \A e \in FlagTypes : F[e] # "OPEN"
  BY <1>4 DEF Resolved
<1>6. Posts(r) /\ Left(o) /\ pairs' = pairs
  BY DEF PostReversal, Posts, Reversible
<1> HIDE DEF o, F
<1>7. /\ \A x \in Outwards \ {o} : flag'[x] = flag[x]
      /\ flag'[o] = F
      /\ flag' \in [Outwards -> [FlagTypes -> {"NONE", "OPEN", "RESOLVED"}]]
  BY <1>2, <1>3, <1>5
<1>8. \A e \in FlagTypes : flag'[o][e] # "OPEN"
  BY <1>5, <1>7
<1>9. doc[r].reverses = o
  BY DEF o
<1>10. QED
  BY <1>2, <1>6, <1>7, <1>8, <1>9

LEMMA PostReversalKeeps ==
  ASSUME OutwardAssumption, OInv, NEW r \in Outwards, PostReversal(r)
  PROVE  OInv'
<1> USE DEF OInv
<1>1. PICK o \in Outwards :
        /\ Posts(r) /\ doc[r].reverses = o /\ Left(o) /\ pairs' = pairs
        /\ \A x \in Outwards \ {o} : flag'[x] = flag[x]
        /\ \A e \in FlagTypes : flag'[o][e] # "OPEN"
        /\ flag' \in [Outwards -> [FlagTypes -> {"NONE", "OPEN", "RESOLVED"}]]
  BY PostReversalPosts
<1>2. /\ TypeOK' /\ SoleReversal' /\ Laden' /\ Heired' /\ ClaimChain'
      /\ \A x \in Outwards : SameClaims(x)
  <2>1. pairs' \subseteq Outwards \X Outwards
    BY <1>1 DEF TypeOK
  <2>2. QED
    BY <1>1, <2>1, PostsKeeps
<1>3. /\ \A x \in Outwards : Left(x)' = Left(x)
      /\ \A x \in Outwards \ {o} : IsReversed(x)' = IsReversed(x)
      /\ IsReversed(o)'
      /\ \A P : Posted(P)' = Posted(P) - Loaded({o}, P)
      /\ NetStanding' /\ \A P \in SUBSET Places : Posted(P)' >= 0
  BY <1>1, ReversalReturns
<1>4. /\ \A x \in Outwards : doc'[x].gatepass = doc[x].gatepass
      /\ \A x \in Outwards \ {r} : doc'[x] = doc[x]
      /\ ~Left(r) /\ inward' = inward
  <2>1. Posts(r)
    BY <1>1
  <2>2. inward' = inward
    BY <2>1 DEF Posts
  <2>3. QED
    BY <2>1, <2>2, PostsRows
<1>5. PairsLeft' /\ DuplicatesReported'
  BY <1>1, <1>3, <1>4 DEF PairsLeft, DuplicatesReported
<1>6. WithinInward'
  <2>1. ASSUME NEW P
        PROVE  /\ Posted(P)' = Posted(P) - Loaded({o}, P)
               /\ Posted(P) \in Int /\ Loaded({o}, P) \in Nat
    BY <1>3, PostedInt, LoadedNat
  <2>2. ASSUME NEW lot \in Lots
        PROVE  Posted({lot})' <= inward'[lot]
    <3>1. Posted({lot}) <= inward[lot] /\ inward[lot] \in Int
      BY DEF WithinInward, TypeOK, OutwardAssumption
    <3>2. /\ Posted({lot})' = Posted({lot}) - Loaded({o}, {lot})
          /\ Posted({lot}) \in Int /\ Loaded({o}, {lot}) \in Nat
      BY <2>1
    <3>3. inward'[lot] = inward[lot]
      BY <1>4
    <3>4. QED
      BY <3>1, <3>2, <3>3
  <2>3. Posted(Places)' <= Total(Lots, inward', MaxQty)
    <3>1. Posted(Places) <= Total(Lots, inward, MaxQty)
      BY DEF WithinInward
    <3>2. Total(Lots, inward, MaxQty) \in Nat
      BY TotalType DEF TypeOK, OutwardAssumption
    <3>3. /\ Posted(Places)' = Posted(Places) - Loaded({o}, Places)
          /\ Posted(Places) \in Int /\ Loaded({o}, Places) \in Nat
      BY <2>1
    <3>4. inward' = inward
      BY <1>4
    <3>5. QED
      BY <3>1, <3>2, <3>3, <3>4
  <2>4. ASSUME NEW p \in Places
        PROVE  Posted({p})' >= 0
    BY <1>3
  <2>5. QED
    BY <2>2, <2>3, <2>4 DEF WithinInward
<1>7. FlagsCurrent'
  <2>1. ASSUME NEW x \in Outwards, x # o, Left(x)'
        PROVE  FlagRight(x)'
    <3>1. Left(x) /\ x # r
      BY <1>3, <1>4, <2>1
    <3>2. doc'[x] = doc[x] /\ flag'[x] = flag[x]
      BY <1>1, <1>4, <2>1, <3>1
    <3>3. FlagRight(x) /\ IsReversed(x)' = IsReversed(x) /\ SameClaims(x)
      BY <1>2, <1>3, <2>1, <3>1, FlagsAreRight
    <3>4. QED
      BY <3>2, <3>3, FlagKept
  <2>2. FlagRight(o)'
    <3>1. Called(o)' \subseteq FlagTypes /\ "OUTWARD_UNPRICED" \in FlagTypes
      BY DEF Called, FlagTypes
    <3>2. QED
      BY <1>1, <1>3, <3>1 DEF FlagRight
  <2>3. QED
    BY <2>1, <2>2, FlagsAreRightNext
<1>8. QED
  BY <1>2, <1>3, <1>5, <1>6, <1>7

-----------------------------------------------------------------------------
(* Assertions.                                                             *)

TookEffect(b) == claim[b].status \in {"ACTIVE", "SUPERSEDED"}

\* The assertions that took effect in the place of p.
Heirs(p) == {b \in Claims : claim[b].supersedes = p /\ TookEffect(b)}

InLine(p) ==
  /\ claim[p].status = "SUPERSEDED" => Heirs(p) = {claim[p].successor}
  /\ claim[p].status = "ACTIVE" => Heirs(p) = {} /\ Actives(p) = {p}
  /\ \A b \in Heirs(p) : SameScope(b, p)

LEMMA ChainInLine == ClaimChain <=> \A p \in Claims : InLine(p)
BY DEF ClaimChain, InLine, Heirs, TookEffect

LEMMA ChainInLineNext == ClaimChain' <=> \A p \in Claims : InLine(p)'
BY DEF ClaimChain, InLine, Heirs, TookEffect

\* What names outwards that left keeps doing so when only assertions change.
LEMMA ClaimsTyped ==
  ASSUME OInv, UNCHANGED <<inward, doc, pairs>>,
         claim' \in [Claims -> ClaimDoc],
         flag' \in [Outwards -> [FlagTypes -> {"NONE", "OPEN", "RESOLVED"}]],
         \A a \in Claims : claim'[a].status # "ABSENT" =>
           /\ claim'[a].outward \in Outwards /\ Left(claim'[a].outward)
           /\ claim'[a].scope \in DOMAIN doc[claim'[a].outward].cargo \cup {Header}
  PROVE  TypeOK' /\ WithinInward'
<1>1. TypeOK'
  BY DEF OInv, TypeOK, Left
<1>2. WithinInward'
  <2>1. \A P : Posted(P)' = Posted(P)
    BY DocSame
  <2>2. QED
    BY <2>1 DEF OInv, WithinInward
<1>3. QED
  BY <1>1, <1>2

\* Assertion a is saved with row n and has not taken effect yet.
ClaimEdit(a, n) ==
  /\ ~TookEffect(a)
  /\ n \in ClaimDoc /\ n.status \notin {"ABSENT", "ACTIVE", "SUPERSEDED"}
  /\ n.outward \in Outwards /\ Left(n.outward)
  /\ n.scope \in DOMAIN doc[n.outward].cargo \cup {Header}
  /\ claim' = [claim EXCEPT ![a] = n]
  /\ UNCHANGED <<inward, doc, flag, pairs>>

LEMMA ClaimEditKind ==
  ASSUME OutwardAssumption, OInv, NEW a \in Claims,
         \/ \E o \in Outwards, scope \in Lines \cup {Header}, known \in Rates,
               prior \in Claims \cup {None} : CreateClaim(a, o, scope, known, prior)
         \/ SubmitClaim(a)
         \/ RejectClaim(a)
  PROVE  \E n : ClaimEdit(a, n)
<1> USE DEF OInv
<1>1. claim[a] \in ClaimDoc
  BY DEF TypeOK
<1>2. CASE \E o \in Outwards, scope \in Lines \cup {Header}, known \in Rates,
               prior \in Claims \cup {None} : CreateClaim(a, o, scope, known, prior)
  <2>1. PICK o \in Outwards, scope \in Lines \cup {Header}, known \in Rates,
               prior \in Claims \cup {None} : CreateClaim(a, o, scope, known, prior)
    BY <1>2
  <2> DEFINE n == [status |-> "DRAFT", outward |-> o, scope |-> scope,
                   known |-> known, supersedes |-> prior, successor |-> None]
  <2>2. known \in BOOLEAN
    BY DEF OutwardAssumption
  <2>3. n \in ClaimDoc /\ n.status = "DRAFT" /\ n.outward = o /\ n.scope = scope
    BY <2>2 DEF ClaimDoc
  <2>4. /\ claim[a].status = "ABSENT" /\ claim' = [claim EXCEPT ![a] = n]
        /\ Left(o) /\ scope \in DOMAIN doc[o].cargo \cup {Header}
        /\ UNCHANGED <<inward, doc, flag, pairs>>
    BY <2>1 DEF CreateClaim
  <2> HIDE DEF n
  <2>5. ClaimEdit(a, n)
    BY <2>3, <2>4 DEF ClaimEdit, TookEffect
  <2>6. QED
    BY <2>5
<1>3. ASSUME NEW st \in {"REVIEW_PENDING", "REJECTED"},
             claim[a].status \in {"DRAFT", "REVIEW_PENDING"},
             claim' = [claim EXCEPT ![a].status = st],
             UNCHANGED <<inward, doc, flag, pairs>>
      PROVE  \E n : ClaimEdit(a, n)
  <2> DEFINE n == [claim[a] EXCEPT !.status = st]
  <2>1. /\ n \in ClaimDoc /\ n.status = st /\ n.outward = claim[a].outward
        /\ n.scope = claim[a].scope
    BY <1>1, <1>3 DEF ClaimDoc
  <2>2. claim' = [claim EXCEPT ![a] = n]
    BY <1>3
  <2>3. /\ claim[a].outward \in Outwards /\ Left(claim[a].outward)
        /\ claim[a].scope \in DOMAIN doc[claim[a].outward].cargo \cup {Header}
    BY <1>3 DEF TypeOK
  <2> HIDE DEF n
  <2>4. ClaimEdit(a, n)
    BY <1>3, <2>1, <2>2, <2>3 DEF ClaimEdit, TookEffect
  <2>5. QED
    BY <2>4
<1>4. CASE SubmitClaim(a)
  BY <1>3, <1>4 DEF SubmitClaim
<1>5. CASE RejectClaim(a)
  BY <1>3, <1>5 DEF RejectClaim
<1>6. QED
  BY <1>2, <1>4, <1>5

LEMMA ClaimEditKeeps ==
  ASSUME OutwardAssumption, OInv, NEW a \in Claims, NEW n, ClaimEdit(a, n)
  PROVE  OInv'
<1> USE DEF OInv
<1>1. /\ claim' \in [Claims -> ClaimDoc]
      /\ \A b \in Claims : claim'[b] = IF b = a THEN n ELSE claim[b]
      /\ UNCHANGED <<inward, doc, flag, pairs>>
  BY DEF ClaimEdit, TypeOK
<1>2. ~TookEffect(a) /\ ~TookEffect(a)'
  BY <1>1 DEF ClaimEdit, TookEffect
<1>3. /\ SoleReversal' /\ Laden' /\ NetStanding' /\ PairsLeft' /\ DuplicatesReported'
  BY <1>1, DocSame
<1>4. TypeOK' /\ WithinInward'
  <2>1. flag' \in [Outwards -> [FlagTypes -> {"NONE", "OPEN", "RESOLVED"}]]
    BY <1>1 DEF TypeOK
  <2>2. \A b \in Claims : claim'[b].status # "ABSENT" =>
           /\ claim'[b].outward \in Outwards /\ Left(claim'[b].outward)
           /\ claim'[b].scope \in DOMAIN doc[claim'[b].outward].cargo \cup {Header}
    BY <1>1 DEF ClaimEdit, TypeOK
  <2>3. QED
    BY <1>1, <2>1, <2>2, ClaimsTyped
<1>5. Heired'
  BY <1>1, <1>2 DEF Heired, TookEffect, TypeOK, ClaimDoc
<1>6. \A b \in Claims : TookEffect(b)' = TookEffect(b) /\ (TookEffect(b) => claim'[b] = claim[b])
  BY <1>1, <1>2 DEF TookEffect
<1>7. \A p \in Claims : Heirs(p)' = Heirs(p)
  BY <1>6 DEF Heirs
<1>8. ASSUME NEW p \in Claims
      PROVE  InLine(p)'
  <2>1. InLine(p)
    BY ChainInLine
  <2>2. CASE p = a
    <3>1. Heirs(a) = {}
      BY <1>2 DEF Heirs, Heired, TookEffect, OutwardAssumption
    <3>2. QED
      BY <1>2, <1>7, <2>2, <3>1 DEF InLine, TookEffect
  <2>3. CASE p # a
    <3>1. claim'[p] = claim[p]
      BY <1>1, <2>3
    <3>2. claim[p].status = "ACTIVE" => Actives(p)' = Actives(p)
      BY <1>1, <1>2, <3>1 DEF Actives, SameScope, TookEffect
    <3>3. \A b \in Heirs(p) : SameScope(b, p)' = SameScope(b, p)
      BY <1>6, <3>1 DEF Heirs, SameScope
    <3>4. QED
      BY <1>7, <2>1, <3>1, <3>2, <3>3 DEF InLine
  <2>4. QED
    BY <2>2, <2>3
<1>9. ClaimChain'
  BY <1>8, ChainInLineNext
<1>10. FlagsCurrent'
  <2>1. \A x \in Outwards : /\ IsReversed(x)' = IsReversed(x) /\ Left(x)' = Left(x)
                            /\ SameClaims(x)
    BY <1>1, <1>2 DEF IsReversed, Returned, Left, SameClaims, TookEffect
  <2>2. QED
    BY <1>1, <2>1, FlagKept, FlagsAreRight, FlagsAreRightNext
<1>11. QED
  BY <1>3, <1>4, <1>5, <1>9, <1>10

\* What an activation of a does to the assertions.
LEMMA ActivationRows ==
  ASSUME OutwardAssumption, TypeOK, NEW a \in Claims, ActivateClaim(a)
  PROVE  /\ claim' \in [Claims -> ClaimDoc]
         /\ \A b \in Claims : /\ claim'[b].outward = claim[b].outward
                              /\ claim'[b].scope = claim[b].scope
                              /\ claim'[b].known = claim[b].known
                              /\ claim'[b].supersedes = claim[b].supersedes
                              /\ b # a /\ b # claim[a].supersedes => claim'[b] = claim[b]
         /\ claim[a].status = "REVIEW_PENDING" /\ claim'[a].status = "ACTIVE"
         /\ claim[a].supersedes # None =>
              /\ claim[a].supersedes \in Claims /\ claim[a].supersedes # a
              /\ claim[claim[a].supersedes].status = "ACTIVE"
              /\ claim'[claim[a].supersedes].status = "SUPERSEDED"
              /\ claim'[claim[a].supersedes].successor = a
              /\ SameScope(a, claim[a].supersedes)
         /\ UNCHANGED <<inward, doc, pairs>>
<1> DEFINE p == claim[a].supersedes
<1>1. /\ claim' = Activated(a) /\ claim[a].status = "REVIEW_PENDING" /\ Activable(a)
      /\ UNCHANGED <<inward, doc, pairs>>
  BY DEF ActivateClaim
<1>2. \A b \in Claims : claim[b] \in ClaimDoc
  BY DEF TypeOK
<1>3. p \in Claims \cup {None}
  BY <1>2 DEF ClaimDoc
<1>4. p # None => p \in Claims /\ claim[p].status = "ACTIVE" /\ p # a /\ SameScope(a, p)
  BY <1>1, <1>3 DEF Activable
<1>5. \A b \in Claims : claim'[b] =
        IF b = a THEN [claim[a] EXCEPT !.status = "ACTIVE"]
        ELSE IF b = p THEN [claim[b] EXCEPT !.status = "SUPERSEDED", !.successor = a]
        ELSE claim[b]
  BY <1>1 DEF Activated
<1>6. ASSUME NEW b \in Claims
      PROVE  /\ claim'[b] \in ClaimDoc
             /\ claim'[b].outward = claim[b].outward
             /\ claim'[b].scope = claim[b].scope
             /\ claim'[b].known = claim[b].known
             /\ claim'[b].supersedes = claim[b].supersedes
             /\ b # a /\ b # p => claim'[b] = claim[b]
             /\ b = a => claim'[b].status = "ACTIVE"
             /\ b = p /\ b # a => claim'[b].status = "SUPERSEDED" /\ claim'[b].successor = a
  <2>1. claim[b] \in ClaimDoc
    BY <1>2
  <2>2. CASE b = a
    <3>1. claim'[b] = [claim[b] EXCEPT !.status = "ACTIVE"]
      BY <1>5, <2>2
    <3>2. QED
      BY <2>1, <2>2, <3>1 DEF ClaimDoc
  <2>3. CASE b # a /\ b = p
    <3>1. claim'[b] = [claim[b] EXCEPT !.status = "SUPERSEDED", !.successor = a]
      BY <1>5, <2>3
    <3>2. QED
      BY <2>1, <2>3, <3>1 DEF ClaimDoc
  <2>4. CASE b # a /\ b # p
    BY <1>5, <2>1, <2>4
  <2>5. QED
    BY <2>2, <2>3, <2>4
<1>7. claim' \in [Claims -> ClaimDoc]
  <2>1. claim' = [b \in Claims |-> claim'[b]]
    BY <1>1 DEF Activated
  <2>2. QED
    BY <1>6, <2>1
<1>8. QED
  BY <1>1, <1>4, <1>6, <1>7

LEMMA ActivationInLine ==
  ASSUME OutwardAssumption, OInv, NEW a \in Claims, ActivateClaim(a)
  PROVE  Heired' /\ ClaimChain'
<1> USE DEF OInv
<1> DEFINE p == claim[a].supersedes
<1>1. /\ \A b \in Claims : /\ claim'[b].outward = claim[b].outward
                           /\ claim'[b].scope = claim[b].scope
                           /\ claim'[b].supersedes = claim[b].supersedes
                           /\ b # a /\ b # p => claim'[b] = claim[b]
      /\ claim[a].status = "REVIEW_PENDING" /\ claim'[a].status = "ACTIVE"
      /\ p # None => /\ p \in Claims /\ p # a
                     /\ claim[p].status = "ACTIVE" /\ claim'[p].status = "SUPERSEDED"
                     /\ claim'[p].successor = a /\ SameScope(a, p)
  BY ActivationRows
<1>2. \A b \in Claims : claim[b].supersedes \in Claims \cup {None}
  BY DEF TypeOK, ClaimDoc
<1>3. Actives(a) \subseteq {p} /\ (p = None => Actives(a) = {})
  BY DEF ActivateClaim, Activable
<1> HIDE DEF p
<1>4. \A b \in Claims : TookEffect(b)' <=> TookEffect(b) \/ b = a
  BY <1>1 DEF TookEffect
<1>5. ~TookEffect(a)
  BY <1>1 DEF TookEffect
<1>6. Heirs(a) = {}
  BY <1>5 DEF Heirs, Heired, TookEffect, OutwardAssumption
<1>7. Heired'
  <2> SUFFICES ASSUME NEW b \in Claims, TookEffect(b)', claim[b].supersedes # None
               PROVE  claim'[claim[b].supersedes].status = "SUPERSEDED"
    BY <1>1 DEF Heired, TookEffect
  <2>1. CASE b = a
    BY <1>1, <2>1 DEF p
  <2>2. CASE b # a
    <3>1. /\ claim[b].supersedes \in Claims
          /\ claim[claim[b].supersedes].status = "SUPERSEDED"
      BY <1>2, <1>4, <2>2 DEF Heired, TookEffect
    <3>2. claim[b].supersedes # a /\ claim[b].supersedes # p
      BY <1>1, <3>1
    <3>3. QED
      BY <1>1, <3>1, <3>2
  <2>3. QED
    BY <2>1, <2>2
<1>8. \A q \in Claims : Heirs(q)' = IF q = p THEN Heirs(q) \cup {a} ELSE Heirs(q)
  BY <1>1, <1>4 DEF Heirs, p
<1>9. \A b, q \in Claims : SameScope(b, q)' = SameScope(b, q)
  BY <1>1 DEF SameScope
<1>10. ASSUME NEW q \in Claims
       PROVE  InLine(q)'
  <2>1. InLine(q)
    BY ChainInLine
  <2>2. \A b \in Heirs(q) : b \in Claims
    BY DEF Heirs
  <2>3. CASE q = a
    <3>1. Heirs(a)' = {}
      BY <1>1, <1>6, <1>8 DEF OutwardAssumption
    <3>2. Actives(a)' = {a}
      BY <1>1, <1>3, <1>9 DEF Actives, SameScope
    <3>3. QED
      BY <1>1, <2>3, <3>1, <3>2 DEF InLine
  <2>4. CASE q = p
    <3>1. Heirs(q) = {} /\ Heirs(q)' = {a}
      BY <1>1, <1>8, <2>1, <2>4 DEF InLine, OutwardAssumption
    <3>2. SameScope(a, q)'
      BY <1>1, <1>9, <2>4 DEF OutwardAssumption
    <3>3. claim'[q].status = "SUPERSEDED" /\ claim'[q].successor = a
      BY <1>1, <2>4 DEF OutwardAssumption
    <3>4. QED
      BY <3>1, <3>2, <3>3 DEF InLine
  <2>5. CASE q # a /\ q # p
    <3>1. claim'[q] = claim[q] /\ Heirs(q)' = Heirs(q)
      BY <1>1, <1>8, <2>5
    <3>2. ASSUME claim[q].status = "ACTIVE"
          PROVE  Actives(q)' = {q}
      <4>1. Actives(q) = {q}
        BY <2>1, <3>2 DEF InLine
      <4>2. ~SameScope(q, a) /\ ~SameScope(a, q)
        BY <1>3, <2>5, <3>2 DEF Actives, SameScope
      <4>3. \A b \in Claims : b # q /\ claim'[b].status = "ACTIVE" /\ b # a =>
                                claim[b].status = "ACTIVE"
        BY <1>1
      <4>4. \A b \in Claims : b # q => b \notin Actives(q)'
        BY <1>9, <4>1, <4>2, <4>3 DEF Actives
      <4>5. q \in Actives(q)'
        BY <3>1, <3>2 DEF Actives, SameScope
      <4>6. QED
        BY <4>4, <4>5 DEF Actives
    <3>3. \A b \in Heirs(q) : SameScope(b, q)'
      BY <1>9, <2>1, <2>2 DEF InLine
    <3>4. QED
      BY <2>1, <3>1, <3>2, <3>3 DEF InLine
  <2>6. QED
    BY <2>3, <2>4, <2>5
<1>11. QED
  BY <1>7, <1>10, ChainInLineNext

LEMMA ActivationFlags ==
  ASSUME OutwardAssumption, OInv, NEW a \in Claims, ActivateClaim(a)
  PROVE  /\ FlagsCurrent'
         /\ flag' \in [Outwards -> [FlagTypes -> {"NONE", "OPEN", "RESOLVED"}]]
<1> USE DEF OInv
<1> DEFINE p == claim[a].supersedes
<1>1. /\ \A b \in Claims : /\ claim'[b].outward = claim[b].outward
                           /\ claim'[b].scope = claim[b].scope
                           /\ claim'[b].known = claim[b].known
                           /\ b # a /\ b # p => claim'[b] = claim[b]
      /\ claim[a].status = "REVIEW_PENDING" /\ claim'[a].status = "ACTIVE"
      /\ p # None => p \in Claims /\ claim'[p].status = "SUPERSEDED" /\ SameScope(a, p)
      /\ UNCHANGED <<inward, doc, pairs>>
  BY ActivationRows
<1>2. PICK o \in Outwards : o = claim[a].outward
  BY <1>1 DEF TypeOK
<1> DEFINE G == Resolved(flag[o], {"OUTWARD_UNPRICED"})
<1>3. flag \in [Outwards -> [FlagTypes -> {"NONE", "OPEN", "RESOLVED"}]]
  BY DEF TypeOK
<1>4. flag' = IF Priced(claim, o)' THEN [flag EXCEPT ![o] = G] ELSE flag
  BY <1>1, <1>2 DEF ActivateClaim, Priced
<1>5. /\ G \in [FlagTypes -> {"NONE", "OPEN", "RESOLVED"}]
      /\ \A e \in FlagTypes \ {"OUTWARD_UNPRICED"} : G[e] = flag[o][e]
      /\ G["OUTWARD_UNPRICED"] # "OPEN"
  <2>1. flag[o] \in [FlagTypes -> {"NONE", "OPEN", "RESOLVED"}]
    BY <1>2, <1>3
  <2>2. "OUTWARD_UNPRICED" \in FlagTypes
    BY DEF FlagTypes
  <2>3. QED
    BY <2>1, <2>2 DEF Resolved
<1> HIDE DEF G
<1>6. /\ flag' \in [Outwards -> [FlagTypes -> {"NONE", "OPEN", "RESOLVED"}]]
      /\ \A x \in Outwards \ {o} : flag'[x] = flag[x]
      /\ flag'[o] = IF Priced(claim, o)' THEN G ELSE flag[o]
  BY <1>2, <1>3, <1>4, <1>5
<1>7. \A x \in Outwards : IsReversed(x)' = IsReversed(x) /\ Left(x)' = Left(x)
  BY <1>1 DEF IsReversed, Returned, Left
<1>8. ASSUME NEW x \in Outwards, x # o, Left(x)'
      PROVE  FlagRight(x)'
  <2>1. SameClaims(x)
    BY <1>1, <1>2, <1>8 DEF SameClaims, SameScope
  <2>2. FlagRight(x) /\ flag'[x] = flag[x] /\ doc'[x] = doc[x]
    BY <1>1, <1>6, <1>7, <1>8, FlagsAreRight
  <2>3. QED
    BY <1>7, <2>1, <2>2, FlagKept
<1>9. ASSUME Left(o)'
      PROVE  FlagRight(o)'
  <2>1. FlagRight(o)
    BY <1>2, <1>7, <1>9, FlagsAreRight
  <2>2. Called(o)' = Called(o) /\ Called(o) \subseteq FlagTypes
    <3>1. Called(o)' = Called(o)
      BY <1>1, <1>2, CalledKept
    <3>2. QED
      BY <3>1 DEF Called
  <2>3. Asserted(o) \subseteq Asserted(o)'
    <3> SUFFICES ASSUME NEW b \in Claims, claim[b].status = "ACTIVE",
                        claim[b].outward = o
                 PROVE  \E c \in Claims : /\ claim'[c].status = "ACTIVE"
                                          /\ claim'[c].outward = o
                                          /\ claim'[c].scope = claim[b].scope
      BY <1>1 DEF Asserted
    <3>1. CASE b = p
      <4>1. claim[b].scope = claim[a].scope
        BY <1>1, <3>1 DEF SameScope, OutwardAssumption
      <4>2. QED
        BY <1>1, <1>2, <4>1
    <3>2. CASE b # p
      BY <1>1, <3>2
    <3>3. QED
      BY <3>1, <3>2
  <2>4. Priced(claim, o)' => \/ Header \in Asserted(o)'
                             \/ DOMAIN doc'[o].cargo \subseteq Asserted(o)'
    <3>1. {claim'[c].scope : c \in {b \in Claims : /\ claim'[b].status = "ACTIVE"
                                                   /\ claim'[b].outward = o
                                                   /\ claim'[b].known}}
            \subseteq Asserted(o)'
      BY <1>1 DEF Asserted
    <3>2. QED
      BY <1>1, <3>1 DEF Priced
  <2>5. IsReversed(o)' = IsReversed(o) /\ doc'[o] = doc[o]
    BY <1>1, <1>2, <1>7
  <2>6. \A e \in Called(o)' \ {"OUTWARD_UNPRICED"} : flag'[o][e] = "OPEN" <=> ~IsReversed(o)'
    <3>1. \A e \in Called(o) \ {"OUTWARD_UNPRICED"} : flag'[o][e] = flag[o][e]
      BY <1>5, <1>6, <2>2
    <3>2. QED
      BY <2>1, <2>2, <2>5, <3>1 DEF FlagRight
  <2>7. flag'[o]["OUTWARD_UNPRICED"] = "OPEN" => ~IsReversed(o)' /\ ~Priced(claim, o)'
    BY <1>5, <1>6, <2>1, <2>5 DEF FlagRight
  <2>8. flag'[o]["OUTWARD_UNPRICED"] = "RESOLVED" =>
          \/ IsReversed(o)' \/ Header \in Asserted(o)'
          \/ DOMAIN doc'[o].cargo \subseteq Asserted(o)'
    BY <1>6, <2>1, <2>3, <2>4, <2>5 DEF FlagRight
  <2>9. QED
    BY <2>6, <2>7, <2>8 DEF FlagRight
<1>10. QED
  BY <1>6, <1>8, <1>9, FlagsAreRightNext

LEMMA ActivateClaimKeeps ==
  ASSUME OutwardAssumption, OInv, NEW a \in Claims, ActivateClaim(a)
  PROVE  OInv'
<1> USE DEF OInv
<1>1. /\ claim' \in [Claims -> ClaimDoc]
      /\ \A b \in Claims : /\ claim'[b].outward = claim[b].outward
                           /\ claim'[b].scope = claim[b].scope
      /\ claim[a].status = "REVIEW_PENDING"
      /\ \A b \in Claims : claim'[b].status # "ABSENT" => claim[b].status # "ABSENT"
      /\ UNCHANGED <<inward, doc, pairs>>
  BY ActivationRows
<1>2. /\ FlagsCurrent'
      /\ flag' \in [Outwards -> [FlagTypes -> {"NONE", "OPEN", "RESOLVED"}]]
  BY ActivationFlags
<1>3. \A b \in Claims : claim'[b].status # "ABSENT" =>
        /\ claim'[b].outward \in Outwards /\ Left(claim'[b].outward)
        /\ claim'[b].scope \in DOMAIN doc[claim'[b].outward].cargo \cup {Header}
  BY <1>1 DEF TypeOK
<1>4. TypeOK' /\ WithinInward'
  BY <1>1, <1>2, <1>3, ClaimsTyped
<1>5. QED
  BY <1>1, <1>2, <1>4, DocSame, ActivationInLine

-----------------------------------------------------------------------------
(* The invariant.                                                          *)

LEMMA OInvInit ==
  ASSUME OutwardAssumption, Init
  PROVE  OInv
<1>1. /\ doc = [o \in Outwards |-> NoDoc] /\ claim = [a \in Claims |-> NoClaim]
      /\ \A o \in Outwards : doc[o].status = "ABSENT" /\ doc[o].reverses = None
      /\ \A a \in Claims : claim[a].status = "ABSENT"
      /\ pairs = {} /\ inward \in [Lots -> 0..MaxQty]
  BY DEF Init, NoDoc, NoClaim, OutwardAssumption
<1>2. TypeOK
  <2>1. <<>> \in Cargo
    <3>1. {} \in SUBSET Lines /\ <<>> \in [{} -> [lot: Places, qty: 1..MaxQty]]
      OBVIOUS
    <3>2. QED
      BY <3>1 DEF Cargo
  <2>2. NoDoc \in OutwardDoc
    BY <2>1 DEF NoDoc, OutwardDoc
  <2>3. NoClaim \in ClaimDoc
    BY DEF NoClaim, ClaimDoc
  <2>4. flag \in [Outwards -> [FlagTypes -> {"NONE", "OPEN", "RESOLVED"}]]
    BY DEF Init
  <2>5. QED
    BY <1>1, <2>2, <2>3, <2>4 DEF TypeOK
<1>3. \A o \in Outwards : ~Left(o) /\ ~Returned(o)
  BY <1>1 DEF Left, Returned
<1>4. SoleReversal /\ Laden /\ Heired /\ PairsLeft /\ DuplicatesReported /\ FlagsCurrent
  BY <1>1, <1>3 DEF SoleReversal, Laden, Heired, PairsLeft, DuplicatesReported, FlagsCurrent
<1>5. ClaimChain
  BY <1>1 DEF ClaimChain
<1>6. \A P : Loaded({}, P) = 0
  <2> TAKE P
  <2>1. Rows({}, P) = {}
    BY DEF Rows
  <2>2. Loaded({}, P) = Total({}, [x \in {} \X Lines |-> Take(x)], MaxQty)
    BY <2>1, LoadedRows
  <2>3. QED
    BY <2>2, TotalEmpty DEF OutwardAssumption
<1>7. \A P : Posted(P) = 0 /\ Loaded(Standing, P) = 0
  <2>1. /\ {o \in Outwards : Left(o)} = {} /\ {r \in Outwards : Returned(r)} = {}
        /\ Standing = {}
    BY <1>3 DEF Standing
  <2>2. ASSUME NEW P
        PROVE  Posted(P) = 0
    <3>1. Posted(P) = Loaded({}, P) - Loaded({}, P) /\ Loaded({}, P) = 0
      BY <1>6, <2>1 DEF Posted
    <3>2. QED
      BY <3>1
  <2>3. QED
    BY <1>6, <2>1, <2>2
<1>8. NetStanding
  BY <1>7 DEF NetStanding
<1>9. WithinInward
  <2>1. \A lot \in Lots : inward[lot] >= 0
    BY <1>1 DEF OutwardAssumption
  <2>2. Total(Lots, inward, MaxQty) \in Nat
    BY <1>1, TotalType DEF OutwardAssumption
  <2>3. QED
    BY <1>7, <2>1, <2>2 DEF WithinInward
<1>10. QED
  BY <1>2, <1>4, <1>5, <1>8, <1>9 DEF OInv

LEMMA OInvNext ==
  ASSUME OutwardAssumption, OInv, [Next]_vars
  PROVE  OInv'
<1>1. CASE \E q \in Inwards : EditInward(q)
  BY <1>1, EditInwardKeeps
<1>2. ASSUME NEW o \in Outwards,
             \/ \E c \in Cargoes, g \in Gatepasses, deal \in Deals : CreateOutward(o, c, g, deal)
             \/ \E p \in Outwards : CreateReversal(o, p)
             \/ SubmitOutward(o)
      PROVE  OInv'
  BY <1>2, DocEditKind, DocEditKeeps
<1>3. ASSUME NEW o \in Outwards, PostOutward(o)
      PROVE  OInv'
  BY <1>3, PostOutwardKeeps
<1>4. ASSUME NEW r \in Outwards, PostReversal(r)
      PROVE  OInv'
  BY <1>4, PostReversalKeeps
<1>5. ASSUME NEW a \in Claims,
             \/ \E o \in Outwards, scope \in Lines \cup {Header}, known \in Rates,
                   prior \in Claims \cup {None} : CreateClaim(a, o, scope, known, prior)
             \/ SubmitClaim(a)
             \/ RejectClaim(a)
      PROVE  OInv'
  BY <1>5, ClaimEditKind, ClaimEditKeeps
<1>6. ASSUME NEW a \in Claims, ActivateClaim(a)
      PROVE  OInv'
  BY <1>6, ActivateClaimKeeps
<1>7. CASE UNCHANGED vars
  <2>1. UNCHANGED <<inward, doc, claim, flag, pairs>>
    BY <1>7 DEF vars
  <2>2. /\ SoleReversal' /\ Laden' /\ NetStanding' /\ PairsLeft' /\ DuplicatesReported'
        /\ \A P : Posted(P)' = Posted(P)
    BY <2>1, DocSame
  <2>3. TypeOK' /\ Heired' /\ ClaimChain'
    BY <2>1 DEF OInv, TypeOK, Left, Heired, ClaimChain, Actives, SameScope
  <2>4. WithinInward'
    BY <2>1, <2>2 DEF OInv, WithinInward
  <2>5. FlagsCurrent'
    <3>1. \A x \in Outwards : /\ IsReversed(x)' = IsReversed(x) /\ Left(x)' = Left(x)
                              /\ SameClaims(x)
      BY <2>1 DEF IsReversed, Returned, Left, SameClaims
    <3>2. QED
      BY <2>1, <3>1, FlagKept, FlagsAreRight, FlagsAreRightNext DEF OInv
  <2>6. QED
    BY <2>2, <2>3, <2>4, <2>5 DEF OInv
<1>8. QED
  BY <1>1, <1>2, <1>3, <1>4, <1>5, <1>6, <1>7 DEF Next

\* Everything said of the outwards and the assertions of a container holds in
\* every state, for any events, lots and lines (outward_service.py).
THEOREM OutwardInvariant == Spec => []OInv
<1>1. Init => OInv
  BY OutwardAssumption, OInvInit
<1>2. OInv /\ [Next]_vars => OInv'
  BY OutwardAssumption, OInvNext
<1>3. QED
  BY <1>1, <1>2, PTL DEF Spec

\* Every row keeps its shape, a reversal mirrors a posted outward and an
\* assertion names a posted outward and a line of it.
THEOREM OutwardTypeCorrect == Spec => []TypeOK
<1>1. OInv => TypeOK
  BY DEF OInv
<1>2. QED
  BY <1>1, OutwardInvariant, PTL

\* Nothing leaves beyond the inward quantity of a lot or of the container, and
\* no place gets back more than left it.
THEOREM NeverPastInward == Spec => []WithinInward
<1>1. OInv => WithinInward
  BY DEF OInv
<1>2. QED
  BY <1>1, OutwardInvariant, PTL

\* Assertions on a scope succeed one another in one line, whatever snapshot a
\* rival was created from (_activate_assertion).
THEOREM ClaimsInLine == Spec => []ClaimChain
<1>1. OInv => ClaimChain
  BY DEF OInv
<1>2. QED
  BY <1>1, OutwardInvariant, PTL

\* What is wrong with an outward is on record, whatever order lines are priced
\* and outwards posted and reversed in.
THEOREM ExceptionsOnRecord == Spec => []ExceptionsCurrent
<1>1. OInv => ExceptionsCurrent
  BY DEF OInv, ExceptionsCurrent
<1>2. QED
  BY <1>1, OutwardInvariant, PTL

-----------------------------------------------------------------------------
(* The outwards as the sales know them.                                    *)

\* Outwards that left and were reversed as before are shown as before.
LEMMA ShownSame ==
  ASSUME \A o \in Outwards : Left(o)' = Left(o) /\ IsReversed(o)' = IsReversed(o)
  PROVE  shown' = shown
BY DEF shown

\* A document that is not posted yet changes nothing.
LEMMA DocEditShows ==
  ASSUME OutwardAssumption, OInv, NEW o \in Outwards, NEW n, DocEdit(o, n)
  PROVE  shown' = shown
<1>1. /\ doc'[o] = n /\ \A x \in Outwards : x # o => doc'[x] = doc[x]
      /\ doc[o].status # "POSTED" /\ n.status # "POSTED"
  BY DEF DocEdit, OInv, TypeOK
<1>2. \A x \in Outwards : Left(x)' = Left(x) /\ Returned(x)' = Returned(x)
  BY <1>1 DEF Left, Returned
<1>3. \A x, y \in Outwards : Returned(x) => doc'[x] = doc[x]
  BY <1>1 DEF Returned
<1>4. \A x \in Outwards : IsReversed(x)' = IsReversed(x)
  BY <1>2, <1>3 DEF IsReversed
<1>5. QED
  BY <1>2, <1>4, ShownSame

\* An outward that is posted has no reversal, as one names what has left.
LEMMA PostOutwardShows ==
  ASSUME OutwardAssumption, OInv, NEW o \in Outwards, PostOutward(o)
  PROVE  Physical!Posts(o)
<1>1. Posts(o) /\ doc[o].reverses = None
  BY PostOutwardPosts DEF OInv
<1>2. /\ Lefts' = Lefts \cup {o} /\ o \notin Lefts /\ ~IsReversed(o)
      /\ \A x \in Outwards : IsReversed(x)' = IsReversed(x)
  BY <1>1, OutwardTakes
<1>3. ~Left(o) /\ \A x \in Outwards : Left(x)' <=> Left(x) \/ x = o
  BY <1>2 DEF Lefts
<1>4. shown[o] = "DRAFT" /\ shown'[o] = "POSTED"
  BY <1>2, <1>3 DEF shown
<1>5. \A x \in Outwards : x # o => shown'[x] = shown[x]
  BY <1>2, <1>3 DEF shown
<1>6. shown' = [shown EXCEPT ![o] = "POSTED"]
  BY <1>4, <1>5 DEF shown
<1>7. QED
  BY <1>4, <1>6 DEF Physical!Posts

\* A reversal that is posted moves the outward it names, which nobody has
\* reversed before.
LEMMA PostReversalShows ==
  ASSUME OutwardAssumption, OInv, NEW r \in Outwards, PostReversal(r)
  PROVE  \E o \in Outwards : Physical!Reverses(o)
<1>1. PICK o \in Outwards : Posts(r) /\ doc[r].reverses = o /\ Left(o)
  BY PostReversalPosts
<1>2. /\ \A x \in Outwards : Left(x)' = Left(x)
      /\ \A x \in Outwards \ {o} : IsReversed(x)' = IsReversed(x)
      /\ IsReversed(o)'
  BY <1>1, ReversalReturns
<1>3. ~IsReversed(o)
  <2>1. o # None /\ ~Returned(r)
    BY <1>1, PostsRows DEF OutwardAssumption
  <2>2. QED
    BY <1>1, <2>1 DEF IsReversed, OInv, SoleReversal
<1>4. shown[o] = "POSTED" /\ shown'[o] = "REVERSED"
  BY <1>1, <1>2, <1>3 DEF shown
<1>5. \A x \in Outwards : x # o => shown'[x] = shown[x]
  BY <1>2 DEF shown
<1>6. shown' = [shown EXCEPT ![o] = "REVERSED"]
  BY <1>4, <1>5 DEF shown
<1>7. QED
  BY <1>4, <1>6 DEF Physical!Reverses

LEMMA StepShows ==
  ASSUME OutwardAssumption, OInv, [Next]_vars
  PROVE  [Physical!OutwardNext]_shown
<1>1. ASSUME UNCHANGED doc
      PROVE  shown' = shown
  BY <1>1, ShownSame DEF Left, Returned, IsReversed
<1>2. CASE \E q \in Inwards : EditInward(q)
  BY <1>1, <1>2 DEF EditInward
<1>3. ASSUME NEW o \in Outwards,
             \/ \E c \in Cargoes, g \in Gatepasses, deal \in Deals : CreateOutward(o, c, g, deal)
             \/ \E p \in Outwards : CreateReversal(o, p)
             \/ SubmitOutward(o)
      PROVE  shown' = shown
  BY <1>3, DocEditKind, DocEditShows
<1>4. ASSUME NEW o \in Outwards, PostOutward(o)
      PROVE  Physical!OutwardNext
  BY <1>4, PostOutwardShows DEF Physical!OutwardNext
<1>5. ASSUME NEW r \in Outwards, PostReversal(r)
      PROVE  Physical!OutwardNext
  BY <1>5, PostReversalShows DEF Physical!OutwardNext
<1>6. CASE \E a \in Claims :
             \/ \E o \in Outwards, scope \in Lines \cup {Header}, known \in Rates,
                   prior \in Claims \cup {None} : CreateClaim(a, o, scope, known, prior)
             \/ SubmitClaim(a) \/ RejectClaim(a) \/ ActivateClaim(a)
  BY <1>1, <1>6 DEF CreateClaim, SubmitClaim, RejectClaim, ActivateClaim
<1>7. CASE UNCHANGED vars
  BY <1>1, <1>7 DEF vars
<1>8. QED
  BY <1>2, <1>3, <1>4, <1>5, <1>6, <1>7 DEF Next

\* The outwards and the reversals of a container implement the outwards the
\* sales allocate from, for any source events (_outward_active).
THEOREM ImplementsOutwards == Spec => KeepsOutwards
<1>1. Init => Physical!OutwardInit
  <2>1. Init => \A o \in Outwards : ~Left(o)
    BY DEF Init, NoDoc, Left
  <2>2. QED
    BY <2>1 DEF Physical!OutwardInit, shown
<1>2. OInv /\ [Next]_vars => [Physical!OutwardNext]_shown
  BY OutwardAssumption, StepShows
<1>3. QED
  BY <1>1, <1>2, OutwardInvariant, PTL DEF Spec, KeepsOutwards, Physical!OutwardSpec

=============================================================================
