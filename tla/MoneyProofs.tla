---------------------------- MODULE MoneyProofs ----------------------------
(***************************************************************************)
(* What is proved of MoneyLedger for any number of documents, sales and    *)
(* customers and any amounts: receipts, adjustments and sales are never    *)
(* drawn beyond what they hold, stored totals and exceptions are current,  *)
(* what was decided takes effect once, and money stands where it is owed.  *)
(***************************************************************************)
EXTENDS MoneyLedger, TotalsProofs

\* Row x of table t took effect.
Took(t, x) == t[x].status \in {"APPROVED", "REVERSED"}

\* A row corrects one that exists, and one that took effect is the successor
\* of the row it corrects.
Linked(t) ==
  \A x \in DOMAIN t : t[x].supersedes # None =>
    /\ t[t[x].supersedes].status # "ABSENT"
    /\ Took(t, x) => t[t[x].supersedes].successor = x

\* Documents that exist name what they draw on, and who owes; a correction
\* draws on the receipt, or the adjustment, of the row it corrects.
AllocsFormed(a) ==
  \A x \in Allocations : a[x].status # "ABSENT" =>
    /\ a[x].collection \in Collections
    /\ a[x].sale # None => a[x].customer # NoCustomer
    /\ a[x].supersedes # None => a[a[x].supersedes].collection = a[x].collection
AppsFormed(p) ==
  \A x \in Applications : p[x].status # "ABSENT" =>
    /\ p[x].adjustment \in Adjustments /\ p[x].sale \in Sales
    /\ p[x].customer # NoCustomer
    /\ p[x].supersedes # None => p[p[x].supersedes].adjustment = p[x].adjustment
AdjsFormed(t) == \A j \in Adjustments : t[j].status # "ABSENT" => t[j].customer # NoCustomer
CollsFormed(t) ==
  \A c \in Collections : t[c].status # "ABSENT" =>
    /\ t[c].identity \in Identities
    /\ t[c].supersedes # None => t[t[c].supersedes].status # "ABSENT"
Formed == AllocsFormed(alloc) /\ AppsFormed(app) /\ AdjsFormed(adj) /\ CollsFormed(coll)

\* An approved receipt holds its transaction identity alone.
Identified ==
  /\ \A c \in Approved(coll) : coll[c].active = coll[c].identity
  /\ IdentityUnique

MInv ==
  /\ TypeOK /\ Formed /\ Linked(alloc) /\ Linked(app)
  /\ Identified
  /\ DrawnOnce /\ TotalsCurrent /\ ExceptionsCurrent /\ SettledWhereOwed

-----------------------------------------------------------------------------
(* Sums of rows.                                                           *)

\* Table t has rows over the finite set D whose amounts are bounded.
Priced(t, D) ==
  /\ IsFiniteSet(D) /\ DOMAIN t = D
  /\ \A x \in D : t[x].amount \in 0..MaxAmount

LEMMA SumType ==
  ASSUME NEW t, NEW D, Priced(t, D), NEW S \in SUBSET D
  PROVE  SumOf(S, t) \in Nat
<1>1. IsFiniteSet(S) BY FS_Subset DEF Priced
<1> QED BY <1>1, TotalType, MoneyAssumption DEF SumOf

\* Rows that keep their amounts keep their sum.
LEMMA SumSame ==
  ASSUME NEW t, NEW u, NEW S, \A x \in S : u[x].amount = t[x].amount
  PROVE  SumOf(S, u) = SumOf(S, t)
<1> DEFINE f == [x \in S |-> t[x].amount]
           g == [x \in S |-> u[x].amount]
<1>1. \A x \in S : f[x] = g[x] OBVIOUS
<1> HIDE DEF f, g
<1>2. Total(S, f, MaxAmount) = Total(S, g, MaxAmount) BY <1>1, TotalSame
<1> QED BY <1>2 DEF SumOf, f, g

LEMMA SumSub ==
  ASSUME NEW t, NEW D, Priced(t, D), NEW S \in SUBSET D, NEW R \in SUBSET S
  PROVE  SumOf(R, t) <= SumOf(S, t)
<1> DEFINE f == [x \in R |-> t[x].amount]
           g == [x \in S |-> t[x].amount]
<1>1. f \in [R -> 0..MaxAmount] /\ g \in [S -> 0..MaxAmount] /\ \A x \in R : f[x] <= g[x]
  <2>1. \A x \in S : t[x].amount \in 0..MaxAmount BY DEF Priced
  <2> QED BY <2>1, MoneyAssumption
<1>2. IsFiniteSet(S) BY FS_Subset DEF Priced
<1> HIDE DEF f, g
<1>3. Total(R, f, MaxAmount) <= Total(S, g, MaxAmount)
  BY <1>1, <1>2, TotalMonotone, MoneyAssumption
<1> QED BY <1>3 DEF SumOf, f, g

LEMMA SumAdd ==
  ASSUME NEW t, NEW D, Priced(t, D), NEW S \in SUBSET D, NEW x \in D \ S
  PROVE  SumOf(S \cup {x}, t) = SumOf(S, t) + t[x].amount
<1> DEFINE T == S \cup {x}
           f == [y \in T |-> t[y].amount]
           g == [y \in S |-> t[y].amount]
<1>1. f \in [T -> 0..MaxAmount] /\ (\A y \in S : f[y] = g[y]) /\ f[x] = t[x].amount
  BY DEF Priced
<1>2. IsFiniteSet(T) BY FS_Subset DEF Priced
<1>3. T \ {x} = S /\ x \in T OBVIOUS
<1> HIDE DEF f, g, T
<1>4. Total(T, f, MaxAmount) = Total(T \ {x}, f, MaxAmount) + f[x]
  BY <1>1, <1>2, <1>3, TotalSplit, MoneyAssumption
<1>5. Total(S, f, MaxAmount) = Total(S, g, MaxAmount) BY <1>1, TotalSame
<1> QED BY <1>1, <1>3, <1>4, <1>5 DEF SumOf, f, g, T

LEMMA SumEmpty == ASSUME NEW t PROVE SumOf({}, t) = 0
<1> DEFINE f == [x \in {} |-> t[x].amount]
<1>1. Units({}, f, MaxAmount) = {} BY DEF Units
<1>2. Total({}, f, MaxAmount) = 0 BY <1>1, FS_EmptySet DEF Total
<1> QED BY <1>2 DEF SumOf

-----------------------------------------------------------------------------
(* What a step may do to a table of rows.                                  *)

\* From t to u the rows of S stop being approved and no row starts.
Shrunk(t, u, S) ==
  /\ DOMAIN u = DOMAIN t /\ Approved(u) = Approved(t) \ S
  /\ \A x \in Approved(u) : u[x] = t[x]

\* From t to u row x becomes approved and p, if there is one, stops being so.
Grown(t, u, x, p) ==
  /\ DOMAIN u = DOMAIN t /\ x \in DOMAIN t \ Approved(t) /\ x # p
  /\ Approved(u) = (Approved(t) \ {p}) \cup {x}
  /\ \A y \in Approved(t) \ {p} : u[y] = t[y]
  /\ u[x] = [t[x] EXCEPT !.status = "APPROVED"]

LEMMA Shrinks ==
  ASSUME NEW t, NEW u, NEW D, NEW S, Priced(t, D), Shrunk(t, u, S),
         NEW G \in SUBSET Approved(t)
  PROVE  /\ SumOf(G \ S, u) \in Nat /\ SumOf(G, t) \in Nat
         /\ SumOf(G \ S, u) <= SumOf(G, t)
         /\ G \cap S = {} => SumOf(G \ S, u) = SumOf(G, t)
<1>1. G \subseteq D /\ G \ S \subseteq D BY DEF Approved, Priced
<1>2. \A x \in G \ S : u[x].amount = t[x].amount BY DEF Shrunk
<1>3. SumOf(G \ S, u) = SumOf(G \ S, t) BY <1>2, SumSame
<1>4. SumOf(G \ S, t) \in Nat /\ SumOf(G, t) \in Nat BY <1>1, SumType
<1>5. SumOf(G \ S, t) <= SumOf(G, t) BY <1>1, SumSub
<1>6. G \cap S = {} => G \ S = G OBVIOUS
<1> QED BY <1>3, <1>4, <1>5, <1>6

\* What the sum over approved rows G becomes when x replaces p.
Raised(t, u, x, p, G) ==
  /\ SumOf(G \ {p}, u) = SumOf(G \ {p}, t)
  /\ SumOf(G \ {p}, t) \in Nat /\ SumOf(G, t) \in Nat
  /\ SumOf(G \ {p}, t) <= SumOf(G, t)
  /\ SumOf((G \ {p}) \cup {x}, u) = SumOf(G \ {p}, t) + t[x].amount

LEMMA Grows ==
  ASSUME NEW t, NEW u, NEW D, NEW x, NEW p, Priced(t, D), Grown(t, u, x, p),
         NEW G \in SUBSET Approved(t)
  PROVE  Raised(t, u, x, p, G)
<1>1. G \subseteq D /\ G \ {p} \subseteq D /\ x \in D \ (G \ {p})
  BY DEF Approved, Priced, Grown
<1>2. \A y \in (G \ {p}) \cup {x} : u[y].amount = t[y].amount
  <2>1. u[x].amount = t[x].amount BY DEF Grown
  <2> QED BY <2>1 DEF Grown
<1>3. SumOf(G \ {p}, u) = SumOf(G \ {p}, t) BY <1>2, SumSame
<1>4. SumOf((G \ {p}) \cup {x}, u) = SumOf((G \ {p}) \cup {x}, t) BY <1>2, SumSame
<1>5. SumOf((G \ {p}) \cup {x}, t) = SumOf(G \ {p}, t) + t[x].amount BY <1>1, SumAdd
<1>6. SumOf(G \ {p}, t) \in Nat /\ SumOf(G, t) \in Nat BY <1>1, SumType
<1>7. SumOf(G \ {p}, t) <= SumOf(G, t) BY <1>1, SumSub
<1> QED BY <1>3, <1>4, <1>5, <1>6, <1>7 DEF Raised

\* The rows that draw on one document shrink and grow with the table.
LEMMA ShrunkGroups ==
  ASSUME NEW t, NEW u, NEW S, Shrunk(t, u, S), NEW c
  PROVE  /\ AllocsOf(u, c) = AllocsOf(t, c) \ S /\ ParkedOf(u, c) = ParkedOf(t, c) \ S
         /\ PaymentsOf(u, c) = PaymentsOf(t, c) \ S
         /\ AppsOf(u, c) = AppsOf(t, c) \ S /\ DiscountsOf(u, c) = DiscountsOf(t, c) \ S
BY DEF Shrunk, AllocsOf, ParkedOf, PaymentsOf, AppsOf, DiscountsOf

LEMMA GrownGroups ==
  ASSUME NEW t, NEW u, NEW x, NEW p, Grown(t, u, x, p), NEW c
  PROVE  /\ AllocsOf(u, c) =
              (AllocsOf(t, c) \ {p}) \cup (IF t[x].collection = c THEN {x} ELSE {})
         /\ PaymentsOf(u, c) =
              (PaymentsOf(t, c) \ {p}) \cup (IF t[x].sale = c THEN {x} ELSE {})
         /\ AppsOf(u, c) =
              (AppsOf(t, c) \ {p}) \cup (IF t[x].adjustment = c THEN {x} ELSE {})
         /\ DiscountsOf(u, c) =
              (DiscountsOf(t, c) \ {p}) \cup (IF t[x].sale = c THEN {x} ELSE {})
<1>1. /\ u[x].collection = t[x].collection /\ u[x].sale = t[x].sale
      /\ u[x].adjustment = t[x].adjustment
  BY DEF Grown
<1>2. Approved(u) = (Approved(t) \ {p}) \cup {x} /\ x \notin Approved(t)
      /\ \A y \in Approved(t) \ {p} : u[y] = t[y]
  BY DEF Grown
<1>3. AllocsOf(u, c) =
        (AllocsOf(t, c) \ {p}) \cup (IF t[x].collection = c THEN {x} ELSE {})
  BY <1>1, <1>2 DEF AllocsOf
<1>4. PaymentsOf(u, c) =
        (PaymentsOf(t, c) \ {p}) \cup (IF t[x].sale = c THEN {x} ELSE {})
  BY <1>1, <1>2 DEF PaymentsOf
<1>5. AppsOf(u, c) =
        (AppsOf(t, c) \ {p}) \cup (IF t[x].adjustment = c THEN {x} ELSE {})
  BY <1>1, <1>2 DEF AppsOf
<1>6. DiscountsOf(u, c) =
        (DiscountsOf(t, c) \ {p}) \cup (IF t[x].sale = c THEN {x} ELSE {})
  BY <1>1, <1>2 DEF DiscountsOf
<1> QED BY <1>3, <1>4, <1>5, <1>6

-----------------------------------------------------------------------------
(* Rows on their way: each step keeps Linked and says what it approves.    *)

\* A table of the documents D.
Table(t, D) ==
  /\ DOMAIN t = D /\ None \notin D
  /\ \A x \in D : /\ t[x].supersedes \in D \cup {None}
                  /\ {"status", "supersedes", "successor"} \subseteq DOMAIN t[x]

LEMMA Created ==
  ASSUME NEW t, NEW D, Table(t, D), Linked(t), NEW x \in D, t[x].status = "ABSENT",
         NEW r, r.status = "DRAFT", r.supersedes \in D \cup {None},
         r.supersedes # None => t[r.supersedes].status # "ABSENT"
  PROVE  Linked([t EXCEPT ![x] = r]) /\ Shrunk(t, [t EXCEPT ![x] = r], {})
<1> DEFINE u == [t EXCEPT ![x] = r]
<1>1. DOMAIN u = D /\ u[x] = r /\ \A y \in D \ {x} : u[y] = t[y] BY DEF Table
<1> HIDE DEF u
<1>2. Shrunk(t, u, {}) BY <1>1 DEF Shrunk, Approved, Table
<1>3. ASSUME NEW y \in D, u[y].supersedes # None
      PROVE  /\ u[u[y].supersedes].status # "ABSENT"
             /\ Took(u, y) => u[u[y].supersedes].successor = y
  <2>1. CASE y = x
    <3>1. r.supersedes \in D \ {x} BY <1>1, <1>3, <2>1
    <3> QED BY <1>1, <1>3, <2>1, <3>1 DEF Took
  <2>2. CASE y # x
    <3>1. u[y] = t[y] /\ t[t[y].supersedes].status # "ABSENT"
      BY <1>1, <1>3, <2>2 DEF Linked, Table
    <3>2. t[y].supersedes \in D \ {x} BY <1>3, <3>1 DEF Table
    <3> QED BY <1>1, <1>3, <3>1, <3>2 DEF Linked, Took, Table
  <2> QED BY <2>1, <2>2
<1> QED BY <1>1, <1>2, <1>3 DEF Linked, u

LEMMA Moved ==
  ASSUME NEW t, NEW D, Table(t, D), Linked(t), NEW x \in D, t[x].status \in Pending,
         NEW to \in {"REVIEW_PENDING", "VERIFIED", "REJECTED"}
  PROVE  /\ Linked([t EXCEPT ![x].status = to])
         /\ Shrunk(t, [t EXCEPT ![x].status = to], {})
<1> DEFINE u == [t EXCEPT ![x].status = to]
<1>1. /\ DOMAIN u = D /\ \A y \in D \ {x} : u[y] = t[y]
      /\ u[x] = [t[x] EXCEPT !.status = to]
  BY DEF Table
<1> HIDE DEF u
<1>2. \A y \in D : /\ u[y].supersedes = t[y].supersedes
                   /\ u[y].successor = t[y].successor
  BY <1>1 DEF Table
<1>3. u[x].status = to BY <1>1 DEF Table
<1>4. Shrunk(t, u, {}) BY <1>1, <1>3 DEF Shrunk, Approved, Table, Pending
<1>5. Linked(u)
  BY <1>1, <1>2, <1>3 DEF Linked, Took, Table, Pending
<1> QED BY <1>4, <1>5 DEF u

LEMMA Reverts ==
  ASSUME NEW t, NEW D, Table(t, D), Linked(t), NEW S \in SUBSET Approved(t)
  PROVE  Linked(Reversed(t, S)) /\ Shrunk(t, Reversed(t, S), S)
<1> DEFINE u == Reversed(t, S)
<1>1. /\ DOMAIN u = D /\ S \subseteq D /\ \A y \in D \ S : u[y] = t[y]
      /\ \A x \in S : u[x] = [t[x] EXCEPT !.status = "REVERSED"]
  BY DEF Table, Reversed, Approved
<1>2. \A x \in S : t[x].status = "APPROVED" BY DEF Approved
<1> HIDE DEF u
<1>3. /\ \A y \in D : /\ u[y].supersedes = t[y].supersedes
                      /\ u[y].successor = t[y].successor
      /\ \A x \in S : u[x].status = "REVERSED"
  BY <1>1 DEF Table
<1>4. Shrunk(t, u, S) BY <1>1, <1>3 DEF Shrunk, Approved, Table
<1>5. \A y \in D : /\ Took(u, y) <=> Took(t, y)
                   /\ u[y].status = "ABSENT" <=> t[y].status = "ABSENT"
  <2> TAKE y \in D
  <2>1. CASE y \in S BY <2>1, <1>2, <1>3 DEF Took
  <2>2. CASE y \notin S BY <2>2, <1>1 DEF Took
  <2> QED BY <2>1, <2>2
<1>6. Linked(u)
  <2> SUFFICES ASSUME NEW y \in D, u[y].supersedes # None
               PROVE  /\ u[u[y].supersedes].status # "ABSENT"
                      /\ Took(u, y) => u[u[y].supersedes].successor = y
      BY <1>1 DEF Linked
  <2>1. u[y].supersedes = t[y].supersedes /\ t[y].supersedes \in D
    BY <1>3 DEF Table
  <2> QED BY <2>1, <1>3, <1>5 DEF Linked, Table
<1> QED BY <1>4, <1>6 DEF u

\* A verified row that may replace what it corrects.
LEMMA Replaces ==
  ASSUME NEW t, NEW D, Table(t, D), Linked(t), NEW x \in D, t[x].status = "VERIFIED",
         t[x].supersedes # None => Replaceable(t, t[x].supersedes)
  PROVE  /\ Linked(Replacing(t, x))
         /\ Grown(t, Replacing(t, x), x, t[x].supersedes)
<1> DEFINE u == Replacing(t, x)
           p == t[x].supersedes
<1>1. p \in (D \ {x}) \cup {None} /\ x # None BY DEF Table, Replaceable
<1>2. /\ DOMAIN u = D /\ u[x] = [t[x] EXCEPT !.status = "APPROVED"]
      /\ \A y \in D \ {x, p} : u[y] = t[y]
      /\ p # None => u[p] = [t[p] EXCEPT !.status = "REVERSED", !.successor = x]
  BY <1>1 DEF Table, Replacing
<1>3. /\ u[x].status = "APPROVED" /\ u[x].supersedes = p
      /\ u[x].successor = t[x].successor
      /\ p # None => /\ u[p].status = "REVERSED" /\ u[p].successor = x
                     /\ u[p].supersedes = t[p].supersedes
                     /\ Took(t, p) /\ t[p].successor = None
  BY <1>1, <1>2 DEF Table, Replaceable, Took
<1> HIDE DEF u
<1>4. Grown(t, u, x, p)
  <2>1. x \in DOMAIN t \ Approved(t) /\ DOMAIN u = DOMAIN t BY <1>2 DEF Table, Approved
  <2>2. \A y \in D \ {x, p} : y \in Approved(u) <=> y \in Approved(t)
    BY <1>2 DEF Approved, Table
  <2>3. x \in Approved(u) /\ p \notin Approved(u) BY <1>1, <1>2, <1>3 DEF Approved, Table
  <2>4. Approved(u) = (Approved(t) \ {p}) \cup {x}
    BY <2>1, <2>2, <2>3, <1>2 DEF Approved, Table
  <2>5. \A y \in Approved(t) \ {p} : u[y] = t[y]
    BY <1>2, <2>1 DEF Approved, Table
  <2> QED BY <1>1, <1>2, <2>1, <2>4, <2>5 DEF Grown
<1>5. Linked(u)
  <2> SUFFICES ASSUME NEW y \in D, u[y].supersedes # None
               PROVE  /\ u[u[y].supersedes].status # "ABSENT"
                      /\ Took(u, y) => u[u[y].supersedes].successor = y
      BY <1>2 DEF Linked
  <2> DEFINE q == u[y].supersedes
  <2>1. q = t[y].supersedes /\ q \in D /\ t[q].status # "ABSENT"
    BY <1>2, <1>3 DEF Linked, Table
  <2>2. u[q].status # "ABSENT" BY <1>2, <1>3, <2>1
  <2>3. ASSUME Took(u, y) PROVE u[q].successor = y
    <3>1. CASE y = x BY <3>1, <1>3, <2>1
    <3>2. CASE y # x
      <4>1. Took(t, y) BY <3>2, <2>3, <1>2, <1>3 DEF Took, Table
      <4>2. t[q].successor = y BY <4>1, <2>1 DEF Linked, Table
      <4>3. q # p \/ p = None BY <4>2, <1>3, <2>1 DEF Table
      <4> QED BY <4>2, <4>3, <1>1, <1>2, <1>3, <2>1 DEF Table
    <3> QED BY <3>1, <3>2
  <2> QED BY <2>2, <2>3
<1> QED BY <1>4, <1>5 DEF u

-----------------------------------------------------------------------------
(* The parts of the invariant over steps in which no row is approved.      *)

Rows(a, p) == a \in [Allocations -> AllocRow] /\ p \in [Applications -> AppRow]

LEMMA RowsTables ==
  ASSUME NEW a, NEW p, Rows(a, p)
  PROVE  /\ Table(a, Allocations) /\ Priced(a, Allocations)
         /\ Table(p, Applications) /\ Priced(p, Applications)
BY MoneyAssumption DEF Rows, Table, Priced, AllocRow, AppRow

\* Receipts and adjustments keep what their rows were approved against.
LEMMA CapsShrink ==
  ASSUME TypeOK, DrawnOnce, Rows(alloc', app'),
         coll' \in [Collections -> CollRow], adj' \in [Adjustments -> AdjRow],
         NEW S, NEW R, Shrunk(alloc, alloc', S), Shrunk(app, app', R),
         \A c \in Collections : AllocsOf(alloc, c) \ S # {} =>
           coll'[c].status = coll[c].status /\ coll'[c].amount = coll[c].amount,
         \A j \in Adjustments : AppsOf(app, j) \ R # {} =>
           adj'[j].status = adj[j].status /\ adj'[j].amount = adj[j].amount
  PROVE  DrawnOnce'
<1>1. Rows(alloc, app) BY DEF Rows, TypeOK
<1>2. Priced(alloc, Allocations) /\ Priced(app, Applications) BY <1>1, RowsTables
<1>3. \A c : /\ AllocsOf(alloc, c) \subseteq Approved(alloc)
             /\ PaymentsOf(alloc, c) \subseteq Approved(alloc)
             /\ AppsOf(app, c) \subseteq Approved(app)
             /\ DiscountsOf(app, c) \subseteq Approved(app)
  BY DEF AllocsOf, PaymentsOf, AppsOf, DiscountsOf
<1>4. ReceiptCap'
  <2> SUFFICES ASSUME NEW c \in Collections
               PROVE  /\ SumOf(AllocsOf(alloc', c), alloc') <= coll'[c].amount
                      /\ AllocsOf(alloc', c) # {} => coll'[c].status = "APPROVED"
      BY DEF ReceiptCap
  <2>1. AllocsOf(alloc', c) = AllocsOf(alloc, c) \ S BY ShrunkGroups
  <2>2. /\ SumOf(AllocsOf(alloc', c), alloc') \in Nat /\ SumOf(AllocsOf(alloc, c), alloc) \in Nat
        /\ SumOf(AllocsOf(alloc', c), alloc') <= SumOf(AllocsOf(alloc, c), alloc)
    <3> DEFINE G == AllocsOf(alloc, c)
    <3>1. G \in SUBSET Approved(alloc) BY <1>3
    <3> HIDE DEF G
    <3>2. /\ SumOf(G \ S, alloc') \in Nat /\ SumOf(G, alloc) \in Nat
          /\ SumOf(G \ S, alloc') <= SumOf(G, alloc)
      BY <1>2, <3>1, Shrinks
    <3> QED BY <2>1, <3>2 DEF G
  <2>3. coll[c].amount \in Nat /\ coll'[c].amount \in Nat
    BY MoneyAssumption DEF TypeOK, CollRow
  <2>4. /\ SumOf(AllocsOf(alloc, c), alloc) <= coll[c].amount
        /\ AllocsOf(alloc, c) # {} => coll[c].status = "APPROVED"
    BY DEF DrawnOnce, ReceiptCap
  <2>5. CASE AllocsOf(alloc', c) = {} BY <2>5, <2>3, SumEmpty
  <2>6. CASE AllocsOf(alloc', c) # {} BY <2>6, <2>1, <2>2, <2>3, <2>4
  <2> QED BY <2>5, <2>6
<1>5. AdjustmentCap'
  <2> SUFFICES ASSUME NEW j \in Adjustments
               PROVE  /\ SumOf(AppsOf(app', j), app') <= adj'[j].amount
                      /\ AppsOf(app', j) # {} => adj'[j].status = "APPROVED"
      BY DEF AdjustmentCap
  <2>1. AppsOf(app', j) = AppsOf(app, j) \ R BY ShrunkGroups
  <2>2. /\ SumOf(AppsOf(app', j), app') \in Nat /\ SumOf(AppsOf(app, j), app) \in Nat
        /\ SumOf(AppsOf(app', j), app') <= SumOf(AppsOf(app, j), app)
    <3> DEFINE G == AppsOf(app, j)
    <3>1. G \in SUBSET Approved(app) BY <1>3
    <3> HIDE DEF G
    <3>2. /\ SumOf(G \ R, app') \in Nat /\ SumOf(G, app) \in Nat
          /\ SumOf(G \ R, app') <= SumOf(G, app)
      BY <1>2, <3>1, Shrinks
    <3> QED BY <2>1, <3>2 DEF G
  <2>3. adj[j].amount \in Nat /\ adj'[j].amount \in Nat
    BY MoneyAssumption DEF TypeOK, AdjRow
  <2>4. /\ SumOf(AppsOf(app, j), app) <= adj[j].amount
        /\ AppsOf(app, j) # {} => adj[j].status = "APPROVED"
    BY DEF DrawnOnce, AdjustmentCap
  <2>5. CASE AppsOf(app', j) = {} BY <2>5, <2>3, SumEmpty
  <2>6. CASE AppsOf(app', j) # {} BY <2>6, <2>1, <2>2, <2>3, <2>4
  <2> QED BY <2>5, <2>6
<1>6. SaleCap'
  <2> SUFFICES ASSUME NEW s \in Sales
               PROVE  SumOf(PaymentsOf(alloc', s), alloc') + SumOf(DiscountsOf(app', s), app')
                        <= Gross[s]
      BY DEF SaleCap
  <2>0. PaymentsOf(alloc', s) = PaymentsOf(alloc, s) \ S BY ShrunkGroups
  <2>1. DiscountsOf(app', s) = DiscountsOf(app, s) \ R BY ShrunkGroups
  <2>2. /\ SumOf(PaymentsOf(alloc', s), alloc') \in Nat
        /\ SumOf(PaymentsOf(alloc, s), alloc) \in Nat
        /\ SumOf(PaymentsOf(alloc', s), alloc') <= SumOf(PaymentsOf(alloc, s), alloc)
    BY <1>2, <1>3, <2>0, Shrinks
  <2>3. /\ SumOf(DiscountsOf(app', s), app') \in Nat
        /\ SumOf(DiscountsOf(app, s), app) \in Nat
        /\ SumOf(DiscountsOf(app', s), app') <= SumOf(DiscountsOf(app, s), app)
    BY <1>2, <1>3, <2>1, Shrinks
  <2>4. Gross[s] \in Nat BY MoneyAssumption
  <2>5. SumOf(PaymentsOf(alloc, s), alloc) + SumOf(DiscountsOf(app, s), app) <= Gross[s]
    BY DEF DrawnOnce, SaleCap
  <2> QED BY <2>2, <2>3, <2>4, <2>5
<1> QED BY <1>4, <1>5, <1>6 DEF DrawnOnce

\* What loses a row is summed again, the rest keeps its totals.
LEMMA TotalsShrink ==
  ASSUME TypeOK, TotalsCurrent, Rows(alloc', app'),
         NEW S, NEW R, Shrunk(alloc, alloc', S), Shrunk(app, app', R),
         \A c \in Collections :
           \/ /\ AllocsOf(alloc, c) \cap S = {}
              /\ coll'[c].allocated = coll[c].allocated /\ coll'[c].parked = coll[c].parked
           \/ /\ coll'[c].allocated = SumOf(AllocsOf(alloc', c), alloc')
              /\ coll'[c].parked = SumOf(ParkedOf(alloc', c), alloc'),
         \A j \in Adjustments :
           \/ AppsOf(app, j) \cap R = {} /\ adj'[j].applied = adj[j].applied
           \/ adj'[j].applied = SumOf(AppsOf(app', j), app')
  PROVE  TotalsCurrent'
<1>1. Rows(alloc, app) BY DEF Rows, TypeOK
<1>2. Priced(alloc, Allocations) /\ Priced(app, Applications) BY <1>1, RowsTables
<1>3. \A c : /\ AllocsOf(alloc, c) \subseteq Approved(alloc)
             /\ ParkedOf(alloc, c) \subseteq AllocsOf(alloc, c)
             /\ AppsOf(app, c) \subseteq Approved(app)
  BY DEF AllocsOf, ParkedOf, AppsOf
<1>4. ASSUME NEW c \in Collections
      PROVE  /\ coll'[c].allocated = SumOf(AllocsOf(alloc', c), alloc')
             /\ coll'[c].parked = SumOf(ParkedOf(alloc', c), alloc')
  <2>1. /\ AllocsOf(alloc', c) = AllocsOf(alloc, c) \ S
        /\ ParkedOf(alloc', c) = ParkedOf(alloc, c) \ S
    BY ShrunkGroups
  <2>2. AllocsOf(alloc, c) \cap S = {} => ParkedOf(alloc, c) \cap S = {} BY <1>3
  <2>3. AllocsOf(alloc, c) \cap S = {} =>
          SumOf(AllocsOf(alloc', c), alloc') = SumOf(AllocsOf(alloc, c), alloc)
    BY <1>2, <1>3, <2>1, Shrinks
  <2>4. AllocsOf(alloc, c) \cap S = {} =>
          SumOf(ParkedOf(alloc', c), alloc') = SumOf(ParkedOf(alloc, c), alloc)
    <3>1. ParkedOf(alloc, c) \in SUBSET Approved(alloc) BY <1>3
    <3> QED BY <1>2, <3>1, <2>1, <2>2, Shrinks
  <2> QED BY <2>3, <2>4 DEF TotalsCurrent
<1>5. ASSUME NEW j \in Adjustments PROVE adj'[j].applied = SumOf(AppsOf(app', j), app')
  <2>1. AppsOf(app', j) = AppsOf(app, j) \ R BY ShrunkGroups
  <2>2. AppsOf(app, j) \cap R = {} =>
          SumOf(AppsOf(app', j), app') = SumOf(AppsOf(app, j), app)
    BY <1>2, <1>3, <2>1, Shrinks
  <2> QED BY <2>2 DEF TotalsCurrent
<1> QED BY <1>4, <1>5 DEF TotalsCurrent

\* The exceptions of a receipt that is saved are refreshed.
LEMMA ExceptionsRefreshed ==
  ASSUME ExceptionsCurrent,
         \A c \in Collections :
           \/ exc'[c] = Flags(coll'[c])
           \/ /\ exc'[c] = exc[c] /\ coll'[c] = coll[c]
              /\ c \in lapsed => c \in lapsed'
  PROVE  ExceptionsCurrent'
<1> SUFFICES ASSUME NEW c \in Collections
             PROVE  /\ exc'[c] \subseteq Flags(coll'[c])
                    /\ Flags(coll'[c]) \ exc'[c] \subseteq
                         IF c \in lapsed' THEN {"MONEY_UNALLOCATED"} ELSE {}
    BY DEF ExceptionsCurrent
<1>1. CASE exc'[c] = Flags(coll'[c]) BY <1>1
<1>2. CASE /\ exc'[c] = exc[c] /\ coll'[c] = coll[c]
           /\ c \in lapsed => c \in lapsed'
  BY <1>2 DEF ExceptionsCurrent
<1> QED BY <1>1, <1>2

\* A sale that moves was not approved, or has lost its rows.
LEMMA SettledShrink ==
  ASSUME TypeOK, Formed, SettledWhereOwed,
         NEW S, NEW R, Shrunk(alloc, alloc', S), Shrunk(app, app', R),
         \A s \in Sales :
           \/ sale'[s] = sale[s]
           \/ sale[s].status # "APPROVED"
           \/ PaymentsOf(alloc, s) \subseteq S /\ DiscountsOf(app, s) \subseteq R
           \/ sale[s].customer = NoCustomer
  PROVE  SettledWhereOwed'
<1>1. ASSUME NEW x \in Approved(alloc'), alloc'[x].sale # None
      PROVE  sale'[alloc'[x].sale] =
               [status |-> "APPROVED", customer |-> alloc'[x].customer]
  <2>1. /\ alloc'[x] = alloc[x] /\ x \in Approved(alloc) \ S
        /\ x \in Allocations /\ alloc[x].sale \in Sales
    BY <1>1 DEF Shrunk, Approved, TypeOK, AllocRow
  <2>2. sale[alloc[x].sale] = [status |-> "APPROVED", customer |-> alloc[x].customer]
    BY <1>1, <2>1 DEF SettledWhereOwed
  <2>3. x \in PaymentsOf(alloc, alloc[x].sale) BY <2>1 DEF PaymentsOf
  <2>4. alloc[x].customer # NoCustomer
    BY <1>1, <2>1 DEF Formed, AllocsFormed, Approved
  <2> QED BY <2>1, <2>2, <2>3, <2>4
<1>2. ASSUME NEW x \in Approved(app')
      PROVE  sale'[app'[x].sale] = [status |-> "APPROVED", customer |-> app'[x].customer]
  <2>1. app'[x] = app[x] /\ x \in Approved(app) \ R /\ x \in Applications
    BY <1>2 DEF Shrunk, Approved, TypeOK
  <2>2. app[x].sale \in Sales /\ app[x].customer # NoCustomer
    BY <2>1 DEF Formed, AppsFormed, Approved
  <2>3. sale[app[x].sale] = [status |-> "APPROVED", customer |-> app[x].customer]
    BY <2>1 DEF SettledWhereOwed
  <2>4. x \in DiscountsOf(app, app[x].sale) BY <2>1 DEF DiscountsOf
  <2> QED BY <2>1, <2>2, <2>3, <2>4
<1> QED BY <1>1, <1>2 DEF SettledWhereOwed

-----------------------------------------------------------------------------
(* Steps.                                                                  *)

LEMMA MoneyStart == Init => MInv
<1> SUFFICES ASSUME Init PROVE MInv
    OBVIOUS
<1>1. TypeOK
  BY MoneyAssumption DEF Init, TypeOK, RegisterInit, SaleRow, CollRow, AllocRow, AdjRow, AppRow,
     Statuses, Pending, ReceiptKinds, MoneyExceptions
<1>2. Approved(alloc) = {} /\ Approved(app) = {} /\ Approved(coll) = {} BY DEF Init, Approved
<1>3. Formed /\ Linked(alloc) /\ Linked(app)
  BY DEF Init, Formed, AllocsFormed, AppsFormed, AdjsFormed, CollsFormed, Linked
<1>4. Identified BY <1>2 DEF Identified, IdentityUnique
<1>5. /\ \A c \in Collections : coll[c].amount = 0 /\ coll[c].allocated = 0 /\ coll[c].parked = 0
      /\ \A j \in Adjustments : adj[j].amount = 0 /\ adj[j].applied = 0
      /\ \A s \in Sales : Gross[s] \in Nat
  BY MoneyAssumption DEF Init
<1>6. \A c : /\ AllocsOf(alloc, c) = {} /\ ParkedOf(alloc, c) = {}
             /\ PaymentsOf(alloc, c) = {} /\ AppsOf(app, c) = {} /\ DiscountsOf(app, c) = {}
  BY <1>2 DEF AllocsOf, ParkedOf, PaymentsOf, AppsOf, DiscountsOf
<1>7. SumOf({}, alloc) = 0 /\ SumOf({}, app) = 0 BY SumEmpty
<1>8. DrawnOnce
  <2>1. \A c : /\ SumOf(AllocsOf(alloc, c), alloc) = 0 /\ SumOf(PaymentsOf(alloc, c), alloc) = 0
               /\ SumOf(AppsOf(app, c), app) = 0 /\ SumOf(DiscountsOf(app, c), app) = 0
    BY <1>6, <1>7
  <2>2. ReceiptCap BY <1>5, <1>6, <2>1 DEF ReceiptCap
  <2>3. AdjustmentCap BY <1>5, <1>6, <2>1 DEF AdjustmentCap
  <2>4. \A s \in Sales : 0 + 0 <= Gross[s] BY <1>5
  <2>5. SaleCap BY <2>1, <2>4 DEF SaleCap
  <2> QED BY <2>2, <2>3, <2>5 DEF DrawnOnce
<1>9. TotalsCurrent BY <1>5, <1>6, <1>7 DEF TotalsCurrent
<1>10. ExceptionsCurrent BY DEF Init, ExceptionsCurrent, Flags
<1>11. SettledWhereOwed BY <1>2 DEF SettledWhereOwed
<1> QED BY <1>1, <1>3, <1>4, <1>8, <1>9, <1>10, <1>11 DEF MInv

LEMMA Still == ASSUME NEW t PROVE Shrunk(t, t, {})
BY DEF Shrunk

LEMMA MoneyStutter == MInv /\ UNCHANGED vars => MInv'
BY DEF vars, MInv, TypeOK, Formed, Linked, Identified, IdentityUnique, DrawnOnce,
   ReceiptCap, SaleCap, AdjustmentCap, TotalsCurrent, ExceptionsCurrent, SettledWhereOwed

\* A payment that is proposed, reviewed or rejected draws nothing.
LEMMA QuietAlloc ==
  ASSUME MInv, alloc' \in [Allocations -> AllocRow], Linked(alloc'), AllocsFormed(alloc'),
         Shrunk(alloc, alloc', {}), UNCHANGED <<coll, adj, app, exc, sale, view, lapsed>>
  PROVE  MInv'
<1>1. TypeOK' /\ Formed' /\ Linked(app') BY DEF MInv, TypeOK, Formed
<1>2. Shrunk(app, app', {}) BY Still
<1>3. Rows(alloc', app') BY DEF MInv, TypeOK, Rows
<1>4. coll' \in [Collections -> CollRow] /\ adj' \in [Adjustments -> AdjRow]
  BY <1>1 DEF TypeOK
<1>5. DrawnOnce' BY <1>2, <1>3, <1>4, CapsShrink DEF MInv
<1>6. TotalsCurrent' BY <1>2, <1>3, TotalsShrink DEF MInv
<1>7. SettledWhereOwed' BY <1>2, SettledShrink DEF MInv
<1>8. Identified' /\ ExceptionsCurrent'
  BY DEF MInv, Identified, IdentityUnique, ExceptionsCurrent
<1> QED BY <1>1, <1>5, <1>6, <1>7, <1>8 DEF MInv

LEMMA QuietApp ==
  ASSUME MInv, app' \in [Applications -> AppRow], Linked(app'), AppsFormed(app'),
         Shrunk(app, app', {}), UNCHANGED <<coll, adj, alloc, exc, sale, view, lapsed>>
  PROVE  MInv'
<1>1. TypeOK' /\ Formed' /\ Linked(alloc') BY DEF MInv, TypeOK, Formed
<1>2. Shrunk(alloc, alloc', {}) BY Still
<1>3. Rows(alloc', app') BY DEF MInv, TypeOK, Rows
<1>4. coll' \in [Collections -> CollRow] /\ adj' \in [Adjustments -> AdjRow]
  BY <1>1 DEF TypeOK
<1>5. DrawnOnce' BY <1>2, <1>3, <1>4, CapsShrink DEF MInv
<1>6. TotalsCurrent' BY <1>2, <1>3, TotalsShrink DEF MInv
<1>7. SettledWhereOwed' BY <1>2, SettledShrink DEF MInv
<1>8. Identified' /\ ExceptionsCurrent'
  BY DEF MInv, Identified, IdentityUnique, ExceptionsCurrent
<1> QED BY <1>1, <1>5, <1>6, <1>7, <1>8 DEF MInv

LEMMA TablesNow ==
  ASSUME MInv
  PROVE  /\ Table(alloc, Allocations) /\ Linked(alloc)
         /\ Table(app, Applications) /\ Linked(app)
<1>1. Rows(alloc, app) BY DEF MInv, TypeOK, Rows
<1> QED BY <1>1, RowsTables DEF MInv

LEMMA ProposeAllocationStep ==
  ASSUME MInv, NEW x \in Allocations, NEW c \in Collections, NEW s \in Sales \cup {None},
         NEW n \in Draws, NEW prior \in Allocations \cup {None},
         ProposeAllocation(x, c, s, n, prior)
  PROVE  MInv'
<1>1. PICK customer \in Customers \cup {NoCustomer} :
        /\ s # None => customer # NoCustomer
        /\ alloc' = [alloc EXCEPT ![x] =
             [status |-> "DRAFT", collection |-> c, sale |-> s, customer |-> customer,
              amount |-> n, supersedes |-> prior, successor |-> None]]
  BY DEF ProposeAllocation
<1> DEFINE r == [status |-> "DRAFT", collection |-> c, sale |-> s, customer |-> customer,
                 amount |-> n, supersedes |-> prior, successor |-> None]
<1>2. alloc' = [alloc EXCEPT ![x] = r] BY <1>1
<1>3. r \in AllocRow /\ r.status = "DRAFT" /\ r.supersedes = prior
  BY MoneyAssumption DEF AllocRow, Statuses, Pending
<1>4. /\ r.collection \in Collections
      /\ r.sale # None => r.customer # NoCustomer
  BY <1>1
<1> HIDE DEF r
<1>5. prior # None => alloc[prior].status # "ABSENT" BY DEF ProposeAllocation
<1>6. alloc[x].status = "ABSENT" BY DEF ProposeAllocation
<1>7. Linked(alloc') /\ Shrunk(alloc, alloc', {})
  BY <1>2, <1>3, <1>5, <1>6, TablesNow, Created
<1>8. alloc' \in [Allocations -> AllocRow] BY <1>2, <1>3 DEF MInv, TypeOK
<1>10. prior # None => alloc[prior].collection = r.collection BY DEF ProposeAllocation, r
<1>9. AllocsFormed(alloc')
  <2>1. /\ alloc \in [Allocations -> AllocRow] /\ alloc'[x] = r
        /\ \A y \in Allocations \ {x} : alloc'[y] = alloc[y]
    BY <1>2 DEF MInv, TypeOK
  <2>2. ASSUME NEW y \in Allocations, alloc'[y].status # "ABSENT", alloc'[y].supersedes # None
        PROVE  alloc'[alloc'[y].supersedes].collection = alloc'[y].collection
    <3>1. CASE y = x
      <4>1. prior \in Allocations \ {x} /\ prior # None BY <1>3, <1>5, <1>6, <2>1, <2>2, <3>1
      <4> QED BY <1>3, <1>10, <2>1, <3>1, <4>1
    <3>2. CASE y # x
      <4>1. /\ alloc'[y] = alloc[y] /\ alloc[y].supersedes \in Allocations \ {x}
            /\ alloc[alloc[y].supersedes].collection = alloc[y].collection
        BY <1>6, <2>1, <2>2, <3>2 DEF MInv, Formed, AllocsFormed, Linked, AllocRow
      <4> QED BY <2>1, <4>1
    <3> QED BY <3>1, <3>2
  <2> QED BY <1>4, <2>1, <2>2 DEF MInv, Formed, AllocsFormed
<1> QED BY <1>7, <1>8, <1>9, QuietAlloc DEF ProposeAllocation

LEMMA MoveAllocationStep ==
  ASSUME MInv, NEW x \in Allocations, ReviewAllocation(x) \/ RejectAllocation(x)
  PROVE  MInv'
<1>1. PICK to \in {"REVIEW_PENDING", "VERIFIED", "REJECTED"} :
        alloc[x].status \in Pending /\ alloc' = [alloc EXCEPT ![x].status = to]
  BY DEF ReviewAllocation, RejectAllocation, Submit, Verify, Reject, Moves, Pending
<1>2. Linked(alloc') /\ Shrunk(alloc, alloc', {}) BY <1>1, TablesNow, Moved
<1>3. alloc' \in [Allocations -> AllocRow]
  BY <1>1 DEF MInv, TypeOK, AllocRow, Statuses, Pending
<1>4. AllocsFormed(alloc')
  BY <1>1 DEF MInv, TypeOK, Formed, AllocsFormed, AllocRow, Pending
<1> QED BY <1>2, <1>3, <1>4, QuietAlloc DEF ReviewAllocation, RejectAllocation

LEMMA ProposeApplicationStep ==
  ASSUME MInv, NEW x \in Applications, NEW j \in Adjustments, NEW s \in Sales,
         NEW n \in Draws, NEW prior \in Applications \cup {None},
         ProposeApplication(x, j, s, n, prior)
  PROVE  MInv'
<1> DEFINE r == [status |-> "DRAFT", adjustment |-> j, sale |-> s,
                 customer |-> adj[j].customer, amount |-> n, supersedes |-> prior,
                 successor |-> None]
<1>1. adj[j].customer \in Customers /\ adj[j].customer # NoCustomer
  BY DEF ProposeApplication, MInv, TypeOK, Formed, AdjsFormed, AdjRow
<1>2. app' = [app EXCEPT ![x] = r] BY DEF ProposeApplication
<1>3. r \in AppRow /\ r.status = "DRAFT" /\ r.supersedes = prior
  BY <1>1, MoneyAssumption DEF AppRow, Statuses, Pending
<1>4. r.adjustment \in Adjustments /\ r.sale \in Sales /\ r.customer # NoCustomer
  BY <1>1
<1> HIDE DEF r
<1>5. prior # None => app[prior].status # "ABSENT" BY DEF ProposeApplication
<1>6. app[x].status = "ABSENT" BY DEF ProposeApplication
<1>7. Linked(app') /\ Shrunk(app, app', {})
  BY <1>2, <1>3, <1>5, <1>6, TablesNow, Created
<1>8. app' \in [Applications -> AppRow] BY <1>2, <1>3 DEF MInv, TypeOK
<1>10. prior # None => app[prior].adjustment = r.adjustment BY DEF ProposeApplication, r
<1>9. AppsFormed(app')
  <2>1. /\ app \in [Applications -> AppRow] /\ app'[x] = r
        /\ \A y \in Applications \ {x} : app'[y] = app[y]
    BY <1>2 DEF MInv, TypeOK
  <2>2. ASSUME NEW y \in Applications, app'[y].status # "ABSENT", app'[y].supersedes # None
        PROVE  app'[app'[y].supersedes].adjustment = app'[y].adjustment
    <3>1. CASE y = x
      <4>1. prior \in Applications \ {x} /\ prior # None BY <1>3, <1>5, <1>6, <2>1, <2>2, <3>1
      <4> QED BY <1>3, <1>10, <2>1, <3>1, <4>1
    <3>2. CASE y # x
      <4>1. /\ app'[y] = app[y] /\ app[y].supersedes \in Applications \ {x}
            /\ app[app[y].supersedes].adjustment = app[y].adjustment
        BY <1>6, <2>1, <2>2, <3>2 DEF MInv, Formed, AppsFormed, Linked, AppRow
      <4> QED BY <2>1, <4>1
    <3> QED BY <3>1, <3>2
  <2> QED BY <1>4, <2>1, <2>2 DEF MInv, Formed, AppsFormed
<1> QED BY <1>7, <1>8, <1>9, QuietApp DEF ProposeApplication

LEMMA MoveApplicationStep ==
  ASSUME MInv, NEW x \in Applications, ReviewApplication(x) \/ RejectApplication(x)
  PROVE  MInv'
<1>1. PICK to \in {"REVIEW_PENDING", "VERIFIED", "REJECTED"} :
        app[x].status \in Pending /\ app' = [app EXCEPT ![x].status = to]
  BY DEF ReviewApplication, RejectApplication, Submit, Verify, Reject, Moves, Pending
<1>2. Linked(app') /\ Shrunk(app, app', {}) BY <1>1, TablesNow, Moved
<1>3. app' \in [Applications -> AppRow]
  BY <1>1 DEF MInv, TypeOK, AppRow, Statuses, Pending
<1>4. AppsFormed(app')
  BY <1>1 DEF MInv, TypeOK, Formed, AppsFormed, AppRow, Pending
<1> QED BY <1>2, <1>3, <1>4, QuietApp DEF ReviewApplication, RejectApplication

-----------------------------------------------------------------------------
(* Receipts.                                                               *)

\* A receipt that is not approved has no payment, and shows none.
LEMMA NothingDrawn ==
  ASSUME MInv, NEW c \in Collections, coll[c].status # "APPROVED"
  PROVE  AllocsOf(alloc, c) = {} /\ coll[c].allocated = 0 /\ coll[c].parked = 0
<1>1. AllocsOf(alloc, c) = {} BY DEF MInv, DrawnOnce, ReceiptCap
<1>2. ParkedOf(alloc, c) = {} BY <1>1 DEF ParkedOf
<1> QED BY <1>1, <1>2, SumEmpty DEF MInv, TotalsCurrent

\* A step that touches receipts and no other document.
LEMMA CollStep ==
  ASSUME MInv, coll' \in [Collections -> CollRow], UNCHANGED <<alloc, app, adj, sale, view>>,
         CollsFormed(coll'), Identified', ExceptionsCurrent',
         exc' \in [Collections -> SUBSET MoneyExceptions], lapsed' \subseteq Collections,
         \A c \in Collections :
           /\ coll'[c].allocated = coll[c].allocated /\ coll'[c].parked = coll[c].parked
           /\ coll[c].status = "APPROVED" =>
                coll'[c].status = coll[c].status /\ coll'[c].amount = coll[c].amount
  PROVE  MInv'
<1>1. TypeOK' /\ Formed' /\ Linked(app') /\ Linked(alloc') BY DEF MInv, TypeOK, Formed
<1>2. Shrunk(app, app', {}) /\ Shrunk(alloc, alloc', {}) BY Still
<1>3. Rows(alloc', app') BY DEF MInv, TypeOK, Rows
<1>4. adj' \in [Adjustments -> AdjRow] BY <1>1 DEF TypeOK
<1>5. \A c \in Collections : AllocsOf(alloc, c) # {} => coll[c].status = "APPROVED"
  BY DEF MInv, DrawnOnce, ReceiptCap
<1>6. DrawnOnce' BY <1>2, <1>3, <1>4, <1>5, CapsShrink DEF MInv
<1>7. TotalsCurrent' BY <1>2, <1>3, TotalsShrink DEF MInv
<1>8. SettledWhereOwed' BY <1>2, SettledShrink DEF MInv
<1> QED BY <1>1, <1>6, <1>7, <1>8 DEF MInv

LEMMA FlagsType == ASSUME NEW c PROVE Flags(c) \subseteq MoneyExceptions
BY DEF Flags

LEMMA CreateCollectionStep ==
  ASSUME MInv, NEW c \in Collections, NEW kind \in Receipts, NEW id \in Identities,
         NEW due \in BOOLEAN, NEW n \in Amounts, NEW prior \in Collections \cup {None},
         CreateCollection(c, kind, id, due, n, prior)
  PROVE  MInv'
<1> DEFINE r == [status |-> "DRAFT", kind |-> kind, identity |-> id, due |-> due,
                 amount |-> IF kind = "UNKNOWN_AMOUNT" THEN 0 ELSE n,
                 allocated |-> 0, parked |-> 0, active |-> None,
                 supersedes |-> prior, successor |-> None]
<1>1. /\ coll' = [coll EXCEPT ![c] = r] /\ exc' = Reflagged(coll', {c})
      /\ coll[c].status = "ABSENT" /\ lapsed' = lapsed \ {c}
  BY DEF CreateCollection, SaveColls
<1>2. r \in CollRow /\ r.status = "DRAFT" /\ r.identity \in Identities /\ r.due = due
      /\ r.allocated = 0 /\ r.parked = 0
  BY MoneyAssumption DEF CollRow, Statuses, Pending
<1> HIDE DEF r
<1>3. coll \in [Collections -> CollRow] /\ exc \in [Collections -> SUBSET MoneyExceptions]
  BY DEF MInv, TypeOK
<1>4. coll' \in [Collections -> CollRow] /\ coll'[c] = r
      /\ \A d \in Collections \ {c} : coll'[d] = coll[d]
  BY <1>1, <1>2, <1>3
<1>5. CollsFormed(coll')
  <2>1. \A d \in Collections : d # c /\ coll[d].supersedes # None =>
          coll[d].supersedes \in Collections
    BY <1>3 DEF CollRow
  <2>2. r.supersedes = prior /\ (prior # None => coll[prior].status # "ABSENT")
    BY DEF CreateCollection, r
  <2> QED BY <1>1, <1>2, <1>4, <2>1, <2>2 DEF MInv, Formed, CollsFormed
<1>6. Approved(coll') = Approved(coll)
  BY <1>1, <1>2, <1>3, <1>4 DEF Approved
<1>7. Identified'
  <2>1. c \notin Approved(coll) BY <1>1 DEF Approved
  <2>2. \A d \in Approved(coll) : d \in Collections /\ coll'[d] = coll[d]
    BY <1>3, <1>4, <2>1 DEF Approved
  <2> QED BY <1>6, <2>2 DEF MInv, Identified, IdentityUnique
<1>8. lapsed' \subseteq Collections BY <1>1 DEF MInv, TypeOK
<1>9. exc' \in [Collections -> SUBSET MoneyExceptions]
  BY <1>1, <1>3, FlagsType DEF Reflagged
<1>10. ExceptionsCurrent'
  <2>1. \A d \in Collections : \/ exc'[d] = Flags(coll'[d])
                               \/ /\ exc'[d] = exc[d] /\ coll'[d] = coll[d]
                                  /\ d \in lapsed => d \in lapsed'
    BY <1>1, <1>4 DEF Reflagged
  <2> QED BY <2>1, ExceptionsRefreshed DEF MInv
<1>11. coll[c].allocated = 0 /\ coll[c].parked = 0 BY <1>1, NothingDrawn
<1>12. \A d \in Collections :
           /\ coll'[d].allocated = coll[d].allocated /\ coll'[d].parked = coll[d].parked
           /\ coll[d].status = "APPROVED" =>
                coll'[d].status = coll[d].status /\ coll'[d].amount = coll[d].amount
  BY <1>1, <1>2, <1>4, <1>11
<1>13. UNCHANGED <<alloc, app, adj, sale, view>> BY DEF CreateCollection
<1> QED BY <1>4, <1>5, <1>7, <1>8, <1>9, <1>10, <1>12, <1>13, CollStep

\* A collection that gives up its allocations keeps the rest of its row.
LEMMA RetiredFields ==
  ASSUME NEW p, coll[p] \in CollRow, NEW st \in Statuses,
         NEW s \in Collections \cup {None}, 0 \in 0..MaxAmount
  PROVE  /\ Retired(p, st, s) \in CollRow /\ Retired(p, st, s).status = st
         /\ Retired(p, st, s).identity = coll[p].identity
         /\ Retired(p, st, s).due = coll[p].due
         /\ Retired(p, st, s).allocated = 0 /\ Retired(p, st, s).parked = 0
         /\ Retired(p, st, s).supersedes = coll[p].supersedes
BY DEF CollRow, Retired

LEMMA ReviewCollectionStep ==
  ASSUME MInv, NEW c \in Collections, ReviewCollection(c)
  PROVE  MInv'
<1>1. PICK to \in {"REVIEW_PENDING", "VERIFIED", "REJECTED"} :
        coll[c].status \in Pending /\ coll' = [coll EXCEPT ![c].status = to]
  BY DEF ReviewCollection, Submit, Verify, Moves, Pending
<1>2. coll \in [Collections -> CollRow] /\ exc \in [Collections -> SUBSET MoneyExceptions]
  BY DEF MInv, TypeOK
<1>3. /\ coll' \in [Collections -> CollRow]
      /\ coll'[c] = [coll[c] EXCEPT !.status = to]
      /\ \A d \in Collections \ {c} : coll'[d] = coll[d]
  BY <1>1, <1>2 DEF CollRow, Statuses, Pending
<1>4. /\ coll'[c].status = to /\ coll'[c].identity = coll[c].identity
      /\ coll'[c].due = coll[c].due
      /\ coll'[c].allocated = coll[c].allocated /\ coll'[c].parked = coll[c].parked
  BY <1>2, <1>3 DEF CollRow
<1>5. coll[c].status \notin {"APPROVED", "ABSENT"} BY <1>1 DEF Pending
<1>6. CollsFormed(coll')
  <2>1. \A d \in Collections : coll'[d].supersedes = coll[d].supersedes
    BY <1>2, <1>3 DEF CollRow
  <2>2. \A d \in Collections : coll[d].supersedes \in Collections \cup {None}
    BY <1>2 DEF CollRow
  <2>3. \A d \in Collections : /\ coll'[d].identity = coll[d].identity
                               /\ coll'[d].status = "ABSENT" => coll[d].status = "ABSENT"
                               /\ coll[d].status = "ABSENT" => coll'[d].status = "ABSENT"
    BY <1>3, <1>4, <1>5
  <2>4. ASSUME NEW d \in Collections, coll'[d].status # "ABSENT"
        PROVE  /\ coll'[d].identity \in Identities
               /\ coll'[d].supersedes # None => coll'[coll'[d].supersedes].status # "ABSENT"
    BY <2>1, <2>2, <2>3, <2>4 DEF MInv, Formed, CollsFormed
  <2> QED BY <2>4 DEF CollsFormed
<1>7. Identified'
  <2>1. Approved(coll') = Approved(coll) BY <1>2, <1>3, <1>4, <1>5 DEF Approved
  <2>2. \A d \in Approved(coll) : d \in Collections /\ coll'[d] = coll[d]
    BY <1>2, <1>3, <1>5 DEF Approved
  <2> QED BY <2>1, <2>2 DEF MInv, Identified, IdentityUnique
<1>8. lapsed' \subseteq Collections BY DEF ReviewCollection, MInv, TypeOK
<1>9. exc' = Reflagged(coll', {c}) /\ UNCHANGED <<alloc, app, adj, sale, view>>
      /\ lapsed' = lapsed \ {c}
  BY DEF ReviewCollection
<1>10. exc' \in [Collections -> SUBSET MoneyExceptions]
  BY <1>2, <1>9, FlagsType DEF Reflagged
<1>11. ExceptionsCurrent'
  <2>1. \A d \in Collections : \/ exc'[d] = Flags(coll'[d])
                               \/ /\ exc'[d] = exc[d] /\ coll'[d] = coll[d]
                                  /\ d \in lapsed => d \in lapsed'
    BY <1>3, <1>9 DEF Reflagged
  <2> QED BY <2>1, ExceptionsRefreshed DEF MInv
<1>12. \A d \in Collections :
           /\ coll'[d].allocated = coll[d].allocated /\ coll'[d].parked = coll[d].parked
           /\ coll[d].status = "APPROVED" =>
                coll'[d].status = coll[d].status /\ coll'[d].amount = coll[d].amount
  BY <1>3, <1>4, <1>5
<1> QED BY <1>3, <1>6, <1>7, <1>8, <1>9, <1>10, <1>11, <1>12, CollStep

LEMMA BecomesDueStep ==
  ASSUME MInv, NEW c \in Collections, BecomesDue(c)
  PROVE  MInv'
<1>1. /\ coll[c].status # "ABSENT" /\ ~coll[c].due
      /\ coll' = [coll EXCEPT ![c].due = TRUE]
      /\ lapsed' = lapsed \cup {c}
      /\ UNCHANGED <<alloc, adj, app, exc, sale, view>>
  BY DEF BecomesDue
<1>2. coll \in [Collections -> CollRow] /\ exc \in [Collections -> SUBSET MoneyExceptions]
  BY DEF MInv, TypeOK
<1>3. /\ coll' \in [Collections -> CollRow]
      /\ coll'[c] = [coll[c] EXCEPT !.due = TRUE]
      /\ \A d \in Collections \ {c} : coll'[d] = coll[d]
  <2> DEFINE r == [coll[c] EXCEPT !.due = TRUE]
  <2>1. coll[c] \in CollRow BY <1>2
  <2>2. r \in CollRow BY <2>1 DEF CollRow
  <2>3. coll' = [coll EXCEPT ![c] = r] BY <1>1
  <2> HIDE DEF r
  <2>4. coll' \in [Collections -> CollRow] /\ coll'[c] = r
        /\ \A d \in Collections \ {c} : coll'[d] = coll[d]
    BY <1>2, <2>2, <2>3
  <2> QED BY <2>4 DEF r
<1>4. \A d \in Collections :
        /\ coll'[d].status = coll[d].status /\ coll'[d].identity = coll[d].identity
        /\ coll'[d].active = coll[d].active /\ coll'[d].kind = coll[d].kind
        /\ coll'[d].allocated = coll[d].allocated /\ coll'[d].parked = coll[d].parked
        /\ coll'[d].amount = coll[d].amount
        /\ coll'[d].due = coll[d].due \/ coll'[d].due = TRUE
        /\ coll'[d].supersedes = coll[d].supersedes
        /\ coll[d].supersedes \in Collections \cup {None}
  BY <1>2, <1>3 DEF CollRow
<1>5. CollsFormed(coll')
  <2>1. ASSUME NEW d \in Collections, coll'[d].status # "ABSENT", coll'[d].supersedes # None
        PROVE  coll'[coll'[d].supersedes].status # "ABSENT"
    BY <1>4, <2>1 DEF MInv, Formed, CollsFormed
  <2> QED BY <1>4, <2>1 DEF MInv, Formed, CollsFormed
<1>6. Identified'
  <2>1. Approved(coll') = Approved(coll) /\ Approved(coll) \subseteq Collections
    BY <1>2, <1>3, <1>4 DEF Approved
  <2> QED BY <1>4, <2>1 DEF MInv, Identified, IdentityUnique
<1>7. lapsed' \subseteq Collections BY <1>1 DEF MInv, TypeOK
<1>8. ExceptionsCurrent'
  <2> SUFFICES ASSUME NEW d \in Collections
               PROVE  /\ exc'[d] \subseteq Flags(coll'[d])
                      /\ Flags(coll'[d]) \ exc'[d] \subseteq
                           IF d \in lapsed' THEN {"MONEY_UNALLOCATED"} ELSE {}
      BY DEF ExceptionsCurrent
  <2>1. /\ exc[d] \subseteq Flags(coll[d])
        /\ Flags(coll[d]) \ exc[d] \subseteq
             IF d \in lapsed THEN {"MONEY_UNALLOCATED"} ELSE {}
    BY DEF MInv, ExceptionsCurrent
  <2>2. CASE d = c
    <3>1. /\ Flags(coll[d]) \subseteq Flags(coll'[d])
          /\ Flags(coll'[d]) \subseteq Flags(coll[d]) \cup {"MONEY_UNALLOCATED"}
      BY <1>4 DEF Flags, Known, Eligible
    <3>2. d \in lapsed' BY <1>1, <2>2
    <3> QED BY <1>1, <2>1, <3>1, <3>2
  <2>3. CASE d # c
    <3>1. coll'[d] = coll[d] /\ (d \in lapsed => d \in lapsed') BY <1>1, <1>3, <2>3
    <3> QED BY <1>1, <2>1, <3>1
  <2> QED BY <2>2, <2>3
<1> QED BY <1>1, <1>2, <1>3, <1>4, <1>5, <1>6, <1>7, <1>8, CollStep

-----------------------------------------------------------------------------
(* Rows that are reversed with what they draw on.                          *)

LEMMA ShrinkStep ==
  ASSUME MInv, TypeOK', Formed', Linked(alloc'), Linked(app'), Identified',
         ExceptionsCurrent',
         NEW S, NEW R, Shrunk(alloc, alloc', S), Shrunk(app, app', R),
         \A c \in Collections : AllocsOf(alloc, c) \ S # {} =>
           coll'[c].status = coll[c].status /\ coll'[c].amount = coll[c].amount,
         \A j \in Adjustments : AppsOf(app, j) \ R # {} =>
           adj'[j].status = adj[j].status /\ adj'[j].amount = adj[j].amount,
         \A c \in Collections :
           \/ /\ AllocsOf(alloc, c) \cap S = {}
              /\ coll'[c].allocated = coll[c].allocated /\ coll'[c].parked = coll[c].parked
           \/ /\ coll'[c].allocated = SumOf(AllocsOf(alloc', c), alloc')
              /\ coll'[c].parked = SumOf(ParkedOf(alloc', c), alloc'),
         \A j \in Adjustments :
           \/ AppsOf(app, j) \cap R = {} /\ adj'[j].applied = adj[j].applied
           \/ adj'[j].applied = SumOf(AppsOf(app', j), app'),
         \A s \in Sales :
           \/ sale'[s] = sale[s]
           \/ sale[s].status # "APPROVED"
           \/ PaymentsOf(alloc, s) \subseteq S /\ DiscountsOf(app, s) \subseteq R
           \/ sale[s].customer = NoCustomer
  PROVE  MInv'
<1>1. /\ Rows(alloc', app') /\ coll' \in [Collections -> CollRow]
      /\ adj' \in [Adjustments -> AdjRow]
  BY DEF TypeOK, Rows
<1>2. TypeOK /\ DrawnOnce /\ TotalsCurrent /\ SettledWhereOwed /\ Formed BY DEF MInv
<1>3. DrawnOnce' BY <1>1, <1>2, CapsShrink
<1>4. TotalsCurrent' BY <1>1, <1>2, TotalsShrink
<1>5. SettledWhereOwed' BY <1>2, SettledShrink
<1> QED BY <1>3, <1>4, <1>5 DEF MInv

LEMMA RevertAllocs ==
  ASSUME MInv, NEW S \in SUBSET Approved(alloc)
  PROVE  /\ Reversed(alloc, S) \in [Allocations -> AllocRow]
         /\ AllocsFormed(Reversed(alloc, S))
         /\ Linked(Reversed(alloc, S)) /\ Shrunk(alloc, Reversed(alloc, S), S)
<1>1. alloc \in [Allocations -> AllocRow] /\ AllocsFormed(alloc) BY DEF MInv, TypeOK, Formed
<1>2. Reversed(alloc, S) \in [Allocations -> AllocRow]
  BY <1>1 DEF Reversed, AllocRow, Statuses
<1>3. AllocsFormed(Reversed(alloc, S))
  BY <1>1 DEF Reversed, AllocRow, AllocsFormed, Approved
<1>4. Linked(Reversed(alloc, S)) /\ Shrunk(alloc, Reversed(alloc, S), S)
  BY TablesNow, Reverts
<1> QED BY <1>2, <1>3, <1>4

LEMMA RevertApps ==
  ASSUME MInv, NEW S \in SUBSET Approved(app)
  PROVE  /\ Reversed(app, S) \in [Applications -> AppRow]
         /\ AppsFormed(Reversed(app, S))
         /\ Linked(Reversed(app, S)) /\ Shrunk(app, Reversed(app, S), S)
<1>1. app \in [Applications -> AppRow] /\ AppsFormed(app) BY DEF MInv, TypeOK, Formed
<1>2. Reversed(app, S) \in [Applications -> AppRow]
  BY <1>1 DEF Reversed, AppRow, Statuses
<1>3. AppsFormed(Reversed(app, S))
  BY <1>1 DEF Reversed, AppRow, AppsFormed, Approved
<1>4. Linked(Reversed(app, S)) /\ Shrunk(app, Reversed(app, S), S)
  BY TablesNow, Reverts
<1> QED BY <1>2, <1>3, <1>4

\* Receipts whose totals are summed again and saved.
LEMMA SyncedColls ==
  ASSUME MInv, NEW a \in [Allocations -> AllocRow], NEW C \in SUBSET Collections,
         \A c \in C : SumOf(AllocsOf(a, c), a) <= coll[c].amount,
         SaveColls(Synced(a, C), C)
  PROVE  /\ coll' \in [Collections -> CollRow]
         /\ exc' \in [Collections -> SUBSET MoneyExceptions] /\ lapsed' \subseteq Collections
         /\ CollsFormed(coll') /\ Identified' /\ ExceptionsCurrent'
         /\ \A c \in Collections :
              coll'[c].status = coll[c].status /\ coll'[c].amount = coll[c].amount
         /\ \A c \in Collections \ C : coll'[c] = coll[c]
         /\ \A c \in C : /\ coll'[c].allocated = SumOf(AllocsOf(a, c), a)
                         /\ coll'[c].parked = SumOf(ParkedOf(a, c), a)
<1>1. /\ coll \in [Collections -> CollRow] /\ exc \in [Collections -> SUBSET MoneyExceptions]
      /\ coll' = Synced(a, C) /\ exc' = Reflagged(coll', C)
      /\ lapsed' = lapsed \ C /\ lapsed \subseteq Collections
  BY DEF MInv, TypeOK, SaveColls
<1>2. Priced(a, Allocations)
  BY MoneyAssumption DEF Priced, AllocRow
<1>3. ASSUME NEW c \in C
      PROVE  /\ SumOf(AllocsOf(a, c), a) \in 0..MaxAmount
             /\ SumOf(ParkedOf(a, c), a) \in 0..MaxAmount
  <2>1. AllocsOf(a, c) \in SUBSET Allocations /\ ParkedOf(a, c) \in SUBSET AllocsOf(a, c)
    BY DEF AllocsOf, ParkedOf, Approved
  <2>2. ParkedOf(a, c) \in SUBSET Allocations BY <2>1
  <2>3. SumOf(AllocsOf(a, c), a) \in Nat BY <1>2, <2>1, SumType
  <2>4. SumOf(ParkedOf(a, c), a) \in Nat BY <1>2, <2>2, SumType
  <2>5. SumOf(ParkedOf(a, c), a) <= SumOf(AllocsOf(a, c), a) BY <1>2, <2>1, SumSub
  <2>6. coll[c].amount \in 0..MaxAmount /\ MaxAmount \in Nat
    BY <1>1, MoneyAssumption DEF CollRow
  <2> QED BY <2>3, <2>4, <2>5, <2>6
<1>4. \A c \in C : coll'[c] = [coll[c] EXCEPT !.allocated = SumOf(AllocsOf(a, c), a),
                                              !.parked = SumOf(ParkedOf(a, c), a)]
  BY <1>1 DEF Synced
<1>5. \A c \in Collections \ C : coll'[c] = coll[c] BY <1>1 DEF Synced
<1>6. coll' \in [Collections -> CollRow]
  <2>1. ASSUME NEW c \in C PROVE coll'[c] \in CollRow
    <3>1. coll[c] \in CollRow BY <1>1
    <3> QED BY <3>1, <1>3, <1>4 DEF CollRow
  <2>2. \A c \in Collections : coll'[c] \in CollRow BY <1>1, <1>5, <2>1
  <2>3. coll' = [c \in Collections |-> coll'[c]] BY <1>1 DEF Synced
  <2> QED BY <2>2, <2>3
<1>7. \A c \in Collections :
        /\ coll'[c].status = coll[c].status /\ coll'[c].amount = coll[c].amount
        /\ coll'[c].identity = coll[c].identity /\ coll'[c].active = coll[c].active
        /\ coll'[c].due = coll[c].due /\ coll'[c].supersedes = coll[c].supersedes
        /\ coll[c].supersedes \in Collections \cup {None}
  <2> TAKE c \in Collections
  <2>1. coll[c] \in CollRow BY <1>1
  <2>2. CASE c \in C BY <2>1, <2>2, <1>4 DEF CollRow
  <2>3. CASE c \notin C BY <2>1, <2>3, <1>5 DEF CollRow
  <2> QED BY <2>2, <2>3
<1>8. \A c \in C : /\ coll'[c].allocated = SumOf(AllocsOf(a, c), a)
                   /\ coll'[c].parked = SumOf(ParkedOf(a, c), a)
  BY <1>1, <1>4 DEF CollRow
<1>9. CollsFormed(coll') BY <1>7 DEF MInv, Formed, CollsFormed
<1>10. Identified'
  <2>1. Approved(coll') = Approved(coll) /\ Approved(coll) \subseteq Collections
    BY <1>1, <1>6, <1>7 DEF Approved
  <2> QED BY <1>7, <2>1 DEF MInv, Identified, IdentityUnique
<1>11. exc' \in [Collections -> SUBSET MoneyExceptions] /\ lapsed' \subseteq Collections
  BY <1>1, FlagsType DEF Reflagged
<1>12. ExceptionsCurrent'
  <2>1. \A d \in Collections : \/ exc'[d] = Flags(coll'[d])
                               \/ /\ exc'[d] = exc[d] /\ coll'[d] = coll[d]
                                  /\ d \in lapsed => d \in lapsed'
    BY <1>1, <1>5 DEF Reflagged
  <2> QED BY <2>1, ExceptionsRefreshed DEF MInv
<1> QED BY <1>5, <1>6, <1>7, <1>8, <1>9, <1>10, <1>11, <1>12

\* Adjustments whose totals are summed again.
LEMMA AppliedAdjs ==
  ASSUME MInv, NEW p \in [Applications -> AppRow], NEW J \in SUBSET Adjustments,
         \A j \in J : SumOf(AppsOf(p, j), p) <= adj[j].amount, adj' = Applied(p, J)
  PROVE  /\ adj' \in [Adjustments -> AdjRow] /\ AdjsFormed(adj')
         /\ \A j \in Adjustments :
              adj'[j].status = adj[j].status /\ adj'[j].amount = adj[j].amount
         /\ \A j \in Adjustments \ J : adj'[j] = adj[j]
         /\ \A j \in J : adj'[j].applied = SumOf(AppsOf(p, j), p)
<1>1. adj \in [Adjustments -> AdjRow] BY DEF MInv, TypeOK
<1>2. Priced(p, Applications)
  BY MoneyAssumption DEF Priced, AppRow
<1>3. ASSUME NEW j \in J PROVE SumOf(AppsOf(p, j), p) \in 0..MaxAmount
  <2>1. AppsOf(p, j) \in SUBSET Applications BY DEF AppsOf, Approved
  <2>2. SumOf(AppsOf(p, j), p) \in Nat BY <1>2, <2>1, SumType
  <2>3. adj[j].amount \in 0..MaxAmount /\ MaxAmount \in Nat
    BY <1>1, MoneyAssumption DEF AdjRow
  <2> QED BY <2>2, <2>3
<1>4. \A j \in J : adj'[j] = [adj[j] EXCEPT !.applied = SumOf(AppsOf(p, j), p)]
  BY DEF Applied
<1>5. \A j \in Adjustments \ J : adj'[j] = adj[j] BY DEF Applied
<1>6. adj' \in [Adjustments -> AdjRow]
  <2>1. ASSUME NEW j \in J PROVE adj'[j] \in AdjRow
    <3>1. adj[j] \in AdjRow BY <1>1
    <3> QED BY <3>1, <1>3, <1>4 DEF AdjRow
  <2>2. \A j \in Adjustments : adj'[j] \in AdjRow BY <1>1, <1>5, <2>1
  <2>3. adj' = [j \in Adjustments |-> adj'[j]] BY DEF Applied
  <2> QED BY <2>2, <2>3
<1>7. \A j \in Adjustments :
        /\ adj'[j].status = adj[j].status /\ adj'[j].amount = adj[j].amount
        /\ adj'[j].customer = adj[j].customer
  <2> TAKE j \in Adjustments
  <2>1. adj[j] \in AdjRow BY <1>1
  <2>2. CASE j \in J BY <2>1, <2>2, <1>4 DEF AdjRow
  <2>3. CASE j \notin J BY <2>3, <1>5
  <2> QED BY <2>2, <2>3
<1>8. \A j \in J : adj'[j].applied = SumOf(AppsOf(p, j), p) BY <1>1, <1>4 DEF AdjRow
<1>9. AdjsFormed(adj') BY <1>7 DEF MInv, Formed, AdjsFormed
<1> QED BY <1>5, <1>6, <1>7, <1>8, <1>9

\* Reversed rows of a receipt, or of an adjustment, leave room.
LEMMA StillFits ==
  ASSUME MInv, NEW S \in SUBSET Approved(alloc), NEW R \in SUBSET Approved(app)
  PROVE  /\ \A c \in Collections :
              SumOf(AllocsOf(Reversed(alloc, S), c), Reversed(alloc, S)) <= coll[c].amount
         /\ \A j \in Adjustments :
              SumOf(AppsOf(Reversed(app, R), j), Reversed(app, R)) <= adj[j].amount
<1>1. Rows(alloc, app) BY DEF MInv, TypeOK, Rows
<1>2. Priced(alloc, Allocations) /\ Priced(app, Applications) BY <1>1, RowsTables
<1> DEFINE a == Reversed(alloc, S)
           q == Reversed(app, R)
<1>3. Shrunk(alloc, a, S) BY RevertAllocs
<1>4. Shrunk(app, q, R) BY RevertApps
<1> HIDE DEF a, q
<1>5. ASSUME NEW c \in Collections PROVE SumOf(AllocsOf(a, c), a) <= coll[c].amount
  <2>1. AllocsOf(a, c) = AllocsOf(alloc, c) \ S BY <1>3, ShrunkGroups
  <2>2. AllocsOf(alloc, c) \in SUBSET Approved(alloc) BY DEF AllocsOf
  <2>3. /\ SumOf(AllocsOf(a, c), a) \in Nat /\ SumOf(AllocsOf(alloc, c), alloc) \in Nat
        /\ SumOf(AllocsOf(a, c), a) <= SumOf(AllocsOf(alloc, c), alloc)
    BY <1>2, <1>3, <2>1, <2>2, Shrinks
  <2>4. coll[c].amount \in Nat BY MoneyAssumption DEF MInv, TypeOK, CollRow
  <2>5. SumOf(AllocsOf(alloc, c), alloc) <= coll[c].amount BY DEF MInv, DrawnOnce, ReceiptCap
  <2> QED BY <2>3, <2>4, <2>5
<1>6. ASSUME NEW j \in Adjustments PROVE SumOf(AppsOf(q, j), q) <= adj[j].amount
  <2>1. AppsOf(q, j) = AppsOf(app, j) \ R BY <1>4, ShrunkGroups
  <2>2. AppsOf(app, j) \in SUBSET Approved(app) BY DEF AppsOf
  <2>3. /\ SumOf(AppsOf(q, j), q) \in Nat /\ SumOf(AppsOf(app, j), app) \in Nat
        /\ SumOf(AppsOf(q, j), q) <= SumOf(AppsOf(app, j), app)
    BY <1>2, <1>4, <2>1, <2>2, Shrinks
  <2>4. adj[j].amount \in Nat BY MoneyAssumption DEF MInv, TypeOK, AdjRow
  <2>5. SumOf(AppsOf(app, j), app) <= adj[j].amount BY DEF MInv, DrawnOnce, AdjustmentCap
  <2> QED BY <2>3, <2>4, <2>5
<1> QED BY <1>5, <1>6 DEF a, q

LEMMA ReverseAllocationStep ==
  ASSUME MInv, NEW x \in Allocations, ReverseAllocation(x)
  PROVE  MInv'
<1> DEFINE c == alloc[x].collection
<1>1. /\ x \in Approved(alloc) /\ alloc' = Reversed(alloc, {x})
      /\ SaveColls(Synced(alloc', {c}), {c}) /\ UNCHANGED <<adj, app, sale, view>>
  BY DEF ReverseAllocation, Approved, MInv, TypeOK
<1>2. {x} \in SUBSET Approved(alloc) BY <1>1
<1>3. c \in Collections BY <1>1 DEF Approved, MInv, Formed, AllocsFormed
<1>4. /\ alloc' \in [Allocations -> AllocRow] /\ AllocsFormed(alloc')
      /\ Linked(alloc') /\ Shrunk(alloc, alloc', {x})
  BY <1>1, <1>2, RevertAllocs
<1>5. \A d \in {c} : SumOf(AllocsOf(alloc', d), alloc') <= coll[d].amount
  <2>1. {} \in SUBSET Approved(app) OBVIOUS
  <2>2. SumOf(AllocsOf(alloc', c), alloc') <= coll[c].amount
    BY <1>1, <1>2, <1>3, <2>1, StillFits
  <2> QED BY <2>2
<1> HIDE DEF c
<1>6. /\ coll' \in [Collections -> CollRow]
      /\ exc' \in [Collections -> SUBSET MoneyExceptions] /\ lapsed' \subseteq Collections
      /\ CollsFormed(coll') /\ Identified' /\ ExceptionsCurrent'
      /\ \A d \in Collections :
           coll'[d].status = coll[d].status /\ coll'[d].amount = coll[d].amount
      /\ \A d \in Collections \ {c} : coll'[d] = coll[d]
      /\ \A d \in {c} : /\ coll'[d].allocated = SumOf(AllocsOf(alloc', d), alloc')
                        /\ coll'[d].parked = SumOf(ParkedOf(alloc', d), alloc')
  <2>1. {c} \in SUBSET Collections BY <1>3
  <2> QED BY <1>1, <1>4, <1>5, <2>1, SyncedColls
<1>7. \A d \in Collections \ {c} : AllocsOf(alloc, d) \cap {x} = {}
  BY DEF AllocsOf, c
<1>8. Shrunk(app, app', {}) BY <1>1, Still
<1>9. TypeOK' /\ Formed' /\ Linked(app') BY <1>1, <1>4, <1>6 DEF MInv, TypeOK, Formed
<1>10. \A d \in Collections :
           \/ /\ AllocsOf(alloc, d) \cap {x} = {}
              /\ coll'[d].allocated = coll[d].allocated /\ coll'[d].parked = coll[d].parked
           \/ /\ coll'[d].allocated = SumOf(AllocsOf(alloc', d), alloc')
              /\ coll'[d].parked = SumOf(ParkedOf(alloc', d), alloc')
  BY <1>6, <1>7
<1>11. \A j \in Adjustments : AppsOf(app, j) \cap {} = {} /\ adj'[j].applied = adj[j].applied
  BY <1>1
<1>12. \A d \in Collections : AllocsOf(alloc, d) \ {x} # {} =>
         coll'[d].status = coll[d].status /\ coll'[d].amount = coll[d].amount
  BY <1>6
<1>13. /\ \A j \in Adjustments : AppsOf(app, j) \ {} # {} =>
            adj'[j].status = adj[j].status /\ adj'[j].amount = adj[j].amount
       /\ \A s \in Sales : sale'[s] = sale[s]
  BY <1>1
<1>14. Linked(alloc') /\ Shrunk(alloc, alloc', {x}) BY <1>4
<1>15. Identified' /\ ExceptionsCurrent' BY <1>6
<1> HIDE DEF c
<1> QED BY <1>8, <1>9, <1>10, <1>11, <1>12, <1>13, <1>14, <1>15, ShrinkStep

LEMMA ReverseApplicationStep ==
  ASSUME MInv, NEW x \in Applications, ReverseApplication(x)
  PROVE  MInv'
<1> DEFINE j == app[x].adjustment
<1>1. /\ x \in Approved(app) /\ app' = Reversed(app, {x})
      /\ adj' = Applied(app', {j}) /\ UNCHANGED <<coll, alloc, exc, sale, view, lapsed>>
  BY DEF ReverseApplication, Approved, MInv, TypeOK
<1>2. {x} \in SUBSET Approved(app) BY <1>1
<1>3. j \in Adjustments BY <1>1 DEF Approved, MInv, Formed, AppsFormed
<1>4. /\ app' \in [Applications -> AppRow] /\ AppsFormed(app')
      /\ Linked(app') /\ Shrunk(app, app', {x})
  BY <1>1, <1>2, RevertApps
<1>5. \A i \in {j} : SumOf(AppsOf(app', i), app') <= adj[i].amount
  <2>1. {} \in SUBSET Approved(alloc) OBVIOUS
  <2>2. SumOf(AppsOf(app', j), app') <= adj[j].amount
    BY <1>1, <1>2, <1>3, <2>1, StillFits
  <2> QED BY <2>2
<1> HIDE DEF j
<1>6. /\ adj' \in [Adjustments -> AdjRow] /\ AdjsFormed(adj')
      /\ \A i \in Adjustments :
           adj'[i].status = adj[i].status /\ adj'[i].amount = adj[i].amount
      /\ \A i \in Adjustments \ {j} : adj'[i] = adj[i]
      /\ \A i \in {j} : adj'[i].applied = SumOf(AppsOf(app', i), app')
  <2>1. {j} \in SUBSET Adjustments BY <1>3
  <2> QED BY <1>1, <1>4, <1>5, <2>1, AppliedAdjs
<1>7. \A i \in Adjustments \ {j} : AppsOf(app, i) \cap {x} = {} BY DEF AppsOf, j
<1>8. Shrunk(alloc, alloc', {}) BY <1>1, Still
<1>9. TypeOK' /\ Formed' /\ Linked(alloc') BY <1>1, <1>4, <1>6 DEF MInv, TypeOK, Formed
<1>10. Identified' /\ ExceptionsCurrent'
  BY <1>1 DEF MInv, Identified, IdentityUnique, ExceptionsCurrent
<1>11. \A i \in Adjustments :
           \/ AppsOf(app, i) \cap {x} = {} /\ adj'[i].applied = adj[i].applied
           \/ adj'[i].applied = SumOf(AppsOf(app', i), app')
  BY <1>6, <1>7
<1>12. \A c \in Collections :
           \/ /\ AllocsOf(alloc, c) \cap {} = {}
              /\ coll'[c].allocated = coll[c].allocated /\ coll'[c].parked = coll[c].parked
           \/ /\ coll'[c].allocated = SumOf(AllocsOf(alloc', c), alloc')
              /\ coll'[c].parked = SumOf(ParkedOf(alloc', c), alloc')
  BY <1>1
<1>13. \A c \in Collections : AllocsOf(alloc, c) \ {} # {} =>
         coll'[c].status = coll[c].status /\ coll'[c].amount = coll[c].amount
  BY <1>1
<1>14. \A s \in Sales :
         \/ sale'[s] = sale[s]
         \/ sale[s].status # "APPROVED"
         \/ PaymentsOf(alloc, s) \subseteq {} /\ DiscountsOf(app, s) \subseteq {x}
         \/ sale[s].customer = NoCustomer
  BY <1>1
<1>15. \A i \in Adjustments : AppsOf(app, i) \ {x} # {} =>
         adj'[i].status = adj[i].status /\ adj'[i].amount = adj[i].amount
  BY <1>6
<1> QED BY <1>4, <1>8, <1>9, <1>10, <1>11, <1>12, <1>13, <1>14, <1>15, ShrinkStep

\* A sale that loses its approval or its customer loses its money first.
LEMMA ChangeSaleStep ==
  ASSUME MInv, NEW s \in Sales, ChangeSale(s)
  PROVE  MInv'
<1> DEFINE S == PaymentsOf(alloc, s)
           R == DiscountsOf(app, s)
           C == {alloc[x].collection : x \in S}
           J == {app[x].adjustment : x \in R}
<1>1. /\ alloc' = Reversed(alloc, S) /\ app' = Reversed(app, R)
      /\ SaveColls(Synced(alloc', C), C) /\ adj' = Applied(app', J) /\ view' = view
  BY DEF ChangeSale, Compensate
<1>2. S \in SUBSET Approved(alloc) /\ R \in SUBSET Approved(app)
  BY DEF PaymentsOf, DiscountsOf
<1>3. C \in SUBSET Collections /\ J \in SUBSET Adjustments
  BY <1>2 DEF Approved, MInv, TypeOK, Formed, AllocsFormed, AppsFormed
<1>4. PICK n \in SaleRow : sale' = [sale EXCEPT ![s] = n] BY DEF ChangeSale
<1>5. /\ \A c \in Collections \ C : AllocsOf(alloc, c) \cap S = {}
      /\ \A j \in Adjustments \ J : AppsOf(app, j) \cap R = {}
  BY DEF AllocsOf, AppsOf
<1>6. PaymentsOf(alloc, s) \subseteq S /\ DiscountsOf(app, s) \subseteq R OBVIOUS
<1> HIDE DEF S, R, C, J
<1>7. /\ alloc' \in [Allocations -> AllocRow] /\ AllocsFormed(alloc')
      /\ Linked(alloc') /\ Shrunk(alloc, alloc', S)
  BY <1>1, <1>2, RevertAllocs
<1>8. /\ app' \in [Applications -> AppRow] /\ AppsFormed(app')
      /\ Linked(app') /\ Shrunk(app, app', R)
  BY <1>1, <1>2, RevertApps
<1>9. /\ \A c \in C : SumOf(AllocsOf(alloc', c), alloc') <= coll[c].amount
      /\ \A j \in J : SumOf(AppsOf(app', j), app') <= adj[j].amount
  BY <1>1, <1>2, <1>3, StillFits
<1>10. /\ coll' \in [Collections -> CollRow]
       /\ exc' \in [Collections -> SUBSET MoneyExceptions] /\ lapsed' \subseteq Collections
       /\ CollsFormed(coll') /\ Identified' /\ ExceptionsCurrent'
       /\ \A d \in Collections :
            coll'[d].status = coll[d].status /\ coll'[d].amount = coll[d].amount
       /\ \A d \in Collections \ C : coll'[d] = coll[d]
       /\ \A d \in C : /\ coll'[d].allocated = SumOf(AllocsOf(alloc', d), alloc')
                       /\ coll'[d].parked = SumOf(ParkedOf(alloc', d), alloc')
  BY <1>1, <1>3, <1>7, <1>9, SyncedColls
<1>11. /\ adj' \in [Adjustments -> AdjRow] /\ AdjsFormed(adj')
       /\ \A i \in Adjustments :
            adj'[i].status = adj[i].status /\ adj'[i].amount = adj[i].amount
       /\ \A i \in Adjustments \ J : adj'[i] = adj[i]
       /\ \A i \in J : adj'[i].applied = SumOf(AppsOf(app', i), app')
  BY <1>1, <1>3, <1>8, <1>9, AppliedAdjs
<1>12. sale' \in [Sales -> SaleRow] /\ \A t \in Sales \ {s} : sale'[t] = sale[t]
  BY <1>4 DEF MInv, TypeOK
<1>13. TypeOK' /\ Formed'
  BY <1>1, <1>7, <1>8, <1>10, <1>11, <1>12 DEF MInv, TypeOK, Formed
<1>14. \A c \in Collections :
           \/ /\ AllocsOf(alloc, c) \cap S = {}
              /\ coll'[c].allocated = coll[c].allocated /\ coll'[c].parked = coll[c].parked
           \/ /\ coll'[c].allocated = SumOf(AllocsOf(alloc', c), alloc')
              /\ coll'[c].parked = SumOf(ParkedOf(alloc', c), alloc')
  BY <1>5, <1>10
<1>15. \A j \in Adjustments :
           \/ AppsOf(app, j) \cap R = {} /\ adj'[j].applied = adj[j].applied
           \/ adj'[j].applied = SumOf(AppsOf(app', j), app')
  BY <1>5, <1>11
<1>16. \A t \in Sales :
           \/ sale'[t] = sale[t]
           \/ PaymentsOf(alloc, t) \subseteq S /\ DiscountsOf(app, t) \subseteq R
  BY <1>6, <1>12
<1> QED BY <1>7, <1>8, <1>10, <1>11, <1>13, <1>14, <1>15, <1>16, ShrinkStep

\* Approval and the first customer find no money on the sale.
LEMMA SettleSaleStep ==
  ASSUME MInv, NEW s \in Sales, SettleSale(s)
  PROVE  MInv'
<1>1. PICK n \in SaleRow : /\ Approves(sale[s], n) \/ Resolves(sale[s], n)
                           /\ sale' = [sale EXCEPT ![s] = n]
  BY DEF SettleSale
<1>2. UNCHANGED <<coll, alloc, adj, app, exc, view, lapsed>> BY DEF SettleSale
<1>3. sale' \in [Sales -> SaleRow] /\ \A t \in Sales \ {s} : sale'[t] = sale[t]
  BY <1>1 DEF MInv, TypeOK
<1>4. sale[s].status # "APPROVED" \/ sale[s].customer = NoCustomer
  BY <1>1 DEF Approves, Resolves
<1>5. TypeOK' /\ Formed' /\ Linked(alloc') /\ Linked(app')
  BY <1>2, <1>3 DEF MInv, TypeOK, Formed
<1>6. Identified' /\ ExceptionsCurrent'
  BY <1>2 DEF MInv, Identified, IdentityUnique, ExceptionsCurrent
<1>7. Shrunk(alloc, alloc', {}) /\ Shrunk(app, app', {}) BY <1>2, Still
<1> QED BY <1>2, <1>3, <1>4, <1>5, <1>6, <1>7, ShrinkStep

LEMMA TakeViewStep == ASSUME MInv, TakeView PROVE MInv'
<1>1. view' = sale /\ UNCHANGED <<coll, alloc, adj, app, exc, sale, lapsed>> BY DEF TakeView
<1>2. TypeOK' /\ Formed' /\ Linked(alloc') /\ Linked(app')
  BY <1>1 DEF MInv, TypeOK, Formed
<1>3. Identified' /\ ExceptionsCurrent'
  BY <1>1 DEF MInv, Identified, IdentityUnique, ExceptionsCurrent
<1>4. Shrunk(alloc, alloc', {}) /\ Shrunk(app, app', {}) BY <1>1, Still
<1> QED BY <1>1, <1>2, <1>3, <1>4, ShrinkStep

LEMMA RefreshStep == ASSUME MInv, Refresh PROVE MInv'
<1> DEFINE C == Approved(coll)
           J == Approved(adj)
<1>1. /\ SaveColls(Synced(alloc, C), C) /\ adj' = Applied(app, J)
      /\ UNCHANGED <<alloc, app, sale, view>>
  BY DEF Refresh
<1>2. C \in SUBSET Collections /\ J \in SUBSET Adjustments BY DEF Approved, MInv, TypeOK
<1> HIDE DEF C, J
<1>3. /\ alloc \in [Allocations -> AllocRow] /\ app \in [Applications -> AppRow]
      /\ \A c \in C : SumOf(AllocsOf(alloc, c), alloc) <= coll[c].amount
      /\ \A j \in J : SumOf(AppsOf(app, j), app) <= adj[j].amount
  BY <1>2 DEF MInv, TypeOK, DrawnOnce, ReceiptCap, AdjustmentCap
<1>4. /\ coll' \in [Collections -> CollRow]
      /\ exc' \in [Collections -> SUBSET MoneyExceptions] /\ lapsed' \subseteq Collections
      /\ CollsFormed(coll') /\ Identified' /\ ExceptionsCurrent'
      /\ \A d \in Collections :
           coll'[d].status = coll[d].status /\ coll'[d].amount = coll[d].amount
      /\ \A d \in Collections \ C : coll'[d] = coll[d]
      /\ \A d \in C : /\ coll'[d].allocated = SumOf(AllocsOf(alloc, d), alloc)
                      /\ coll'[d].parked = SumOf(ParkedOf(alloc, d), alloc)
  BY <1>1, <1>2, <1>3, SyncedColls
<1>5. /\ adj' \in [Adjustments -> AdjRow] /\ AdjsFormed(adj')
      /\ \A i \in Adjustments :
           adj'[i].status = adj[i].status /\ adj'[i].amount = adj[i].amount
      /\ \A i \in Adjustments \ J : adj'[i] = adj[i]
      /\ \A i \in J : adj'[i].applied = SumOf(AppsOf(app, i), app)
  BY <1>1, <1>2, <1>3, AppliedAdjs
<1>6. TypeOK' /\ Formed' /\ Linked(alloc') /\ Linked(app')
  BY <1>1, <1>4, <1>5 DEF MInv, TypeOK, Formed
<1>7. Shrunk(alloc, alloc', {}) /\ Shrunk(app, app', {}) BY <1>1, Still
<1> QED BY <1>1, <1>4, <1>5, <1>6, <1>7, ShrinkStep

-----------------------------------------------------------------------------
(* Receipts that come into force and go out of force.                      *)

\* A receipt in force holds an identity nobody else does.
LEMMA Admitted ==
  ASSUME MInv, NEW c \in Collections, NEW p, IdentityFree(c), coll[c].supersedes = p,
         coll'[c].active = coll'[c].identity, coll'[c].identity = coll[c].identity,
         \A d \in Collections \ {c, p} : coll'[d] = coll[d],
         Approved(coll') \subseteq (Approved(coll) \ {p}) \cup {c}
  PROVE  Identified'
<1>1. \A d \in Approved(coll') : d # c =>
        /\ d \in Approved(coll) /\ d \in Collections \ {c, p} /\ coll'[d] = coll[d]
  BY DEF MInv, TypeOK, Approved
<1>2. \A d \in Approved(coll) : coll[d].active = coll[d].identity
  BY DEF MInv, Identified
<1>3. \A d \in Approved(coll') : d # c => coll'[d].identity # coll'[c].identity
  BY <1>1, <1>2 DEF IdentityFree
<1>4. \A d \in Approved(coll') : coll'[d].active = coll'[d].identity
  BY <1>1, <1>2
<1>5. ASSUME NEW d \in Approved(coll'), NEW e \in Approved(coll'),
             coll'[d].identity = coll'[e].identity
      PROVE  d = e
  <2>1. CASE d = c \/ e = c BY <1>3, <1>5, <2>1
  <2>2. CASE d # c /\ e # c
    <3>1. coll'[d] = coll[d] /\ coll'[e] = coll[e] BY <1>1, <2>2
    <3>2. d \in Approved(coll) /\ e \in Approved(coll) BY <1>1, <2>2
    <3> QED BY <1>5, <3>1, <3>2 DEF MInv, Identified, IdentityUnique
  <2> QED BY <2>1, <2>2
<1> QED BY <1>4, <1>5 DEF Identified, IdentityUnique

LEMMA ApproveCollectionStep ==
  ASSUME MInv, NEW c \in Collections, ApproveCollection(c)
  PROVE  MInv'
<1> DEFINE p == coll[c].supersedes
           S == {x \in Approved(alloc) : p # None /\ alloc[x].collection = p}
           C == {c, p} \cap Collections
<1>1. coll \in [Collections -> CollRow] /\ exc \in [Collections -> SUBSET MoneyExceptions]
  BY DEF MInv, TypeOK
<1>2. /\ coll[c].status = "VERIFIED" /\ IdentityFree(c)
      /\ p # None => coll[p].status \notin {"SUPERSEDED", "REVERSED"}
      /\ alloc' = Reversed(alloc, S) /\ UNCHANGED <<adj, app, sale, view>>
      /\ exc' = Reflagged(coll', C) /\ lapsed' = lapsed \ C
  BY DEF ApproveCollection, SaveColls
<1>3. coll' = [d \in Collections |->
                 IF d = c THEN [coll[c] EXCEPT !.status = "APPROVED",
                                               !.active = coll[c].identity]
                 ELSE IF d = p THEN Retired(p, "SUPERSEDED", c) ELSE coll[d]]
  BY DEF ApproveCollection, SaveColls
<1>4. S \in SUBSET Approved(alloc) OBVIOUS
<1>5. p # None => S = AllocsOf(alloc, p) BY DEF AllocsOf
<1>6. p = None => S = {} OBVIOUS
<1>7. p \in Collections \cup {None} /\ None \notin Collections
  BY <1>1, MoneyAssumption DEF CollRow
<1>8. /\ coll[c].identity \in Identities
      /\ p # None => coll[p].status # "ABSENT"
  BY <1>2 DEF MInv, Formed, CollsFormed
<1>9. \A d \in Collections \ C : coll'[d] = coll[d] BY <1>3
<1> HIDE DEF S, C
<1>10. /\ coll'[c] \in CollRow /\ coll'[c].status = "APPROVED"
       /\ coll'[c].active = coll[c].identity /\ coll'[c].identity = coll[c].identity
       /\ coll'[c].amount = coll[c].amount /\ coll'[c].due = coll[c].due
       /\ coll'[c].allocated = coll[c].allocated /\ coll'[c].parked = coll[c].parked
       /\ coll'[c].supersedes = coll[c].supersedes
  <2>1. coll[c] \in CollRow BY <1>1
  <2>2. coll'[c] = [coll[c] EXCEPT !.status = "APPROVED", !.active = coll[c].identity]
    BY <1>3
  <2> QED BY <2>1, <2>2, <1>8 DEF CollRow, Statuses
<1>11. ASSUME p # None, p # c
       PROVE  /\ coll'[p] \in CollRow /\ coll'[p].status = "SUPERSEDED"
              /\ coll'[p].identity = coll[p].identity /\ coll'[p].due = coll[p].due
              /\ coll'[p].allocated = 0 /\ coll'[p].parked = 0
              /\ coll'[p].supersedes = coll[p].supersedes
  <2>1. p \in Collections /\ coll[p] \in CollRow BY <1>1, <1>7, <1>11
  <2>2. coll'[p] = Retired(p, "SUPERSEDED", c) BY <1>3, <1>11, <2>1
  <2>3. 0 \in 0..MaxAmount BY MoneyAssumption
  <2>4. "SUPERSEDED" \in Statuses BY DEF Statuses
  <2> DEFINE q == Retired(p, "SUPERSEDED", c)
  <2> HIDE DEF p
  <2>5. /\ q \in CollRow /\ q.status = "SUPERSEDED" /\ q.identity = coll[p].identity
        /\ q.due = coll[p].due /\ q.allocated = 0 /\ q.parked = 0
        /\ q.supersedes = coll[p].supersedes
    BY ONLY <2>1, <2>3, <2>4, c \in Collections, RetiredFields
  <2> HIDE DEF q
  <2>6. coll'[p] = q BY <2>2 DEF q
  <2> QED BY ONLY <2>5, <2>6
<1>12. \A d \in Collections \ {c, p} : coll'[d] = coll[d] BY <1>9 DEF C
<1> HIDE DEF p
<1>13. coll' \in [Collections -> CollRow]
  <2>1. \A d \in Collections : coll'[d] \in CollRow BY <1>1, <1>7, <1>10, <1>11, <1>12
  <2>2. coll' = [d \in Collections |-> coll'[d]] BY <1>3
  <2> QED BY <2>1, <2>2
<1>14. \A d \in Collections :
         /\ coll'[d].identity = coll[d].identity /\ coll'[d].due = coll[d].due
         /\ coll'[d].supersedes = coll[d].supersedes
         /\ coll[d].supersedes \in Collections \cup {None}
         /\ coll[d].status # "ABSENT" <=> coll'[d].status # "ABSENT"
  <2>1. \A d \in Collections : coll[d].supersedes \in Collections \cup {None}
    BY <1>1 DEF CollRow
  <2> QED BY <1>2, <1>7, <1>8, <1>10, <1>11, <1>12, <2>1
<1>15. CollsFormed(coll')
  <2>1. ASSUME NEW d \in Collections, coll'[d].status # "ABSENT"
        PROVE  /\ coll'[d].identity \in Identities
               /\ coll'[d].supersedes # None => coll'[coll'[d].supersedes].status # "ABSENT"
    BY <1>14, <2>1 DEF MInv, Formed, CollsFormed
  <2> QED BY <2>1 DEF CollsFormed
<1>16. lapsed' \subseteq Collections BY <1>2 DEF MInv, TypeOK
<1>17. Identified'
  <2>1. Approved(coll') \subseteq (Approved(coll) \ {p}) \cup {c}
    BY <1>1, <1>7, <1>10, <1>11, <1>12, <1>13 DEF Approved
  <2>2. coll'[c].active = coll'[c].identity BY <1>10
  <2>3. coll'[c].identity = coll[c].identity /\ coll[c].supersedes = p
    BY <1>10 DEF p
  <2>4. IdentityFree(c) BY <1>2
  <2> QED BY <1>12, <2>1, <2>2, <2>3, <2>4, Admitted
<1>18. exc' \in [Collections -> SUBSET MoneyExceptions]
  BY <1>1, <1>2, FlagsType DEF Reflagged
<1>19. ExceptionsCurrent'
  <2>1. \A d \in Collections : \/ exc'[d] = Flags(coll'[d])
                               \/ /\ exc'[d] = exc[d] /\ coll'[d] = coll[d]
                                  /\ d \in lapsed => d \in lapsed'
    BY <1>2, <1>9 DEF Reflagged
  <2> QED BY <2>1, ExceptionsRefreshed DEF MInv
<1>20. /\ alloc' \in [Allocations -> AllocRow] /\ AllocsFormed(alloc')
       /\ Linked(alloc') /\ Shrunk(alloc, alloc', S)
  BY <1>2, <1>4, RevertAllocs
<1>21. Shrunk(app, app', {}) BY <1>2, Still
<1>22. TypeOK' /\ Formed' /\ Linked(app')
  BY <1>2, <1>13, <1>15, <1>18, <1>20 DEF MInv, TypeOK, Formed
<1>23. AllocsOf(alloc, c) = {} BY <1>2, NothingDrawn
<1>24. p # None => AllocsOf(alloc, p) \ S = {} BY <1>5
<1>25. \A d \in Collections : AllocsOf(alloc, d) \ S # {} =>
         coll'[d].status = coll[d].status /\ coll'[d].amount = coll[d].amount
  BY <1>12, <1>23, <1>24, <1>7
<1>26. \A d \in Collections \ {p} : AllocsOf(alloc, d) \cap S = {}
  <2>1. CASE p = None BY <1>6, <2>1
  <2>2. CASE p # None BY <1>5, <2>2 DEF AllocsOf
  <2> QED BY <2>1, <2>2
<1>27. p # None => /\ AllocsOf(alloc', p) = {} /\ ParkedOf(alloc', p) = {}
  BY <1>20, <1>24, ShrunkGroups DEF ParkedOf
<1>28. \A d \in Collections :
           \/ /\ AllocsOf(alloc, d) \cap S = {}
              /\ coll'[d].allocated = coll[d].allocated /\ coll'[d].parked = coll[d].parked
           \/ /\ coll'[d].allocated = SumOf(AllocsOf(alloc', d), alloc')
              /\ coll'[d].parked = SumOf(ParkedOf(alloc', d), alloc')
  <2> TAKE d \in Collections
  <2>1. CASE d = c BY <1>10, <1>23, <2>1
  <2>2. CASE d # c /\ d = p
    <3>1. p # None /\ p # c BY <1>7, <2>2
    <3>2. SumOf({}, alloc') = 0 BY SumEmpty
    <3> QED BY <1>11, <1>27, <2>2, <3>1, <3>2
  <2>3. CASE d \notin {c, p} BY <1>12, <1>26, <2>3
  <2> QED BY <2>1, <2>2, <2>3
<1>29. /\ \A j \in Adjustments : AppsOf(app, j) \ {} # {} =>
            adj'[j].status = adj[j].status /\ adj'[j].amount = adj[j].amount
       /\ \A j \in Adjustments :
            \/ AppsOf(app, j) \cap {} = {} /\ adj'[j].applied = adj[j].applied
            \/ adj'[j].applied = SumOf(AppsOf(app', j), app')
       /\ \A s \in Sales : sale'[s] = sale[s]
  BY <1>2
<1> QED BY <1>16, <1>17, <1>19, <1>20, <1>21, <1>22, <1>25, <1>28, <1>29, ShrinkStep

LEMMA ReverseCollectionStep ==
  ASSUME MInv, NEW c \in Collections, ReverseCollection(c)
  PROVE  MInv'
<1> DEFINE S == AllocsOf(alloc, c)
<1>1. coll \in [Collections -> CollRow] /\ exc \in [Collections -> SUBSET MoneyExceptions]
  BY DEF MInv, TypeOK
<1>2. /\ coll[c].status = "APPROVED" /\ alloc' = Reversed(alloc, S)
      /\ coll' = [coll EXCEPT ![c] = Retired(c, "REVERSED", None)]
      /\ exc' = Reflagged(coll', {c}) /\ UNCHANGED <<adj, app, sale, view>>
      /\ lapsed' = lapsed \ {c}
  BY DEF ReverseCollection, SaveColls
<1>3. S \in SUBSET Approved(alloc) BY DEF AllocsOf
<1>4. /\ coll'[c] \in CollRow /\ coll'[c].status = "REVERSED"
      /\ coll'[c].identity = coll[c].identity /\ coll'[c].due = coll[c].due
      /\ coll'[c].allocated = 0 /\ coll'[c].parked = 0
      /\ coll'[c].supersedes = coll[c].supersedes
  <2>1. coll[c] \in CollRow /\ 0 \in 0..MaxAmount BY <1>1, MoneyAssumption
  <2>2. coll'[c] = Retired(c, "REVERSED", None) BY <1>1, <1>2
  <2> QED BY <2>1, <2>2, RetiredFields DEF Statuses
<1> HIDE DEF S
<1>5. \A d \in Collections \ {c} : coll'[d] = coll[d] BY <1>1, <1>2
<1>6. coll' \in [Collections -> CollRow]
  <2>1. coll' = [d \in Collections |-> coll'[d]] BY <1>1, <1>2
  <2> QED BY <1>1, <1>4, <1>5, <2>1
<1>7. \A d \in Collections :
        /\ coll'[d].identity = coll[d].identity /\ coll'[d].due = coll[d].due
        /\ coll'[d].supersedes = coll[d].supersedes
        /\ coll[d].supersedes \in Collections \cup {None}
        /\ coll[d].status # "ABSENT" <=> coll'[d].status # "ABSENT"
  <2>1. \A d \in Collections : coll[d].supersedes \in Collections \cup {None}
    BY <1>1 DEF CollRow
  <2> QED BY <1>2, <1>4, <1>5, <2>1
<1>8. CollsFormed(coll')
  <2>1. ASSUME NEW d \in Collections, coll'[d].status # "ABSENT"
        PROVE  /\ coll'[d].identity \in Identities
               /\ coll'[d].supersedes # None => coll'[coll'[d].supersedes].status # "ABSENT"
    <3>1. coll'[d].supersedes # None => coll'[d].supersedes \in Collections BY <1>7
    <3> QED BY <1>7, <2>1, <3>1 DEF MInv, Formed, CollsFormed
  <2> QED BY <2>1 DEF CollsFormed
<1>9. lapsed' \subseteq Collections BY <1>2 DEF MInv, TypeOK
<1>10. Identified'
  <2>1. \A d \in Approved(coll') : d \in Approved(coll) /\ coll'[d] = coll[d]
    BY <1>1, <1>4, <1>5, <1>6 DEF Approved
  <2> QED BY <2>1 DEF MInv, Identified, IdentityUnique
<1>11. exc' \in [Collections -> SUBSET MoneyExceptions]
  BY <1>1, <1>2, FlagsType DEF Reflagged
<1>12. ExceptionsCurrent'
  <2>1. \A d \in Collections : \/ exc'[d] = Flags(coll'[d])
                               \/ /\ exc'[d] = exc[d] /\ coll'[d] = coll[d]
                                  /\ d \in lapsed => d \in lapsed'
    BY <1>2, <1>5 DEF Reflagged
  <2> QED BY <2>1, ExceptionsRefreshed DEF MInv
<1>13. /\ alloc' \in [Allocations -> AllocRow] /\ AllocsFormed(alloc')
       /\ Linked(alloc') /\ Shrunk(alloc, alloc', S)
  BY <1>2, <1>3, RevertAllocs
<1>14. Shrunk(app, app', {}) BY <1>2, Still
<1>15. TypeOK' /\ Formed' /\ Linked(app')
  BY <1>2, <1>6, <1>8, <1>11, <1>13 DEF MInv, TypeOK, Formed
<1>16. AllocsOf(alloc', c) = {} /\ ParkedOf(alloc', c) = {}
  BY <1>13, ShrunkGroups DEF S, ParkedOf
<1>17. \A d \in Collections \ {c} : AllocsOf(alloc, d) \cap S = {} BY DEF S, AllocsOf
<1>18. \A d \in Collections : AllocsOf(alloc, d) \ S # {} =>
         coll'[d].status = coll[d].status /\ coll'[d].amount = coll[d].amount
  BY <1>5 DEF S
<1>19. \A d \in Collections :
           \/ /\ AllocsOf(alloc, d) \cap S = {}
              /\ coll'[d].allocated = coll[d].allocated /\ coll'[d].parked = coll[d].parked
           \/ /\ coll'[d].allocated = SumOf(AllocsOf(alloc', d), alloc')
              /\ coll'[d].parked = SumOf(ParkedOf(alloc', d), alloc')
  <2>1. SumOf({}, alloc') = 0 BY SumEmpty
  <2> QED BY <1>4, <1>5, <1>16, <1>17, <2>1
<1>20. /\ \A j \in Adjustments : AppsOf(app, j) \ {} # {} =>
            adj'[j].status = adj[j].status /\ adj'[j].amount = adj[j].amount
       /\ \A j \in Adjustments :
            \/ AppsOf(app, j) \cap {} = {} /\ adj'[j].applied = adj[j].applied
            \/ adj'[j].applied = SumOf(AppsOf(app', j), app')
       /\ \A s \in Sales : sale'[s] = sale[s]
  BY <1>2
<1> QED BY <1>9, <1>10, <1>12, <1>13, <1>14, <1>15, <1>18, <1>19, <1>20, ShrinkStep

-----------------------------------------------------------------------------
(* Adjustments.                                                            *)

\* An adjustment that is not approved has no application, and shows none.
LEMMA NothingApplied ==
  ASSUME MInv, NEW j \in Adjustments, adj[j].status # "APPROVED"
  PROVE  AppsOf(app, j) = {} /\ adj[j].applied = 0
<1>1. AppsOf(app, j) = {} BY DEF MInv, DrawnOnce, AdjustmentCap
<1> QED BY <1>1, SumEmpty DEF MInv, TotalsCurrent

\* A step that touches adjustments and reverses applications R of theirs.
LEMMA AdjStep ==
  ASSUME MInv, adj' \in [Adjustments -> AdjRow], AdjsFormed(adj'),
         UNCHANGED <<coll, alloc, exc, sale, view, lapsed>>,
         NEW R \in SUBSET Approved(app),
         app' = Reversed(app, R) \/ (R = {} /\ app' = app),
         \A j \in Adjustments : AppsOf(app, j) \ R # {} =>
           adj'[j].status = adj[j].status /\ adj'[j].amount = adj[j].amount,
         \A j \in Adjustments :
           \/ AppsOf(app, j) \cap R = {} /\ adj'[j].applied = adj[j].applied
           \/ AppsOf(app, j) \subseteq R /\ adj'[j].applied = 0
  PROVE  MInv'
<1>1. /\ app' \in [Applications -> AppRow] /\ AppsFormed(app')
      /\ Linked(app') /\ Shrunk(app, app', R)
  <2>1. CASE app' = Reversed(app, R) BY <2>1, RevertApps
  <2>2. CASE R = {} /\ app' = app
    <3>1. Shrunk(app, app', R) BY <2>2, Still
    <3> QED BY <2>2, <3>1 DEF MInv, TypeOK, Formed
  <2> QED BY <2>1, <2>2
<1>2. TypeOK' /\ Formed' /\ Linked(alloc') BY <1>1 DEF MInv, TypeOK, Formed
<1>3. Identified' /\ ExceptionsCurrent'
  BY DEF MInv, Identified, IdentityUnique, ExceptionsCurrent
<1>4. Shrunk(alloc, alloc', {}) BY Still
<1>5. \A j \in Adjustments :
        \/ AppsOf(app, j) \cap R = {} /\ adj'[j].applied = adj[j].applied
        \/ adj'[j].applied = SumOf(AppsOf(app', j), app')
  <2> TAKE j \in Adjustments
  <2>1. CASE AppsOf(app, j) \subseteq R /\ adj'[j].applied = 0
    <3>1. AppsOf(app', j) = {} BY <1>1, <2>1, ShrunkGroups
    <3> QED BY <2>1, <3>1, SumEmpty
  <2> QED BY <2>1
<1>6. /\ \A c \in Collections : AllocsOf(alloc, c) \ {} # {} =>
           coll'[c].status = coll[c].status /\ coll'[c].amount = coll[c].amount
      /\ \A c \in Collections :
           \/ /\ AllocsOf(alloc, c) \cap {} = {}
              /\ coll'[c].allocated = coll[c].allocated /\ coll'[c].parked = coll[c].parked
           \/ /\ coll'[c].allocated = SumOf(AllocsOf(alloc', c), alloc')
              /\ coll'[c].parked = SumOf(ParkedOf(alloc', c), alloc')
      /\ \A s \in Sales : sale'[s] = sale[s]
  OBVIOUS
<1> QED BY <1>1, <1>2, <1>3, <1>4, <1>5, <1>6, ShrinkStep

LEMMA ProposeAdjustmentStep ==
  ASSUME MInv, NEW j \in Adjustments, NEW customer \in Customers, NEW classified \in BOOLEAN,
         NEW n \in Concessions, NEW prior \in Adjustments \cup {None},
         ProposeAdjustment(j, customer, classified, n, prior)
  PROVE  MInv'
<1> DEFINE r == [status |-> "DRAFT", customer |-> customer, classified |-> classified,
                 amount |-> n, applied |-> 0, supersedes |-> prior, successor |-> None]
<1>1. /\ adj[j].status = "ABSENT" /\ adj' = [adj EXCEPT ![j] = r]
      /\ UNCHANGED <<coll, alloc, app, exc, sale, view, lapsed>>
  BY DEF ProposeAdjustment
<1>2. /\ r \in AdjRow /\ r.applied = 0 /\ r.customer # NoCustomer
  BY MoneyAssumption, RegisterAssumption DEF AdjRow, Statuses, Pending
<1> HIDE DEF r
<1>3. adj \in [Adjustments -> AdjRow] BY DEF MInv, TypeOK
<1>4. adj' \in [Adjustments -> AdjRow] BY <1>1, <1>2, <1>3
<1>5. adj'[j] = r /\ \A i \in Adjustments \ {j} : adj'[i] = adj[i] BY <1>1, <1>3
<1>6. AdjsFormed(adj') BY <1>2, <1>5 DEF MInv, Formed, AdjsFormed
<1>7. AppsOf(app, j) = {} /\ adj[j].applied = 0 BY <1>1, NothingApplied
<1>8. {} \in SUBSET Approved(app) OBVIOUS
<1>9. \A i \in Adjustments : AppsOf(app, i) \ {} # {} =>
        adj'[i].status = adj[i].status /\ adj'[i].amount = adj[i].amount
  BY <1>5, <1>7
<1>10. \A i \in Adjustments :
         AppsOf(app, i) \cap {} = {} /\ adj'[i].applied = adj[i].applied
  BY <1>2, <1>5, <1>7
<1> QED BY <1>1, <1>4, <1>6, <1>8, <1>9, <1>10, AdjStep

LEMMA MoveAdjustmentStep ==
  ASSUME MInv, NEW j \in Adjustments, ReviewAdjustment(j) \/ RejectAdjustment(j)
  PROVE  MInv'
<1>1. PICK to \in {"REVIEW_PENDING", "VERIFIED", "REJECTED"} :
        adj[j].status \in Pending /\ adj' = [adj EXCEPT ![j].status = to]
  BY DEF ReviewAdjustment, RejectAdjustment, Submit, Verify, Reject, Moves, Pending
<1>2. UNCHANGED <<coll, alloc, app, exc, sale, view, lapsed>>
  BY DEF ReviewAdjustment, RejectAdjustment
<1>3. adj \in [Adjustments -> AdjRow] BY DEF MInv, TypeOK
<1>4. /\ adj' \in [Adjustments -> AdjRow]
      /\ adj'[j] = [adj[j] EXCEPT !.status = to]
      /\ \A i \in Adjustments \ {j} : adj'[i] = adj[i]
  BY <1>1, <1>3 DEF AdjRow, Statuses, Pending
<1>5. adj'[j].customer = adj[j].customer /\ adj'[j].applied = adj[j].applied
  BY <1>3, <1>4 DEF AdjRow
<1>6. adj[j].status \notin {"ABSENT", "APPROVED"} BY <1>1 DEF Pending
<1>7. AdjsFormed(adj') BY <1>4, <1>5, <1>6 DEF MInv, Formed, AdjsFormed
<1>8. AppsOf(app, j) = {} BY <1>6, NothingApplied
<1>9. {} \in SUBSET Approved(app) OBVIOUS
<1>10. \A i \in Adjustments : AppsOf(app, i) \ {} # {} =>
         adj'[i].status = adj[i].status /\ adj'[i].amount = adj[i].amount
  BY <1>4, <1>8
<1>11. \A i \in Adjustments :
         AppsOf(app, i) \cap {} = {} /\ adj'[i].applied = adj[i].applied
  BY <1>4, <1>5
<1> QED BY <1>2, <1>4, <1>7, <1>9, <1>10, <1>11, AdjStep

LEMMA ApproveAdjustmentStep ==
  ASSUME MInv, NEW j \in Adjustments, ApproveAdjustment(j)
  PROVE  MInv'
<1> DEFINE p == adj[j].supersedes
           replaces == p # None /\ adj[p].status = "APPROVED"
           R == IF replaces THEN AppsOf(app, p) ELSE {}
<1>1. adj \in [Adjustments -> AdjRow] BY DEF MInv, TypeOK
<1>2. /\ adj[j].status = "VERIFIED" /\ UNCHANGED <<coll, alloc, exc, sale, view, lapsed>>
      /\ app' = Reversed(app, R) \/ (R = {} /\ app' = app)
  BY DEF ApproveAdjustment
<1>3. adj' = [k \in Adjustments |->
       IF k = j THEN [adj[j] EXCEPT !.status = "APPROVED"]
       ELSE IF k = p /\ replaces
            THEN [adj[p] EXCEPT !.status = "SUPERSEDED", !.successor = j, !.applied = 0]
            ELSE adj[k]]
  BY DEF ApproveAdjustment
<1>4. R \in SUBSET Approved(app) BY DEF AppsOf
<1>5. p \in Adjustments \cup {None} /\ (replaces => p # j)
  BY <1>1, <1>2 DEF AdjRow
<1>6. /\ adj'[j] \in AdjRow /\ adj'[j].status = "APPROVED"
      /\ adj'[j].customer = adj[j].customer /\ adj'[j].applied = adj[j].applied
  <2>1. adj[j] \in AdjRow BY <1>1
  <2>2. adj'[j] = [adj[j] EXCEPT !.status = "APPROVED"] BY <1>3
  <2> QED BY <2>1, <2>2 DEF AdjRow, Statuses
<1>7. ASSUME replaces
      PROVE  /\ adj'[p] \in AdjRow /\ adj'[p].customer = adj[p].customer
             /\ adj'[p].applied = 0
  <2>1. p \in Adjustments /\ adj[p] \in AdjRow BY <1>1, <1>5, <1>7
  <2>2. adj'[p] = [adj[p] EXCEPT !.status = "SUPERSEDED", !.successor = j, !.applied = 0]
    BY <1>3, <1>5, <1>7, <2>1
  <2>3. 0 \in 0..MaxAmount BY MoneyAssumption
  <2> HIDE DEF p
  <2> QED BY <2>1, <2>2, <2>3 DEF AdjRow, Statuses
<1>8. \A k \in Adjustments \ {j} : k # p \/ ~replaces => adj'[k] = adj[k] BY <1>3
<1>9. replaces => adj[p].status # "ABSENT" OBVIOUS
<1>10. ~replaces => R = {} OBVIOUS
<1>11. replaces => R = AppsOf(app, p) OBVIOUS
<1> HIDE DEF p, replaces, R
<1>12. adj' \in [Adjustments -> AdjRow]
  <2>1. \A k \in Adjustments : adj'[k] \in AdjRow BY <1>1, <1>6, <1>7, <1>8
  <2>2. adj' = [k \in Adjustments |-> adj'[k]] BY <1>3
  <2> QED BY <2>1, <2>2
<1>13. AdjsFormed(adj')
  BY <1>2, <1>6, <1>7, <1>8, <1>9, <1>5 DEF MInv, Formed, AdjsFormed
<1>14. AppsOf(app, j) = {} BY <1>2, NothingApplied
<1>15. \A k \in Adjustments : AppsOf(app, k) \ R # {} =>
         adj'[k].status = adj[k].status /\ adj'[k].amount = adj[k].amount
  BY <1>8, <1>11, <1>14
<1>16. \A k \in Adjustments :
         \/ AppsOf(app, k) \cap R = {} /\ adj'[k].applied = adj[k].applied
         \/ AppsOf(app, k) \subseteq R /\ adj'[k].applied = 0
  <2> TAKE k \in Adjustments
  <2>1. CASE k = j BY <1>6, <1>14, <2>1
  <2>2. CASE replaces /\ k = p BY <1>7, <1>11, <2>2
  <2>3. CASE k # j /\ (k # p \/ ~replaces)
    <3>1. AppsOf(app, k) \cap R = {} BY <1>10, <1>11, <2>3 DEF AppsOf
    <3> QED BY <1>8, <2>3, <3>1
  <2> QED BY <2>1, <2>2, <2>3
<1> QED BY <1>2, <1>4, <1>12, <1>13, <1>15, <1>16, AdjStep

LEMMA ReverseAdjustmentStep ==
  ASSUME MInv, NEW j \in Adjustments, ReverseAdjustment(j)
  PROVE  MInv'
<1> DEFINE R == AppsOf(app, j)
<1>1. adj \in [Adjustments -> AdjRow] BY DEF MInv, TypeOK
<1>2. /\ adj[j].status = "APPROVED" /\ app' = Reversed(app, R)
      /\ adj' = [adj EXCEPT ![j].status = "REVERSED", ![j].applied = 0]
      /\ UNCHANGED <<coll, alloc, exc, sale, view, lapsed>>
  BY DEF ReverseAdjustment
<1>3. R \in SUBSET Approved(app) BY DEF AppsOf
<1>4. /\ adj'[j] = [adj[j] EXCEPT !.status = "REVERSED", !.applied = 0]
      /\ \A k \in Adjustments \ {j} : adj'[k] = adj[k]
  BY <1>1, <1>2
<1>5. /\ adj'[j] \in AdjRow /\ adj'[j].customer = adj[j].customer
      /\ adj'[j].applied = 0
  <2>1. adj[j] \in AdjRow /\ 0 \in 0..MaxAmount BY <1>1, MoneyAssumption
  <2> QED BY <1>4, <2>1 DEF AdjRow, Statuses
<1>6. adj' \in [Adjustments -> AdjRow]
  <2>1. adj' = [k \in Adjustments |-> adj'[k]] BY <1>1, <1>2
  <2> QED BY <1>1, <1>4, <1>5, <2>1
<1>7. AdjsFormed(adj') BY <1>2, <1>4, <1>5 DEF MInv, Formed, AdjsFormed
<1>8. \A k \in Adjustments : AppsOf(app, k) \ R # {} =>
        adj'[k].status = adj[k].status /\ adj'[k].amount = adj[k].amount
  BY <1>4
<1>9. \A k \in Adjustments \ {j} : AppsOf(app, k) \cap R = {} BY DEF AppsOf
<1>10. \A k \in Adjustments :
         \/ AppsOf(app, k) \cap R = {} /\ adj'[k].applied = adj[k].applied
         \/ AppsOf(app, k) \subseteq R /\ adj'[k].applied = 0
  BY <1>4, <1>5, <1>9
<1> QED BY <1>2, <1>3, <1>6, <1>7, <1>8, <1>10, AdjStep

-----------------------------------------------------------------------------
(* Payments and discounts that are approved: where the caps are checked.   *)

LEMMA ApprovedAlloc ==
  ASSUME MInv, NEW x \in Allocations, alloc[x].status = "VERIFIED",
         alloc[x].supersedes # None => Replaceable(alloc, alloc[x].supersedes)
  PROVE  /\ Replacing(alloc, x) \in [Allocations -> AllocRow]
         /\ AllocsFormed(Replacing(alloc, x)) /\ Linked(Replacing(alloc, x))
         /\ Grown(alloc, Replacing(alloc, x), x, alloc[x].supersedes)
<1> DEFINE u == Replacing(alloc, x)
           p == alloc[x].supersedes
<1>1. alloc \in [Allocations -> AllocRow] /\ AllocsFormed(alloc) BY DEF MInv, TypeOK, Formed
<1>2. Linked(u) /\ Grown(alloc, u, x, p) BY TablesNow, Replaces
<1>3. \A y \in Allocations :
        /\ u[y] \in AllocRow /\ u[y].collection = alloc[y].collection
        /\ u[y].sale = alloc[y].sale /\ u[y].customer = alloc[y].customer
        /\ u[y].supersedes = alloc[y].supersedes
        /\ alloc[y].supersedes \in Allocations \cup {None}
        /\ u[y].status # "ABSENT" => alloc[y].status # "ABSENT"
  <2> TAKE y \in Allocations
  <2>1. alloc[y] \in AllocRow BY <1>1
  <2>2. u[y] = IF y = x THEN [alloc[y] EXCEPT !.status = "APPROVED"]
               ELSE IF y = p THEN [alloc[y] EXCEPT !.status = "REVERSED", !.successor = x]
               ELSE alloc[y]
    BY <1>1 DEF Replacing
  <2>3. p = None \/ alloc[p].status # "ABSENT" BY DEF Replaceable
  <2>4. y # None BY MoneyAssumption
  <2> HIDE DEF u, p
  <2>5. CASE y = x
    <3>1. u[y] = [alloc[y] EXCEPT !.status = "APPROVED"] BY <2>2, <2>5
    <3> QED BY <2>1, <2>5, <3>1 DEF AllocRow, Statuses
  <2>6. CASE y # x /\ y = p
    <3>1. u[y] = [alloc[y] EXCEPT !.status = "REVERSED", !.successor = x] BY <2>2, <2>6
    <3>2. alloc[y].status # "ABSENT" BY <2>3, <2>4, <2>6
    <3> QED BY <2>1, <3>1, <3>2 DEF AllocRow, Statuses
  <2>7. CASE y # x /\ y # p
    <3>1. u[y] = alloc[y] BY <2>2, <2>7
    <3> QED BY <2>1, <3>1 DEF AllocRow
  <2> QED BY <2>5, <2>6, <2>7
<1>4. u \in [Allocations -> AllocRow]
  <2>1. u = [y \in Allocations |-> u[y]] BY <1>1 DEF Replacing
  <2> QED BY <1>3, <2>1
<1> HIDE DEF u, p
<1>5. AllocsFormed(u)
  <2>1. ASSUME NEW y \in Allocations, u[y].status # "ABSENT"
        PROVE  /\ u[y].collection \in Collections
               /\ u[y].sale # None => u[y].customer # NoCustomer
               /\ u[y].supersedes # None => u[u[y].supersedes].collection = u[y].collection
    BY <1>1, <1>3, <2>1 DEF AllocsFormed
  <2> QED BY <2>1 DEF AllocsFormed
<1> QED BY <1>2, <1>4, <1>5 DEF u, p

LEMMA ApprovedApp ==
  ASSUME MInv, NEW x \in Applications, app[x].status = "VERIFIED",
         app[x].supersedes # None => Replaceable(app, app[x].supersedes)
  PROVE  /\ Replacing(app, x) \in [Applications -> AppRow]
         /\ AppsFormed(Replacing(app, x)) /\ Linked(Replacing(app, x))
         /\ Grown(app, Replacing(app, x), x, app[x].supersedes)
<1> DEFINE u == Replacing(app, x)
           p == app[x].supersedes
<1>1. app \in [Applications -> AppRow] /\ AppsFormed(app) BY DEF MInv, TypeOK, Formed
<1>2. Linked(u) /\ Grown(app, u, x, p) BY TablesNow, Replaces
<1>3. \A y \in Applications :
        /\ u[y] \in AppRow /\ u[y].adjustment = app[y].adjustment
        /\ u[y].sale = app[y].sale /\ u[y].customer = app[y].customer
        /\ u[y].supersedes = app[y].supersedes
        /\ app[y].supersedes \in Applications \cup {None}
        /\ u[y].status # "ABSENT" => app[y].status # "ABSENT"
  <2> TAKE y \in Applications
  <2>1. app[y] \in AppRow BY <1>1
  <2>2. u[y] = IF y = x THEN [app[y] EXCEPT !.status = "APPROVED"]
               ELSE IF y = p THEN [app[y] EXCEPT !.status = "REVERSED", !.successor = x]
               ELSE app[y]
    BY <1>1 DEF Replacing
  <2>3. p = None \/ app[p].status # "ABSENT" BY DEF Replaceable
  <2>4. y # None BY MoneyAssumption
  <2> HIDE DEF u, p
  <2>5. CASE y = x
    <3>1. u[y] = [app[y] EXCEPT !.status = "APPROVED"] BY <2>2, <2>5
    <3> QED BY <2>1, <2>5, <3>1 DEF AppRow, Statuses
  <2>6. CASE y # x /\ y = p
    <3>1. u[y] = [app[y] EXCEPT !.status = "REVERSED", !.successor = x] BY <2>2, <2>6
    <3>2. app[y].status # "ABSENT" BY <2>3, <2>4, <2>6
    <3> QED BY <2>1, <3>1, <3>2 DEF AppRow, Statuses
  <2>7. CASE y # x /\ y # p
    <3>1. u[y] = app[y] BY <2>2, <2>7
    <3> QED BY <2>1, <3>1 DEF AppRow
  <2> QED BY <2>5, <2>6, <2>7
<1>4. u \in [Applications -> AppRow]
  <2>1. u = [y \in Applications |-> u[y]] BY <1>1 DEF Replacing
  <2> QED BY <1>3, <2>1
<1> HIDE DEF u, p
<1>5. AppsFormed(u)
  <2>1. ASSUME NEW y \in Applications, u[y].status # "ABSENT"
        PROVE  /\ u[y].adjustment \in Adjustments /\ u[y].sale \in Sales
               /\ u[y].customer # NoCustomer
               /\ u[y].supersedes # None => u[u[y].supersedes].adjustment = u[y].adjustment
    BY <1>1, <1>3, <2>1 DEF AppsFormed
  <2> QED BY <2>1 DEF AppsFormed
<1> QED BY <1>2, <1>4, <1>5 DEF u, p

LEMMA ApproveAllocationStep ==
  ASSUME MInv, NEW x \in Allocations, ApproveAllocation(x)
  PROVE  MInv'
<1> DEFINE c == alloc[x].collection
           s == alloc[x].sale
           p == alloc[x].supersedes
           n == alloc[x].amount
<1>1. /\ alloc[x].status = "VERIFIED"
      /\ p # None => Replaceable(alloc, p)
      /\ alloc' = Replacing(alloc, x) /\ SaveColls(Synced(alloc', {c}), {c})
      /\ coll[c].status = "APPROVED" /\ UNCHANGED <<adj, app, sale, view>>
  BY DEF ApproveAllocation, Eligible
<1>2. SumOf(AllocsOf(alloc, c) \ {p}, alloc) + n <= coll[c].amount
  BY DEF ApproveAllocation, WithinReceipt
<1>3. s # None =>
        /\ sale[s] = [status |-> "APPROVED", customer |-> alloc[x].customer]
        /\ SumOf(PaymentsOf(alloc, s) \ {p}, alloc) + SumOf(DiscountsOf(app, s), app) + n
             <= Gross[s]
  BY DEF ApproveAllocation, OwedBy, WithinGross
<1>4. /\ alloc' \in [Allocations -> AllocRow] /\ AllocsFormed(alloc')
      /\ Linked(alloc') /\ Grown(alloc, alloc', x, p)
  <2>1. alloc[x].supersedes # None => Replaceable(alloc, alloc[x].supersedes) BY <1>1
  <2>2. /\ Replacing(alloc, x) \in [Allocations -> AllocRow]
        /\ AllocsFormed(Replacing(alloc, x)) /\ Linked(Replacing(alloc, x))
        /\ Grown(alloc, Replacing(alloc, x), x, alloc[x].supersedes)
    BY <1>1, <2>1, ApprovedAlloc
  <2> QED BY <1>1, <2>2
<1>5. /\ alloc \in [Allocations -> AllocRow] /\ AllocsFormed(alloc)
      /\ coll \in [Collections -> CollRow] /\ app \in [Applications -> AppRow]
  BY DEF MInv, TypeOK, Formed
<1>6. /\ c \in Collections /\ p \in Allocations \cup {None} /\ None \notin Allocations
      /\ p # None => alloc[p].collection = c
      /\ n \in Nat /\ s \in Sales \cup {None} /\ None \notin Sales
  <2>1. alloc[x] \in AllocRow BY <1>5
  <2>2. None \notin Allocations /\ None \notin Sales /\ 0..MaxAmount \subseteq Nat
    BY MoneyAssumption
  <2>3. c \in Collections /\ (p # None => alloc[p].collection = c)
    BY <1>1, <1>5 DEF AllocsFormed
  <2> QED BY <2>1, <2>2, <2>3 DEF AllocRow
<1>7. Priced(alloc, Allocations) /\ Priced(app, Applications)
  BY <1>5, RowsTables DEF Rows
<1>8. \A d : /\ AllocsOf(alloc, d) \in SUBSET Approved(alloc)
             /\ ParkedOf(alloc, d) \in SUBSET AllocsOf(alloc, d)
             /\ PaymentsOf(alloc, d) \in SUBSET Approved(alloc)
             /\ DiscountsOf(app, d) \in SUBSET Applications
             /\ d # c => p \notin AllocsOf(alloc, d)
  BY <1>5, <1>6 DEF AllocsOf, ParkedOf, PaymentsOf, DiscountsOf, Approved
<1>9. n = alloc[x].amount /\ c = alloc[x].collection /\ s = alloc[x].sale OBVIOUS
<1> HIDE DEF c, s, p, n
<1>10. SumOf(AllocsOf(alloc', c), alloc') <= coll[c].amount
  <2>1. AllocsOf(alloc', c) = (AllocsOf(alloc, c) \ {p}) \cup {x}
    BY <1>4, <1>9, GrownGroups
  <2>2. AllocsOf(alloc, c) \in SUBSET Approved(alloc) BY <1>8
  <2>3. Raised(alloc, alloc', x, p, AllocsOf(alloc, c)) BY <1>4, <1>7, <2>2, Grows
  <2> QED BY <1>2, <1>9, <2>1, <2>3 DEF Raised
<1>11. \A d \in Collections \ {c} :
         /\ AllocsOf(alloc', d) = AllocsOf(alloc, d)
         /\ ParkedOf(alloc', d) = ParkedOf(alloc, d)
         /\ SumOf(AllocsOf(alloc', d), alloc') = SumOf(AllocsOf(alloc, d), alloc)
         /\ SumOf(ParkedOf(alloc', d), alloc') = SumOf(ParkedOf(alloc, d), alloc)
  <2> TAKE d \in Collections \ {c}
  <2>1. AllocsOf(alloc', d) = AllocsOf(alloc, d)
    <3>1. AllocsOf(alloc', d) = (AllocsOf(alloc, d) \ {p}) \cup {} BY <1>4, <1>9, GrownGroups
    <3>2. p \notin AllocsOf(alloc, d) BY <1>8
    <3> QED BY <3>1, <3>2
  <2>2. \A y \in AllocsOf(alloc, d) : alloc'[y] = alloc[y] BY <1>4, <1>8 DEF Grown
  <2>3. ParkedOf(alloc', d) = ParkedOf(alloc, d) BY <2>1, <2>2 DEF ParkedOf
  <2>4. SumOf(AllocsOf(alloc, d), alloc') = SumOf(AllocsOf(alloc, d), alloc)
    BY <2>2, SumSame
  <2>5. SumOf(ParkedOf(alloc, d), alloc') = SumOf(ParkedOf(alloc, d), alloc)
    <3>1. \A y \in ParkedOf(alloc, d) : alloc'[y].amount = alloc[y].amount
      BY <1>8, <2>2
    <3> QED BY <3>1, SumSame
  <2> QED BY <2>1, <2>3, <2>4, <2>5
<1>12. /\ coll' \in [Collections -> CollRow]
       /\ exc' \in [Collections -> SUBSET MoneyExceptions] /\ lapsed' \subseteq Collections
       /\ CollsFormed(coll') /\ Identified' /\ ExceptionsCurrent'
       /\ \A d \in Collections :
            coll'[d].status = coll[d].status /\ coll'[d].amount = coll[d].amount
       /\ \A d \in Collections \ {c} : coll'[d] = coll[d]
       /\ \A d \in {c} : /\ coll'[d].allocated = SumOf(AllocsOf(alloc', d), alloc')
                         /\ coll'[d].parked = SumOf(ParkedOf(alloc', d), alloc')
  <2>1. {c} \in SUBSET Collections BY <1>6
  <2>2. \A d \in {c} : SumOf(AllocsOf(alloc', d), alloc') <= coll[d].amount BY <1>10
  <2> QED BY <1>1, <1>4, <2>1, <2>2, SyncedColls
<1>13. TypeOK' /\ Formed' /\ Linked(app')
  BY <1>1, <1>4, <1>12 DEF MInv, TypeOK, Formed
<1>14. ReceiptCap'
  <2> SUFFICES ASSUME NEW d \in Collections
               PROVE  /\ SumOf(AllocsOf(alloc', d), alloc') <= coll'[d].amount
                      /\ AllocsOf(alloc', d) # {} => coll'[d].status = "APPROVED"
      BY DEF ReceiptCap
  <2>1. CASE d = c BY <1>1, <1>10, <1>12, <2>1
  <2>2. CASE d # c BY <1>11, <1>12, <2>2 DEF MInv, DrawnOnce, ReceiptCap
  <2> QED BY <2>1, <2>2
<1>15. SaleCap'
  <2> SUFFICES ASSUME NEW t \in Sales
               PROVE  SumOf(PaymentsOf(alloc', t), alloc') + SumOf(DiscountsOf(app, t), app)
                        <= Gross[t]
      BY <1>1 DEF SaleCap
  <2>1. SumOf(PaymentsOf(alloc, t), alloc) + SumOf(DiscountsOf(app, t), app) <= Gross[t]
    BY DEF MInv, DrawnOnce, SaleCap
  <2>0. PaymentsOf(alloc, t) \in SUBSET Approved(alloc) BY <1>8
  <2>2. /\ SumOf(PaymentsOf(alloc, t) \ {p}, alloc') = SumOf(PaymentsOf(alloc, t) \ {p}, alloc)
        /\ SumOf(PaymentsOf(alloc, t) \ {p}, alloc) \in Nat
        /\ SumOf(PaymentsOf(alloc, t), alloc) \in Nat
        /\ SumOf(PaymentsOf(alloc, t) \ {p}, alloc) <= SumOf(PaymentsOf(alloc, t), alloc)
        /\ SumOf((PaymentsOf(alloc, t) \ {p}) \cup {x}, alloc') =
             SumOf(PaymentsOf(alloc, t) \ {p}, alloc) + alloc[x].amount
    <3>1. Raised(alloc, alloc', x, p, PaymentsOf(alloc, t)) BY <1>4, <1>7, <2>0, Grows
    <3> QED BY <3>1 DEF Raised
  <2>3. SumOf(DiscountsOf(app, t), app) \in Nat BY <1>7, <1>8, SumType
  <2>4. Gross[t] \in Nat BY MoneyAssumption
  <2>5. PaymentsOf(alloc', t) =
          (PaymentsOf(alloc, t) \ {p}) \cup (IF s = t THEN {x} ELSE {})
    BY <1>4, <1>9, GrownGroups
  <2>6. CASE s = t
    <3>1. SumOf(PaymentsOf(alloc', t), alloc') = SumOf(PaymentsOf(alloc, t) \ {p}, alloc) + n
      BY <1>9, <2>2, <2>5, <2>6
    <3>2. SumOf(PaymentsOf(alloc, t) \ {p}, alloc) + SumOf(DiscountsOf(app, t), app) + n
            <= Gross[t]
      BY <1>3, <1>6, <2>6
    <3> QED BY <1>6, <2>2, <2>3, <2>4, <3>1, <3>2
  <2>7. CASE s # t
    <3>1. PaymentsOf(alloc', t) = PaymentsOf(alloc, t) \ {p} BY <2>5, <2>7
    <3> QED BY <2>1, <2>2, <2>3, <2>4, <3>1
  <2> QED BY <2>6, <2>7
<1>16. AdjustmentCap' BY <1>1 DEF MInv, DrawnOnce, AdjustmentCap
<1>17. TotalsCurrent'
  <2>1. ASSUME NEW d \in Collections
        PROVE  /\ coll'[d].allocated = SumOf(AllocsOf(alloc', d), alloc')
               /\ coll'[d].parked = SumOf(ParkedOf(alloc', d), alloc')
    <3>1. CASE d = c BY <1>12, <3>1
    <3>2. CASE d # c BY <1>11, <1>12, <3>2 DEF MInv, TotalsCurrent
    <3> QED BY <3>1, <3>2
  <2>2. \A j \in Adjustments : adj'[j].applied = SumOf(AppsOf(app', j), app')
    BY <1>1 DEF MInv, TotalsCurrent
  <2> QED BY <2>1, <2>2 DEF TotalsCurrent
<1>18. SettledWhereOwed'
  <2>1. ASSUME NEW y \in Approved(alloc'), alloc'[y].sale # None
        PROVE  sale'[alloc'[y].sale] = [status |-> "APPROVED", customer |-> alloc'[y].customer]
    <3>1. CASE y = x
      <4>1. alloc'[x].sale = s /\ alloc'[x].customer = alloc[x].customer
        BY <1>4, <1>9 DEF Grown
      <4> QED BY <1>1, <1>3, <2>1, <3>1, <4>1
    <3>2. CASE y # x
      <4>1. y \in Approved(alloc) /\ alloc'[y] = alloc[y] BY <1>4, <2>1, <3>2 DEF Grown
      <4> QED BY <1>1, <2>1, <4>1 DEF MInv, SettledWhereOwed
    <3> QED BY <3>1, <3>2
  <2>2. \A y \in Approved(app') :
          sale'[app'[y].sale] = [status |-> "APPROVED", customer |-> app'[y].customer]
    BY <1>1 DEF MInv, SettledWhereOwed
  <2> QED BY <2>1, <2>2 DEF SettledWhereOwed
<1> QED BY <1>4, <1>12, <1>13, <1>14, <1>15, <1>16, <1>17, <1>18 DEF MInv, DrawnOnce

LEMMA ApproveApplicationStep ==
  ASSUME MInv, NEW x \in Applications, ApproveApplication(x)
  PROVE  MInv'
<1> DEFINE j == app[x].adjustment
           s == app[x].sale
           p == app[x].supersedes
           n == app[x].amount
<1>1. /\ app[x].status = "VERIFIED"
      /\ p # None => Replaceable(app, p)
      /\ app' = Replacing(app, x) /\ adj' = Applied(app', {j})
      /\ adj[j].status = "APPROVED" /\ UNCHANGED <<coll, alloc, exc, sale, view, lapsed>>
  BY DEF ApproveApplication
<1>2. SumOf(AppsOf(app, j) \ {p}, app) + n <= adj[j].amount
  BY DEF ApproveApplication, WithinAdjustment
<1>3. /\ sale[s] = [status |-> "APPROVED", customer |-> app[x].customer]
      /\ SumOf(PaymentsOf(alloc, s), alloc) + SumOf(DiscountsOf(app, s) \ {p}, app) + n
           <= Gross[s]
  BY DEF ApproveApplication, OwedBy, WithinGross
<1>4. /\ app' \in [Applications -> AppRow] /\ AppsFormed(app')
      /\ Linked(app') /\ Grown(app, app', x, p)
  <2>1. app[x].supersedes # None => Replaceable(app, app[x].supersedes) BY <1>1
  <2>2. /\ Replacing(app, x) \in [Applications -> AppRow]
        /\ AppsFormed(Replacing(app, x)) /\ Linked(Replacing(app, x))
        /\ Grown(app, Replacing(app, x), x, app[x].supersedes)
    BY <1>1, <2>1, ApprovedApp
  <2> QED BY <1>1, <2>2
<1>5. /\ app \in [Applications -> AppRow] /\ AppsFormed(app)
      /\ adj \in [Adjustments -> AdjRow] /\ alloc \in [Allocations -> AllocRow]
  BY DEF MInv, TypeOK, Formed
<1>6. /\ j \in Adjustments /\ p \in Applications \cup {None} /\ None \notin Applications
      /\ p # None => app[p].adjustment = j
      /\ n \in Nat /\ s \in Sales
  <2>1. app[x] \in AppRow BY <1>5
  <2>2. None \notin Applications /\ 0..MaxAmount \subseteq Nat BY MoneyAssumption
  <2>3. j \in Adjustments /\ s \in Sales /\ (p # None => app[p].adjustment = j)
    BY <1>1, <1>5 DEF AppsFormed
  <2> QED BY <2>1, <2>2, <2>3 DEF AppRow
<1>7. Priced(alloc, Allocations) /\ Priced(app, Applications)
  BY <1>5, RowsTables DEF Rows
<1>8. \A d : /\ AppsOf(app, d) \in SUBSET Approved(app)
             /\ DiscountsOf(app, d) \in SUBSET Approved(app)
             /\ PaymentsOf(alloc, d) \in SUBSET Allocations
             /\ d # j => p \notin AppsOf(app, d)
  BY <1>5, <1>6 DEF AppsOf, PaymentsOf, DiscountsOf, Approved
<1>9. n = app[x].amount /\ j = app[x].adjustment /\ s = app[x].sale OBVIOUS
<1> HIDE DEF j, s, p, n
<1>10. SumOf(AppsOf(app', j), app') <= adj[j].amount
  <2>1. AppsOf(app', j) = (AppsOf(app, j) \ {p}) \cup {x} BY <1>4, <1>9, GrownGroups
  <2>2. AppsOf(app, j) \in SUBSET Approved(app) BY <1>8
  <2>3. Raised(app, app', x, p, AppsOf(app, j)) BY <1>4, <1>7, <2>2, Grows
  <2> QED BY <1>2, <1>9, <2>1, <2>3 DEF Raised
<1>11. \A d \in Adjustments \ {j} :
         /\ AppsOf(app', d) = AppsOf(app, d)
         /\ SumOf(AppsOf(app', d), app') = SumOf(AppsOf(app, d), app)
  <2> TAKE d \in Adjustments \ {j}
  <2>1. AppsOf(app', d) = AppsOf(app, d)
    <3>1. AppsOf(app', d) = (AppsOf(app, d) \ {p}) \cup {} BY <1>4, <1>9, GrownGroups
    <3>2. p \notin AppsOf(app, d) BY <1>8
    <3> QED BY <3>1, <3>2
  <2>2. \A y \in AppsOf(app, d) : app'[y] = app[y] BY <1>4, <1>8 DEF Grown
  <2>3. SumOf(AppsOf(app, d), app') = SumOf(AppsOf(app, d), app) BY <2>2, SumSame
  <2> QED BY <2>1, <2>3
<1>12. /\ adj' \in [Adjustments -> AdjRow] /\ AdjsFormed(adj')
       /\ \A d \in Adjustments :
            adj'[d].status = adj[d].status /\ adj'[d].amount = adj[d].amount
       /\ \A d \in Adjustments \ {j} : adj'[d] = adj[d]
       /\ \A d \in {j} : adj'[d].applied = SumOf(AppsOf(app', d), app')
  <2>1. {j} \in SUBSET Adjustments BY <1>6
  <2>2. \A d \in {j} : SumOf(AppsOf(app', d), app') <= adj[d].amount BY <1>10
  <2> QED BY <1>1, <1>4, <2>1, <2>2, AppliedAdjs
<1>13. TypeOK' /\ Formed' /\ Linked(alloc')
  BY <1>1, <1>4, <1>12 DEF MInv, TypeOK, Formed
<1>14. AdjustmentCap'
  <2> SUFFICES ASSUME NEW d \in Adjustments
               PROVE  /\ SumOf(AppsOf(app', d), app') <= adj'[d].amount
                      /\ AppsOf(app', d) # {} => adj'[d].status = "APPROVED"
      BY DEF AdjustmentCap
  <2>1. CASE d = j BY <1>1, <1>10, <1>12, <2>1
  <2>2. CASE d # j BY <1>11, <1>12, <2>2 DEF MInv, DrawnOnce, AdjustmentCap
  <2> QED BY <2>1, <2>2
<1>15. SaleCap'
  <2> SUFFICES ASSUME NEW t \in Sales
               PROVE  SumOf(PaymentsOf(alloc, t), alloc) + SumOf(DiscountsOf(app', t), app')
                        <= Gross[t]
      BY <1>1 DEF SaleCap
  <2>1. SumOf(PaymentsOf(alloc, t), alloc) + SumOf(DiscountsOf(app, t), app) <= Gross[t]
    BY DEF MInv, DrawnOnce, SaleCap
  <2> DEFINE G == DiscountsOf(app, t)
  <2>2. G \in SUBSET Approved(app) BY <1>8
  <2>3. DiscountsOf(app', t) = (G \ {p}) \cup (IF s = t THEN {x} ELSE {})
    BY <1>4, <1>9, GrownGroups
  <2>4. SumOf(PaymentsOf(alloc, t), alloc) \in Nat BY <1>7, <1>8, SumType
  <2>5. Gross[t] \in Nat BY MoneyAssumption
  <2>6. s = t => SumOf(PaymentsOf(alloc, t), alloc) + SumOf(G \ {p}, app) + n <= Gross[t]
    BY <1>3
  <2>7. SumOf(PaymentsOf(alloc, t), alloc) + SumOf(G, app) <= Gross[t] BY <2>1
  <2> HIDE DEF G
  <2>8. Raised(app, app', x, p, G) BY <1>4, <1>7, <2>2, Grows
  <2>9. CASE s = t
    <3>1. SumOf(DiscountsOf(app', t), app') = SumOf(G \ {p}, app) + n
      BY <1>9, <2>3, <2>8, <2>9 DEF Raised
    <3>2. SumOf(G \ {p}, app) \in Nat BY <2>8 DEF Raised
    <3> QED BY <1>6, <2>4, <2>5, <2>6, <2>9, <3>1, <3>2
  <2>10. CASE s # t
    <3>1. DiscountsOf(app', t) = G \ {p} BY <2>3, <2>10
    <3> QED BY <2>4, <2>5, <2>7, <2>8, <3>1 DEF Raised
  <2> QED BY <2>9, <2>10
<1>16. ReceiptCap' BY <1>1 DEF MInv, DrawnOnce, ReceiptCap
<1>17. TotalsCurrent'
  <2>1. ASSUME NEW d \in Adjustments PROVE adj'[d].applied = SumOf(AppsOf(app', d), app')
    <3>1. CASE d = j BY <1>12, <3>1
    <3>2. CASE d # j BY <1>11, <1>12, <3>2 DEF MInv, TotalsCurrent
    <3> QED BY <3>1, <3>2
  <2>2. \A c \in Collections :
          /\ coll'[c].allocated = SumOf(AllocsOf(alloc', c), alloc')
          /\ coll'[c].parked = SumOf(ParkedOf(alloc', c), alloc')
    BY <1>1 DEF MInv, TotalsCurrent
  <2> QED BY <2>1, <2>2 DEF TotalsCurrent
<1>18. SettledWhereOwed'
  <2>1. ASSUME NEW y \in Approved(app')
        PROVE  sale'[app'[y].sale] = [status |-> "APPROVED", customer |-> app'[y].customer]
    <3>1. CASE y = x
      <4>1. app'[x].sale = s /\ app'[x].customer = app[x].customer
        BY <1>4, <1>9 DEF Grown
      <4> QED BY <1>1, <1>3, <3>1, <4>1
    <3>2. CASE y # x
      <4>1. y \in Approved(app) /\ app'[y] = app[y] BY <1>4, <2>1, <3>2 DEF Grown
      <4> QED BY <1>1, <4>1 DEF MInv, SettledWhereOwed
    <3> QED BY <3>1, <3>2
  <2>2. \A y \in Approved(alloc') : alloc'[y].sale # None =>
          sale'[alloc'[y].sale] = [status |-> "APPROVED", customer |-> alloc'[y].customer]
    BY <1>1 DEF MInv, SettledWhereOwed
  <2> QED BY <2>1, <2>2 DEF SettledWhereOwed
<1>19. Identified' /\ ExceptionsCurrent'
  BY <1>1 DEF MInv, Identified, IdentityUnique, ExceptionsCurrent
<1> QED BY <1>4, <1>13, <1>14, <1>15, <1>16, <1>17, <1>18, <1>19 DEF MInv, DrawnOnce

-----------------------------------------------------------------------------
(* Every step keeps the invariant.                                         *)

LEMMA MoneyStep == MInv /\ [Next]_vars => MInv'
<1> SUFFICES ASSUME MInv, [Next]_vars PROVE MInv'
    OBVIOUS
<1>1. CASE \E c \in Collections : CollectionStep(c)
  <2>1. PICK c \in Collections : CollectionStep(c) BY <1>1
  <2> QED BY <2>1, CreateCollectionStep, ReviewCollectionStep, ApproveCollectionStep,
             ReverseCollectionStep, BecomesDueStep DEF CollectionStep
<1>2. CASE \E x \in Allocations : AllocationStep(x)
  <2>1. PICK x \in Allocations : AllocationStep(x) BY <1>2
  <2> QED BY <2>1, ProposeAllocationStep, MoveAllocationStep, ApproveAllocationStep,
             ReverseAllocationStep DEF AllocationStep
<1>3. CASE \E j \in Adjustments : AdjustmentStep(j)
  <2>1. PICK j \in Adjustments : AdjustmentStep(j) BY <1>3
  <2> QED BY <2>1, ProposeAdjustmentStep, MoveAdjustmentStep, ApproveAdjustmentStep,
             ReverseAdjustmentStep DEF AdjustmentStep
<1>4. CASE \E x \in Applications : ApplicationStep(x)
  <2>1. PICK x \in Applications : ApplicationStep(x) BY <1>4
  <2> QED BY <2>1, ProposeApplicationStep, MoveApplicationStep, ApproveApplicationStep,
             ReverseApplicationStep DEF ApplicationStep
<1>5. CASE \E s \in Sales : ChangeSale(s) \/ SettleSale(s)
  BY <1>5, ChangeSaleStep, SettleSaleStep
<1>6. CASE TakeView BY <1>6, TakeViewStep
<1>7. CASE Refresh BY <1>7, RefreshStep
<1>8. CASE UNCHANGED vars BY <1>8, MoneyStutter
<1> QED BY <1>1, <1>2, <1>3, <1>4, <1>5, <1>6, <1>7, <1>8 DEF Next

\* The inductive invariant holds in every reachable state of the money ledger.
THEOREM MoneyInvariant == Spec => []MInv
BY MoneyStart, MoneyStep, PTL DEF Spec

\* Every document row stays well typed through every operation of
\* money_service.py.
THEOREM MoneyTyped == Spec => []TypeOK
<1>1. MInv => TypeOK BY DEF MInv
<1> QED BY <1>1, MoneyInvariant, PTL

\* However many documents draw on it and in whatever order they are approved,
\* replaced and reversed, a receipt, an adjustment or a sale never gives more
\* than it holds (_locks and the caps of the two approvals).
THEOREM MoneyDrawnOnce == Spec => []DrawnOnce
<1>1. MInv => DrawnOnce BY DEF MInv
<1> QED BY <1>1, MoneyInvariant, PTL

\* Approved payments and discounts stand on an approved sale of their customer.
THEOREM MoneySettledWhereOwed == Spec => []SettledWhereOwed
<1>1. MInv => SettledWhereOwed BY DEF MInv
<1> QED BY <1>1, MoneyInvariant, PTL

\* The stored totals of receipts and adjustments are those of the approved rows
\* (_sync_collection_allocated_amounts, _sync_adjustment_applied_amounts).
THEOREM MoneyTotalsCurrent == Spec => []TotalsCurrent
<1>1. MInv => TotalsCurrent BY DEF MInv
<1> QED BY <1>1, MoneyInvariant, PTL

\* The open exceptions of a receipt follow its state, but for the one that a
\* passing effective time calls for (_refresh_collection_exceptions).
THEOREM MoneyExceptionsCurrent == Spec => []ExceptionsCurrent
<1>1. MInv => ExceptionsCurrent BY DEF MInv
<1> QED BY <1>1, MoneyInvariant, PTL

\* Two rows that took effect do not correct the same row: it names its one
\* successor.
LEMMA OneSuccessor ==
  ASSUME NEW t, Linked(t), NEW x \in DOMAIN t, NEW y \in DOMAIN t,
         t[x].supersedes # None, t[x].supersedes = t[y].supersedes,
         {t[x].status, t[y].status} \subseteq {"APPROVED", "REVERSED"}
  PROVE  x = y
<1>1. Took(t, x) /\ Took(t, y) BY DEF Took
<1> QED BY <1>1 DEF Linked

\* Of rival corrections of a payment or a discount at most one takes effect,
\* and a transaction identity is in force once (the superseded_by conflicts,
\* _collection_active_key).
THEOREM MoneyEffectiveOnce == Spec => []EffectiveOnce
<1>1. MInv => EffectiveOnce
  <2> SUFFICES ASSUME MInv PROVE EffectiveOnce
      OBVIOUS
  <2>1. /\ DOMAIN alloc = Allocations /\ DOMAIN app = Applications
        /\ Linked(alloc) /\ Linked(app)
    BY DEF MInv, TypeOK
  <2>2. SoleSuccessor BY <2>1, OneSuccessor DEF SoleSuccessor
  <2> QED BY <2>2 DEF MInv, Identified, EffectiveOnce
<1> QED BY <1>1, MoneyInvariant, PTL

=============================================================================
