------------------------------- MODULE Totals -------------------------------
(***************************************************************************)
(* Sums of small quantities, as the ledgers of fresko_universe take them   *)
(* over deals, outwards, allocations and collections (a Python loop        *)
(* "total += row", or SQL SUM).                                            *)
(*                                                                         *)
(* A quantity is a natural number of units, at most Cap.  The sum of f     *)
(* over S is the number of pairs <<s, k>> where k is one of the f[s]       *)
(* units of s.  Counting units instead of folding an addition keeps sums   *)
(* within what the finite-set theorems can talk about: TotalsProofs proves *)
(* from this definition the facts about sums the other proofs cite.        *)
(***************************************************************************)
EXTENDS Integers, FiniteSets

\* The units of the members of S, when each s in S holds f[s] of them.
Units(S, f, Cap) == {u \in S \X (1..Cap) : u[2] <= f[u[1]]}

\* The sum of f[s] over s in S, for f[s] in 0..Cap.
Total(S, f, Cap) == Cardinality(Units(S, f, Cap))

=============================================================================
