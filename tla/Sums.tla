-------------------------------- MODULE Sums --------------------------------
(***************************************************************************)
(* Sums of the values of a function, and what changes one of them.         *)
(***************************************************************************)
EXTENDS Integers, FiniteSetsExt

\* The sum of f[x] for x in S.
SumOver(f, S) == MapThenSumSet(LAMBDA x : f[x], S)

\* f[1] + ... + f[n] = total.
SumsTo(f, n, total) == SumOver(f, 1..n) = total

Credit(f, u, amount) == [f EXCEPT ![u] = @ + amount]
Debit(f, u, amount) == [f EXCEPT ![u] = @ - amount]
=============================================================================
