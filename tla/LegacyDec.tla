------------------------------ MODULE LegacyDec ------------------------------
(***************************************************************************)
(* The fixed-point decimals of cosmossdk.io/math that the keepers compute  *)
(* with, restricted to non-negative values.  A decimal d is the integer    *)
(* d * One (One is 10^18 in the library, an even number); products and     *)
(* quotients are rounded half to even, as the library does.                *)
(***************************************************************************)
EXTENDS Integers

CONSTANT One

ASSUME OneAssumption == One \in Nat \ {0} /\ One % 2 = 0

Dec == Nat

ChopPrecisionAndRound(n) ==
  LET quo  == n \div One
      rem  == n % One
      half == One \div 2
  IN  IF rem < half \/ (rem = half /\ quo % 2 = 0) THEN quo ELSE quo + 1

Mul(x, y) == ChopPrecisionAndRound(x * y)

Quo(x, y) == ChopPrecisionAndRound((x * One * One) \div y)

ToDec(n) == n * One

TruncateInt(x) == x \div One

\* d.Power(n), by the library's squarings: each one is rounded.
Power(d, n) ==
  LET pow[m \in 0..n] ==
        [base \in Nat |-> [acc \in Nat |->
           IF m <= 1 THEN Mul(base, acc)
           ELSE pow[m \div 2][Mul(base, base)][IF m % 2 = 1 THEN Mul(acc, base) ELSE acc]]]
  IN  IF n = 0 THEN One ELSE pow[n][d][One]
=============================================================================
