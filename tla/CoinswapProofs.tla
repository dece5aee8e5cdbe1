--------------------------- MODULE CoinswapProofs ---------------------------
(***************************************************************************)
(* Proofs about Coinswap for every set of accounts, denoms and amounts and *)
(* every choice of parameters: the arithmetic of the prices and shares,    *)
(* what each bank call does to the reserves, when a step keeps the pools   *)
(* sound, one lemma per action, then the theorems.                         *)
(***************************************************************************)
EXTENDS Coinswap, SumLemmas

\* The provers that try a leaf, one after the other, and the seconds each of them has.
USE SMTT(60), ZenonT(60), Z3T(60)

-----------------------------------------------------------------------------
(* Arithmetic.                                                             *)

\* Integer division rounds down.
LEMMA DivBounds ==
  ASSUME NEW a \in Nat, NEW b \in Nat \ {0}
  PROVE  /\ a \div b \in Nat
         /\ b * (a \div b) <= a
         /\ a < b * (a \div b) + b
  BY SMTT(60)

\* Multiplication by a natural number is monotone.
LEMMA MulMono ==
  ASSUME NEW a \in Nat, NEW b \in Nat, NEW c \in Nat, a <= b
  PROVE  a * c <= b * c
  BY SMTT(60)

\* The natural numbers are closed under multiplication.
LEMMA ProductIsNat ==
  ASSUME NEW a \in Nat, NEW b \in Nat
  PROVE  a * b \in Nat
  BY SMTT(60)

\* Multiplication of two inequalities.
LEMMA MulMono2 ==
  ASSUME NEW a \in Nat, NEW b \in Nat, NEW c \in Nat, NEW d \in Nat, a <= b, c <= d
  PROVE  a * c <= b * d
  <1>1. a * c <= b * c
    BY MulMono
  <1>2. b * c <= b * d
    BY SMTT(60)
  <1> QED
    BY <1>1, <1>2

\* A positive factor cancels in an inequality.
LEMMA MulCancel ==
  ASSUME NEW a \in Int, NEW b \in Int, NEW c \in Nat \ {0}, a * c <= b * c
  PROVE  a <= b
  BY SMTT(60)

\* GetInputPrice leaves something in the output reserve, and the product of the
\* reserves after the trade is at least what it was: rounding and fee favour the pool.
LEMMA InputPriceKeepsProduct ==
  ASSUME NEW in \in Nat, NEW inR \in Nat \ {0}, NEW outR \in Nat \ {0}, NEW fee \in 0..(One - 1)
  PROVE  LET out == GetInputPrice(in, inR, outR, fee)
         IN  /\ out \in Nat
             /\ out < outR
             /\ (inR + in) * (outR - out) >= inR * outR
  <1> DEFINE d == One - fee
             w == in * d
             D == inR * One + w
             out == (w * outR) \div D
  <1>1. d \in Nat \ {0} /\ d <= One /\ One \in Nat \ {0}
    BY ConstantsAssumption
  <1>2. w \in Nat
    BY <1>1
  <1>3. inR * One \in Nat \ {0}
    BY <1>1
  <1>4. D \in Nat \ {0}
    BY <1>2, <1>3
  <1>5. w * outR \in Nat
    BY <1>2
  <1>6. out \in Nat /\ D * out <= w * outR
    BY <1>4, <1>5, DivBounds
  <1> HIDE DEF D, w, d, out
  <1>7. out < outR
    <2> SUFFICES ASSUME outR <= out PROVE FALSE
      BY <1>6
    <2>1. D * outR <= D * out
      <3>1. outR * D <= out * D
        BY <1>4, <1>6, MulMono
      <3> QED
        BY <3>1, <1>4, <1>6
    <2>2. D * outR = (inR * One) * outR + w * outR
      BY <1>1, <1>2 DEF D
    <2>3. (inR * One) * outR > 0
      BY <1>3
    <2> QED
      BY <2>1, <2>2, <2>3, <1>1, <1>2, <1>3, <1>4, <1>5, <1>6
  <1>8. out * (inR + in) <= in * outR
    <2>1. (inR * d) * out <= (inR * One) * out
      <3>1. d * inR <= One * inR
        BY <1>1, MulMono
      <3>2. inR * d \in Nat /\ inR * One \in Nat /\ inR * d <= inR * One
        BY <1>1, <3>1
      <3> QED
        BY <3>2, <1>6, MulMono
    <2>2. D * out = (inR * One) * out + w * out
      BY <1>1, <1>2, <1>6 DEF D
    <2>3. (out * (inR + in)) * d = (inR * d) * out + w * out
      BY <1>1, <1>2, <1>6 DEF w
    <2>4. (in * outR) * d = w * outR
      BY <1>1, <1>2 DEF w
    <2>5. (out * (inR + in)) * d <= (in * outR) * d
      BY <2>1, <2>2, <2>3, <2>4, <1>1, <1>2, <1>3, <1>5, <1>6
    <2> QED
      BY <2>5, <1>1, <1>6, MulCancel
  <1>9. (inR + in) * (outR - out) >= inR * outR
    BY <1>6, <1>8
  <1> QED
    BY <1>6, <1>7, <1>9 DEF GetInputPrice, out, D, w, d

\* GetOutputPrice charges enough for the product of the reserves not to fall.
LEMMA OutputPriceKeepsProduct ==
  ASSUME NEW out \in Nat, NEW inR \in Nat \ {0}, NEW outR \in Nat, out < outR,
         NEW fee \in 0..(One - 1)
  PROVE  LET sold == GetOutputPrice(out, inR, outR, fee)
         IN  /\ sold \in Nat \ {0}
             /\ (inR + sold) * (outR - out) >= inR * outR
  <1> DEFINE d == One - fee
             left == outR - out
             N == inR * out * One
             E == left * d
             q == N \div E
             sold == q + 1
  <1>1. d \in Nat \ {0} /\ d <= One /\ One \in Nat \ {0}
    BY ConstantsAssumption
  <1>2. left \in Nat \ {0}
    OBVIOUS
  <1>3. E \in Nat \ {0}
    BY <1>1, <1>2
  <1>4. N \in Nat
    BY <1>1
  <1>5. q \in Nat /\ N < E * q + E
    BY <1>3, <1>4, DivBounds, ZenonT(90)
  <1> HIDE DEF E, N, q, d, left
  <1>6. sold \in Nat \ {0} /\ N <= E * sold
    BY <1>3, <1>4, <1>5
  <1> HIDE DEF sold
  <1>7. inR * out <= sold * left
    <2>1. E * sold <= (sold * left) * One
      <3>1. d * (sold * left) <= One * (sold * left)
        BY <1>1, <1>2, <1>6, MulMono
      <3>2. E * sold = d * (sold * left)
        BY <1>1, <1>2, <1>6 DEF E
      <3> QED
        BY <3>1, <3>2, <1>1, <1>2, <1>6
    <2>2. (inR * out) * One <= (sold * left) * One
      BY <2>1, <1>6, <1>3, <1>4, <1>1, <1>2 DEF N
    <2> QED
      BY <2>2, <1>1, <1>2, <1>6, MulCancel
  <1>8. (inR + sold) * left >= inR * outR
    BY <1>7, <1>6, <1>2 DEF left
  <1> QED
    BY <1>6, <1>8 DEF GetOutputPrice, sold, q, N, E, d, left

\* When both reserves per share do not fall, neither does the value of a share.
LEMMA RatiosGiveValue ==
  ASSUME NEW S \in Nat, NEW T \in Nat, NEW L \in Nat,
         NEW S1 \in Nat, NEW T1 \in Nat, NEW L1 \in Nat,
         S * L1 <= S1 * L, T * L1 <= T1 * L
  PROVE  S1 * T1 * (L * L) >= S * T * (L1 * L1)
  <1>1. (S * L1) * (T * L1) <= (S1 * L) * (T1 * L)
    BY MulMono2
  <1> QED
    BY <1>1

\* A join mints at most, and deposits at least, the reserves' proportion.
LEMMA JoinKeepsRatios ==
  ASSUME NEW S \in Nat \ {0}, NEW T \in Nat, NEW L \in Nat, NEW in \in Nat
  PROVE  LET mint == (L * in) \div S
             deposit == (T * in) \div S + 1
         IN  /\ mint \in Nat /\ deposit \in Nat \ {0}
             /\ S * (L + mint) <= (S + in) * L
             /\ T * (L + mint) <= (T + deposit) * L
  <1> DEFINE mint == (L * in) \div S
             q == (T * in) \div S
             deposit == q + 1
  <1>1. mint \in Nat /\ S * mint <= L * in
    BY DivBounds
  <1>2. q \in Nat /\ T * in < S * q + S
    BY DivBounds
  <1> HIDE DEF mint, q
  <1>3. deposit \in Nat \ {0} /\ T * in <= S * deposit
    BY <1>2
  <1> HIDE DEF deposit
  <1>4. T * mint <= deposit * L
    <2>1. (S * mint) * T <= (L * in) * T
      BY <1>1, MulMono
    <2>2. (T * in) * L <= (S * deposit) * L
      BY <1>3, MulMono
    <2>3. (T * mint) * S <= (deposit * L) * S
      BY <2>1, <2>2, <1>1, <1>3
    <2> QED
      BY <2>3, <1>1, <1>3, MulCancel
  <1> QED
    BY <1>1, <1>3, <1>4 DEF mint, deposit, q

\* A withdrawal pays at most the proportion of a reserve, and leaves some of it
\* unless every share is withdrawn.
LEMMA WithdrawKeepsRatio ==
  ASSUME NEW R \in Nat, NEW L \in Nat \ {0}, NEW w \in Nat, w <= L
  PROVE  LET out == (w * R) \div L
         IN  /\ out \in Nat /\ out <= R
             /\ R * (L - w) <= (R - out) * L
             /\ (w < L /\ R > 0) => out < R
  <1> DEFINE out == (w * R) \div L
  <1>1. out \in Nat /\ L * out <= w * R
    BY DivBounds
  <1> HIDE DEF out
  <1>2. w * R <= L * R
    BY MulMono
  <1>3. out <= R
    <2>1. out * L <= R * L
      BY <1>1, <1>2
    <2> QED
      BY <2>1, <1>1, MulCancel
  <1>4. ASSUME w < L, R > 0 PROVE out < R
    <2> SUFFICES ASSUME R <= out PROVE FALSE
      BY <1>1
    <2>1. out = R
      BY <1>1, <1>3
    <2>2. (L - w) * R > 0
      BY <1>4
    <2> QED
      BY <1>1, <2>1, <2>2
  <1> QED
    BY <1>1, <1>3, <1>4 DEF out

-----------------------------------------------------------------------------
(* The bank.                                                               *)

\* A balance that stays the same does not fall.
LEMMA NatReflexive ==
  ASSUME NEW a \in Nat, NEW b, b = a
  PROVE  b >= a
OBVIOUS

\* A balance that receives an amount, or nothing, does not fall.
LEMMA GainsOrStays ==
  ASSUME NEW a \in Nat, NEW y \in Nat, NEW p, NEW b, b = a + 0 - 0 + (IF p THEN y ELSE 0)
  PROVE  b >= a
OBVIOUS

\* A balance to which nothing is added twice does not fall.
LEMMA AddedNothing ==
  ASSUME NEW a \in Nat, NEW b, b = a + 0 + 0
  PROVE  b >= a
OBVIOUS

\* A number below a bound is not one at or above it.
LEMMA BelowDiffers ==
  ASSUME NEW a \in Nat, NEW b \in Nat, NEW c \in Nat, a < b, c >= b
  PROVE  c # a
OBVIOUS

\* Adding nothing.
LEMMA PlusZero ==
  ASSUME NEW x \in Nat, NEW y \in Nat
  PROVE  x + y + 0 = x + y /\ x + 0 + y = x + y
  OBVIOUS

\* Nothing withdrawn changes nothing.
LEMMA MinusZero ==
  ASSUME NEW x \in Nat, NEW y \in Nat
  PROVE  x - y - 0 = x - y /\ x - 0 - y = x - y
OBVIOUS

\* A deposit of something leaves something.
LEMMA SumPositive ==
  ASSUME NEW x \in Nat, NEW y \in Nat \ {0}
  PROVE  x + y > 0
OBVIOUS

\* Who has a fee and a deposit has the deposit left once the fee is paid.
LEMMA RestCovers ==
  ASSUME NEW x \in Nat, NEW f \in Nat, NEW y \in Nat, x >= f + y
  PROVE  x - f >= y
OBVIOUS

\* Sums of amounts are amounts.
LEMMA SumIsNat ==
  ASSUME NEW a \in Nat, NEW b \in Nat
  PROVE  a + b \in Nat
OBVIOUS

\* Escrow addresses are addresses, different pools have different ones, and none
\* of them is an account that signs messages or a module account.
LEMMA EscrowFacts ==
  ASSUME NEW n \in LptDenom
  PROVE  /\ GetReservePoolAddr(n) \in Addr \ (User \cup BlockedAddr)
         /\ \A m \in LptDenom : GetReservePoolAddr(m) = GetReservePoolAddr(n) => m = n
  BY AddrAssumption DEF Addr, Escrow, GetReservePoolAddr, BlockedAddr

\* The denoms of the two reserves and of the shares are different.
LEMMA DenomFacts ==
  ASSUME NEW t \in Token, NEW n \in LptDenom
  PROVE  /\ Standard \in Denom /\ t \in Denom /\ n \in Denom
         /\ Standard # t /\ Standard # n /\ t # n /\ n # NoPool /\ n \in Nat
  BY DenomAssumption, ConstantsAssumption DEF Denom, LptDenom, NoPool

\* A funded transfer keeps all balances natural and moves exactly its amount.
LEMMA SendEffect ==
  ASSUME NEW b \in Balances, NEW from \in Addr, NEW to \in Addr, NEW d \in Denom,
         NEW amt \in Nat, b[from][d] >= amt
  PROVE  LET c == SendCoins(b, from, to, d, amt)
         IN  /\ c \in Balances
             /\ \A a \in Addr, e \in Denom :
                  c[a][e] = b[a][e] - (IF a = from /\ e = d THEN amt ELSE 0)
                                    + (IF a = to /\ e = d THEN amt ELSE 0)
  <1> DEFINE b1 == [b EXCEPT ![from][d] = @ - amt]
             c == [b1 EXCEPT ![to][d] = @ + amt]
  <1>1. /\ b1 \in Balances
        /\ \A a \in Addr, e \in Denom :
             b1[a][e] = b[a][e] - (IF a = from /\ e = d THEN amt ELSE 0)
    BY DEF Balances
  <1> HIDE DEF b1
  <1>2. /\ c \in Balances
        /\ \A a \in Addr, e \in Denom :
             c[a][e] = b1[a][e] + (IF a = to /\ e = d THEN amt ELSE 0)
    BY <1>1 DEF Balances
  <1>3. c = SendCoins(b, from, to, d, amt)
    BY DEF SendCoins, b1
  <1> HIDE DEF c
  <1> QED
    BY <1>1, <1>2, <1>3 DEF Balances

\* A mint raises one balance of the module account.
LEMMA MintEffect ==
  ASSUME NEW b \in Balances, NEW d \in Denom, NEW amt \in Nat
  PROVE  /\ MintCoins(b, d, amt) \in Balances
         /\ \A a \in Addr, e \in Denom :
              MintCoins(b, d, amt)[a][e]
                = IF a = ModuleAccount /\ e = d THEN b[a][e] + amt ELSE b[a][e]
  BY DEF MintCoins, Balances, Addr

\* A covered burn lowers one balance of the module account.
LEMMA BurnEffect ==
  ASSUME NEW b \in Balances, NEW d \in Denom, NEW amt \in Nat, b[ModuleAccount][d] >= amt
  PROVE  /\ BurnCoins(b, d, amt) \in Balances
         /\ \A a \in Addr, e \in Denom :
              BurnCoins(b, d, amt)[a][e]
                = IF a = ModuleAccount /\ e = d THEN b[a][e] - amt ELSE b[a][e]
  BY DEF BurnCoins, Balances, Addr

-----------------------------------------------------------------------------
(* What all accounts hold together.                                        *)

Total(b, d) == SumOver([a \in Addr |-> b[a][d]], Addr)

\* From the balances b to c, all accounts together gain amt of denom d, and nothing else.
TotalGrows(b, c, d, amt) ==
  \A e \in Denom : Total(c, e) = Total(b, e) + (IF e = d THEN amt ELSE 0)

TotalStays(b, c) == \A e \in Denom : Total(c, e) = Total(b, e)

\* The module account ends as it began.
ModuleKept(b, c) == \A e \in Denom : c[ModuleAccount][e] = b[ModuleAccount][e]

\* There are finitely many accounts.
LEMMA AddrFinite == IsFiniteSet(Addr)
  <1> DEFINE f == [n \in LptDenom |-> GetReservePoolAddr(n)]
  <1>1. \A a \in Escrow : \E n \in LptDenom : f[n] = a
    BY DEF Escrow
  <1>2. IsFiniteSet(LptDenom)
    BY FiniteInterval, ConstantsAssumption DEF LptDenom
  <1> HIDE DEF f
  <1>3. IsFiniteSet(Escrow)
    BY <1>1, <1>2, FiniteImage, ZenonT(90)
  <1>4. IsFiniteSet({ModuleAccount, FeeCollector})
    <2>1. {ModuleAccount, FeeCollector} = {ModuleAccount} \cup {FeeCollector}
      OBVIOUS
    <2>2. IsFiniteSet({ModuleAccount}) /\ IsFiniteSet({FeeCollector})
      BY ZenonT(90), FiniteSmall
    <2> QED
      BY ZenonT(90), <2>1, <2>2, FiniteUnion
  <1>5. IsFiniteSet(User)
    BY ConstantsAssumption
  <1>6. IsFiniteSet(User \cup Escrow)
    BY ZenonT(90), <1>3, <1>5, FiniteUnion
  <1> QED
    BY ZenonT(90), <1>4, <1>6, FiniteUnion DEF Addr

\* The coins of a denom sum to a natural number, and no account holds more.
LEMMA TotalIsNat ==
  ASSUME WellOrdered, NEW b \in Balances, NEW d \in Denom
  PROVE  Total(b, d) \in Nat /\ \A a \in Addr : b[a][d] <= Total(b, d)
  <1> DEFINE f == [a \in Addr |-> b[a][d]]
  <1>1. NatValued(f, Addr)
    BY DEF NatValued, Balances
  <1>2. SumOver(f, Addr) \in Nat /\ \A a \in Addr : f[a] <= SumOver(f, Addr)
    BY <1>1, AddrFinite, SumOverNat
  <1> QED
    BY <1>2 DEF Total

\* Changing one balance changes one total, by as much.
LEMMA CellTotal ==
  ASSUME WellOrdered,
         NEW b \in Balances, NEW c \in Balances, NEW x \in Addr, NEW d \in Denom,
         NEW amt \in Int,
         \A a \in Addr, e \in Denom : c[a][e] = b[a][e] + (IF a = x /\ e = d THEN amt ELSE 0)
  PROVE  TotalGrows(b, c, d, amt)
  <1> SUFFICES ASSUME NEW e \in Denom
               PROVE  Total(c, e) = Total(b, e) + (IF e = d THEN amt ELSE 0)
    BY DEF TotalGrows
  <1> DEFINE f == [a \in Addr |-> b[a][e]]
             g == [a \in Addr |-> c[a][e]]
  <1>1. IntValued(f, Addr) /\ IntValued(g, Addr)
    BY DEF IntValued, Balances
  <1>2. SameOn(f, g, Addr \ {x})
    BY DEF SameOn, Balances
  <1>3. g[x] = f[x] + (IF e = d THEN amt ELSE 0) /\ f[x] \in Int
    BY DEF Balances
  <1>4. SumOver(f, Addr) \in Int
    BY <1>1, AddrFinite, SumOverInt
  <1> HIDE DEF f, g
  <1>5. SumChangesAt(f, g, Addr, x)
    BY <1>1, <1>2, AddrFinite, SumOverChange, ZenonT(90)
  <1>6. SumOver(g, Addr) = SumOver(f, Addr) + (IF e = d THEN amt ELSE 0)
    BY <1>3, <1>4, <1>5 DEF SumChangesAt
  <1> QED
    BY <1>6 DEF Total, f, g

\* A funded transfer, from any account to any account, itself included, changes no total.
LEMMA SendTotal ==
  ASSUME WellOrdered,
         NEW b \in Balances, NEW from \in Addr, NEW to \in Addr, NEW d \in Denom,
         NEW amt \in Nat, b[from][d] >= amt
  PROVE  TotalStays(b, SendCoins(b, from, to, d, amt))
  <1> DEFINE b1 == [b EXCEPT ![from][d] = @ - amt]
             c == [b1 EXCEPT ![to][d] = @ + amt]
  <1>1. /\ b1 \in Balances
        /\ \A a \in Addr, e \in Denom :
             b1[a][e] = b[a][e] + (IF a = from /\ e = d THEN 0 - amt ELSE 0)
    BY DEF Balances
  <1> HIDE DEF b1
  <1>2. /\ c \in Balances
        /\ \A a \in Addr, e \in Denom :
             c[a][e] = b1[a][e] + (IF a = to /\ e = d THEN amt ELSE 0)
    BY <1>1 DEF Balances
  <1>3. c = SendCoins(b, from, to, d, amt)
    BY DEF SendCoins, b1
  <1> HIDE DEF c
  <1>4. 0 - amt \in Int
    OBVIOUS
  <1>5. TotalGrows(b, b1, d, 0 - amt)
    BY <1>1, <1>4, CellTotal
  <1>6. TotalGrows(b1, c, d, amt)
    BY <1>1, <1>2, CellTotal
  <1>7. ASSUME NEW e \in Denom PROVE Total(c, e) = Total(b, e)
    <2>1. Total(b, e) \in Nat
      BY TotalIsNat
    <2> QED
      BY <1>5, <1>6, <2>1 DEF TotalGrows
  <1> QED
    BY <1>3, <1>7 DEF TotalStays

\* A mint raises one total.
LEMMA MintTotal ==
  ASSUME WellOrdered, NEW b \in Balances, NEW d \in Denom, NEW amt \in Nat
  PROVE  TotalGrows(b, MintCoins(b, d, amt), d, amt)
  <1> DEFINE c == MintCoins(b, d, amt)
  <1>1. c \in Balances /\ ModuleAccount \in Addr
    BY MintEffect DEF Addr
  <1>2. \A a \in Addr, e \in Denom :
          c[a][e] = IF a = ModuleAccount /\ e = d THEN b[a][e] + amt ELSE b[a][e]
    BY DEF MintCoins, Balances
  <1> HIDE DEF c
  <1>3. \A a \in Addr, e \in Denom :
          c[a][e] = b[a][e] + (IF a = ModuleAccount /\ e = d THEN amt ELSE 0)
    BY <1>2 DEF Balances
  <1>4. TotalGrows(b, c, d, amt)
    BY <1>1, <1>3, CellTotal
  <1> QED
    BY <1>4 DEF c

\* A covered burn lowers one total.
LEMMA BurnTotal ==
  ASSUME WellOrdered,
         NEW b \in Balances, NEW d \in Denom, NEW amt \in Nat, b[ModuleAccount][d] >= amt
  PROVE  TotalGrows(b, BurnCoins(b, d, amt), d, 0 - amt)
  <1> DEFINE c == BurnCoins(b, d, amt)
  <1>1. c \in Balances /\ ModuleAccount \in Addr /\ 0 - amt \in Int
    BY BurnEffect DEF Addr
  <1>2. \A a \in Addr, e \in Denom :
          c[a][e] = IF a = ModuleAccount /\ e = d THEN b[a][e] - amt ELSE b[a][e]
    BY DEF BurnCoins, Balances
  <1> HIDE DEF c
  <1>3. \A a \in Addr, e \in Denom :
          c[a][e] = b[a][e] + (IF a = ModuleAccount /\ e = d THEN 0 - amt ELSE 0)
    BY <1>2 DEF Balances
  <1>4. TotalGrows(b, c, d, 0 - amt)
    BY <1>1, <1>3, CellTotal
  <1> QED
    BY <1>4 DEF c

-----------------------------------------------------------------------------
(* The keepers' sequences of bank calls.                                   *)

\* From the balances b to c, the reserves of pool n grow by s and k, and no others.
ReservesAdded(b, c, n, t, s, k) ==
  /\ c \in Balances
  /\ \A x \in LptDenom, e \in {Standard} \cup Token :
       c[GetReservePoolAddr(x)][e] = b[GetReservePoolAddr(x)][e]
         + (IF x = n /\ e = Standard THEN s ELSE 0)
         + (IF x = n /\ e = t THEN k ELSE 0)

\* addLiquidity raises the two reserves of its pool and no other reserve; of all coins
\* only the shares become more, and none stay on the module account.
LEMMA AddEffect ==
  ASSUME WellOrdered,
         NEW b \in Balances, NEW u \in User, NEW n \in LptDenom, NEW t \in Token,
         NEW s \in Nat, NEW k \in Nat, NEW m \in Nat,
         b[u][Standard] >= s, b[u][t] >= k
  PROVE  /\ ReservesAdded(b, addLiquidity(b, u, n, t, s, k, m), n, t, s, k)
         /\ TotalGrows(b, addLiquidity(b, u, n, t, s, k, m), n, m)
         /\ ModuleKept(b, addLiquidity(b, u, n, t, s, k, m))
  <1> DEFINE esc == GetReservePoolAddr(n)
             b1 == SendCoins(b, u, esc, Standard, s)
             b2 == SendCoins(b1, u, esc, t, k)
             b3 == MintCoins(b2, n, m)
             b4 == SendCoins(b3, ModuleAccount, u, n, m)
  <1>1. esc \in Addr /\ u \in Addr /\ ModuleAccount \in Addr /\ esc # u
        /\ esc # ModuleAccount /\ u # ModuleAccount
    BY EscrowFacts, AddrAssumption DEF Addr, BlockedAddr
  <1>2. Standard \in Denom /\ t \in Denom /\ n \in Denom /\ Standard # t /\ n # Standard /\ n # t
    BY DenomFacts
  <1> HIDE DEF esc, b1, b2, b3, b4
  <1>3. /\ b1 \in Balances
        /\ \A a \in Addr, e \in Denom :
             b1[a][e] = b[a][e] - (IF a = u /\ e = Standard THEN s ELSE 0)
                                + (IF a = esc /\ e = Standard THEN s ELSE 0)
    BY <1>1, <1>2, SendEffect DEF b1
  <1>4. b1[u][t] >= k
    BY <1>1, <1>2, <1>3 DEF Balances
  <1>5. /\ b2 \in Balances
        /\ \A a \in Addr, e \in Denom :
             b2[a][e] = b1[a][e] - (IF a = u /\ e = t THEN k ELSE 0)
                                 + (IF a = esc /\ e = t THEN k ELSE 0)
    <2>1. b1 \in Balances
      BY ZenonT(90), <1>3
    <2> QED
      BY <1>1, <1>2, <1>4, <2>1, SendEffect DEF b2
  <1>6. /\ b3 \in Balances
        /\ \A a \in Addr, e \in Denom :
             b3[a][e] = IF a = ModuleAccount /\ e = n THEN b2[a][e] + m ELSE b2[a][e]
    <2>1. b2 \in Balances
      BY ZenonT(90), <1>5
    <2> QED
      BY <1>2, <2>1, MintEffect DEF b3
  <1>7. b3[ModuleAccount][n] >= m
    BY <1>1, <1>2, <1>5, <1>6 DEF Balances
  <1>8. /\ b4 \in Balances
        /\ \A a \in Addr, e \in Denom :
             b4[a][e] = b3[a][e] - (IF a = ModuleAccount /\ e = n THEN m ELSE 0)
                                 + (IF a = u /\ e = n THEN m ELSE 0)
    <2>1. b3 \in Balances
      BY ZenonT(90), <1>6
    <2> QED
      BY <1>1, <1>2, <1>7, <2>1, SendEffect DEF b4
  <1>9. ASSUME NEW x \in LptDenom, NEW e \in {Standard} \cup Token
        PROVE  b4[GetReservePoolAddr(x)][e] = b[GetReservePoolAddr(x)][e]
                    + (IF x = n /\ e = Standard THEN s ELSE 0)
                    + (IF x = n /\ e = t THEN k ELSE 0)
    <2> DEFINE ex == GetReservePoolAddr(x)
    <2>1. ex \in Addr /\ ex # u /\ ex # ModuleAccount /\ (ex = esc <=> x = n)
      BY EscrowFacts DEF BlockedAddr, esc
    <2>2. e \in Denom /\ e # n
      BY DenomFacts DEF Denom
    <2> HIDE DEF ex
    <2>3. b4[ex][e] = b2[ex][e]
      BY <2>1, <2>2, <1>5, <1>6, <1>8 DEF Balances
    <2>4. b2[ex][e] = b[ex][e] + (IF x = n /\ e = Standard THEN s ELSE 0)
                               + (IF x = n /\ e = t THEN k ELSE 0)
      BY <2>1, <2>2, <1>2, <1>3, <1>5 DEF Balances
    <2> QED
      BY <2>3, <2>4 DEF ex
  <1>10. ReservesAdded(b, b4, n, t, s, k)
    BY ZenonT(90), <1>8, <1>9 DEF ReservesAdded
  <1>11. TotalGrows(b, b4, n, m)
    <2>1. b1 \in Balances /\ b2 \in Balances /\ b3 \in Balances
      BY <1>3, <1>5, <1>6, ZenonT(90)
    <2>2. TotalStays(b, b1)
      BY <1>1, <1>2, SendTotal DEF b1
    <2>3. TotalStays(b1, b2)
      BY <1>1, <1>2, <1>4, <2>1, SendTotal DEF b2
    <2>4. TotalGrows(b2, b3, n, m)
      BY <1>2, <2>1, MintTotal DEF b3
    <2>5. TotalStays(b3, b4)
      BY <1>1, <1>2, <1>7, <2>1, SendTotal DEF b4
    <2> QED
      BY <2>2, <2>3, <2>4, <2>5, ZenonT(90) DEF TotalStays, TotalGrows
  <1>12. ModuleKept(b, b4)
    <2> SUFFICES ASSUME NEW e \in Denom PROVE b4[ModuleAccount][e] = b[ModuleAccount][e]
      BY DEF ModuleKept
    <2>1. b1[ModuleAccount][e] = b[ModuleAccount][e]
      BY <1>1, <1>3 DEF Balances
    <2>2. b2[ModuleAccount][e] = b1[ModuleAccount][e]
      BY <1>1, <1>3, <1>5 DEF Balances
    <2>3. b4[ModuleAccount][e] = b2[ModuleAccount][e]
      BY <1>1, <1>5, <1>6, <1>8 DEF Balances
    <2> QED
      BY <2>1, <2>2, <2>3
  <1>13. b4 = addLiquidity(b, u, n, t, s, k, m)
    BY DEF addLiquidity, esc, b1, b2, b3, b4
  <1> QED
    BY <1>10, <1>11, <1>12, <1>13, ZenonT(90)

\* The creation fee leaves the creator's account and touches no reserve; what is not
\* passed on as tax leaves the supply.
LEMMA FeeEffect ==
  ASSUME WellOrdered, params \in Params, NEW b \in Balances, NEW u \in User,
         b[u][Standard] >= params.poolCreationFee
  PROVE  LET c == DeductPoolCreationFee(b, u)
         IN  /\ CommunityTax \in Nat /\ CommunityTax <= params.poolCreationFee
             /\ c \in Balances
             /\ c[u][Standard] = b[u][Standard] - params.poolCreationFee
             /\ \A t \in Token : c[u][t] = b[u][t]
             /\ \A x \in LptDenom, e \in Denom :
                  c[GetReservePoolAddr(x)][e] = b[GetReservePoolAddr(x)][e]
             /\ TotalGrows(b, c, Standard, 0 - (params.poolCreationFee - CommunityTax))
             /\ ModuleKept(b, c)
  <1> DEFINE fee == params.poolCreationFee
             tax == CommunityTax
             b1 == SendCoins(b, u, ModuleAccount, Standard, fee)
             b2 == SendCoins(b1, ModuleAccount, FeeCollector, Standard, tax)
             b3 == BurnCoins(b2, Standard, fee - tax)
  <1>1. fee \in Nat /\ tax \in Nat /\ tax <= fee
    <2>1. fee \in Nat /\ params.taxRate \in Nat /\ params.taxRate <= One /\ One \in Nat \ {0}
      BY ConstantsAssumption DEF Params
    <2>2. tax \in Nat /\ tax <= fee
      BY <2>1, WithdrawKeepsRatio, fee * params.taxRate = params.taxRate * fee DEF CommunityTax
    <2> QED
      BY <2>1, <2>2
  <1>2. /\ u \in Addr /\ ModuleAccount \in Addr /\ FeeCollector \in Addr
        /\ u # ModuleAccount /\ u # FeeCollector /\ ModuleAccount # FeeCollector
    BY AddrAssumption DEF Addr, BlockedAddr
  <1>3. Standard \in Denom /\ Token \subseteq Denom /\ Standard \notin Token
    BY DenomAssumption DEF Denom
  <1> HIDE DEF fee, tax, b1, b2, b3
  <1>4. /\ b1 \in Balances
        /\ \A a \in Addr, e \in Denom :
             b1[a][e] = b[a][e] - (IF a = u /\ e = Standard THEN fee ELSE 0)
                                + (IF a = ModuleAccount /\ e = Standard THEN fee ELSE 0)
    BY <1>1, <1>2, <1>3, SendEffect DEF b1, fee
  <1>5. b1[ModuleAccount][Standard] >= fee
    BY <1>1, <1>2, <1>3, <1>4 DEF Balances
  <1>6. /\ b2 \in Balances
        /\ \A a \in Addr, e \in Denom :
             b2[a][e] = b1[a][e] - (IF a = ModuleAccount /\ e = Standard THEN tax ELSE 0)
                                 + (IF a = FeeCollector /\ e = Standard THEN tax ELSE 0)
    <2>1. b1[ModuleAccount][Standard] >= tax
      BY <1>1, <1>2, <1>3, <1>4, <1>5 DEF Balances
    <2> QED
      BY <2>1, <1>1, <1>2, <1>3, <1>4, SendEffect DEF b2
  <1>7. b2[ModuleAccount][Standard] >= fee - tax
    BY <1>1, <1>2, <1>3, <1>4, <1>5, <1>6 DEF Balances
  <1>8. fee - tax \in Nat
    BY <1>1
  <1>9. /\ b3 \in Balances
        /\ \A a \in Addr, e \in Denom :
             b3[a][e] = IF a = ModuleAccount /\ e = Standard THEN b2[a][e] - (fee - tax) ELSE b2[a][e]
    BY <1>3, <1>6, <1>7, <1>8, BurnEffect DEF b3
  <1>10. b3[u][Standard] = b[u][Standard] - fee /\ \A t \in Token : b3[u][t] = b[u][t]
    <2>1. b3[u][Standard] = b[u][Standard] - fee
      BY <1>1, <1>2, <1>3, <1>4, <1>6, <1>9 DEF Balances
    <2>2. ASSUME NEW t \in Token PROVE b3[u][t] = b[u][t]
      <3>1. t \in Denom /\ t # Standard
        BY <1>3
      <3>2. b1[u][t] = b[u][t] /\ b2[u][t] = b1[u][t] /\ b3[u][t] = b2[u][t]
        BY <3>1, <1>2, <1>4, <1>6, <1>9 DEF Balances
      <3> QED
        BY <3>2
    <2> QED
      BY <2>1, <2>2
  <1>11. ASSUME NEW x \in LptDenom, NEW e \in Denom
         PROVE  b3[GetReservePoolAddr(x)][e] = b[GetReservePoolAddr(x)][e]
    <2>1. /\ GetReservePoolAddr(x) \in Addr /\ GetReservePoolAddr(x) # u
          /\ GetReservePoolAddr(x) # ModuleAccount /\ GetReservePoolAddr(x) # FeeCollector
      BY EscrowFacts DEF BlockedAddr
    <2> QED
      BY <2>1, <1>4, <1>6, <1>9 DEF Balances
  <1>12. TotalGrows(b, b3, Standard, 0 - (fee - tax))
    <2>1. b1 \in Balances /\ b2 \in Balances
      BY <1>4, <1>6, ZenonT(90)
    <2>2. TotalStays(b, b1)
      BY <1>1, <1>2, <1>3, SendTotal DEF b1, fee
    <2>3. TotalStays(b1, b2)
      <3>1. b1[ModuleAccount][Standard] >= tax
        BY <1>1, <1>2, <1>3, <1>4, <1>5 DEF Balances
      <3> QED
        BY <3>1, <2>1, <1>1, <1>2, <1>3, SendTotal DEF b2
    <2>4. TotalGrows(b2, b3, Standard, 0 - (fee - tax))
      BY <2>1, <1>3, <1>7, <1>8, BurnTotal DEF b3
    <2> QED
      BY <2>2, <2>3, <2>4, ZenonT(90) DEF TotalStays, TotalGrows
  <1>13. ModuleKept(b, b3)
    <2> SUFFICES ASSUME NEW e \in Denom PROVE b3[ModuleAccount][e] = b[ModuleAccount][e]
      BY DEF ModuleKept
    <2>1. CASE e # Standard
      BY <2>1, <1>2, <1>4, <1>6, <1>9 DEF Balances
    <2>2. CASE e = Standard
      <3>1. b1[ModuleAccount][e] = b[ModuleAccount][e] + fee
        BY <2>2, <1>1, <1>2, <1>4 DEF Balances
      <3>2. b2[ModuleAccount][e] = b1[ModuleAccount][e] - tax
        BY <2>2, <1>1, <1>2, <1>4, <1>6 DEF Balances
      <3>3. b3[ModuleAccount][e] = b2[ModuleAccount][e] - (fee - tax)
        BY <2>2, <1>2, <1>9
      <3>4. b[ModuleAccount][e] \in Nat
        BY <1>2 DEF Balances
      <3> QED
        BY <3>1, <3>2, <3>3, <3>4, <1>1
    <2> QED
      BY <2>1, <2>2
  <1>14. b3 = DeductPoolCreationFee(b, u)
    BY DEF DeductPoolCreationFee, fee, tax, b1, b2, b3
  <1>15. /\ CommunityTax \in Nat /\ CommunityTax <= params.poolCreationFee
         /\ b3 \in Balances
         /\ b3[u][Standard] = b[u][Standard] - params.poolCreationFee
         /\ TotalGrows(b, b3, Standard, 0 - (params.poolCreationFee - CommunityTax))
    BY <1>1, <1>9, <1>10, <1>12, ZenonT(90) DEF fee, tax
  <1> QED
    BY <1>10, <1>11, <1>13, <1>14, <1>15, ZenonT(90)

\* From the balances b to c, the reserves of pool n shrink by s and k, and no others.
ReservesTaken(b, c, n, t, s, k) ==
  /\ c \in Balances
  /\ \A x \in LptDenom, e \in {Standard} \cup Token :
       c[GetReservePoolAddr(x)][e] = b[GetReservePoolAddr(x)][e]
         - (IF x = n /\ e = Standard THEN s ELSE 0)
         - (IF x = n /\ e = t THEN k ELSE 0)

\* removeLiquidity lowers the two reserves of its pool and no other reserve; of all
\* coins only the shares become fewer, and none stay on the module account.
LEMMA RemoveEffect ==
  ASSUME WellOrdered,
         NEW b \in Balances, NEW u \in User, NEW n \in LptDenom, NEW t \in Token,
         NEW w \in Nat, NEW s \in Nat, NEW k \in Nat, b[u][n] >= w,
         b[GetReservePoolAddr(n)][Standard] >= s, b[GetReservePoolAddr(n)][t] >= k
  PROVE  /\ ReservesTaken(b, removeLiquidity(b, u, n, t, w, s, k), n, t, s, k)
         /\ TotalGrows(b, removeLiquidity(b, u, n, t, w, s, k), n, 0 - w)
         /\ ModuleKept(b, removeLiquidity(b, u, n, t, w, s, k))
  <1> DEFINE esc == GetReservePoolAddr(n)
             b1 == SendCoins(b, u, ModuleAccount, n, w)
             b2 == BurnCoins(b1, n, w)
             b3 == SendCoins(b2, esc, u, Standard, s)
             b4 == SendCoins(b3, esc, u, t, k)
  <1>1. esc \in Addr /\ u \in Addr /\ ModuleAccount \in Addr /\ esc # u
        /\ esc # ModuleAccount /\ u # ModuleAccount
    BY EscrowFacts, AddrAssumption DEF Addr, BlockedAddr
  <1>2. Standard \in Denom /\ t \in Denom /\ n \in Denom /\ Standard # t /\ n # Standard /\ n # t
    BY DenomFacts
  <1>3. b[esc][Standard] >= s /\ b[esc][t] >= k
    OBVIOUS
  <1> HIDE DEF esc, b1, b2, b3, b4
  <1>4. /\ b1 \in Balances
        /\ \A a \in Addr, e \in Denom :
             b1[a][e] = b[a][e] - (IF a = u /\ e = n THEN w ELSE 0)
                                + (IF a = ModuleAccount /\ e = n THEN w ELSE 0)
    BY <1>1, <1>2, SendEffect DEF b1
  <1>5. b1[ModuleAccount][n] >= w
    BY <1>1, <1>2, <1>4 DEF Balances
  <1>6. /\ b2 \in Balances
        /\ \A a \in Addr, e \in Denom :
             b2[a][e] = IF a = ModuleAccount /\ e = n THEN b1[a][e] - w ELSE b1[a][e]
    <2>1. b1 \in Balances
      BY ZenonT(90), <1>4
    <2> QED
      BY <1>2, <1>5, <2>1, BurnEffect DEF b2
  <1>7. b2[esc][Standard] = b[esc][Standard] /\ b2[esc][t] = b[esc][t]
    BY <1>1, <1>2, <1>4, <1>6 DEF Balances
  <1>8. /\ b3 \in Balances
        /\ \A a \in Addr, e \in Denom :
             b3[a][e] = b2[a][e] - (IF a = esc /\ e = Standard THEN s ELSE 0)
                                 + (IF a = u /\ e = Standard THEN s ELSE 0)
    BY <1>1, <1>2, <1>3, <1>6, <1>7, SendEffect DEF b3
  <1>9. b3[esc][t] >= k
    BY <1>1, <1>2, <1>3, <1>7, <1>8 DEF Balances
  <1>10. /\ b4 \in Balances
         /\ \A a \in Addr, e \in Denom :
              b4[a][e] = b3[a][e] - (IF a = esc /\ e = t THEN k ELSE 0)
                                  + (IF a = u /\ e = t THEN k ELSE 0)
    BY <1>1, <1>2, <1>8, <1>9, SendEffect DEF b4
  <1>11. ASSUME NEW x \in LptDenom, NEW e \in {Standard} \cup Token
         PROVE  b4[GetReservePoolAddr(x)][e] = b[GetReservePoolAddr(x)][e]
                    - (IF x = n /\ e = Standard THEN s ELSE 0)
                    - (IF x = n /\ e = t THEN k ELSE 0)
    <2> DEFINE ex == GetReservePoolAddr(x)
    <2>1. ex \in Addr /\ ex # u /\ ex # ModuleAccount /\ (ex = esc <=> x = n)
      BY EscrowFacts DEF BlockedAddr, esc
    <2>2. e \in Denom /\ e # n
      BY DenomFacts DEF Denom
    <2> HIDE DEF ex
    <2>3. b2[ex][e] = b[ex][e]
      BY <2>1, <2>2, <1>4, <1>6 DEF Balances
    <2>4. b3[ex][e] = b2[ex][e] - (IF x = n /\ e = Standard THEN s ELSE 0)
      BY <2>1, <2>2, <1>6, <1>8 DEF Balances
    <2>5. b4[ex][e] = b3[ex][e] - (IF x = n /\ e = t THEN k ELSE 0)
      BY <2>1, <2>2, <1>8, <1>10 DEF Balances
    <2> QED
      BY <2>3, <2>4, <2>5 DEF ex
  <1>12. ReservesTaken(b, b4, n, t, s, k)
    BY ZenonT(90), <1>10, <1>11 DEF ReservesTaken
  <1>13. TotalGrows(b, b4, n, 0 - w)
    <2>1. b1 \in Balances /\ b2 \in Balances /\ b3 \in Balances
      BY <1>4, <1>6, <1>8, ZenonT(90)
    <2>2. TotalStays(b, b1)
      BY <1>1, <1>2, SendTotal DEF b1
    <2>3. TotalGrows(b1, b2, n, 0 - w)
      BY <1>2, <1>5, <2>1, BurnTotal DEF b2
    <2>4. TotalStays(b2, b3)
      <3>1. b2[esc][Standard] >= s
        BY <1>3, <1>7
      <3> QED
        BY <1>1, <1>2, <2>1, <3>1, SendTotal DEF b3
    <2>5. TotalStays(b3, b4)
      BY <1>1, <1>2, <1>9, <2>1, SendTotal DEF b4
    <2> QED
      BY <2>2, <2>3, <2>4, <2>5, ZenonT(90) DEF TotalStays, TotalGrows
  <1>14. ModuleKept(b, b4)
    <2> SUFFICES ASSUME NEW e \in Denom PROVE b4[ModuleAccount][e] = b[ModuleAccount][e]
      BY DEF ModuleKept
    <2>1. b2[ModuleAccount][e] = b[ModuleAccount][e]
      <3>1. b[ModuleAccount][e] \in Nat
        BY <1>1 DEF Balances
      <3>2. b1[ModuleAccount][e] = b[ModuleAccount][e] + (IF e = n THEN w ELSE 0)
        BY <1>1, <1>4, <3>1
      <3>3. b2[ModuleAccount][e] = IF e = n THEN b1[ModuleAccount][e] - w ELSE b1[ModuleAccount][e]
        BY <1>1, <1>6
      <3> QED
        BY <3>1, <3>2, <3>3
    <2>2. b3[ModuleAccount][e] = b2[ModuleAccount][e]
      BY <1>1, <1>6, <1>8 DEF Balances
    <2>3. b4[ModuleAccount][e] = b3[ModuleAccount][e]
      BY <1>1, <1>8, <1>10 DEF Balances
    <2> QED
      BY <2>1, <2>2, <2>3
  <1>15. b4 = removeLiquidity(b, u, n, t, w, s, k)
    BY DEF removeLiquidity, esc, b1, b2, b3, b4
  <1> QED
    BY <1>12, <1>13, <1>14, <1>15, ZenonT(90)

-----------------------------------------------------------------------------
(* Steps.                                                                  *)

StepInv == \A t \in Token, n \in LptDenom :
             (pools[t] = n /\ supply[n] > 0) => ShareValueStep(t, n)

\* A step that starts with supply and balances in agreement ends with them in agreement.
KeepsSupply == SupplyIsBalances => SupplyIsBalances'

\* It is enough that the supply changes as the totals do.
LEMMA SupplyStep ==
  ASSUME WellOrdered, bank \in Balances, bank' \in Balances, ModuleKept(bank, bank'),
         \A e \in Denom : supply'[e] = supply[e] + (Total(bank', e) - Total(bank, e))
  PROVE  KeepsSupply
  <1> SUFFICES ASSUME SupplyIsBalances PROVE SupplyIsBalances'
    BY DEF KeepsSupply
  <1>1. ASSUME NEW e \in Denom PROVE supply'[e] = Total(bank', e)
    <2>1. supply[e] = Total(bank, e)
      BY DEF SupplyIsBalances, Total
    <2>2. Total(bank, e) \in Nat /\ Total(bank', e) \in Nat
      BY TotalIsNat
    <2> QED
      BY <2>1, <2>2
  <1>2. ASSUME NEW e \in Denom PROVE bank'[ModuleAccount][e] = 0
    BY DEF SupplyIsBalances, ModuleKept
  <1> QED
    BY <1>1, <1>2 DEF SupplyIsBalances, Total

\* In particular that one denom grows or shrinks by the same in both, the others not at all.
LEMMA SupplyStepOne ==
  ASSUME WellOrdered, bank \in Balances, bank' \in Balances, ModuleKept(bank, bank'),
         NEW d \in Denom, NEW amt \in Int, TotalGrows(bank, bank', d, amt),
         \A e \in Denom : supply'[e] = supply[e] + (IF e = d THEN amt ELSE 0)
  PROVE  KeepsSupply
  <1>1. ASSUME NEW e \in Denom
        PROVE  supply'[e] = supply[e] + (Total(bank', e) - Total(bank, e))
    <2>1. Total(bank', e) = Total(bank, e) + (IF e = d THEN amt ELSE 0)
      BY DEF TotalGrows
    <2>2. Total(bank, e) \in Nat
      BY TotalIsNat
    <2>3. Total(bank', e) - Total(bank, e) = IF e = d THEN amt ELSE 0
      BY <2>1, <2>2
    <2> QED
      BY <2>3
  <1> QED
    BY <1>1, SupplyStep

\* Or that nothing changes.
LEMMA SupplyStepNone ==
  ASSUME WellOrdered, bank \in Balances, supply \in [Denom -> Nat], bank' \in Balances,
         ModuleKept(bank, bank'), TotalStays(bank, bank'), supply' = supply
  PROVE  KeepsSupply
  <1>1. ASSUME NEW e \in Denom
        PROVE  supply'[e] = supply[e] + (Total(bank', e) - Total(bank, e))
    <2>1. Total(bank', e) = Total(bank, e) /\ Total(bank, e) \in Nat /\ supply[e] \in Nat
      BY TotalIsNat DEF TotalStays
    <2> QED
      BY <2>1
  <1> QED
    BY <1>1, SupplyStep

\* A step leaves a pool alone, up to coins that are given to it ...
Untouched(t, n) ==
  /\ supply'[n] = supply[n]
  /\ bank'[GetReservePoolAddr(n)][Standard] >= bank[GetReservePoolAddr(n)][Standard]
  /\ bank'[GetReservePoolAddr(n)][t] >= bank[GetReservePoolAddr(n)][t]

\* ... or changes its reserves and shares so that both properties survive.
Sound(t, n) ==
  /\ supply'[n] > 0 => /\ bank'[GetReservePoolAddr(n)][Standard] > 0
                       /\ bank'[GetReservePoolAddr(n)][t] > 0
  /\ supply[n] > 0 => ShareValueStep(t, n)

\* A step that adds no pool and treats each one in one of these two ways preserves
\* the inductive invariant and the value of every share.
LEMMA PoolStep ==
  ASSUME IndInv, TypeOK', UNCHANGED <<sequence, pools, lptIndex>>,
         \A n \in LptDenom : n >= sequence => supply'[n] = 0,
         \A t \in Token, n \in LptDenom : pools[t] = n => Untouched(t, n) \/ Sound(t, n)
  PROVE  IndInv' /\ StepInv
  <1>1. \A n \in LptDenom : GetReservePoolAddr(n) \in Addr
    BY EscrowFacts
  <1>2. ASSUME NEW t \in Token, NEW n \in LptDenom, pools[t] = n
        PROVE  /\ supply[n] \in Nat /\ supply'[n] \in Nat
               /\ \A e \in {Standard, t} : /\ bank[GetReservePoolAddr(n)][e] \in Nat
                                           /\ bank'[GetReservePoolAddr(n)][e] \in Nat
    BY <1>1, <1>2, DenomFacts DEF IndInv, TypeOK, Balances
  <1>3. ASSUME NEW t \in Token, NEW n \in LptDenom, pools[t] = n, supply[n] > 0
        PROVE  ShareValueStep(t, n)
    <2>1. CASE Sound(t, n)
      BY <1>3, <2>1 DEF Sound
    <2>2. CASE Untouched(t, n)
      <3>1. bank[GetReservePoolAddr(n)][Standard] * bank[GetReservePoolAddr(n)][t]
              <= bank'[GetReservePoolAddr(n)][Standard] * bank'[GetReservePoolAddr(n)][t]
        BY <1>2, <1>3, <2>2, MulMono2 DEF Untouched
      <3> DEFINE p == bank[GetReservePoolAddr(n)][Standard] * bank[GetReservePoolAddr(n)][t]
                 q == bank'[GetReservePoolAddr(n)][Standard] * bank'[GetReservePoolAddr(n)][t]
                 k == supply[n] * supply[n]
      <3>2. p \in Nat /\ q \in Nat /\ k \in Nat
        BY <1>2, <1>3
      <3> HIDE DEF p, q, k
      <3>3. p * k <= q * k
        BY <3>1, <3>2, MulMono DEF p, q
      <3> QED
        BY <3>2, <3>3, <2>2 DEF ShareValueStep, Untouched, p, q, k
    <2> QED
      BY <1>3, <2>1, <2>2
  <1>4. SharesAreBacked'
    <2> SUFFICES ASSUME NEW t \in Token, pools[t] # NoPool, supply'[pools[t]] > 0
                 PROVE  /\ bank'[GetReservePoolAddr(pools[t])][Standard] > 0
                        /\ bank'[GetReservePoolAddr(pools[t])][t] > 0
      BY DEF SharesAreBacked, Reserve
    <2> DEFINE n == pools[t]
    <2>1. n \in LptDenom
      BY DEF IndInv, TypeOK
    <2>2. CASE Sound(t, n)
      BY ZenonT(90), <2>1, <2>2 DEF Sound
    <2>3. CASE Untouched(t, n)
      <3>1. supply[n] > 0
        BY <2>3 DEF Untouched
      <3>2. bank[GetReservePoolAddr(n)][Standard] > 0 /\ bank[GetReservePoolAddr(n)][t] > 0
        BY <3>1 DEF IndInv, SharesAreBacked, Reserve
      <3> QED
        BY <1>2, <2>1, <2>3, <3>2 DEF Untouched
    <2> QED
      BY <2>1, <2>2, <2>3
  <1>5. PoolsIndexed'
    BY DEF IndInv, PoolsIndexed
  <1> QED
    BY <1>3, <1>4, <1>5 DEF IndInv, StepInv

\* Two counterparty denoms never share a pool.
LEMMA PoolUnique ==
  ASSUME IndInv, NEW s \in Token, NEW t \in Token, pools[s] = pools[t], pools[t] # NoPool
  PROVE  s = t
  BY DEF IndInv, PoolsIndexed

-----------------------------------------------------------------------------
(* Steps.                                                                  *)

\* A transfer between accounts, to an account or into an escrow address.
LEMMA BankSendStep ==
  ASSUME WellOrdered,
         IndInv, NEW from \in User, NEW to \in Addr \ BlockedAddr, NEW denom \in Denom, NEW amt \in Nat,
         BankSend(from, to, denom, amt)
  PROVE  IndInv' /\ StepInv /\ KeepsSupply
  <1>1. from \in Addr
    BY DEF Addr
  <1>2. bank \in Balances
    BY DEF IndInv, TypeOK
  <1>3. /\ bank' \in Balances
        /\ \A a \in Addr, e \in Denom :
             bank'[a][e] = bank[a][e] - (IF a = from /\ e = denom THEN amt ELSE 0)
                                      + (IF a = to /\ e = denom THEN amt ELSE 0)
    BY <1>1, <1>2, SendEffect DEF BankSend
  <1>4. TypeOK'
    BY ZenonT(90), <1>3 DEF IndInv, TypeOK, BankSend
  <1>5. ASSUME NEW t \in Token, NEW n \in LptDenom, pools[t] = n
        PROVE  Untouched(t, n)
    <2>1. GetReservePoolAddr(n) \in Addr /\ GetReservePoolAddr(n) # from
      BY EscrowFacts
    <2>2. Standard \in Denom /\ t \in Denom
      BY DenomFacts
    <2>3. ASSUME NEW e \in {Standard, t}
          PROVE  bank'[GetReservePoolAddr(n)][e] >= bank[GetReservePoolAddr(n)][e]
      BY <1>2, <1>3, <2>1, <2>2 DEF Balances
    <2> QED
      BY <2>3 DEF Untouched, BankSend
  <1>6. \A n \in LptDenom : n >= sequence => supply'[n] = 0
    BY ZenonT(90) DEF IndInv, PoolsIndexed, BankSend
  <1>7. UNCHANGED <<sequence, pools, lptIndex>>
    BY DEF BankSend
  <1>8. KeepsSupply
    <2>1. TotalStays(bank, bank')
      BY <1>1, <1>2, SendTotal DEF BankSend
    <2>2. ModuleAccount \in Addr /\ ModuleAccount # from /\ ModuleAccount # to
      BY AddrAssumption DEF Addr, BlockedAddr
    <2>3. ModuleKept(bank, bank')
      BY <2>2, <1>2, <1>3 DEF ModuleKept, Balances
    <2>4. supply \in [Denom -> Nat] /\ supply' = supply
      BY ZenonT(90) DEF IndInv, TypeOK, BankSend
    <2> QED
      BY ZenonT(90), <1>2, <1>3, <2>1, <2>3, <2>4, SupplyStepNone
  <1> QED
    BY <1>4, <1>5, <1>6, <1>7, <1>8, PoolStep

\* From the balances b to c, pool n gets x of one denom and pays y of the other to r.
ReservesSwapped(b, c, r, n, sold, x, bought, y) ==
  /\ c \in Balances
  /\ \A m \in LptDenom, e \in Denom :
       c[GetReservePoolAddr(m)][e] = b[GetReservePoolAddr(m)][e]
         + (IF m = n /\ e = sold THEN x ELSE 0)
         - (IF m = n /\ e = bought THEN y ELSE 0)
         + (IF r = GetReservePoolAddr(m) /\ e = bought THEN y ELSE 0)

\* The reserves after a swap, whoever receives the bought coins; no total changes.
LEMMA SwapEffect ==
  ASSUME WellOrdered,
         NEW b \in Balances, NEW u \in User, NEW r \in Addr, NEW n \in LptDenom,
         NEW sold \in Denom, NEW bought \in Denom, sold # bought,
         NEW x \in Nat, NEW y \in Nat,
         b[u][sold] >= x, b[GetReservePoolAddr(n)][bought] >= y, r \notin BlockedAddr
  PROVE  LET esc == GetReservePoolAddr(n)
             c == SendCoins(SendCoins(b, u, esc, sold, x), esc, r, bought, y)
         IN  /\ ReservesSwapped(b, c, r, n, sold, x, bought, y)
             /\ TotalStays(b, c)
             /\ ModuleKept(b, c)
  <1> DEFINE esc == GetReservePoolAddr(n)
             b1 == SendCoins(b, u, esc, sold, x)
             b2 == SendCoins(b1, esc, r, bought, y)
  <1>1. esc \in Addr /\ u \in Addr /\ esc # u
    BY EscrowFacts DEF Addr
  <1>2. b[esc][bought] >= y
    OBVIOUS
  <1> HIDE DEF esc, b1, b2
  <1>3. /\ b1 \in Balances
        /\ \A a \in Addr, e \in Denom :
             b1[a][e] = b[a][e] - (IF a = u /\ e = sold THEN x ELSE 0)
                                + (IF a = esc /\ e = sold THEN x ELSE 0)
    BY <1>1, SendEffect DEF b1
  <1>4. b1[esc][bought] >= y
    BY <1>1, <1>2, <1>3 DEF Balances
  <1>5. /\ b2 \in Balances
        /\ \A a \in Addr, e \in Denom :
             b2[a][e] = b1[a][e] - (IF a = esc /\ e = bought THEN y ELSE 0)
                                 + (IF a = r /\ e = bought THEN y ELSE 0)
    BY <1>1, <1>3, <1>4, SendEffect DEF b2
  <1>6. ASSUME NEW m \in LptDenom, NEW e \in Denom
        PROVE  b2[GetReservePoolAddr(m)][e] = b[GetReservePoolAddr(m)][e]
                    + (IF m = n /\ e = sold THEN x ELSE 0)
                    - (IF m = n /\ e = bought THEN y ELSE 0)
                    + (IF r = GetReservePoolAddr(m) /\ e = bought THEN y ELSE 0)
    <2> DEFINE em == GetReservePoolAddr(m)
    <2>1. em \in Addr /\ em # u /\ (em = esc <=> m = n)
      BY EscrowFacts DEF esc
    <2> HIDE DEF em
    <2>2. b1[em][e] = b[em][e] + (IF m = n /\ e = sold THEN x ELSE 0)
      BY <2>1, <1>3 DEF Balances
    <2>3. b2[em][e] = b1[em][e] - (IF m = n /\ e = bought THEN y ELSE 0)
                                + (IF r = em /\ e = bought THEN y ELSE 0)
      BY <2>1, <1>5
    <2>4. b[em][e] \in Nat
      BY <2>1 DEF Balances
    <2> QED
      BY <2>2, <2>3, <2>4 DEF em
  <1>7. ReservesSwapped(b, b2, r, n, sold, x, bought, y)
    BY ZenonT(90), <1>5, <1>6 DEF ReservesSwapped
  <1>8. TotalStays(b, b2)
    <2>1. b1 \in Balances
      BY <1>3, ZenonT(90)
    <2>2. TotalStays(b, b1)
      BY <1>1, SendTotal DEF b1
    <2>3. TotalStays(b1, b2)
      BY <1>1, <1>4, <2>1, SendTotal DEF b2
    <2> QED
      BY <2>2, <2>3, ZenonT(90) DEF TotalStays
  <1>9. ModuleKept(b, b2)
    <2> SUFFICES ASSUME NEW e \in Denom PROVE b2[ModuleAccount][e] = b[ModuleAccount][e]
      BY DEF ModuleKept
    <2>1. ModuleAccount \in Addr /\ ModuleAccount # u /\ ModuleAccount # esc /\ ModuleAccount # r
      BY EscrowFacts, AddrAssumption DEF Addr, BlockedAddr, esc
    <2>2. b1[ModuleAccount][e] = b[ModuleAccount][e]
      BY <2>1, <1>3 DEF Balances
    <2>3. b2[ModuleAccount][e] = b1[ModuleAccount][e]
      BY <2>1, <1>3, <1>5 DEF Balances
    <2> QED
      BY <2>2, <2>3
  <1> QED
    BY <1>7, <1>8, <1>9 DEF esc, b1, b2

\* A swap at a price that keeps the product of the reserves.
LEMMA SwapStep ==
  ASSUME WellOrdered,
         IndInv, NEW sender \in User, NEW recipient \in Addr, NEW token \in Token,
         NEW sold \in {Standard, token}, NEW bought \in {Standard, token}, sold # bought,
         NEW x \in Nat, NEW y \in Nat, pools[token] # NoPool,
         Reserve(pools[token], sold) > 0,
         y < Reserve(pools[token], bought),
         (Reserve(pools[token], sold) + x) * (Reserve(pools[token], bought) - y)
           >= Reserve(pools[token], sold) * Reserve(pools[token], bought),
         swapCoins(sender, recipient, pools[token], sold, x, bought, y),
         recipient \notin BlockedAddr
  PROVE  IndInv' /\ StepInv /\ KeepsSupply
  <1> DEFINE n == pools[token]
             esc == GetReservePoolAddr(n)
  <1>1. n \in LptDenom /\ bank \in Balances
    BY DEF IndInv, TypeOK
  <1>2. Standard \in Denom /\ token \in Denom /\ Standard # token /\ sold \in Denom /\ bought \in Denom
    BY <1>1, DenomFacts
  <1>3. esc \in Addr /\ bank[esc][sold] \in Nat /\ bank[esc][bought] \in Nat
    BY ZenonT(90), <1>1, <1>2, EscrowFacts DEF Balances
  <1>4. bank[esc][bought] >= y /\ bank[sender][sold] >= x
    BY <1>3 DEF Reserve, swapCoins
  <1>5. /\ bank' \in Balances
        /\ \A m \in LptDenom, e \in Denom :
             bank'[GetReservePoolAddr(m)][e] = bank[GetReservePoolAddr(m)][e]
               + (IF m = n /\ e = sold THEN x ELSE 0)
               - (IF m = n /\ e = bought THEN y ELSE 0)
               + (IF recipient = GetReservePoolAddr(m) /\ e = bought THEN y ELSE 0)
    <2>1. bank' = SendCoins(SendCoins(bank, sender, esc, sold, x), esc, recipient, bought, y)
      BY DEF swapCoins
    <2> HIDE DEF n
    <2>2. ReservesSwapped(bank, bank', recipient, n, sold, x, bought, y)
      BY ZenonT(90), <2>1, <1>1, <1>2, <1>4, SwapEffect
    <2> QED
      BY ZenonT(90), <2>2 DEF ReservesSwapped
  <1>6. UNCHANGED <<params, sequence, pools, lptIndex, supply, blockTime>>
    BY DEF swapCoins
  <1>7. TypeOK'
    BY ZenonT(90), <1>5, <1>6 DEF IndInv, TypeOK
  <1>8. ASSUME NEW t \in Token, NEW m \in LptDenom, pools[t] = m
        PROVE  Untouched(t, m) \/ Sound(t, m)
    <2>1. CASE m # n
      <3>1. GetReservePoolAddr(m) \in Addr /\ t \in Denom
        BY EscrowFacts, DenomFacts
      <3>2. ASSUME NEW e \in {Standard, t}
            PROVE  bank'[GetReservePoolAddr(m)][e] >= bank[GetReservePoolAddr(m)][e]
        <4>1. e \in Denom /\ bank[GetReservePoolAddr(m)][e] \in Nat
          BY ZenonT(90), <3>1, <1>1, <1>2 DEF Balances
        <4>2. ~(m = n /\ e = sold) /\ ~(m = n /\ e = bought)
          BY ZenonT(90), <2>1
        <4>3. bank'[GetReservePoolAddr(m)][e] = bank[GetReservePoolAddr(m)][e] + 0 - 0
                + (IF recipient = GetReservePoolAddr(m) /\ e = bought THEN y ELSE 0)
          BY ZenonT(90), <4>1, <4>2, <1>5
        <4> QED
          BY ZenonT(90), <4>1, <4>3, GainsOrStays
      <3> QED
        BY ZenonT(90), <3>2, <1>6 DEF Untouched
    <2>2. CASE m = n
      <3>1. t = token
        BY <2>2, <1>8, PoolUnique
      <3> DEFINE i == bank[esc][sold]
                 o == bank[esc][bought]
                 i1 == bank'[esc][sold]
                 o1 == bank'[esc][bought]
      <3>2. i1 = i + x /\ o1 \in Nat /\ o1 >= o - y
        <4> DEFINE back == IF recipient = esc /\ bought = bought THEN y ELSE 0
        <4>1. i1 = i + x - 0 + 0
          BY ZenonT(90), <1>1, <1>2, <1>5
        <4>2. o1 = o + 0 - y + back
          BY ZenonT(90), <1>1, <1>2, <1>5
        <4>3. i \in Nat /\ o \in Nat /\ o1 \in Nat
          BY ZenonT(90), <1>2, <1>3, <1>5 DEF Balances
        <4>4. back = 0 \/ back = y
          BY ZenonT(90)
        <4> HIDE DEF i, o, i1, o1, back
        <4> QED
          BY <4>1, <4>2, <4>3, <4>4
      <3>3. i \in Nat \ {0} /\ o \in Nat /\ o - y \in Nat \ {0} /\ i1 \in Nat \ {0} /\ o1 \in Nat \ {0}
        <4>1. i \in Nat /\ o \in Nat /\ i > 0 /\ y < o
          BY ZenonT(90), <1>3 DEF Reserve
        <4> HIDE DEF i, o, i1, o1
        <4> QED
          BY <4>1, <3>2
      <3>4. (i + x) * (o - y) >= i * o
        BY ZenonT(90) DEF Reserve
      <3> HIDE DEF i, o, i1, o1
      <3>5. i * o <= i1 * o1
        <4>1. (o - y) * i1 <= o1 * i1
          BY <3>2, <3>3, MulMono
        <4> QED
          BY <4>1, <3>2, <3>3, <3>4
      <3>6. supply[n] * supply[n] \in Nat
        BY <1>1, <1>2, DenomFacts DEF IndInv, TypeOK
      <3> DEFINE k == supply[n] * supply[n]
      <3> HIDE DEF k
      <3>7. (i * o) * k <= (i1 * o1) * k
        <4>1. i * o \in Nat /\ i1 * o1 \in Nat
          BY ZenonT(90), <3>3, ProductIsNat
        <4>2. i * o <= i1 * o1 /\ k \in Nat
          BY ZenonT(90), <3>5, <3>6 DEF k
        <4> QED
          BY <4>1, <4>2, MulMono, ZenonT(90)
      <3>8. ShareValueStep(token, n)
        <4>1. CASE sold = Standard /\ bought = token
          BY ZenonT(90), <4>1, <3>7, <1>6 DEF ShareValueStep, i, o, i1, o1, k
        <4>2. CASE sold = token /\ bought = Standard
          <5>1. o * i = i * o /\ o1 * i1 = i1 * o1
            BY <3>3
          <5>2. (o * i) * k <= (o1 * i1) * k
            BY ZenonT(90), <3>7, <5>1
          <5> QED
            BY ZenonT(90), <5>2, <4>2, <1>6 DEF ShareValueStep, i, o, i1, o1, k
        <4> QED
          BY <4>1, <4>2
      <3>9. bank'[esc][Standard] > 0 /\ bank'[esc][token] > 0
        BY <3>3 DEF i1, o1
      <3> QED
        BY ZenonT(90), <3>1, <3>8, <3>9, <2>2 DEF Sound
    <2> QED
      BY <2>1, <2>2
  <1>9. \A m \in LptDenom : m >= sequence => supply'[m] = 0
    BY <1>6 DEF IndInv, PoolsIndexed
  <1>10. KeepsSupply
    <2>1. bank' = SendCoins(SendCoins(bank, sender, esc, sold, x), esc, recipient, bought, y)
      BY DEF swapCoins
    <2> HIDE DEF n
    <2>2. TotalStays(bank, bank') /\ ModuleKept(bank, bank')
      BY ZenonT(90), <2>1, <1>1, <1>2, <1>4, SwapEffect
    <2>3. supply \in [Denom -> Nat] /\ supply' = supply
      BY <1>6, ZenonT(90) DEF IndInv, TypeOK
    <2> QED
      BY <1>1, <1>5, <2>2, <2>3, SupplyStepNone, ZenonT(90)
  <1> QED
    BY <1>6, <1>7, <1>8, <1>9, <1>10, PoolStep

\* Both kinds of order.
LEMMA SwapCoinStep ==
  ASSUME WellOrdered,
         IndInv, NEW sender \in User, NEW recipient \in Addr, NEW token \in Token,
         NEW input \in {Standard, token}, NEW output \in {Standard, token}, input # output,
         NEW inputAmt \in Nat, NEW outputAmt \in Nat,
         NEW isBuyOrder \in BOOLEAN, NEW deadline \in Nat,
         SwapCoin(sender, recipient, token, input, inputAmt, output, outputAmt, isBuyOrder, deadline)
  PROVE  IndInv' /\ StepInv /\ KeepsSupply
  <1> DEFINE n == pools[token]
             i == Reserve(n, input)
             o == Reserve(n, output)
  <1>1. pools[token] # NoPool /\ i > 0 /\ o > 0 /\ recipient \notin BlockedAddr
    BY DEF SwapCoin, TradeExactInputForOutput, TradeInputForExactOutput
  <1>2. n \in LptDenom /\ bank \in Balances /\ params.fee \in 0..(One - 1)
    BY <1>1 DEF IndInv, TypeOK, Params
  <1>3. input \in Denom /\ output \in Denom /\ GetReservePoolAddr(n) \in Addr
    BY <1>2, DenomFacts, EscrowFacts
  <1>4. i \in Nat \ {0} /\ o \in Nat \ {0}
    BY <1>1, <1>2, <1>3 DEF Reserve, Balances
  <1>5. CASE TradeInputForExactOutput(sender, recipient, token, input, inputAmt, output, outputAmt)
    <2> DEFINE x == GetOutputPrice(outputAmt, i, o, params.fee)
    <2>1. outputAmt < o /\ swapCoins(sender, recipient, n, input, x, output, outputAmt)
      BY <1>5 DEF TradeInputForExactOutput
    <2>2. x \in Nat \ {0} /\ (i + x) * (o - outputAmt) >= i * o
      BY <2>1, <1>2, <1>4, OutputPriceKeepsProduct, ZenonT(90)
    <2> HIDE DEF x
    <2> QED
      BY ZenonT(90), <2>1, <2>2, <1>1, SwapStep
  <1>6. CASE TradeExactInputForOutput(sender, recipient, token, input, inputAmt, output, outputAmt)
    <2> DEFINE y == GetInputPrice(inputAmt, i, o, params.fee)
    <2>1. swapCoins(sender, recipient, n, input, inputAmt, output, y)
      BY <1>6 DEF TradeExactInputForOutput
    <2>2. y \in Nat /\ y < o /\ (i + inputAmt) * (o - y) >= i * o
      BY <1>2, <1>4, InputPriceKeepsProduct, ZenonT(90)
    <2> HIDE DEF y
    <2> QED
      BY <2>1, <2>2, <1>1, SwapStep
  <1> QED
    BY ZenonT(90), <1>5, <1>6 DEF SwapCoin

\* A withdrawal.
LEMMA RemoveStep ==
  ASSUME WellOrdered, IndInv, NEW sender \in User, NEW n \in LptDenom, NEW w \in Nat \ {0},
         NEW minStandardAmt \in Nat, NEW minToken \in Nat, NEW deadline \in Nat,
         RemoveLiquidity(sender, n, w, minStandardAmt, minToken, deadline)
  PROVE  IndInv' /\ StepInv /\ KeepsSupply
  <1> DEFINE token == lptIndex[n]
             esc == GetReservePoolAddr(n)
             S == bank[esc][Standard]
             T == bank[esc][token]
             L == supply[n]
             s == (w * S) \div L
             k == (w * T) \div L
  <1>1. token \in Token /\ pools[token] = n /\ bank \in Balances
    BY DEF RemoveLiquidity, IndInv, TypeOK, PoolsIndexed
  <1>2. Standard \in Denom /\ token \in Denom /\ n \in Denom /\ Standard # token
    BY <1>1, DenomFacts
  <1>3. esc \in Addr /\ S \in Nat /\ T \in Nat
    BY <1>1, <1>2, EscrowFacts DEF Balances
  <1>4. L \in Nat /\ w <= L /\ L # 0 /\ bank[sender][n] >= w
    BY <1>2 DEF RemoveLiquidity, IndInv, TypeOK
  <1>5. S > 0 /\ T > 0
    BY <1>1, <1>2, <1>4, DenomFacts DEF IndInv, SharesAreBacked, Reserve
  <1>6. /\ bank' = removeLiquidity(bank, sender, n, token, w, s, k)
        /\ supply' = [supply EXCEPT ![n] = @ - w]
        /\ UNCHANGED <<params, sequence, pools, lptIndex, blockTime>>
    BY ZenonT(90) DEF RemoveLiquidity, Reserve
  <1>7. /\ s \in Nat /\ s <= S /\ S * (L - w) <= (S - s) * L /\ (w < L => s < S)
        /\ k \in Nat /\ k <= T /\ T * (L - w) <= (T - k) * L /\ (w < L => k < T)
    BY <1>3, <1>4, <1>5, WithdrawKeepsRatio, ZenonT(90)
  <1> HIDE DEF token, s, k
  <1>8. /\ bank' \in Balances
        /\ \A x \in LptDenom, e \in {Standard} \cup Token :
             bank'[GetReservePoolAddr(x)][e] = bank[GetReservePoolAddr(x)][e]
               - (IF x = n /\ e = Standard THEN s ELSE 0)
               - (IF x = n /\ e = token THEN k ELSE 0)
    <2>1. w \in Nat /\ s \in Nat /\ k \in Nat /\ S >= s /\ T >= k
      BY <1>3, <1>7
    <2>2. bank' = removeLiquidity(bank, sender, n, token, w, s, k)
      BY <1>6
    <2>3. ReservesTaken(bank, bank', n, token, s, k)
      BY ZenonT(90), <1>1, <1>4, <2>1, <2>2, RemoveEffect
    <2> QED
      BY ZenonT(90), <2>3 DEF ReservesTaken
  <1>9. supply' \in [Denom -> Nat] /\ supply'[n] = L - w /\ \A d \in Denom \ {n} : supply'[d] = supply[d]
    BY <1>2, <1>4, <1>6 DEF IndInv, TypeOK
  <1>10. TypeOK'
    BY ZenonT(90), <1>6, <1>8, <1>9 DEF IndInv, TypeOK
  <1>11. bank'[esc][Standard] = S - s /\ bank'[esc][token] = T - k
    <2>1. /\ bank'[esc][Standard] = S - s - 0
          /\ bank'[esc][token] = T - 0 - k
      BY ZenonT(90), <1>1, <1>2, <1>8
    <2> QED
      BY ZenonT(90), <1>3, <1>7, <2>1, MinusZero
  <1>12. Sound(token, n)
    <2>1. supply'[n] > 0 => bank'[esc][Standard] > 0 /\ bank'[esc][token] > 0
      BY <1>3, <1>4, <1>7, <1>9, <1>11
    <2>2. (S - s) * (T - k) * (L * L) >= S * T * ((L - w) * (L - w))
      <3>1. S - s \in Nat /\ T - k \in Nat /\ L - w \in Nat
        BY <1>3, <1>4, <1>7
      <3> QED
        BY <3>1, <1>3, <1>4, <1>7, RatiosGiveValue, ZenonT(90)
    <2>3. ShareValueStep(token, n)
      BY ZenonT(90), <2>2, <1>9, <1>11 DEF ShareValueStep
    <2> QED
      BY ZenonT(90), <2>1, <2>3 DEF Sound
  <1>13. ASSUME NEW t \in Token, NEW m \in LptDenom, pools[t] = m
         PROVE  Untouched(t, m) \/ Sound(t, m)
    <2>1. CASE m = n
      <3>1. t = token
        BY <2>1, <1>1, <1>13, DenomFacts, PoolUnique
      <3> QED
        BY <3>1, <2>1, <1>12
    <2>2. CASE m # n
      <3>1. GetReservePoolAddr(m) \in Addr /\ t \in Denom /\ m \in Denom
        BY EscrowFacts, DenomFacts
      <3>2. supply'[m] = supply[m]
        BY ZenonT(90), <2>2, <3>1, <1>9
      <3>3. ASSUME NEW e \in {Standard, t}
            PROVE  bank'[GetReservePoolAddr(m)][e] >= bank[GetReservePoolAddr(m)][e]
        BY <2>2, <3>1, <1>1, <1>2, <1>8 DEF Balances
      <3> QED
        BY ZenonT(90), <3>2, <3>3 DEF Untouched
    <2> QED
      BY <2>1, <2>2
  <1>14. \A m \in LptDenom : m >= sequence => supply'[m] = 0
    <2> SUFFICES ASSUME NEW m \in LptDenom, m >= sequence PROVE supply'[m] = 0
      OBVIOUS
    <2>1. supply[m] = 0 /\ m \in Denom
      BY DenomFacts DEF IndInv, PoolsIndexed, Denom
    <2>2. m # n
      BY <2>1, <1>4
    <2> QED
      BY <2>1, <2>2, <1>9
  <1>15. KeepsSupply
    <2>1. w \in Nat /\ s \in Nat /\ k \in Nat /\ S >= s /\ T >= k /\ 0 - w \in Int
      BY <1>3, <1>7
    <2>2. bank' = removeLiquidity(bank, sender, n, token, w, s, k)
      BY <1>6
    <2>3. TotalGrows(bank, bank', n, 0 - w) /\ ModuleKept(bank, bank')
      BY ZenonT(90), <1>1, <1>4, <2>1, <2>2, RemoveEffect
    <2>4. supply \in [Denom -> Nat]
      BY DEF IndInv, TypeOK
    <2>5. \A e \in Denom : supply'[e] = supply[e] + (IF e = n THEN 0 - w ELSE 0)
      BY <2>4, <1>2, <1>9
    <2> QED
      BY <1>1, <1>2, <1>8, <2>1, <2>3, <2>5, SupplyStepOne, ZenonT(90)
  <1> QED
    BY ZenonT(90), <1>6, <1>10, <1>13, <1>14, <1>15, PoolStep

\* A deposit into an existing pool that mints at most the deposit's proportion.
LEMMA AddStep ==
  ASSUME WellOrdered,
         IndInv, NEW sender \in User, NEW token \in Token, pools[token] # NoPool,
         NEW s \in Nat \ {0}, NEW k \in Nat \ {0}, NEW m \in Nat,
         bank[sender][Standard] >= s, bank[sender][token] >= k,
         bank' = addLiquidity(bank, sender, pools[token], token, s, k, m),
         supply' = [supply EXCEPT ![pools[token]] = @ + m],
         UNCHANGED <<params, sequence, pools, lptIndex, blockTime>>,
         supply[pools[token]] > 0 =>
           LET S == Reserve(pools[token], Standard)
               T == Reserve(pools[token], token)
               L == supply[pools[token]]
           IN  S * (L + m) <= (S + s) * L /\ T * (L + m) <= (T + k) * L
  PROVE  IndInv' /\ StepInv /\ KeepsSupply
  <1> DEFINE n == pools[token]
             esc == GetReservePoolAddr(n)
             S == bank[esc][Standard]
             T == bank[esc][token]
             L == supply[n]
  <1>1. n \in LptDenom /\ bank \in Balances
    BY ZenonT(90) DEF IndInv, TypeOK
  <1>2. Standard \in Denom /\ token \in Denom /\ n \in Denom /\ Standard # token
    BY ZenonT(90), <1>1, DenomFacts
  <1>3. esc \in Addr /\ S \in Nat /\ T \in Nat /\ L \in Nat
    BY ZenonT(90), <1>1, <1>2, EscrowFacts DEF Balances, IndInv, TypeOK
  <1>4. L > 0 => S * (L + m) <= (S + s) * L /\ T * (L + m) <= (T + k) * L
    BY ZenonT(90) DEF Reserve
  <1>5. /\ bank' \in Balances
        /\ \A x \in LptDenom, e \in {Standard} \cup Token :
             bank'[GetReservePoolAddr(x)][e] = bank[GetReservePoolAddr(x)][e]
               + (IF x = n /\ e = Standard THEN s ELSE 0)
               + (IF x = n /\ e = token THEN k ELSE 0)
    <2>1. ReservesAdded(bank, bank', n, token, s, k)
      BY ZenonT(90), <1>1, AddEffect
    <2> QED
      BY ZenonT(90), <2>1 DEF ReservesAdded
  <1>6. supply' \in [Denom -> Nat] /\ supply'[n] = L + m /\ \A d \in Denom \ {n} : supply'[d] = supply[d]
    BY <1>2, <1>3 DEF IndInv, TypeOK
  <1>7. TypeOK'
    BY ZenonT(90), <1>5, <1>6 DEF IndInv, TypeOK
  <1>8. bank'[esc][Standard] = S + s /\ bank'[esc][token] = T + k
    <2>1. /\ bank'[esc][Standard] = S + s + 0
          /\ bank'[esc][token] = T + 0 + k
      BY ZenonT(90), <1>1, <1>2, <1>5
    <2> QED
      BY ZenonT(90), <1>3, <2>1, PlusZero
  <1>9. Sound(token, n)
    <2>1. bank'[esc][Standard] > 0 /\ bank'[esc][token] > 0
      BY ZenonT(90), <1>3, <1>8, SumPositive
    <2>2. ASSUME L > 0 PROVE ShareValueStep(token, n)
      <3>1. (S + s) * (T + k) * (L * L) >= S * T * ((L + m) * (L + m))
        <4>1. S + s \in Nat /\ T + k \in Nat /\ L + m \in Nat
          BY ZenonT(90), <1>3, SumIsNat
        <4> QED
          BY <4>1, <1>3, <1>4, <2>2, RatiosGiveValue, ZenonT(90)
      <3> QED
        BY ZenonT(90), <3>1, <1>6, <1>8 DEF ShareValueStep
    <2> QED
      BY <2>1, <2>2, ZenonT(90) DEF Sound
  <1>10. ASSUME NEW t \in Token, NEW x \in LptDenom, pools[t] = x
         PROVE  Untouched(t, x) \/ Sound(t, x)
    <2>1. CASE x = n
      <3>1. t = token
        BY ZenonT(90), <2>1, <1>10, PoolUnique
      <3> QED
        BY ZenonT(90), <3>1, <2>1, <1>9
    <2>2. CASE x # n
      <3>1. GetReservePoolAddr(x) \in Addr /\ t \in Denom /\ x \in Denom
        BY ZenonT(90), EscrowFacts, DenomFacts
      <3>2. supply'[x] = supply[x]
        BY ZenonT(90), <2>2, <3>1, <1>6
      <3>3. ASSUME NEW e \in {Standard, t}
            PROVE  bank'[GetReservePoolAddr(x)][e] >= bank[GetReservePoolAddr(x)][e]
        <4>1. e \in {Standard} \cup Token /\ bank[GetReservePoolAddr(x)][e] \in Nat
          BY ZenonT(90), <3>1, <1>1, <1>2 DEF Balances
        <4>2. ~(x = n /\ e = Standard) /\ ~(x = n /\ e = token)
          BY ZenonT(90), <2>2
        <4>3. bank'[GetReservePoolAddr(x)][e] = bank[GetReservePoolAddr(x)][e] + 0 + 0
          BY ZenonT(90), <4>1, <4>2, <1>5
        <4> QED
          BY ZenonT(90), <4>1, <4>3, AddedNothing
      <3> QED
        BY ZenonT(90), <3>2, <3>3 DEF Untouched
    <2> QED
      BY ZenonT(90), <2>1, <2>2
  <1>11. \A x \in LptDenom : x >= sequence => supply'[x] = 0
    <2> SUFFICES ASSUME NEW x \in LptDenom, x >= sequence PROVE supply'[x] = 0
      OBVIOUS
    <2>1. supply[x] = 0 /\ x \in Denom
      BY ZenonT(90) DEF IndInv, PoolsIndexed, Denom
    <2>2. n < sequence
      BY ZenonT(90) DEF IndInv, PoolsIndexed
    <2>3. x \in Nat /\ n \in Nat /\ sequence \in Nat
      <3>1. x \in Nat /\ n \in Nat
        BY ZenonT(90), <1>1, DenomFacts
      <3> QED
        BY <3>1 DEF IndInv, TypeOK
    <2>4. x # n
      BY ZenonT(90), <2>2, <2>3, BelowDiffers
    <2> QED
      BY ZenonT(90), <2>1, <2>4, <1>6
  <1>12. KeepsSupply
    <2>1. TotalGrows(bank, bank', n, m) /\ ModuleKept(bank, bank')
      BY ZenonT(90), <1>1, AddEffect
    <2>2. supply \in [Denom -> Nat] /\ m \in Int
      BY DEF IndInv, TypeOK
    <2>3. \A e \in Denom : supply'[e] = supply[e] + (IF e = n THEN m ELSE 0)
      BY <2>2, <1>2, <1>6
    <2> QED
      BY <1>1, <1>2, <1>5, <2>1, <2>2, <2>3, SupplyStepOne, ZenonT(90)
  <1> QED
    BY ZenonT(90), <1>7, <1>10, <1>11, <1>12, PoolStep

\* Order facts on naturals, cited by name to keep the leaves small: a number below y is
\* below its successor and is not y ...
LEMMA SuccLarger ==
  ASSUME NEW x \in Nat, NEW y \in Nat, x < y
  PROVE  x < y + 1 /\ x # y
  OBVIOUS

\* ... and what is at least a positive number is positive.
LEMMA LargerIsPositive ==
  ASSUME NEW x \in Nat, NEW y \in Nat, y >= x, x > 0
  PROVE  y > 0
  OBVIOUS

\* Re-opening an empty pool.
LEMMA EmptyStep ==
  ASSUME WellOrdered, IndInv, NEW sender \in User, NEW token \in Token,
         NEW maxToken \in Nat \ {0}, NEW exactStandardAmt \in Nat \ {0},
         NEW minLiquidity \in Nat, NEW deadline \in Nat,
         AddLiquidityEmpty(sender, token, maxToken, exactStandardAmt, minLiquidity, deadline)
  PROVE  IndInv' /\ StepInv /\ KeepsSupply
  <1>1. /\ pools[token] # NoPool /\ supply[pools[token]] = 0
        /\ bank[sender][Standard] >= exactStandardAmt /\ bank[sender][token] >= maxToken
        /\ bank' = addLiquidity(bank, sender, pools[token], token,
                                exactStandardAmt, maxToken, exactStandardAmt)
        /\ supply' = [supply EXCEPT ![pools[token]] = @ + exactStandardAmt]
        /\ UNCHANGED <<params, sequence, pools, lptIndex, blockTime>>
    BY ZenonT(90) DEF AddLiquidityEmpty
  <1>2. ~(supply[pools[token]] > 0)
    BY <1>1
  <1> QED
    BY <1>1, <1>2, AddStep, ZenonT(90)

\* Joining a pool that has liquidity.
LEMMA JoinStep ==
  ASSUME WellOrdered, IndInv, NEW sender \in User, NEW token \in Token,
         NEW maxToken \in Nat \ {0}, NEW exactStandardAmt \in Nat \ {0},
         NEW minLiquidity \in Nat, NEW deadline \in Nat,
         AddLiquidityJoin(sender, token, maxToken, exactStandardAmt, minLiquidity, deadline)
  PROVE  IndInv' /\ StepInv /\ KeepsSupply
  <1> DEFINE n == pools[token]
             S == Reserve(n, Standard)
             T == Reserve(n, token)
             L == supply[n]
             in == StandardInputAmt(n, exactStandardAmt)
             mint == (L * in) \div S
             deposit == (T * in) \div S + 1
  <1>0. n # NoPool /\ L # 0 /\ S < params.maxStandardCoinPerPool
    BY ZenonT(90) DEF AddLiquidityJoin
  <1>1. /\ bank[sender][Standard] >= in /\ bank[sender][token] >= deposit
        /\ bank' = addLiquidity(bank, sender, n, token, in, deposit, mint)
        /\ supply' = [supply EXCEPT ![n] = @ + mint]
        /\ UNCHANGED <<params, sequence, pools, lptIndex, blockTime>>
    BY ZenonT(90) DEF AddLiquidityJoin
  <1>2. n \in LptDenom /\ bank \in Balances /\ params.maxStandardCoinPerPool \in Nat
    BY <1>0 DEF IndInv, TypeOK, Params
  <1>3. Standard \in Denom /\ token \in Denom /\ n \in Denom /\ GetReservePoolAddr(n) \in Addr
    BY <1>2, DenomFacts, EscrowFacts
  <1>4. S \in Nat /\ T \in Nat /\ L \in Nat \ {0}
    BY <1>0, <1>2, <1>3 DEF Balances, Reserve, IndInv, TypeOK
  <1>5. S > 0
    <2>1. L > 0
      BY <1>4
    <2> QED
      BY ZenonT(90), <2>1, <1>0 DEF IndInv, SharesAreBacked
  <1>6. in \in Nat \ {0}
    <2> DEFINE room == params.maxStandardCoinPerPool - S
    <2>1. room \in Nat \ {0}
      <3> DEFINE limit == params.maxStandardCoinPerPool
      <3>1. S \in Nat /\ limit \in Nat /\ S < limit
        BY ZenonT(90), <1>0, <1>2, <1>4
      <3> HIDE DEF S, limit
      <3>2. limit - S \in Nat \ {0}
        BY <3>1
      <3> QED
        BY ZenonT(90), <3>2 DEF limit
    <2>2. in = Min({exactStandardAmt, room})
      BY DEF StandardInputAmt
    <2> HIDE DEF room
    <2>3. \E x \in {exactStandardAmt, room} : \A y \in {exactStandardAmt, room} : x <= y
      BY <2>1
    <2>4. in \in {exactStandardAmt, room}
      BY <2>2, <2>3 DEF Min
    <2> QED
      BY <2>1, <2>4
  <1> HIDE DEF in, S, T, L
  <1>7. /\ mint \in Nat /\ deposit \in Nat \ {0}
        /\ S * (L + mint) <= (S + in) * L
        /\ T * (L + mint) <= (T + deposit) * L
    BY <1>4, <1>5, <1>6, JoinKeepsRatios
  <1> HIDE DEF mint, deposit
  <1> QED
    BY <1>0, <1>1, <1>6, <1>7, AddStep, ZenonT(90) DEF S, T, L

\* Creating a pool: its shares did not exist before, and both deposits are positive
\* even if its escrow address was funded in advance.
LEMMA CreateStep ==
  ASSUME WellOrdered, IndInv, NEW sender \in User, NEW token \in Token,
         NEW maxToken \in Nat \ {0}, NEW exactStandardAmt \in Nat \ {0},
         NEW minLiquidity \in Nat, NEW deadline \in Nat,
         AddLiquidityCreate(sender, token, maxToken, exactStandardAmt, minLiquidity, deadline)
  PROVE  IndInv' /\ StepInv /\ KeepsSupply
  <1> DEFINE n == sequence
             fee == params.poolCreationFee
             b == DeductPoolCreationFee(bank, sender)
             esc == GetReservePoolAddr(n)
  <1>0. /\ pools[token] = NoPool /\ n \in LptDenom
        /\ sequence' = sequence + 1
        /\ pools' = [pools EXCEPT ![token] = n]
        /\ lptIndex' = [lptIndex EXCEPT ![n] = token]
    BY ZenonT(90) DEF AddLiquidityCreate, CreatePool
  <1>1. /\ bank[sender][Standard] >= fee + exactStandardAmt /\ bank[sender][token] >= maxToken
        /\ supply[Standard] >= fee - CommunityTax
    BY ZenonT(90) DEF AddLiquidityCreate
  <1>b. bank' = addLiquidity(b, sender, n, token, exactStandardAmt, maxToken, exactStandardAmt)
    BY ZenonT(90) DEF AddLiquidityCreate
  <1>s. /\ supply' = [supply EXCEPT ![Standard] = @ - (fee - CommunityTax),
                                    ![n] = @ + exactStandardAmt]
        /\ UNCHANGED <<params, blockTime>>
    BY ZenonT(90) DEF AddLiquidityCreate
  <1>2. params \in Params /\ bank \in Balances /\ fee \in Nat
    BY DEF IndInv, TypeOK, Params
  <1>3. sender \in Addr /\ Standard \in Denom /\ token \in Denom /\ n \in Denom /\ Standard # token
        /\ Standard # n /\ n \in Nat /\ n # NoPool
    BY <1>0, DenomFacts DEF Addr
  <1>4. bank[sender][Standard] \in Nat /\ bank[sender][Standard] >= fee
    BY <1>1, <1>2, <1>3 DEF Balances
  <1> HIDE DEF fee, b, n
  <1>5. /\ CommunityTax \in Nat /\ CommunityTax <= fee
        /\ b \in Balances
        /\ b[sender][Standard] = bank[sender][Standard] - fee
        /\ b[sender][token] = bank[sender][token]
        /\ \A x \in LptDenom, e \in Denom :
             b[GetReservePoolAddr(x)][e] = bank[GetReservePoolAddr(x)][e]
    BY ZenonT(90), <1>2, <1>4, FeeEffect DEF fee, b
  <1>6. b[sender][Standard] >= exactStandardAmt /\ b[sender][token] >= maxToken
    <2>1. exactStandardAmt \in Nat
      OBVIOUS
    <2> QED
      BY ZenonT(90), <1>1, <1>2, <1>4, <1>5, <2>1, RestCovers
  <1>7. /\ bank' \in Balances
        /\ \A x \in LptDenom, e \in {Standard} \cup Token :
             bank'[GetReservePoolAddr(x)][e] = b[GetReservePoolAddr(x)][e]
               + (IF x = n /\ e = Standard THEN exactStandardAmt ELSE 0)
               + (IF x = n /\ e = token THEN maxToken ELSE 0)
    <2>1. exactStandardAmt \in Nat /\ maxToken \in Nat
      OBVIOUS
    <2>2. ReservesAdded(b, bank', n, token, exactStandardAmt, maxToken)
      BY ZenonT(90), <1>0, <1>b, <1>5, <1>6, <2>1, AddEffect
    <2> QED
      BY ZenonT(90), <2>2 DEF ReservesAdded
  <1>8. /\ supply' \in [Denom -> Nat]
        /\ \A x \in LptDenom \ {n} : supply'[x] = supply[x]
    <2>1. supply \in [Denom -> Nat] /\ supply[Standard] - (fee - CommunityTax) \in Nat
      BY <1>1, <1>2, <1>3, <1>5 DEF IndInv, TypeOK
    <2>2. supply' \in [Denom -> Nat]
      BY <2>1, <1>s, <1>3
    <2>3. \A x \in LptDenom : x \in Denom /\ x # Standard
      BY ZenonT(90), DenomFacts
    <2> QED
      BY ZenonT(90), <2>1, <2>2, <2>3, <1>s
  <1>9. TypeOK'
    <2>1. sequence' \in 1..(MaxPools + 1)
      BY <1>0, ConstantsAssumption DEF LptDenom, n
    <2> QED
      BY ZenonT(90), <2>1, <1>0, <1>s, <1>7, <1>8 DEF IndInv, TypeOK
  <1>10. PoolsIndexed'
    <2>1. /\ pools \in [Token -> LptDenom \cup {NoPool}] /\ pools' \in [Token -> LptDenom \cup {NoPool}]
          /\ lptIndex \in [LptDenom -> Token \cup {NoToken}]
          /\ lptIndex' \in [LptDenom -> Token \cup {NoToken}]
      BY <1>9 DEF IndInv, TypeOK
    <2>2. token # NoToken /\ n + 1 = sequence' /\ sequence = n /\ n \in Nat
      BY <1>0, <1>3, DenomAssumption DEF NoToken, n
    <2>3. LptDenom \subseteq Nat
      BY DEF LptDenom
    <2>4. ASSUME NEW t \in Token, pools'[t] # NoPool
          PROVE  pools'[t] < sequence' /\ lptIndex'[pools'[t]] = t
      <3>1. CASE t = token
        <4>1. pools'[t] = n /\ lptIndex'[n] = t
          BY <3>1, <2>1, <1>0
        <4>2. n < sequence'
          BY <2>2
        <4> QED
          BY <4>1, <4>2
      <3>2. CASE t # token
        <4>1. pools'[t] = pools[t] /\ pools[t] \in LptDenom
          BY <3>2, <2>1, <2>4, <1>0
        <4>2. pools[t] < n /\ lptIndex[pools[t]] = t
          BY ZenonT(90), <4>1, <2>2, <2>4 DEF IndInv, PoolsIndexed
        <4>3. pools[t] # n
          BY ZenonT(90), <4>1, <4>2, <2>2, <2>3, SuccLarger
        <4>4. lptIndex'[pools[t]] = lptIndex[pools[t]]
          BY <4>1, <4>3, <2>1, <1>0
        <4>5. pools[t] < sequence'
          <5>1. pools[t] \in Nat /\ n \in Nat
            BY <4>1, <2>2, <2>3, ZenonT(90)
          <5>2. pools[t] < n + 1
            BY <5>1, <4>2, SuccLarger
          <5> QED
            BY <5>2, <2>2
        <4> QED
          BY ZenonT(90), <4>1, <4>2, <4>4, <4>5
      <3> QED
        BY ZenonT(90), <3>1, <3>2
    <2>5. ASSUME NEW x \in LptDenom, x < sequence' PROVE lptIndex'[x] # NoToken
      <3>1. CASE x = n
        BY ZenonT(90), <3>1, <2>1, <2>2, <1>0
      <3>2. CASE x # n
        <4>1. x < sequence
          BY <3>2, <2>2, <2>3, <2>5
        <4> QED
          BY <4>1, <3>2, <2>1, <1>0 DEF IndInv, PoolsIndexed
      <3> QED
        BY <3>1, <3>2
    <2>6. ASSUME NEW x \in LptDenom, lptIndex'[x] # NoToken PROVE pools'[lptIndex'[x]] = x
      <3>1. CASE x = n
        BY <3>1, <2>1, <1>0
      <3>2. CASE x # n
        <4>1. lptIndex'[x] = lptIndex[x] /\ lptIndex[x] \in Token /\ pools[lptIndex[x]] = x
          BY <3>2, <2>1, <2>6, <1>0 DEF IndInv, PoolsIndexed
        <4>2. x # NoPool
          BY DEF LptDenom, NoPool
        <4>3. lptIndex[x] # token
          BY <4>1, <4>2, <1>0
        <4> QED
          BY ZenonT(90), <4>1, <4>3, <2>1, <1>0
      <3> QED
        BY <3>1, <3>2
    <2>7. ASSUME NEW x \in LptDenom, x >= sequence' PROVE supply'[x] = 0
      <3>1. x # n /\ x >= sequence
        BY <2>2, <2>3, <2>7
      <3> QED
        BY ZenonT(90), <3>1, <1>8 DEF IndInv, PoolsIndexed
    <2> QED
      BY ZenonT(90), <2>4, <2>5, <2>6, <2>7 DEF PoolsIndexed
  <1>11. ASSUME NEW t \in Token, NEW x \in LptDenom, x # n, pools[t] = x
         PROVE  Untouched(t, x)
    <2>1. t \in Denom /\ GetReservePoolAddr(x) \in Addr
      BY ZenonT(90), DenomFacts, EscrowFacts
    <2>2. ASSUME NEW e \in {Standard, t}
          PROVE  bank'[GetReservePoolAddr(x)][e] = bank[GetReservePoolAddr(x)][e]
                 /\ bank[GetReservePoolAddr(x)][e] \in Nat
      <3>1. b[GetReservePoolAddr(x)][e] = bank[GetReservePoolAddr(x)][e]
        BY ZenonT(90), <2>1, <1>3, <1>5
      <3>2. bank[GetReservePoolAddr(x)][e] \in Nat
        BY ZenonT(90), <2>1, <1>2, <1>3 DEF Balances
      <3>3. bank'[GetReservePoolAddr(x)][e] = b[GetReservePoolAddr(x)][e] + 0 + 0
        BY <1>7, <1>11
      <3> QED
        BY <3>1, <3>2, <3>3
    <2>3. ASSUME NEW e \in {Standard, t}
          PROVE  bank'[GetReservePoolAddr(x)][e] >= bank[GetReservePoolAddr(x)][e]
      BY ZenonT(90), <2>2, NatReflexive
    <2>4. supply'[x] = supply[x]
      BY <1>8, <1>11
    <2> QED
      BY ZenonT(90), <2>3, <2>4 DEF Untouched
  <1>12. ASSUME NEW t \in Token, pools[t] # NoPool
         PROVE  pools[t] \in LptDenom /\ pools[t] # n /\ Untouched(t, pools[t])
    <2>1. pools[t] \in LptDenom /\ pools[t] < sequence
      BY <1>12 DEF IndInv, TypeOK, PoolsIndexed
    <2>2. pools[t] # n
      BY <2>1, <1>3 DEF LptDenom, n
    <2> QED
      BY ZenonT(90), <2>1, <2>2, <1>11
  <1>13. SharesAreBacked'
    <2> SUFFICES ASSUME NEW t \in Token, pools'[t] # NoPool, supply'[pools'[t]] > 0
                 PROVE  /\ bank'[GetReservePoolAddr(pools'[t])][Standard] > 0
                        /\ bank'[GetReservePoolAddr(pools'[t])][t] > 0
      BY ZenonT(90) DEF SharesAreBacked, Reserve
    <2>0. pools \in [Token -> LptDenom \cup {NoPool}]
      BY ZenonT(90) DEF IndInv, TypeOK
    <2>1. CASE t = token
      <3>1. pools'[t] = n
        BY <2>0, <2>1, <1>0
      <3>2. GetReservePoolAddr(n) \in Addr
        BY ZenonT(90), <1>0, EscrowFacts
      <3>3. b[GetReservePoolAddr(n)][Standard] \in Nat /\ b[GetReservePoolAddr(n)][token] \in Nat
        BY ZenonT(90), <3>2, <1>3, <1>5 DEF Balances
      <3>4. /\ bank'[GetReservePoolAddr(n)][Standard] = b[GetReservePoolAddr(n)][Standard] + exactStandardAmt
            /\ bank'[GetReservePoolAddr(n)][token] = b[GetReservePoolAddr(n)][token] + maxToken
        <4>1. n \in LptDenom /\ Standard \in {Standard} \cup Token /\ token \in {Standard} \cup Token
          BY <1>0, ZenonT(90)
        <4>2. bank'[GetReservePoolAddr(n)][Standard] = b[GetReservePoolAddr(n)][Standard]
               + (IF n = n /\ Standard = Standard THEN exactStandardAmt ELSE 0)
               + (IF n = n /\ Standard = token THEN maxToken ELSE 0)
          BY <4>1, <1>7, ZenonT(90)
        <4>3. bank'[GetReservePoolAddr(n)][token] = b[GetReservePoolAddr(n)][token]
               + (IF n = n /\ token = Standard THEN exactStandardAmt ELSE 0)
               + (IF n = n /\ token = token THEN maxToken ELSE 0)
          BY <4>1, <1>7, ZenonT(90)
        <4>4. bank'[GetReservePoolAddr(n)][Standard]
                = b[GetReservePoolAddr(n)][Standard] + exactStandardAmt + 0
          BY <1>3, <4>2, ZenonT(90)
        <4>5. bank'[GetReservePoolAddr(n)][token] = b[GetReservePoolAddr(n)][token] + 0 + maxToken
          BY <1>3, <4>3, ZenonT(90)
        <4>6. exactStandardAmt \in Nat /\ maxToken \in Nat
          OBVIOUS
        <4> QED
          BY <3>3, <4>4, <4>5, <4>6, PlusZero, ZenonT(90)
      <3> QED
        BY <2>1, <3>1, <3>3, <3>4
    <2>2. CASE t # token
      <3>1. pools'[t] = pools[t]
        BY ZenonT(90), <2>0, <2>2, <1>0
      <3>2. pools[t] \in LptDenom /\ Untouched(t, pools[t])
        BY <3>1, <1>12
      <3>3. Reserve(pools[t], Standard) > 0 /\ Reserve(pools[t], t) > 0
        BY ZenonT(90), <3>1, <3>2 DEF IndInv, SharesAreBacked, Untouched
      <3>4. GetReservePoolAddr(pools[t]) \in Addr /\ t \in Denom
        BY <3>2, EscrowFacts, DenomFacts
      <3>5. /\ bank[GetReservePoolAddr(pools[t])][Standard] \in Nat
            /\ bank[GetReservePoolAddr(pools[t])][t] \in Nat
            /\ bank'[GetReservePoolAddr(pools[t])][Standard] \in Nat
            /\ bank'[GetReservePoolAddr(pools[t])][t] \in Nat
        BY ZenonT(90), <3>4, <1>2, <1>3, <1>7 DEF Balances
      <3> QED
        <4>1. /\ bank'[GetReservePoolAddr(pools[t])][Standard]
                   >= bank[GetReservePoolAddr(pools[t])][Standard]
              /\ bank'[GetReservePoolAddr(pools[t])][t] >= bank[GetReservePoolAddr(pools[t])][t]
          BY ZenonT(90), <3>2 DEF Untouched
        <4>2. /\ bank[GetReservePoolAddr(pools[t])][Standard] > 0
              /\ bank[GetReservePoolAddr(pools[t])][t] > 0
          BY ZenonT(90), <3>3 DEF Reserve
        <4>3. /\ bank'[GetReservePoolAddr(pools[t])][Standard] > 0
              /\ bank'[GetReservePoolAddr(pools[t])][t] > 0
          BY ZenonT(90), <4>1, <4>2, <3>5, LargerIsPositive
        <4> QED
          BY ZenonT(90), <4>3, <3>1
    <2> QED
      BY ZenonT(90), <2>1, <2>2
  <1>14. StepInv
    <2> SUFFICES ASSUME NEW t \in Token, pools[t] \in LptDenom, supply[pools[t]] > 0
                 PROVE  ShareValueStep(t, pools[t])
      BY ZenonT(90) DEF StepInv
    <2> DEFINE x == pools[t]
               ex == GetReservePoolAddr(x)
    <2>1. x # NoPool
      BY DEF LptDenom, NoPool
    <2>2. Untouched(t, x)
      BY <2>1, <1>12
    <2>3. ex \in Addr /\ t \in Denom /\ x \in Denom
      BY EscrowFacts, DenomFacts
    <2>4. /\ bank[ex][Standard] \in Nat /\ bank[ex][t] \in Nat /\ supply[x] \in Nat
          /\ bank'[ex][Standard] \in Nat /\ bank'[ex][t] \in Nat
      BY ZenonT(90), <2>3, <1>2, <1>3, <1>7 DEF Balances, IndInv, TypeOK
    <2> DEFINE S == bank[ex][Standard]
               T == bank[ex][t]
               S1 == bank'[ex][Standard]
               T1 == bank'[ex][t]
               L == supply[x]
    <2>5. S <= S1 /\ T <= T1 /\ supply'[x] = L
      BY ZenonT(90), <2>2, <2>4 DEF Untouched
    <2>6. S1 * T1 * (L * L) >= S * T * (L * L)
      <3> HIDE DEF S, T, S1, T1, L
      <3>1. S * L <= S1 * L /\ T * L <= T1 * L
        BY ZenonT(90), <2>4, <2>5, MulMono DEF S, T, S1, T1, L
      <3> QED
        BY <3>1, <2>4, RatiosGiveValue, ZenonT(90) DEF S, T, S1, T1, L
    <2> QED
      BY ZenonT(90), <2>5, <2>6 DEF ShareValueStep
  <1>15. KeepsSupply
    <2> DEFINE burnt == fee - CommunityTax
    <2>1. exactStandardAmt \in Nat /\ maxToken \in Nat /\ burnt \in Nat
      BY <1>2, <1>5
    <2>2. TotalGrows(bank, b, Standard, 0 - burnt) /\ ModuleKept(bank, b)
      BY ZenonT(90), <1>2, <1>4, FeeEffect DEF fee, b
    <2>3. TotalGrows(b, bank', n, exactStandardAmt) /\ ModuleKept(b, bank')
      BY ZenonT(90), <1>0, <1>b, <1>5, <1>6, <2>1, AddEffect
    <2>4. ModuleKept(bank, bank')
      BY <2>2, <2>3, ZenonT(90) DEF ModuleKept
    <2>5. supply \in [Denom -> Nat]
      BY DEF IndInv, TypeOK
    <2> HIDE DEF burnt
    <2>6. ASSUME NEW e \in Denom
          PROVE  supply'[e] = supply[e] + (Total(bank', e) - Total(bank, e))
      <3>1. /\ Total(b, e) = Total(bank, e) + (IF e = Standard THEN 0 - burnt ELSE 0)
            /\ Total(bank', e) = Total(b, e) + (IF e = n THEN exactStandardAmt ELSE 0)
        BY <2>2, <2>3, ZenonT(90) DEF TotalGrows
      <3>2. Total(bank, e) \in Nat /\ supply[e] \in Nat
        BY <1>2, <2>5, TotalIsNat, ZenonT(90)
      <3>3. supply'[e] = IF e = Standard THEN supply[e] - burnt
                           ELSE IF e = n THEN supply[e] + exactStandardAmt ELSE supply[e]
        BY <1>s, <1>3, <2>5 DEF burnt
      <3> QED
        BY <3>1, <3>2, <3>3, <1>3, <2>1
    <2> QED
      BY ZenonT(90), <1>2, <1>7, <2>4, <2>6, SupplyStep
  <1> QED
    BY <1>9, <1>10, <1>13, <1>14, <1>15 DEF IndInv

-----------------------------------------------------------------------------
(* The invariant.                                                          *)

\* The genesis state has no pools and no shares.
LEMMA InitInv == Init => IndInv
  <1> SUFFICES ASSUME Init PROVE IndInv
    OBVIOUS
  <1>1. \A d \in Denom : d \notin LptDenom => d \in {Standard} \cup Token
    BY ZenonT(90) DEF Denom
  <1>2. bank \in Balances
    BY ZenonT(90), <1>1, ConstantsAssumption DEF Init, Balances
  <1>3. supply \in [Denom -> Nat]
    BY ZenonT(90), <1>1, ConstantsAssumption DEF Init
  <1>4. TypeOK
    <2>1. sequence \in 1..(MaxPools + 1)
      BY ConstantsAssumption DEF Init
    <2> QED
      BY ZenonT(90), <2>1, <1>2, <1>3, ConstantsAssumption DEF Init, TypeOK
  <1>5. \A n \in LptDenom : n \in Nat /\ n >= 1 /\ n \in Denom
    BY DEF LptDenom, Denom
  <1>6. PoolsIndexed
    BY <1>5 DEF Init, PoolsIndexed
  <1>7. SharesAreBacked
    BY DEF Init, SharesAreBacked
  <1> QED
    BY <1>4, <1>6, <1>7 DEF IndInv

\* Steps that touch no reserve and no share.
LEMMA IdleStep ==
  ASSUME IndInv, TypeOK', UNCHANGED <<sequence, pools, lptIndex, bank, supply>>
  PROVE  IndInv' /\ StepInv /\ KeepsSupply
  <1>1. ASSUME NEW t \in Token, NEW n \in LptDenom, pools[t] = n
        PROVE  Untouched(t, n)
    <2>1. GetReservePoolAddr(n) \in Addr /\ Standard \in Denom /\ t \in Denom
      BY EscrowFacts, DenomFacts
    <2>2. bank[GetReservePoolAddr(n)][Standard] \in Nat /\ bank[GetReservePoolAddr(n)][t] \in Nat
      BY <2>1 DEF IndInv, TypeOK, Balances
    <2> QED
      BY <2>2 DEF Untouched
  <1>2. \A n \in LptDenom : n >= sequence => supply'[n] = 0
    BY ZenonT(90) DEF IndInv, PoolsIndexed
  <1>3. KeepsSupply
    BY DEF KeepsSupply, SupplyIsBalances
  <1> QED
    BY <1>1, <1>2, <1>3, PoolStep

\* Every step preserves the inductive invariant, the value of every share and the
\* agreement of supply and balances.
LEMMA NextStep ==
  ASSUME WellOrdered, IndInv, Next
  PROVE  IndInv' /\ StepInv /\ KeepsSupply
  <1>1. Amount \subseteq Nat \ {0} /\ Bound \subseteq Nat /\ Deadline \subseteq Nat
    BY ConstantsAssumption
  <1>2. CASE AddLiquidity
    <2>1. PICK sender \in User, token \in Token, maxToken \in Amount, exactStandardAmt \in Amount,
               minLiquidity \in Bound, deadline \in Deadline :
            \/ AddLiquidityCreate(sender, token, maxToken, exactStandardAmt, minLiquidity, deadline)
            \/ AddLiquidityEmpty(sender, token, maxToken, exactStandardAmt, minLiquidity, deadline)
            \/ AddLiquidityJoin(sender, token, maxToken, exactStandardAmt, minLiquidity, deadline)
      BY <1>2 DEF AddLiquidity
    <2>2. /\ maxToken \in Nat \ {0} /\ exactStandardAmt \in Nat \ {0}
          /\ minLiquidity \in Nat /\ deadline \in Nat
      BY <1>1
    <2>3. CASE AddLiquidityCreate(sender, token, maxToken, exactStandardAmt, minLiquidity, deadline)
      BY <2>2, <2>3, CreateStep
    <2>4. CASE AddLiquidityEmpty(sender, token, maxToken, exactStandardAmt, minLiquidity, deadline)
      BY <2>2, <2>4, EmptyStep
    <2>5. CASE AddLiquidityJoin(sender, token, maxToken, exactStandardAmt, minLiquidity, deadline)
      BY <2>2, <2>5, JoinStep
    <2> QED
      BY <2>1, <2>3, <2>4, <2>5
  <1>3. CASE Withdraw
    <2>1. PICK sender \in User, lpt \in LptDenom, withdraw \in Amount,
               minStandardAmt \in Bound, minToken \in Bound, deadline \in Deadline :
            RemoveLiquidity(sender, lpt, withdraw, minStandardAmt, minToken, deadline)
      BY <1>3 DEF Withdraw
    <2>2. withdraw \in Nat \ {0} /\ minStandardAmt \in Nat /\ minToken \in Nat /\ deadline \in Nat
      BY <1>1
    <2> QED
      BY <2>1, <2>2, RemoveStep
  <1>4. CASE Swap
    <2>1. PICK sender \in User, recipient \in Addr, token \in Token, inputAmt \in Amount,
               outputAmt \in Amount, isBuyOrder \in BOOLEAN, deadline \in Deadline :
            \/ SwapCoin(sender, recipient, token, Standard, inputAmt, token, outputAmt, isBuyOrder, deadline)
            \/ SwapCoin(sender, recipient, token, token, inputAmt, Standard, outputAmt, isBuyOrder, deadline)
      BY <1>4 DEF Swap
    <2>2. inputAmt \in Nat /\ outputAmt \in Nat /\ deadline \in Nat /\ Standard # token
      BY <1>1, DenomAssumption
    <2>3. CASE SwapCoin(sender, recipient, token, Standard, inputAmt, token, outputAmt, isBuyOrder, deadline)
      BY <2>2, <2>3, SwapCoinStep
    <2>4. CASE SwapCoin(sender, recipient, token, token, inputAmt, Standard, outputAmt, isBuyOrder, deadline)
      BY <2>2, <2>4, SwapCoinStep
    <2> QED
      BY <2>1, <2>3, <2>4
  <1>5. CASE Transfer
    <2>1. PICK from \in User, to \in Addr \ BlockedAddr, denom \in Denom, amt \in Amount :
            BankSend(from, to, denom, amt)
      BY <1>5 DEF Transfer
    <2>2. amt \in Nat
      BY <1>1
    <2> QED
      BY <2>1, <2>2, BankSendStep
  <1>6. CASE Governance
    <2>1. TypeOK' /\ UNCHANGED <<sequence, pools, lptIndex, bank, supply>>
      BY ZenonT(90), <1>6 DEF Governance, UpdateParams, Validate, IndInv, TypeOK
    <2> QED
      BY <2>1, IdleStep
  <1>7. CASE NextBlock
    <2>1. TypeOK' /\ UNCHANGED <<sequence, pools, lptIndex, bank, supply>>
      BY <1>7 DEF NextBlock, IndInv, TypeOK
    <2> QED
      BY <2>1, IdleStep
  <1> QED
    BY <1>2, <1>3, <1>4, <1>5, <1>6, <1>7 DEF Next

\* RemoveLiquidity's checks for a withdrawal without minimum amounts, in the order of the
\* handler, and what its transfers need: shares to burn, and both amounts in the escrow.
CanRemove(u, lpt, w) ==
  LET token == lptIndex[lpt]
  IN  /\ token # NoToken
      /\ supply[lpt] >= w
      /\ supply[lpt] > 0
      /\ bank[u][lpt] >= w
      /\ (w * Reserve(lpt, Standard)) \div supply[lpt] <= Reserve(lpt, Standard)
      /\ (w * Reserve(lpt, token)) \div supply[lpt] <= Reserve(lpt, token)

HoldersPass ==
  \A u \in User, lpt \in LptDenom :
    bank[u][lpt] > 0 => CanRemove(u, lpt, bank[u][lpt])

\* In the genesis state the supply is what the genesis accounts hold.
LEMMA InitSupplyIsBalances ==
  ASSUME WellOrdered
  PROVE  Init => SupplyIsBalances
  <1> SUFFICES ASSUME Init PROVE SupplyIsBalances
    OBVIOUS
  <1>1. bank \in Balances
    BY ZenonT(90), InitInv DEF IndInv, TypeOK
  <1>2. ASSUME NEW d \in Denom PROVE bank[ModuleAccount][d] = 0
    BY AddrAssumption DEF Init, Addr, BlockedAddr
  <1>3. ASSUME NEW d \in Denom
        PROVE  supply[d] = SumOver([a \in Addr |-> bank[a][d]], Addr)
    <2> DEFINE f == [a \in Addr |-> bank[a][d]]
    <2>1. IntValued(f, Addr)
      BY <1>1 DEF IntValued, Balances
    <2>2. CASE d \in LptDenom
      <3>1. \A a \in Addr : f[a] = 0
        BY <2>2 DEF Init
      <3>2. supply[d] = 0
        BY <2>2 DEF Init
      <3> HIDE DEF f
      <3>3. SumOver(f, Addr) = 0
        BY <3>1, AddrFinite, SumOverZero
      <3> QED
        BY <3>2, <3>3 DEF f
    <2>3. CASE d \notin LptDenom
      <3> DEFINE g == [u \in User |-> InitBalance[u][d]]
      <3>1. supply[d] = InitSupply[d] /\ d \in {Standard} \cup Token
        BY ZenonT(90), <2>3 DEF Init, Denom
      <3>2. \A a \in Addr \ User : f[a] = 0
        BY DEF Init
      <3>3. User \in SUBSET Addr
        BY DEF Addr
      <3>4. SameOn(f, g, User)
        BY <2>3, <3>3 DEF Init, SameOn
      <3>5. supply[d] = SumOver(g, User)
        BY <3>1, SupplyAssumption, ZenonT(90)
      <3>6. IsFiniteSet(User)
        BY ConstantsAssumption
      <3> HIDE DEF f, g
      <3>7. SumOver(f, Addr) = SumOver(f, User)
        BY <2>1, <3>2, <3>3, AddrFinite, SumOverRest
      <3>8. SumOver(f, User) = SumOver(g, User)
        BY <3>4, <3>6, SumOverSame
      <3> QED
        BY ZenonT(90), <3>5, <3>7, <3>8 DEF f
    <2> QED
      BY <2>2, <2>3
  <1> QED
    BY <1>2, <1>3 DEF SupplyIsBalances

\* A holder's shares are part of the supply, and the pool of those shares is registered: the
\* checks of RemoveLiquidity pass.
LEMMA HoldersStep ==
  ASSUME WellOrdered, IndInv, SupplyIsBalances
  PROVE  HoldersPass
  <1>1. ASSUME NEW u \in User, NEW lpt \in LptDenom, bank[u][lpt] > 0
        PROVE  CanRemove(u, lpt, bank[u][lpt])
    <2> DEFINE w == bank[u][lpt]
               t == lptIndex[lpt]
    <2>1. /\ bank \in Balances /\ supply \in [Denom -> Nat] /\ u \in Addr /\ lpt \in Denom
          /\ lptIndex \in [LptDenom -> Token \cup {NoToken}]
      BY <1>1 DEF IndInv, TypeOK, Addr, Denom
    <2>2. w \in Nat /\ w <= supply[lpt] /\ supply[lpt] \in Nat
      <3>1. supply[lpt] = Total(bank, lpt)
        BY <1>1, <2>1 DEF SupplyIsBalances, Total
      <3>2. w <= Total(bank, lpt) /\ w \in Nat
        BY <2>1, TotalIsNat DEF Balances
      <3> QED
        BY <2>1, <3>1, <3>2
    <2>3. supply[lpt] > 0
      BY <1>1, <2>2
    <2>4. lpt \in Nat /\ sequence \in Nat
      BY <1>1, ConstantsAssumption DEF IndInv, TypeOK, LptDenom
    <2>5. lpt < sequence
      BY <1>1, <2>3, <2>4 DEF IndInv, PoolsIndexed
    <2>6. t \in Token /\ t # NoToken
      BY <1>1, <2>1, <2>5 DEF IndInv, PoolsIndexed
    <2>7. GetReservePoolAddr(lpt) \in Addr /\ Standard \in Denom /\ t \in Denom
      BY <2>6, EscrowFacts, DenomFacts
    <2>8. Reserve(lpt, Standard) \in Nat /\ Reserve(lpt, t) \in Nat
      BY <2>1, <2>7 DEF Reserve, Balances
    <2> HIDE DEF w, t
    <2>9. /\ (w * Reserve(lpt, Standard)) \div supply[lpt] <= Reserve(lpt, Standard)
          /\ (w * Reserve(lpt, t)) \div supply[lpt] <= Reserve(lpt, t)
      BY <2>2, <2>3, <2>8, WithdrawKeepsRatio
    <2>10. supply[lpt] >= w /\ bank[u][lpt] >= w
      BY <2>2 DEF w
    <2> QED
      BY <2>3, <2>6, <2>9, <2>10, ZenonT(90) DEF CanRemove, w, t
  <1> QED
    BY <1>1 DEF HoldersPass

\* An exported state is valid and complete: the next id is one more than the largest, and the
\* index has what the pools say.
LEMMA GenesisStep ==
  ASSUME IndInv
  PROVE  GenesisRoundTrip
  <1>1. /\ pools \in [Token -> LptDenom \cup {NoPool}] /\ lptIndex \in [LptDenom -> Token \cup {NoToken}]
        /\ sequence \in 1..(MaxPools + 1) /\ params \in Params /\ MaxPools \in Nat
    BY ConstantsAssumption DEF IndInv, TypeOK
  <1>2. \A n \in LptDenom : n \in Nat /\ n # NoPool
    BY DEF LptDenom, NoPool
  <1>3. PoolsIndexed
    BY DEF IndInv
  <1>4. ASSUME sequence # 1
        PROVE  \E t \in Token : pools[t] # NoPool /\ pools[t] + 1 = sequence
    <2> DEFINE n == sequence - 1
    <2>1. n \in LptDenom /\ n < sequence /\ n + 1 = sequence
      BY <1>1, <1>4 DEF LptDenom
    <2> HIDE DEF n
    <2>2. lptIndex[n] \in Token /\ pools[lptIndex[n]] = n
      BY <2>1, <1>1, <1>3 DEF PoolsIndexed
    <2> QED
      BY ZenonT(90), <2>1, <2>2, <1>2
  <1>5. ValidateGenesis(ExportGenesis)
    BY ZenonT(90), <1>1, <1>3, <1>4 DEF ValidateGenesis, ExportGenesis, Validate, PoolsIndexed
  <1>6. ASSUME NEW n \in LptDenom
        PROVE  lptIndex[n] = IF \E t \in Token : pools[t] = n
                               THEN CHOOSE t \in Token : pools[t] = n
                               ELSE NoToken
    <2>1. \A t \in Token : pools[t] = n => lptIndex[n] = t
      BY <1>2, <1>3 DEF PoolsIndexed
    <2>2. lptIndex[n] # NoToken => lptIndex[n] \in Token /\ pools[lptIndex[n]] = n
      BY <1>1, <1>3 DEF PoolsIndexed
    <2> QED
      BY ZenonT(90), <2>1, <2>2
  <1>7. InitGenesisIndex(ExportGenesis) = lptIndex
    BY <1>1, <1>6 DEF InitGenesisIndex, ExportGenesis
  <1> QED
    BY <1>5, <1>7 DEF GenesisRoundTrip

-----------------------------------------------------------------------------
(* Theorems.                                                               *)

INSTANCE WellFoundedInduction

\* The natural numbers are well-ordered, as the library's theorems have it: the hypothesis of
\* the lemmas above holds.
LEMMA NatWellOrdered == WellOrdered
<1> SUFFICES ASSUME NEW T \in SUBSET Nat, T # {}
             PROVE  \E x \in T : \A y \in T : x <= y
  BY DEF WellOrdered
<1> DEFINE less == OpToRel(<, Nat)
<1>1. IsWellFoundedOn(less, Nat)
  BY NatLessThanWellFounded, ZenonT(90)
<1>2. \A x, y \in T : <<y, x>> \in less <=> y < x
  BY DEF OpToRel
<1> HIDE DEF less
<1>3. PICK x \in T : \A y \in T : ~(<<y, x>> \in less)
  BY <1>1, WFMin, ZenonT(90)
<1>4. \A y \in T : ~(y < x)
  BY ZenonT(90), <1>2, <1>3
<1> QED
  BY <1>4

USE NatWellOrdered

\* The inductive invariant holds in every reachable state.
THEOREM IndInvariant == Spec => []IndInv
  <1>1. Init => IndInv
    BY InitInv
  <1>2. IndInv /\ [Next]_vars => IndInv'
    <2> SUFFICES ASSUME IndInv, [Next]_vars PROVE IndInv'
      OBVIOUS
    <2>1. CASE Next
      BY <2>1, NextStep
    <2>2. CASE UNCHANGED vars
      BY ZenonT(90), <2>2 DEF vars, IndInv, TypeOK, PoolsIndexed, SharesAreBacked, Reserve
    <2> QED
      BY <2>1, <2>2
  <1> QED
    BY <1>1, <1>2, PTL DEF Spec

\* The bank's supply of every denom, shares included, is what all accounts hold together,
\* after any sequence of messages: no mint, burn, fee, swap or transfer of the keeper
\* creates or loses a coin, and nothing stays behind on the module account.
THEOREM SupplySafe == Spec => []SupplyIsBalances
  <1>1. SupplyIsBalances /\ IndInv /\ [Next]_vars => SupplyIsBalances'
    <2> SUFFICES ASSUME SupplyIsBalances, IndInv, [Next]_vars PROVE SupplyIsBalances'
      OBVIOUS
    <2>1. CASE Next
      BY ZenonT(90), <2>1, NextStep DEF KeepsSupply
    <2>2. CASE UNCHANGED vars
      BY <2>2 DEF vars, SupplyIsBalances
    <2> QED
      BY <2>1, <2>2
  <1> QED
    BY <1>1, InitSupplyIsBalances, IndInvariant, PTL DEF Spec

\* Whoever holds shares passes every check of RemoveLiquidity when they withdraw all of
\* them in the current block and ask for no minimum, and both amounts they are paid are
\* in the pool: this is the condition under which the keeper's handler succeeds.
THEOREM HoldersPassChecks == Spec => []HoldersPass
  <1>1. IndInv /\ SupplyIsBalances => HoldersPass
    BY HoldersStep
  <1> QED
    BY <1>1, IndInvariant, SupplySafe, PTL

\* The stores keep their types: no keeper drives a balance, a reserve or a supply
\* below zero, with any amounts in any order of messages.
THEOREM TypeCorrect == Spec => []TypeOK
  <1>1. IndInv => TypeOK
    BY DEF IndInv
  <1> QED
    BY <1>1, IndInvariant, PTL

\* A pool with outstanding shares has both reserves, so AddLiquidity never divides
\* by zero and RemoveLiquidity always has something to pay out.
THEOREM SharesStayBacked == Spec => []SharesAreBacked
  <1>1. IndInv => SharesAreBacked
    BY DEF IndInv
  <1> QED
    BY <1>1, IndInvariant, PTL

\* No join, withdrawal, swap or donation lowers the value of a share.
THEOREM ShareValueSafe == Spec => ShareValueNeverFalls
  <1>1. IndInv /\ [Next]_vars =>
          [\A t \in Token, n \in LptDenom :
             (pools[t] = n /\ supply[n] > 0) => ShareValueStep(t, n)]_vars
    BY NextStep DEF StepInv
  <1> QED
    BY <1>1, IndInvariant, PTL DEF Spec, ShareValueNeverFalls

\* An exported state passes ValidateGenesis and is rebuilt by InitGenesis exactly.
THEOREM GenesisSafe == Spec => []GenesisRoundTrip
  <1>1. IndInv => GenesisRoundTrip
    BY GenesisStep
  <1> QED
    BY <1>1, IndInvariant, PTL
=============================================================================
