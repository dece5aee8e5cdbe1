----------------------------- MODULE LendLemmas -----------------------------
(***************************************************************************)
(* What each function of Pool, Lend and ChainContract does to supplies,    *)
(* debts, stakes and collateral, for any number of users, tokens and       *)
(* amounts, and any prices and rates: every step preserves the sums of the *)
(* pool and of TUCUSD, leaves a debtor the minimum collateral, keeps the   *)
(* stakes at the validators in line with the pool and with each user's     *)
(* supply, and lends no more than announced.                               *)
(***************************************************************************)
EXTENDS Lend, SumLemmas

\* The provers that try a leaf, one after the other, and the seconds each of them has.
USE SMTT(60), ZenonT(60), Z3T(60)

SupplyInv ==
  /\ userSupply \in [Token -> [User -> Nat]] /\ totalSupply \in [Token -> Nat]
  /\ held \in [Token -> Nat]
  /\ PoolSolvent

DebtInv ==
  /\ userBorrow \in [User -> Nat] /\ totalBorrow \in Nat
  /\ usd \in [User -> Nat] /\ usdSupply \in Nat
  /\ UsdIsDebt

LendInv == ConfigTypeOK /\ SupplyInv /\ DebtInv

-----------------------------------------------------------------------------
(* Pool functions.                                                         *)

\* An update with a value of the range keeps a function's type.
LEMMA UpdateTyped ==
  ASSUME NEW S, NEW T, NEW f \in [S -> T], NEW i \in S, NEW v \in T
  PROVE  [f EXCEPT ![i] = v] \in [S -> T]
OBVIOUS

\* A supply adds the same amount to the user, the total and the pool's balance.
LEMMA IncreaseStep ==
  ASSUME WellOrdered, SupplyInv, NEW u \in User, NEW t \in Token, NEW amount \in Nat,
         increasePoolToken(u, t, amount), held' = [held EXCEPT ![t] = @ + amount]
  PROVE  SupplyInv'
<1> USE ConfigAssumption DEF User
<1>1. /\ userSupply[t] \in [1..Users -> Nat] /\ totalSupply[t] \in Nat
      /\ SumsTo(userSupply[t], Users, totalSupply[t]) /\ held[t] = totalSupply[t]
  BY DEF SupplyInv, PoolSolvent
<1>2. /\ Credit(userSupply[t], u, amount) \in [1..Users -> Nat]
      /\ SumsTo(Credit(userSupply[t], u, amount), Users, totalSupply[t] + amount)
  BY ZenonT(90), <1>1, SumCredit
<1>3. /\ userSupply' = [userSupply EXCEPT ![t] = Credit(userSupply[t], u, amount)]
      /\ totalSupply' = [totalSupply EXCEPT ![t] = totalSupply[t] + amount]
      /\ held' = [held EXCEPT ![t] = held[t] + amount]
  BY DEF increasePoolToken
<1>4. /\ userSupply' \in [Token -> [User -> Nat]] /\ totalSupply' \in [Token -> Nat]
      /\ held' \in [Token -> Nat]
  <2>1. /\ userSupply \in [Token -> [User -> Nat]] /\ totalSupply \in [Token -> Nat]
        /\ held \in [Token -> Nat]
    BY ZenonT(90) DEF SupplyInv
  <2>2. totalSupply[t] + amount \in Nat /\ held[t] + amount \in Nat
    BY <1>1
  <2>3. userSupply' \in [Token -> [User -> Nat]]
    BY ZenonT(90), <1>2, <1>3, <2>1, UpdateTyped
  <2>4. totalSupply' \in [Token -> Nat]
    BY ZenonT(90), <1>3, <2>1, <2>2, UpdateTyped
  <2>5. held' \in [Token -> Nat]
    <3>1. [held EXCEPT ![t] = held[t] + amount] \in [Token -> Nat]
      BY ZenonT(90), <2>1, <2>2, UpdateTyped
    <3> QED
      BY ZenonT(90), <1>3, <3>1
  <2> QED
    BY ZenonT(90), <2>3, <2>4, <2>5
<1>5. ASSUME NEW s \in Token
      PROVE  held'[s] = totalSupply'[s] /\ SumsTo(userSupply'[s], Users, totalSupply'[s])
  <2>1. /\ userSupply \in [Token -> [User -> Nat]] /\ totalSupply \in [Token -> Nat]
        /\ held \in [Token -> Nat] /\ held[s] = totalSupply[s]
        /\ SumsTo(userSupply[s], Users, totalSupply[s])
    BY ZenonT(90) DEF SupplyInv, PoolSolvent
  <2>2. CASE s = t
    BY ZenonT(90), <1>1, <1>2, <1>3, <2>1, <2>2
  <2>3. CASE s # t
    BY ZenonT(90), <1>3, <2>1, <2>3
  <2> QED
    BY ZenonT(90), <2>2, <2>3
<1> QED
  BY ZenonT(90), <1>4, <1>5 DEF SupplyInv, PoolSolvent

\* A withdrawal takes the same amount from all three, and the total covers it.
LEMMA DecreaseStep ==
  ASSUME WellOrdered, SupplyInv, NEW u \in User, NEW t \in Token, NEW amount \in Nat,
         decreasePoolToken(u, t, amount)
  PROVE  SupplyInv'
<1> USE ConfigAssumption DEF User
<1>1. /\ userSupply[t] \in [1..Users -> Nat] /\ totalSupply[t] \in Nat
      /\ SumsTo(userSupply[t], Users, totalSupply[t]) /\ held[t] = totalSupply[t]
  BY DEF SupplyInv, PoolSolvent
<1>2. amount <= userSupply[t][u]
  BY <1>1 DEF decreasePoolToken
<1>3. /\ totalSupply[t] - amount \in Nat
      /\ Debit(userSupply[t], u, amount) \in [1..Users -> Nat]
      /\ SumsTo(Debit(userSupply[t], u, amount), Users, totalSupply[t] - amount)
  BY ZenonT(90), <1>1, <1>2, SumDebit
<1>4. /\ userSupply' = [userSupply EXCEPT ![t] = Debit(userSupply[t], u, amount)]
      /\ totalSupply' = [totalSupply EXCEPT ![t] = totalSupply[t] - amount]
      /\ held' = [held EXCEPT ![t] = held[t] - amount]
  BY DEF decreasePoolToken
<1>5. /\ userSupply' \in [Token -> [User -> Nat]] /\ totalSupply' \in [Token -> Nat]
      /\ held' \in [Token -> Nat]
  <2>1. /\ userSupply \in [Token -> [User -> Nat]] /\ totalSupply \in [Token -> Nat]
        /\ held \in [Token -> Nat]
    BY ZenonT(90) DEF SupplyInv
  <2>2. userSupply' \in [Token -> [User -> Nat]]
    BY ZenonT(90), <1>3, <1>4, <2>1, UpdateTyped
  <2>3. totalSupply' \in [Token -> Nat]
    BY ZenonT(90), <1>3, <1>4, <2>1, UpdateTyped
  <2>4. held' \in [Token -> Nat]
    BY ZenonT(90), <1>1, <1>3, <1>4, <2>1, UpdateTyped
  <2> QED
    BY ZenonT(90), <2>2, <2>3, <2>4
<1>6. ASSUME NEW s \in Token
      PROVE  held'[s] = totalSupply'[s] /\ SumsTo(userSupply'[s], Users, totalSupply'[s])
  <2>1. /\ userSupply \in [Token -> [User -> Nat]] /\ totalSupply \in [Token -> Nat]
        /\ held \in [Token -> Nat] /\ held[s] = totalSupply[s]
        /\ SumsTo(userSupply[s], Users, totalSupply[s])
    BY ZenonT(90) DEF SupplyInv, PoolSolvent
  <2>2. CASE s = t
    BY ZenonT(90), <1>1, <1>3, <1>4, <2>1, <2>2
  <2>3. CASE s # t
    BY ZenonT(90), <1>4, <2>1, <2>3
  <2> QED
    BY ZenonT(90), <2>2, <2>3
<1> QED
  BY ZenonT(90), <1>5, <1>6 DEF SupplyInv, PoolSolvent

\* What a liquidation takes from one user it gives to another.
LEMMA MovedIsCredit ==
  ASSUME NEW f \in [User -> Nat], NEW src \in User, NEW dest \in User, src # dest
  PROVE  Moved(f, src, dest) = Credit(Debit(f, src, f[src]), dest, f[src])
<1> DEFINE left == Debit(f, src, f[src])
<1>1. left \in [User -> Int] /\ left[src] = 0 /\ \A u \in User \ {src} : left[u] = f[u]
  BY DEF Debit
<1> HIDE DEF left
<1>2. ASSUME NEW u \in User  PROVE Moved(f, src, dest)[u] = Credit(left, dest, f[src])[u]
  <2>1. CASE u = src
    BY <1>1, <2>1 DEF Moved, Credit
  <2>2. CASE u = dest
    BY <1>1, <2>2 DEF Moved, Credit
  <2>3. CASE u # src /\ u # dest
    BY <1>1, <2>3 DEF Moved, Credit
  <2> QED
    BY <2>1, <2>2, <2>3
<1>3. /\ Moved(f, src, dest) = [u \in User |-> Moved(f, src, dest)[u]]
      /\ Credit(left, dest, f[src]) = [u \in User |-> Credit(left, dest, f[src])[u]]
  BY ZenonT(90), <1>1 DEF Moved, Credit
<1> QED
  BY <1>2, <1>3 DEF left

\* A liquidation moves supplies from one user to another.
LEMMA LiquidateStep ==
  ASSUME WellOrdered, SupplyInv, NEW src \in User, NEW dest \in User, src # dest,
         liquidateTokens(src, dest)
  PROVE  SupplyInv'
<1> USE ConfigAssumption DEF User
<1>1. ASSUME NEW s \in Token
      PROVE  /\ Moved(userSupply[s], src, dest) \in [User -> Nat]
             /\ SumsTo(Moved(userSupply[s], src, dest), Users, totalSupply[s])
  <2>1. /\ userSupply[s] \in [1..Users -> Nat] /\ totalSupply[s] \in Nat
        /\ SumsTo(userSupply[s], Users, totalSupply[s])
    BY DEF SupplyInv, PoolSolvent
  <2>2. userSupply[s][src] \in Nat /\ userSupply[s][src] <= userSupply[s][src]
    BY <2>1
  <2> DEFINE moved == Credit(Debit(userSupply[s], src, userSupply[s][src]), dest, userSupply[s][src])
  <2>3. moved \in [1..Users -> Nat] /\ SumsTo(moved, Users, totalSupply[s])
    BY ZenonT(90), <2>1, <2>2, SumMove
  <2>4. Moved(userSupply[s], src, dest) = moved
    BY ZenonT(90), <2>1, MovedIsCredit
  <2> QED
    BY ZenonT(90), <2>3, <2>4
<1>2. /\ userSupply' = [s \in Token |-> IF s \in whitelist
                                        THEN Moved(userSupply[s], src, dest) ELSE userSupply[s]]
      /\ totalSupply' = totalSupply /\ held' = held
  BY DEF liquidateTokens
<1>3. userSupply' \in [Token -> [User -> Nat]]
  BY ZenonT(90), <1>1, <1>2 DEF SupplyInv
<1>4. ASSUME NEW s \in Token
      PROVE  held'[s] = totalSupply'[s] /\ SumsTo(userSupply'[s], Users, totalSupply'[s])
  BY ZenonT(90), <1>1, <1>2 DEF SupplyInv, PoolSolvent
<1> QED
  BY ZenonT(90), <1>2, <1>3, <1>4 DEF SupplyInv, PoolSolvent

\* A loan mints as much as it adds to the debt.
LEMMA BorrowStep ==
  ASSUME WellOrdered, DebtInv, NEW u \in User, NEW amount \in Nat, borrowUSD(u, amount)
  PROVE  DebtInv'
<1> USE ConfigAssumption DEF User
<1>1. /\ userBorrow \in [1..Users -> Nat] /\ SumsTo(userBorrow, Users, totalBorrow)
      /\ usd \in [1..Users -> Nat] /\ SumsTo(usd, Users, usdSupply)
      /\ totalBorrow \in Nat /\ usdSupply \in Nat /\ usdSupply = totalBorrow
  BY DEF DebtInv, UsdIsDebt
<1>2. /\ Credit(userBorrow, u, amount) \in [1..Users -> Nat]
      /\ SumsTo(Credit(userBorrow, u, amount), Users, totalBorrow + amount)
  BY ZenonT(90), <1>1, SumCredit
<1>3. /\ Credit(usd, u, amount) \in [1..Users -> Nat]
      /\ SumsTo(Credit(usd, u, amount), Users, usdSupply + amount)
  BY ZenonT(90), <1>1, SumCredit
<1>4. totalBorrow + amount \in Nat /\ usdSupply + amount \in Nat
  BY <1>1
<1> QED
  BY ZenonT(90), <1>1, <1>2, <1>3, <1>4 DEF borrowUSD, DebtInv, UsdIsDebt

\* A repayment burns as much as it takes off the debt, whoever pays.
LEMMA RepayStep ==
  ASSUME WellOrdered, DebtInv, NEW payer \in User, NEW u \in User, NEW amount \in Nat,
         repayUSD(payer, u, amount)
  PROVE  DebtInv'
<1> USE ConfigAssumption DEF User
<1>1. /\ userBorrow \in [1..Users -> Nat] /\ SumsTo(userBorrow, Users, totalBorrow)
      /\ usd \in [1..Users -> Nat] /\ SumsTo(usd, Users, usdSupply)
      /\ totalBorrow \in Nat /\ usdSupply \in Nat /\ usdSupply = totalBorrow
  BY DEF DebtInv, UsdIsDebt
<1>2. amount <= userBorrow[u] /\ amount <= usd[payer]
  BY <1>1 DEF repayUSD
<1>3. /\ totalBorrow - amount \in Nat
      /\ Debit(userBorrow, u, amount) \in [1..Users -> Nat]
      /\ SumsTo(Debit(userBorrow, u, amount), Users, totalBorrow - amount)
  BY ZenonT(90), <1>1, <1>2, SumDebit
<1>4. /\ usdSupply - amount \in Nat
      /\ Debit(usd, payer, amount) \in [1..Users -> Nat]
      /\ SumsTo(Debit(usd, payer, amount), Users, usdSupply - amount)
  BY ZenonT(90), <1>1, <1>2, SumDebit
<1> QED
  BY ZenonT(90), <1>1, <1>3, <1>4 DEF repayUSD, DebtInv, UsdIsDebt

\* A transfer of TUCUSD changes neither debts nor supply.
LEMMA TransferStep ==
  ASSUME WellOrdered, DebtInv, NEW from \in User, NEW to \in User, NEW amount \in Nat,
         usdTransfer(from, to, amount)
  PROVE  DebtInv'
<1> USE ConfigAssumption DEF User
<1>1. /\ usd \in [1..Users -> Nat] /\ SumsTo(usd, Users, usdSupply) /\ usdSupply \in Nat
  BY DEF DebtInv, UsdIsDebt
<1>2. amount <= usd[from]
  BY <1>1 DEF usdTransfer
<1>3. /\ Credit(Debit(usd, from, amount), to, amount) \in [1..Users -> Nat]
      /\ SumsTo(Credit(Debit(usd, from, amount), to, amount), Users, usdSupply)
  BY ZenonT(90), <1>1, <1>2, SumMove
<1> QED
  BY ZenonT(90), <1>1, <1>3 DEF usdTransfer, DebtInv, UsdIsDebt

-----------------------------------------------------------------------------
(* The invariant.                                                          *)

\* At deployment there are neither supplies nor debts.
LEMMA InitStep ==
  ASSUME WellOrdered
  PROVE  Init => LendInv
<1> USE ConfigAssumption DEF User
<1> SUFFICES ASSUME Init PROVE LendInv
  OBVIOUS
<1>1. ConfigTypeOK
  BY DEF Init, ConfigInit, ConfigTypeOK
<1> DEFINE zero == [u \in User |-> 0]
<1>2. zero \in [1..Users -> Nat] /\ SumsTo(zero, Users, 0)
  <2>1. zero \in [1..Users -> Nat] /\ \A i \in 1..Users : zero[i] = 0
    OBVIOUS
  <2> HIDE DEF zero
  <2> QED
    BY <2>1, SumZero
<1>3. /\ userSupply = [t \in Token |-> zero] /\ totalSupply = [t \in Token |-> 0]
      /\ held = [t \in Token |-> 0] /\ userBorrow = zero /\ totalBorrow = 0
      /\ usd = zero /\ usdSupply = 0
  BY DEF Init, PoolInit
<1> HIDE DEF zero
<1>4. SupplyInv
  BY <1>2, <1>3 DEF SupplyInv, PoolSolvent
<1>5. DebtInv
  BY <1>2, <1>3 DEF DebtInv, UsdIsDebt
<1> QED
  BY <1>1, <1>4, <1>5 DEF LendInv

\* What the owner sets keeps its type.
LEMMA ConfigureStep ==
  ASSUME ConfigTypeOK, Configure
  PROVE  ConfigTypeOK'
<1> USE ConfigAssumption
<1>1. CASE \E t \in Collateral : addCollateral(t) \/ disableCollateral(t)
  BY <1>1 DEF ConfigTypeOK, addCollateral, disableCollateral
<1>2. CASE \E rate \in MCR : setMCR(rate)
  BY <1>2 DEF ConfigTypeOK, setMCR
<1>3. CASE \E rate \in LiquidationRate : setLiquidationRate(rate)
  BY <1>3 DEF ConfigTypeOK, setLiquidationRate
<1>4. CASE \E p \in Price : setTokenPrice(p[1], p[2])
  <2>1. PICK p \in Price : setTokenPrice(p[1], p[2])
    BY <1>4
  <2>2. p[1] \in Token /\ p[2] \in Nat
    OBVIOUS
  <2> QED
    BY <2>1, <2>2 DEF ConfigTypeOK, setTokenPrice
<1> QED
  BY <1>1, <1>2, <1>3, <1>4 DEF Configure

\* Every step keeps the invariant.
LEMMA NextStep ==
  ASSUME WellOrdered, LendInv, [Next]_vars
  PROVE  LendInv'
<1> USE LendAssumption
<1>1. ConfigTypeOK /\ SupplyInv /\ DebtInv
  BY DEF LendInv
<1>2. ASSUME UNCHANGED configVars  PROVE ConfigTypeOK'
  BY <1>1, <1>2 DEF ConfigTypeOK, configVars
<1>3. ASSUME UNCHANGED supplyVars  PROVE SupplyInv'
  BY <1>1, <1>3 DEF SupplyInv, PoolSolvent, supplyVars
<1>4. ASSUME UNCHANGED debtVars  PROVE DebtInv'
  BY <1>1, <1>4 DEF DebtInv, UsdIsDebt, debtVars
<1>5. ASSUME NEW u \in User, NEW t \in Token, NEW amount \in Amount, NEW v \in Validator,
             \/ supply(u, t, amount, v) \/ swapAndSupply(u, t, amount, v)
      PROVE  LendInv'
  <2>1. IncreaseAndStake(u, t, amount, v)
    BY <1>5 DEF supply, swapAndSupply
  <2>2. /\ increasePoolToken(u, t, amount) /\ held' = [held EXCEPT ![t] = @ + amount]
        /\ UNCHANGED configVars /\ UNCHANGED debtVars
    BY <2>1 DEF IncreaseAndStake
  <2>3. SupplyInv'
    BY ZenonT(90), <1>1, <2>2, IncreaseStep
  <2> QED
    BY <1>2, <1>4, <2>2, <2>3 DEF LendInv
<1>6. ASSUME NEW u \in User, NEW t \in Token, NEW amount \in Amount, NEW v \in Validator,
             \/ withdraw(u, t, amount, v) \/ withdrawAndDecreaseLiquidity(u, t, amount, v)
      PROVE  LendInv'
  <2>1. DecreaseAndUnstake(u, t, amount, v)
    BY <1>6 DEF withdraw, withdrawAndDecreaseLiquidity
  <2>2. /\ decreasePoolToken(u, t, amount)
        /\ UNCHANGED configVars /\ UNCHANGED debtVars
    BY <2>1 DEF DecreaseAndUnstake
  <2>3. SupplyInv'
    BY <1>1, <2>2, DecreaseStep
  <2> QED
    BY <1>2, <1>4, <2>2, <2>3 DEF LendInv
<1>7. ASSUME NEW u \in User, NEW amount \in Amount, borrow(u, amount)  PROVE LendInv'
  <2>1. borrowUSD(u, amount) /\ UNCHANGED configVars /\ UNCHANGED supplyVars
    BY <1>7 DEF borrow
  <2>2. DebtInv'
    BY <1>1, <2>1, BorrowStep
  <2> QED
    BY <1>2, <1>3, <2>1, <2>2 DEF LendInv
<1>8. ASSUME NEW u \in User, NEW amount \in Amount, repay(u, amount)  PROVE LendInv'
  <2>1. repayUSD(u, u, amount) /\ UNCHANGED configVars /\ UNCHANGED supplyVars
    BY <1>8 DEF repay
  <2>2. DebtInv'
    BY <1>1, <2>1, RepayStep
  <2> QED
    BY <1>2, <1>3, <2>1, <2>2 DEF LendInv
<1>9. ASSUME NEW liquidator \in User, NEW u \in User, liquidate(liquidator, u)  PROVE LendInv'
  <2>1. /\ liquidator # u /\ repayUSD(liquidator, u, userBorrow[u])
        /\ liquidateTokens(u, liquidator) /\ UNCHANGED configVars
    BY <1>9 DEF liquidate
  <2>2. userBorrow[u] \in Nat
    BY <1>1 DEF DebtInv
  <2>3. DebtInv'
    BY <1>1, <2>1, <2>2, RepayStep
  <2>4. SupplyInv'
    BY <1>1, <2>1, LiquidateStep
  <2> QED
    BY <1>2, <2>1, <2>3, <2>4 DEF LendInv
<1>10. ASSUME NEW from \in User, NEW to \in User, NEW amount \in Amount,
              usdTransfer(from, to, amount), UNCHANGED configVars, UNCHANGED supplyVars
       PROVE  LendInv'
  <2>1. DebtInv'
    BY <1>1, <1>10, TransferStep
  <2> QED
    BY <1>2, <1>3, <1>10, <2>1 DEF LendInv
<1>11. ASSUME UNCHANGED configVars, UNCHANGED poolVars  PROVE LendInv'
  <2>1. UNCHANGED supplyVars /\ UNCHANGED debtVars
    BY <1>11 DEF poolVars
  <2> QED
    BY <1>2, <1>3, <1>4, <1>11, <2>1 DEF LendInv
<1>12. CASE \E deleted, new \in Validator : MigrateStakes(deleted, new)
  BY <1>11, <1>12 DEF MigrateStakes
<1>13. CASE \E isPlugin \in Plugin : setPlugin(isPlugin)
  BY <1>11, <1>13 DEF setPlugin
<1>14. CASE Configure
  <2>1. UNCHANGED supplyVars /\ UNCHANGED debtVars
    BY <1>14 DEF Configure, poolVars
  <2>2. ConfigTypeOK'
    BY <1>1, <1>14, ConfigureStep
  <2> QED
    BY <1>3, <1>4, <2>1, <2>2 DEF LendInv
<1>15. CASE SetValidators
  BY <1>11, <1>15 DEF SetValidators
<1>16. CASE Rewarding
  BY ZenonT(90), <1>11, <1>16 DEF Rewarding
<1>17. CASE UNCHANGED vars
  BY <1>11, <1>17 DEF vars
<1> QED
  BY ZenonT(90), <1>5, <1>6, <1>7, <1>8, <1>9, <1>10, <1>12, <1>13, <1>14, <1>15, <1>16, <1>17 DEF Next

-----------------------------------------------------------------------------
(* Withdrawals.                                                            *)

\* Rounding down loses less than one divisor.
LEMMA RoundedDown ==
  ASSUME NEW a \in Nat, NEW p \in Nat \ {0}, NEW k \in Nat, a \div p <= k
  PROVE  a < (k + 1) * p
<1> DEFINE q == a \div p
<1>1. q \in Nat /\ a < q * p + p
  OBVIOUS
<1> HIDE DEF q
<1>2. q * p <= k * p
  BY <1>1 DEF q
<1> QED
  BY <1>1, <1>2

\* What getTokenMaxWithdrawable allows leaves the minimum collateral of the token.
LEMMA WithdrawStep ==
  ASSUME LendInv, NEW u \in User, NEW t \in Token, NEW amount \in Nat, NEW v \in Validator,
         DecreaseAndUnstake(u, t, amount, v), amount # 0
  PROVE  ((mcr * getUserBorrowTotalUSD(u)) \div Precision) * TokenUnit
           < (userSupply'[t][u] + 1) * getTokenPrice(t)
<1> DEFINE needed == ((mcr * getUserBorrowTotalUSD(u)) \div Precision) * TokenUnit
<1>1. getUserBorrowTotalUSD(u) \in Nat
  BY ConfigAssumption DEF LendInv, DebtInv, getUserBorrowTotalUSD, BorrowUSD
<1>2. needed \in Nat
  <2>1. mcr * getUserBorrowTotalUSD(u) \in Nat
    BY <1>1 DEF LendInv, ConfigTypeOK
  <2>2. (mcr * getUserBorrowTotalUSD(u)) \div Precision \in Nat
    BY <2>1, ConfigAssumption
  <2> QED
    BY <2>2, ConfigAssumption
<1>3. minCollateralAmount(u, t) = needed \div getTokenPrice(t)
  BY DEF minCollateralAmount
<1> HIDE DEF needed
<1>4. getTokenPrice(t) \in Nat \ {0}
  BY DEF DecreaseAndUnstake, HasPrice, getTokenPrice, LendInv, ConfigTypeOK
<1>5. needed \div getTokenPrice(t) \in Nat
  BY <1>2, <1>4
<1>6. userSupply[t] \in [User -> Nat] /\ userSupply'[t] = Debit(userSupply[t], u, amount)
  BY DEF DecreaseAndUnstake, decreasePoolToken, LendInv, SupplyInv
<1>7. userSupply'[t][u] = userSupply[t][u] - amount /\ userSupply[t][u] \in Nat
  BY ZenonT(90), <1>6 DEF Debit
<1>8. amount <= getTokenMaxWithdrawable(u, t)
  BY DEF DecreaseAndUnstake
<1>9. userSupply'[t][u] \in Nat /\ needed \div getTokenPrice(t) <= userSupply'[t][u]
  BY <1>3, <1>5, <1>7, <1>8 DEF getTokenMaxWithdrawable
<1>10. needed < (userSupply'[t][u] + 1) * getTokenPrice(t)
  BY ZenonT(90), <1>2, <1>4, <1>9, RoundedDown
<1> QED
  BY <1>10 DEF needed

CollateralLeft(u, t) ==
  userSupply'[t][u] < userSupply[t][u] /\ userBorrow'[u] # 0 =>
    ((mcr * getUserBorrowTotalUSD(u)) \div Precision) * TokenUnit
      < (userSupply'[t][u] + 1) * getTokenPrice(t)

\* A supply, withdrawal or liquidation is the only step that changes supplies; only the
\* withdrawal leaves a debtor with less.
LEMMA CollateralStep ==
  ASSUME LendInv, [Next]_vars, NEW user \in User, NEW token \in Token
  PROVE  CollateralLeft(user, token)
<1> USE LendAssumption
<1>1. userSupply \in [Token -> [User -> Nat]] /\ userSupply[token] \in [User -> Nat]
  BY DEF LendInv, SupplyInv
<1>2. ASSUME UNCHANGED userSupply  PROVE CollateralLeft(user, token)
  BY <1>1, <1>2 DEF CollateralLeft
<1>3. ASSUME NEW u \in User, NEW t \in Token, NEW amount \in Amount, NEW v \in Validator,
             \/ supply(u, t, amount, v) \/ swapAndSupply(u, t, amount, v)
      PROVE  CollateralLeft(user, token)
  <2>1. userSupply' = [userSupply EXCEPT ![t] = Credit(userSupply[t], u, amount)]
    BY <1>3 DEF supply, swapAndSupply, IncreaseAndStake, increasePoolToken
  <2>2. Credit(userSupply[t], u, amount)[user] >= userSupply[t][user]
    BY <1>1 DEF Credit
  <2>3. userSupply'[token][user] >= userSupply[token][user] /\ userSupply'[token][user] \in Nat
    <3>1. CASE token = t
      BY <1>1, <2>1, <2>2, <3>1 DEF Credit
    <3>2. CASE token # t
      BY <1>1, <2>1, <3>2
    <3> QED
      BY <3>1, <3>2
  <2> QED
    BY <1>1, <2>3 DEF CollateralLeft
<1>4. ASSUME NEW u \in User, NEW t \in Token, NEW amount \in Amount, NEW v \in Validator,
             \/ withdraw(u, t, amount, v) \/ withdrawAndDecreaseLiquidity(u, t, amount, v)
      PROVE  CollateralLeft(user, token)
  <2>1. DecreaseAndUnstake(u, t, amount, v)
    BY <1>4 DEF withdraw, withdrawAndDecreaseLiquidity
  <2>2. userSupply' = [userSupply EXCEPT ![t] = Debit(userSupply[t], u, amount)]
    BY <2>1 DEF DecreaseAndUnstake, decreasePoolToken
  <2>3. CASE token = t /\ user = u /\ amount # 0
    BY ZenonT(90), <2>1, <2>3, WithdrawStep DEF CollateralLeft
  <2>4. CASE ~(token = t /\ user = u /\ amount # 0)
    <3>1. userSupply'[token][user] = userSupply[token][user]
      <4>1. CASE token # t
        BY <1>1, <2>2, <4>1
      <4>2. CASE token = t /\ (user # u \/ amount = 0)
        BY <1>1, <2>2, <4>2 DEF Debit
      <4> QED
        BY <2>4, <4>1, <4>2
    <3> QED
      BY <1>1, <3>1 DEF CollateralLeft
  <2> QED
    BY <2>3, <2>4
<1>5. ASSUME NEW liquidator \in User, NEW u \in User, liquidate(liquidator, u)
      PROVE  CollateralLeft(user, token)
  <2>1. /\ liquidator # u
        /\ userSupply' = [t \in Token |-> IF t \in whitelist
                                          THEN Moved(userSupply[t], u, liquidator)
                                          ELSE userSupply[t]]
        /\ userBorrow' = Debit(userBorrow, u, userBorrow[u])
    BY ZenonT(90), <1>5 DEF liquidate, liquidateTokens, repayUSD
  <2>2. CASE user = u
    <3>1. userBorrow'[u] = 0
      BY <2>1 DEF Debit, LendInv, DebtInv
    <3> QED
      BY <2>2, <3>1 DEF CollateralLeft
  <2>3. CASE user # u
    <3>1. Moved(userSupply[token], u, liquidator)[user] >= userSupply[token][user]
      BY <1>1, <2>1, <2>3 DEF Moved
    <3>2. userSupply'[token][user] >= userSupply[token][user] /\ userSupply'[token][user] \in Nat
      BY <1>1, <2>1, <3>1 DEF Moved
    <3> QED
      BY <1>1, <3>2 DEF CollateralLeft
  <2> QED
    BY <2>2, <2>3
<1>6. CASE \E u \in User, amount \in Amount : borrow(u, amount) \/ repay(u, amount)
  BY <1>2, <1>6 DEF borrow, repay, supplyVars
<1>7. CASE \E from, to \in User, amount \in Amount :
             /\ usdTransfer(from, to, amount)
             /\ UNCHANGED <<configVars, supplyVars, rewardVars, chainVars, plugin>>
  BY <1>2, <1>7 DEF supplyVars
<1>8. CASE \E deleted, new \in Validator : MigrateStakes(deleted, new)
  BY <1>2, <1>8 DEF MigrateStakes, poolVars, supplyVars
<1>9. CASE \E isPlugin \in Plugin : setPlugin(isPlugin)
  BY <1>2, <1>9 DEF setPlugin, poolVars, supplyVars
<1>10. CASE Configure \/ SetValidators \/ Rewarding
  BY ZenonT(90), <1>2, <1>10 DEF Configure, SetValidators, Rewarding, poolVars, supplyVars
<1>11. CASE UNCHANGED vars
  BY <1>2, <1>11 DEF vars, poolVars, supplyVars
<1> QED
  BY ZenonT(90), <1>3, <1>4, <1>5, <1>6, <1>7, <1>8, <1>9, <1>10, <1>11 DEF Next

-----------------------------------------------------------------------------
(* Stakes.                                                                 *)

StakeTypes ==
  /\ userStakes \in [User -> [Validator -> [Token -> Nat]]]
  /\ validatorStakes \in [Validator -> [Token -> Nat]]
  /\ validatorStakedUsers \in [Validator -> Seq(User)]

StakeInv == StakeTypes /\ totalSupply \in [Token -> Nat] /\ StakesConserved

\* The stake of a user at a validator in a token, the validator's total and the pool's
\* total all change by d.
ChangeBy(u, v, t, d) ==
  /\ \A w \in User, x \in Validator, s \in Token :
       userStakes'[w][x][s] = userStakes[w][x][s] + (IF w = u /\ x = v /\ s = t THEN d ELSE 0)
  /\ \A x \in Validator, s \in Token :
       validatorStakes'[x][s] = validatorStakes[x][s] + (IF x = v /\ s = t THEN d ELSE 0)
  /\ \A s \in Token : totalSupply'[s] = totalSupply[s] + (IF s = t THEN d ELSE 0)

\* Users and validators are finitely many.
LEMMA FiniteUsers ==
  /\ IsFiniteSet(User) /\ User = 1..Users
  /\ IsFiniteSet(Validator) /\ Validator = 1..Validators
BY ConfigAssumption, ChainAssumption, FiniteInterval DEF User, Validator

\* The sums that StakesConserved is about, over sets.
LEMMA StakeSums ==
  ASSUME StakeInv, NEW t \in Token
  PROVE  /\ \A v \in Validator :
              /\ SumOver([u \in User |-> userStakes[u][v][t]], User) = validatorStakes[v][t]
              /\ IntValued([u \in User |-> userStakes[u][v][t]], User)
         /\ SumOver([v \in Validator |-> validatorStakes[v][t]], Validator) = totalSupply[t]
         /\ IntValued([v \in Validator |-> validatorStakes[v][t]], Validator)
<1>1. /\ \A v \in Validator : IntValued([u \in User |-> userStakes[u][v][t]], User)
      /\ IntValued([v \in Validator |-> validatorStakes[v][t]], Validator)
  BY DEF IntValued, StakeInv, StakeTypes
<1>2. /\ \A v \in Validator :
           SumOver([u \in User |-> userStakes[u][v][t]], User) = validatorStakes[v][t]
      /\ SumOver([v \in Validator |-> validatorStakes[v][t]], Validator) = totalSupply[t]
  BY FiniteUsers, ZenonT(90) DEF StakeInv, StakesConserved, SumsTo
<1> QED
  BY <1>1, <1>2, ZenonT(90)

\* A stake that grows or shrinks together with the totals keeps the sums.
LEMMA ChangeConserves ==
  ASSUME WellOrdered,
         StakeInv, NEW u \in User, NEW v \in Validator, NEW t \in Token, NEW d \in Int,
         ChangeBy(u, v, t, d)
  PROVE  StakesConserved'
<1> SUFFICES ASSUME NEW s \in Token
    PROVE  /\ \A x \in Validator :
                SumOver([w \in User |-> userStakes'[w][x][s]], User) = validatorStakes'[x][s]
           /\ SumOver([x \in Validator |-> validatorStakes'[x][s]], Validator) = totalSupply'[s]
  BY FiniteUsers, ZenonT(90) DEF StakesConserved, SumsTo
<1>1. ASSUME NEW x \in Validator
      PROVE  SumOver([w \in User |-> userStakes'[w][x][s]], User) = validatorStakes'[x][s]
  <2> DEFINE f == [w \in User |-> userStakes[w][x][s]]
             g == [w \in User |-> userStakes'[w][x][s]]
             q == IF x = v /\ s = t THEN d ELSE 0
  <2>1. Moves(f, g, User, u, u, 0, q)
    BY DEF Moves, ChangeBy, StakeInv, StakeTypes
  <2>2. q \in Int /\ 0 \in Int /\ validatorStakes'[x][s] = validatorStakes[x][s] + q
    BY DEF ChangeBy
  <2>3. IntValued(f, User) /\ SumOver(f, User) = validatorStakes[x][s]
    BY ZenonT(90), StakeSums
  <2> HIDE DEF f, g, q
  <2>4. SumOver(f, User) \in Int /\ SumMoves(f, g, User, 0, q)
    BY <2>1, <2>2, <2>3, FiniteUsers, SumOverMove, ZenonT(90)
  <2>5. SumOver(g, User) = validatorStakes'[x][s]
    BY <2>2, <2>3, <2>4 DEF SumMoves
  <2> QED
    BY ZenonT(90), <2>5 DEF g
<1>2. SumOver([x \in Validator |-> validatorStakes'[x][s]], Validator) = totalSupply'[s]
  <2> DEFINE f == [x \in Validator |-> validatorStakes[x][s]]
             g == [x \in Validator |-> validatorStakes'[x][s]]
             q == IF s = t THEN d ELSE 0
  <2>1. Moves(f, g, Validator, v, v, 0, q)
    BY DEF Moves, ChangeBy, StakeInv, StakeTypes
  <2>2. q \in Int /\ 0 \in Int /\ totalSupply'[s] = totalSupply[s] + q
    BY DEF ChangeBy
  <2>3. IntValued(f, Validator) /\ SumOver(f, Validator) = totalSupply[s]
    BY StakeSums
  <2> HIDE DEF f, g, q
  <2>4. SumOver(f, Validator) \in Int /\ SumMoves(f, g, Validator, 0, q)
    BY <2>1, <2>2, <2>3, FiniteUsers, SumOverMove, ZenonT(90)
  <2>5. SumOver(g, Validator) = totalSupply'[s]
    BY <2>2, <2>3, <2>4 DEF SumMoves
  <2> QED
    BY <2>5 DEF g
<1> QED
  BY ZenonT(90), <1>1, <1>2

-----------------------------------------------------------------------------
(* The validators' lists of users.                                         *)

\* The lists keep their type.
LEMMA ListTypes ==
  ASSUME NEW S, NEW list \in Seq(S), NEW e \in S
  PROVE  Add(list, e) \in Seq(S) /\ Drop(list, e) \in Seq(S)
<1>1. Add(list, e) \in Seq(S)
  BY DEF Add
<1>2. CASE Listed(list, e)
  <2>1. Len(list) - 1 \in Nat /\ Len(list) \in 1..Len(list) /\ \A i \in 1..Len(list) : list[i] \in S
    BY <1>2 DEF Listed, Range
  <2> DEFINE rest == [i \in 1..Len(list) - 1 |-> IF list[i] = e THEN list[Len(list)] ELSE list[i]]
  <2>2. rest \in Seq(S)
    BY <2>1
  <2> HIDE DEF rest
  <2> QED
    BY <1>1, <1>2, <2>2 DEF Drop, rest
<1> QED
  BY <1>1, <1>2 DEF Drop

\* lists satisfies the recursion of Relisted for the first n users.
IsRelisting(lists, moved, deleted, new, n) ==
  lists = [i \in 0..n |-> IF i = 0 THEN validatorStakedUsers
                          ELSE Relist(lists[i - 1], moved[i], deleted, new)]

\* The recursion has a solution, built up one user at a time.
LEMMA RelistingExists ==
  ASSUME WellOrdered, NEW moved, NEW deleted, NEW new
  PROVE  \A n \in Nat : \E lists : IsRelisting(lists, moved, deleted, new, n)
<1> DEFINE N == {n \in Nat : \E lists : IsRelisting(lists, moved, deleted, new, n)}
<1>1. 0 \in N
  <2> DEFINE l == [i \in 0..0 |-> validatorStakedUsers]
  <2>1. IsRelisting(l, moved, deleted, new, 0)
    BY DEF IsRelisting
  <2> QED
    BY <2>1
<1>2. ASSUME NEW n \in Nat, n \in N  PROVE n + 1 \in N
  <2>1. PICK l : IsRelisting(l, moved, deleted, new, n)
    BY <1>2
  <2> DEFINE m == [i \in 0..n + 1 |-> IF i = 0 THEN validatorStakedUsers
                                      ELSE Relist(l[i - 1], moved[i], deleted, new)]
  <2>2. \A i \in 0..n : l[i] = IF i = 0 THEN validatorStakedUsers
                               ELSE Relist(l[i - 1], moved[i], deleted, new)
    BY ZenonT(90), <2>1 DEF IsRelisting
  <2>3. \A i \in 0..n : l[i] = m[i]
    BY <2>2
  <2>4. \A i \in 0..n + 1 : i # 0 => l[i - 1] = m[i - 1]
    <3>1. \A i \in 0..n + 1 : i # 0 => i - 1 \in 0..n
      OBVIOUS
    <3> HIDE DEF m
    <3> QED
      BY <2>3, <3>1
  <2>5. IsRelisting(m, moved, deleted, new, n + 1)
    <3> SUFFICES m = [i \in 0..n + 1 |-> IF i = 0 THEN validatorStakedUsers
                                         ELSE Relist(m[i - 1], moved[i], deleted, new)]
      BY ZenonT(90) DEF IsRelisting
    <3> HIDE DEF m
    <3>1. \A i \in 0..n + 1 : (IF i = 0 THEN validatorStakedUsers
                               ELSE Relist(l[i - 1], moved[i], deleted, new))
                            = (IF i = 0 THEN validatorStakedUsers
                               ELSE Relist(m[i - 1], moved[i], deleted, new))
      BY ZenonT(90), <2>4
    <3> QED
      BY ZenonT(90), <3>1 DEF m
  <2> HIDE DEF m
  <2> QED
    BY <2>5
<1> HIDE DEF N
<1>3. \A n \in Nat : n \in N
  BY <1>1, <1>2, NatSetInduction, ZenonT(90)
<1> QED
  BY <1>3 DEF N

\* Users who move from list to list leave lists of users.
LEMMA RelistedTyped ==
  ASSUME WellOrdered,
         validatorStakedUsers \in [Validator -> Seq(User)], NEW moved \in Seq(User),
         NEW deleted \in Validator, NEW new \in Validator
  PROVE  Relisted(moved, deleted, new) \in [Validator -> Seq(User)]
<1>1. Len(moved) \in Nat /\ \A i \in 1..Len(moved) : moved[i] \in User
  OBVIOUS
<1>2. \E lists : IsRelisting(lists, moved, deleted, new, Len(moved))
  BY <1>1, RelistingExists, ZenonT(90)
<1>3. \E lists : /\ IsRelisting(lists, moved, deleted, new, Len(moved))
                 /\ Relisted(moved, deleted, new) = lists[Len(moved)]
  BY <1>2, ZenonT(90) DEF IsRelisting, Relisted
<1>4. PICK lists : /\ IsRelisting(lists, moved, deleted, new, Len(moved))
                   /\ Relisted(moved, deleted, new) = lists[Len(moved)]
  BY <1>3
<1>5. \A i \in 0..Len(moved) : lists[i] = IF i = 0 THEN validatorStakedUsers
                                          ELSE Relist(lists[i - 1], moved[i], deleted, new)
  BY ZenonT(90), <1>4 DEF IsRelisting
<1>6. ASSUME NEW old \in [Validator -> Seq(User)], NEW u \in User
      PROVE  Relist(old, u, deleted, new) \in [Validator -> Seq(User)]
  <2> DEFINE mid == [old EXCEPT ![deleted] = Drop(old[deleted], u)]
  <2>1. mid \in [Validator -> Seq(User)]
    BY ListTypes
  <2>2. Relist(old, u, deleted, new) = [mid EXCEPT ![new] = Add(mid[new], u)]
    BY ZenonT(90) DEF Relist
  <2> HIDE DEF mid
  <2> QED
    BY <2>1, <2>2, ListTypes
<1> DEFINE N == {n \in Nat : n <= Len(moved) => lists[n] \in [Validator -> Seq(User)]}
<1>7. 0 \in N
  BY <1>1, <1>5
<1>8. ASSUME NEW n \in Nat, n \in N  PROVE n + 1 \in N
  <2> SUFFICES ASSUME n + 1 <= Len(moved)  PROVE lists[n + 1] \in [Validator -> Seq(User)]
    OBVIOUS
  <2>1. lists[n] \in [Validator -> Seq(User)]
    BY <1>1, <1>8
  <2>2. n + 1 \in 1..Len(moved) /\ n + 1 \in 0..Len(moved) /\ n + 1 # 0 /\ (n + 1) - 1 = n
    BY <1>1
  <2>3. lists[n + 1] = Relist(lists[n], moved[n + 1], deleted, new)
    BY <1>5, <2>2, ZenonT(90)
  <2> QED
    BY <1>1, <1>6, <2>1, <2>2, <2>3, ZenonT(90)
<1> HIDE DEF N
<1>9. \A n \in Nat : n \in N
  BY <1>7, <1>8, NatSetInduction, ZenonT(90)
<1> QED
  BY <1>1, <1>4, <1>9 DEF N

-----------------------------------------------------------------------------
(* The steps that change stakes.                                           *)

\* The stake of a user at a validator is at most the validator's, which is at most the pool's.
LEMMA StakeWithin ==
  ASSUME WellOrdered, StakeInv, NEW u \in User, NEW v \in Validator, NEW t \in Token
  PROVE  /\ userStakes[u][v][t] \in Nat /\ validatorStakes[v][t] \in Nat /\ totalSupply[t] \in Nat
         /\ userStakes[u][v][t] <= validatorStakes[v][t] /\ validatorStakes[v][t] <= totalSupply[t]
<1> DEFINE f == [w \in User |-> userStakes[w][v][t]]
           g == [x \in Validator |-> validatorStakes[x][t]]
<1>1. NatValued(f, User) /\ f[u] = userStakes[u][v][t]
  BY DEF NatValued, StakeInv, StakeTypes
<1>2. NatValued(g, Validator) /\ g[v] = validatorStakes[v][t]
  BY DEF NatValued, StakeInv, StakeTypes
<1>3. SumOver(f, User) = validatorStakes[v][t] /\ SumOver(g, Validator) = totalSupply[t]
  BY ZenonT(90), StakeSums
<1> HIDE DEF f, g
<1>4. f[u] <= SumOver(f, User) /\ g[v] <= SumOver(g, Validator)
  BY ZenonT(90), <1>1, <1>2, FiniteUsers, SumOverNat
<1>5. userStakes[u][v][t] \in Nat /\ validatorStakes[v][t] \in Nat /\ totalSupply[t] \in Nat
  BY DEF StakeInv, StakeTypes
<1> QED
  BY <1>1, <1>2, <1>3, <1>4, <1>5

\* The stake of a user, the validator's and the pool's change together.
LEMMA ChangeStep ==
  ASSUME WellOrdered,
         StakeInv, NEW u \in User, NEW v \in Validator, NEW t \in Token, NEW d \in Int,
         0 <= userStakes[u][v][t] + d,
         userStakes' = [userStakes EXCEPT ![u][v][t] = userStakes[u][v][t] + d],
         validatorStakes' = [validatorStakes EXCEPT ![v][t] = validatorStakes[v][t] + d],
         totalSupply' = [totalSupply EXCEPT ![t] = totalSupply[t] + d],
         validatorStakedUsers' \in [Validator -> Seq(User)]
  PROVE  StakeInv' /\ ChangeBy(u, v, t, d)
<1>1. /\ userStakes[u][v][t] \in Nat /\ validatorStakes[v][t] \in Nat /\ totalSupply[t] \in Nat
      /\ userStakes[u][v][t] <= validatorStakes[v][t] /\ validatorStakes[v][t] <= totalSupply[t]
      /\ StakeTypes /\ totalSupply \in [Token -> Nat]
  BY StakeWithin DEF StakeInv
<1> DEFINE mine == userStakes[u][v][t] + d
           all == validatorStakes[v][t] + d
           total == totalSupply[t] + d
<1>2. /\ userStakes' = [userStakes EXCEPT ![u][v][t] = mine]
      /\ validatorStakes' = [validatorStakes EXCEPT ![v][t] = all]
      /\ totalSupply' = [totalSupply EXCEPT ![t] = total]
  BY ZenonT(90)
<1>3. /\ mine \in Nat /\ all \in Nat /\ total \in Nat
      /\ mine = userStakes[u][v][t] + d /\ all = validatorStakes[v][t] + d
      /\ total = totalSupply[t] + d
  BY <1>1
<1> HIDE DEF mine, all, total
<1>4. /\ userStakes' \in [User -> [Validator -> [Token -> Nat]]]
      /\ \A w \in User, x \in Validator, s \in Token :
           userStakes'[w][x][s] = IF w = u /\ x = v /\ s = t THEN mine ELSE userStakes[w][x][s]
  <2>1. userStakes \in [User -> [Validator -> [Token -> Nat]]]
    BY <1>1 DEF StakeTypes
  <2> QED
    BY <1>2, <1>3, <2>1
<1>5. /\ validatorStakes' \in [Validator -> [Token -> Nat]]
      /\ \A x \in Validator, s \in Token :
           validatorStakes'[x][s] = IF x = v /\ s = t THEN all ELSE validatorStakes[x][s]
  BY <1>1, <1>2, <1>3 DEF StakeTypes
<1>6. /\ totalSupply' \in [Token -> Nat]
      /\ \A s \in Token : totalSupply'[s] = IF s = t THEN total ELSE totalSupply[s]
  BY <1>1, <1>2, <1>3
<1>7. ChangeBy(u, v, t, d)
  <2>1. \A w \in User, x \in Validator, s \in Token :
          userStakes'[w][x][s] =
            userStakes[w][x][s] + (IF w = u /\ x = v /\ s = t THEN d ELSE 0)
    <3>1. \A w \in User, x \in Validator, s \in Token : userStakes[w][x][s] \in Nat
      BY <1>1 DEF StakeTypes
    <3> QED
      BY <1>3, <1>4, <3>1
  <2>2. \A x \in Validator, s \in Token :
          validatorStakes'[x][s] =
            validatorStakes[x][s] + (IF x = v /\ s = t THEN d ELSE 0)
    BY <1>1, <1>3, <1>5 DEF StakeTypes
  <2>3. \A s \in Token : totalSupply'[s] = totalSupply[s] + (IF s = t THEN d ELSE 0)
    BY <1>1, <1>3, <1>6
  <2> QED
    BY <2>1, <2>2, <2>3, ZenonT(90) DEF ChangeBy
<1>8. StakesConserved'
  BY <1>7, ChangeConserves
<1> QED
  BY <1>4, <1>5, <1>6, <1>7, <1>8, ZenonT(90) DEF StakeInv, StakeTypes

\* A supply is staked at the validator the user names.
LEMMA StakeStep ==
  ASSUME WellOrdered,
         StakeInv, NEW u \in User, NEW v \in Validator, NEW t \in Token, NEW amount \in Nat,
         stakeToken(u, v, t, amount), totalSupply' = [totalSupply EXCEPT ![t] = @ + amount]
  PROVE  StakeInv' /\ ChangeBy(u, v, t, amount)
<1>1. 0 <= userStakes[u][v][t] + amount
  BY StakeWithin
<1>2. /\ userStakes' = [userStakes EXCEPT ![u][v][t] = userStakes[u][v][t] + amount]
      /\ validatorStakes' = [validatorStakes EXCEPT ![v][t] = validatorStakes[v][t] + amount]
      /\ totalSupply' = [totalSupply EXCEPT ![t] = totalSupply[t] + amount]
      /\ validatorStakedUsers' =
           [validatorStakedUsers EXCEPT ![v] = Add(validatorStakedUsers[v], u)]
  BY DEF stakeToken
<1>3. validatorStakedUsers' \in [Validator -> Seq(User)]
  BY <1>2, ListTypes DEF StakeInv, StakeTypes
<1>4. amount \in Int
  OBVIOUS
<1> QED
  BY <1>1, <1>2, <1>3, <1>4, ChangeStep, ZenonT(90)

\* A withdrawal takes it away there; the totals cover it.
LEMMA UnstakeStep ==
  ASSUME WellOrdered,
         StakeInv, NEW u \in User, NEW v \in Validator, NEW t \in Token, NEW amount \in Nat,
         unstakeToken(u, v, t, amount), totalSupply' = [totalSupply EXCEPT ![t] = @ - amount]
  PROVE  StakeInv' /\ ChangeBy(u, v, t, 0 - amount)
<1>1. /\ userStakes[u][v][t] \in Nat /\ validatorStakes[v][t] \in Nat /\ totalSupply[t] \in Nat
      /\ amount <= userStakes[u][v][t]
  BY ZenonT(90), StakeWithin DEF unstakeToken
<1> DEFINE d == 0 - amount
<1>2. /\ d \in Int /\ 0 <= userStakes[u][v][t] + d
      /\ userStakes[u][v][t] - amount = userStakes[u][v][t] + d
      /\ validatorStakes[v][t] - amount = validatorStakes[v][t] + d
      /\ totalSupply[t] - amount = totalSupply[t] + d
  BY <1>1
<1>3. /\ userStakes' = [userStakes EXCEPT ![u][v][t] = userStakes[u][v][t] - amount]
      /\ validatorStakes' = [validatorStakes EXCEPT ![v][t] = validatorStakes[v][t] - amount]
      /\ totalSupply' = [totalSupply EXCEPT ![t] = totalSupply[t] - amount]
  BY DEF unstakeToken
<1>4. validatorStakedUsers' \in [Validator -> Seq(User)]
  BY ZenonT(90), ListTypes DEF StakeInv, StakeTypes, unstakeToken
<1> HIDE DEF d
<1>5. /\ userStakes' = [userStakes EXCEPT ![u][v][t] = userStakes[u][v][t] + d]
      /\ validatorStakes' = [validatorStakes EXCEPT ![v][t] = validatorStakes[v][t] + d]
      /\ totalSupply' = [totalSupply EXCEPT ![t] = totalSupply[t] + d]
  BY <1>2, <1>3, ZenonT(90)
<1>6. StakeInv' /\ ChangeBy(u, v, t, d)
  BY <1>2, <1>4, <1>5, ChangeStep, ZenonT(90)
<1> QED
  BY <1>6, ZenonT(90) DEF d

\* What a liquidation takes of a stake: all of it at a listed validator in a whitelisted
\* token, and else nothing.
TakenFrom(src, v, t) ==
  IF Listed(validators, v) /\ t \in whitelist THEN userStakes[src][v][t] ELSE 0

\* A liquidation moves stakes from one user to another, validator by validator.
LEMMA PositionEffect ==
  ASSUME StakeInv, NEW src \in User, NEW dest \in User, src # dest, liquidatePosition(dest, src)
  PROVE  /\ \A v \in Validator, t \in Token : TakenFrom(src, v, t) \in Nat
         /\ \A w \in User, v \in Validator, t \in Token :
              userStakes'[w][v][t] = userStakes[w][v][t]
                                       - (IF w = src THEN TakenFrom(src, v, t) ELSE 0)
                                       + (IF w = dest THEN TakenFrom(src, v, t) ELSE 0)
         /\ userStakes' \in [User -> [Validator -> [Token -> Nat]]]
<1> DEFINE Taken(v, t) == TakenFrom(src, v, t)
<1>1. userStakes \in [User -> [Validator -> [Token -> Nat]]]
  BY DEF StakeInv, StakeTypes
<1>2. \A w \in User, v \in Validator, t \in Token : userStakes[w][v][t] \in Nat
  BY <1>1
<1>3. \A v \in Validator, t \in Token :
        Taken(v, t) \in Nat /\ Taken(v, t) <= userStakes[src][v][t]
  BY <1>2 DEF TakenFrom
<1>4. userStakes' =
        [u \in User |-> [v \in Validator |-> [t \in Token |->
           CASE u = dest -> userStakes[u][v][t] + Taken(v, t)
             [] u = src -> userStakes[u][v][t] - Taken(v, t)
             [] OTHER -> userStakes[u][v][t]]]]
  BY ZenonT(90) DEF liquidatePosition, TakenFrom
<1> HIDE DEF Taken
<1>5. \A w \in User, v \in Validator, t \in Token :
        /\ userStakes'[w][v][t] = userStakes[w][v][t] - (IF w = src THEN Taken(v, t) ELSE 0)
                                                      + (IF w = dest THEN Taken(v, t) ELSE 0)
        /\ userStakes'[w][v][t] \in Nat
  BY <1>2, <1>3, <1>4
<1>6. userStakes' \in [User -> [Validator -> [Token -> Nat]]]
  BY <1>4, <1>5
<1> QED
  BY <1>3, <1>5, <1>6, ZenonT(90) DEF Taken

\* It keeps the sums.
LEMMA PositionStep ==
  ASSUME WellOrdered, StakeInv, NEW src \in User, NEW dest \in User, src # dest,
         liquidatePosition(dest, src), totalSupply' = totalSupply
  PROVE  StakeInv'
<1>1. validatorStakes' = validatorStakes /\ validatorStakedUsers' = validatorStakedUsers
  BY DEF liquidatePosition
<1>6. /\ \A v \in Validator, t \in Token : TakenFrom(src, v, t) \in Nat
      /\ \A w \in User, v \in Validator, t \in Token :
           userStakes'[w][v][t] = userStakes[w][v][t]
                                    - (IF w = src THEN TakenFrom(src, v, t) ELSE 0)
                                    + (IF w = dest THEN TakenFrom(src, v, t) ELSE 0)
      /\ userStakes' \in [User -> [Validator -> [Token -> Nat]]]
  BY PositionEffect, ZenonT(90)
<1>7. ASSUME NEW t \in Token, NEW v \in Validator
      PROVE  SumOver([w \in User |-> userStakes'[w][v][t]], User) = validatorStakes'[v][t]
  <2> DEFINE f == [w \in User |-> userStakes[w][v][t]]
             g == [w \in User |-> userStakes'[w][v][t]]
             p == TakenFrom(src, v, t)
  <2>1. Moves(f, g, User, src, dest, p, p) /\ p \in Int
    BY <1>6 DEF Moves
  <2>2. IntValued(f, User) /\ SumOver(f, User) = validatorStakes[v][t]
    BY ZenonT(90), StakeSums
  <2> HIDE DEF f, g, p
  <2>3. SumOver(f, User) \in Int /\ SumMoves(f, g, User, p, p)
    BY <2>1, <2>2, FiniteUsers, SumOverMove, ZenonT(90)
  <2>4. SumOver(g, User) = SumOver(f, User)
    BY <2>1, <2>3 DEF SumMoves
  <2> QED
    BY <1>1, <2>2, <2>4, ZenonT(90) DEF g
<1>8. ASSUME NEW t \in Token
      PROVE  SumOver([v \in Validator |-> validatorStakes'[v][t]], Validator) = totalSupply'[t]
  BY <1>1, StakeSums, ZenonT(90)
<1>9. StakesConserved'
  BY <1>7, <1>8, FiniteUsers, ZenonT(90) DEF StakesConserved, SumsTo
<1> QED
  BY <1>1, <1>6, <1>9, ZenonT(90) DEF StakeInv, StakeTypes

\* What a migration moves of one user's stake: all or nothing.
LEMMA MigratedOne ==
  ASSUME WellOrdered,
         StakeTypes, NEW users \in SUBSET User, NEW deleted \in Validator, NEW t \in Token,
         NEW u \in User
  PROVE  /\ Migrated({u} \cap users, deleted, t) \in Nat
         /\ Migrated({u} \cap users, deleted, t) =
              IF u \in users /\ t \in whitelist THEN userStakes[u][deleted][t] ELSE 0
<1>1. userStakes[u][deleted][t] \in Nat
  BY DEF StakeTypes
<1> DEFINE one == {u} \cap users
           f == [w \in one |-> userStakes[w][deleted][t]]
<1>2. CASE u \in users
  <2>1. one = {u} /\ f[u] = userStakes[u][deleted][t] /\ u \in one /\ one \ {u} = {}
    BY <1>2
  <2>2. IntValued(f, one) /\ IsFiniteSet(one)
    <3>1. \A w \in one : f[w] \in Int
      BY <1>1, <2>1
    <3>2. IsFiniteSet({u})
      BY FiniteSmall, ZenonT(90)
    <3> QED
      BY <2>1, <3>1, <3>2, ZenonT(90) DEF IntValued
  <2> HIDE DEF f, one
  <2>3. SumOver(f, one) = f[u] + SumOver(f, {})
    BY <2>1, <2>2, SumOverTake
  <2>4. SumOver(f, {}) = 0
    BY SumOverEmpty
  <2>5. SumOver(f, one) = userStakes[u][deleted][t]
    BY <1>1, <2>1, <2>3, <2>4
  <2> QED
    BY <1>1, <1>2, <2>5 DEF Migrated, f, one
<1>3. CASE u \notin users
  <2>1. one = {}
    BY <1>3
  <2>2. SumOver(f, {}) = 0
    BY SumOverEmpty
  <2>3. SumOver(f, one) = 0
    BY <2>1, <2>2
  <2> QED
    BY <1>3, <2>3 DEF Migrated
<1> QED
  BY <1>2, <1>3

\* What it moves in all is the sum of what it moves of each user.
LEMMA MigratedAll ==
  ASSUME WellOrdered,
         StakeTypes, NEW users \in SUBSET User, NEW deleted \in Validator, NEW t \in Token
  PROVE  /\ IntValued([u \in User |-> Migrated({u} \cap users, deleted, t)], User)
         /\ Migrated(users, deleted, t) \in Int
         /\ SumOver([u \in User |-> Migrated({u} \cap users, deleted, t)], User)
              = Migrated(users, deleted, t)
<1> DEFINE m == [u \in User |-> Migrated({u} \cap users, deleted, t)]
           f == [u \in users |-> userStakes[u][deleted][t]]
<1>1. \A u \in User : m[u] \in Nat /\ m[u] = IF u \in users /\ t \in whitelist
                                            THEN userStakes[u][deleted][t] ELSE 0
  BY MigratedOne
<1>2. \A u \in users : f[u] = userStakes[u][deleted][t]
  OBVIOUS
<1> HIDE DEF m, f
<1>3. IntValued(m, User) /\ IsFiniteSet(User)
  BY <1>1, FiniteUsers DEF IntValued
<1>4. SumOver(m, User) \in Int
  BY <1>3, SumOverInt
<1>5. CASE t \in whitelist
  <2>1. \A u \in User \ users : m[u] = 0
    BY <1>1
  <2>2. SumOver(m, User) = SumOver(m, users)
    BY ZenonT(90), <1>3, <2>1, SumOverRest
  <2>3. SameOn(m, f, users) /\ IsFiniteSet(users)
    BY ZenonT(90), <1>1, <1>2, <1>3, <1>5, FiniteSubset DEF SameOn
  <2>4. SumOver(m, users) = SumOver(f, users)
    BY <2>3, SumOverSame
  <2>5. Migrated(users, deleted, t) = SumOver(f, users)
    BY <1>5, ZenonT(90) DEF Migrated, f
  <2>6. SumOver(m, User) = Migrated(users, deleted, t)
    BY ZenonT(90), <2>2, <2>4, <2>5
  <2> QED
    BY <1>3, <1>4, <2>6, ZenonT(90) DEF m
<1>6. CASE t \notin whitelist
  <2>1. \A u \in User : m[u] = 0
    BY <1>1, <1>6
  <2>2. SumOver(m, User) = 0
    BY <1>3, <2>1, SumOverZero
  <2>3. SumOver(m, User) = Migrated(users, deleted, t)
    BY <1>6, <2>2 DEF Migrated
  <2> QED
    BY <1>3, <1>4, <2>3, ZenonT(90) DEF m
<1> QED
  BY ZenonT(90), <1>5, <1>6

\* A migration moves stakes from one validator to another, user by user.
LEMMA MigrationStep ==
  ASSUME WellOrdered,
         StakeInv, NEW deleted \in Validator, NEW new \in Validator, NEW deleteAmount \in Nat,
         deleteAmount <= Len(validatorStakedUsers[deleted]),
         migrateStakes(deleted, new, deleteAmount), totalSupply' = totalSupply
  PROVE  StakeInv' /\ \A u \in User, t \in Token : UserStake(u, t)' = UserStake(u, t)
<1> DEFINE moved == SubSeq(validatorStakedUsers[deleted], 1, deleteAmount)
           users == Range(moved)
           Shift(v, amount) == (IF v = new THEN amount ELSE 0) - (IF v = deleted THEN amount ELSE 0)
           One(u, t) == Migrated({u} \cap users, deleted, t)
           All(t) == Migrated(users, deleted, t)
<1>1. StakeTypes /\ validatorStakedUsers \in [Validator -> Seq(User)]
  BY DEF StakeInv, StakeTypes
<1>2. moved \in Seq(User) /\ users \in SUBSET User
  <2>1. validatorStakedUsers[deleted] \in Seq(User)
    BY <1>1
  <2>2. moved \in Seq(User)
    BY <2>1
  <2> HIDE DEF moved
  <2>3. users \in SUBSET User
    BY <2>2 DEF Range
  <2> QED
    BY <2>2, <2>3
<1>3. /\ userStakes' = [u \in User |-> [v \in Validator |-> [t \in Token |->
                          userStakes[u][v][t] + Shift(v, One(u, t))]]]
      /\ validatorStakes' = [v \in Validator |-> [t \in Token |->
                               validatorStakes[v][t] + Shift(v, All(t))]]
      /\ validatorStakedUsers' = Relisted(moved, deleted, new)
  BY ZenonT(90) DEF migrateStakes
<1> HIDE DEF moved, users
<1>4. validatorStakedUsers' \in [Validator -> Seq(User)]
  BY <1>1, <1>2, <1>3, RelistedTyped, ZenonT(90)
<1>5. \A u \in User, t \in Token :
        One(u, t) \in Nat /\ One(u, t) <= userStakes[u][deleted][t]
  <2> SUFFICES ASSUME NEW u \in User, NEW t \in Token
               PROVE  One(u, t) \in Nat /\ One(u, t) <= userStakes[u][deleted][t]
    BY ZenonT(90)
  <2>1. /\ One(u, t) \in Nat
        /\ One(u, t) = IF u \in users /\ t \in whitelist THEN userStakes[u][deleted][t] ELSE 0
    BY <1>1, <1>2, MigratedOne, ZenonT(90)
  <2>2. userStakes[u][deleted][t] \in Nat
    BY <1>1 DEF StakeTypes
  <2> HIDE DEF One
  <2> QED
    BY <2>1, <2>2
<1>6. \A t \in Token : /\ IntValued([u \in User |-> One(u, t)], User) /\ All(t) \in Int
                       /\ SumOver([u \in User |-> One(u, t)], User) = All(t)
  BY <1>1, <1>2, MigratedAll, ZenonT(90)
<1> HIDE DEF One, All
<1>7. \A u \in User, v \in Validator, t \in Token :
        /\ userStakes[u][v][t] \in Nat
        /\ userStakes'[u][v][t] = userStakes[u][v][t] + Shift(v, One(u, t))
  BY <1>1, <1>3 DEF StakeTypes
<1>8. \A v \in Validator, t \in Token :
        /\ validatorStakes[v][t] \in Nat
        /\ validatorStakes'[v][t] = validatorStakes[v][t] + Shift(v, All(t))
  BY ZenonT(90), <1>1, <1>3 DEF StakeTypes
<1>9. \A u \in User, v \in Validator, t \in Token : userStakes'[u][v][t] \in Nat
  BY <1>5, <1>7
<1>10. userStakes' \in [User -> [Validator -> [Token -> Nat]]]
  BY <1>3, <1>9
<1>11. ASSUME NEW t \in Token, NEW v \in Validator
       PROVE  /\ SumOver([w \in User |-> userStakes'[w][v][t]], User) = validatorStakes'[v][t]
              /\ validatorStakes'[v][t] \in Nat
  <2> DEFINE f == [w \in User |-> userStakes[w][v][t]]
             g == [w \in User |-> userStakes'[w][v][t]]
             m == [w \in User |-> One(w, t)]
  <2>1. \A w \in User : f[w] \in Nat /\ g[w] \in Nat /\ m[w] \in Nat /\ g[w] = f[w] + Shift(v, m[w])
    BY <1>5, <1>7, <1>9
  <2>2. SumOver(f, User) = validatorStakes[v][t]
    BY ZenonT(90), StakeSums
  <2>3. IntValued(m, User) /\ All(t) \in Int /\ SumOver(m, User) = All(t)
    BY ZenonT(90), <1>6
  <2> HIDE DEF f, g, m
  <2>4. IntValued(f, User) /\ IntValued(g, User) /\ NatValued(g, User)
    BY <2>1 DEF IntValued, NatValued
  <2>5. SumOver(f, User) \in Int /\ SumOver(g, User) \in Nat
    BY ZenonT(90), <2>4, FiniteUsers, SumOverInt, SumOverNat
  <2>6. SumOver(g, User) = SumOver(f, User) + Shift(v, All(t))
    <3>1. CASE v = new /\ v # deleted
      <4>1. \A w \in User : g[w] = f[w] + m[w]
        BY <2>1, <3>1
      <4>2. SumOver(g, User) = SumOver(f, User) + SumOver(m, User)
        BY ZenonT(90), <2>3, <2>4, <4>1, FiniteUsers, SumOverPlus
      <4> QED
        BY <2>3, <3>1, <4>2
    <3>2. CASE v = deleted /\ v # new
      <4>1. \A w \in User : f[w] = g[w] + m[w]
        BY <2>1, <3>2
      <4>2. SumOver(f, User) = SumOver(g, User) + SumOver(m, User)
        BY ZenonT(90), <2>3, <2>4, <4>1, FiniteUsers, SumOverPlus
      <4> QED
        BY <2>3, <2>5, <3>2, <4>2
    <3>3. CASE v = new <=> v = deleted
      <4>1. SameOn(f, g, User)
        BY <2>1, <3>3 DEF SameOn
      <4>2. SumOver(f, User) = SumOver(g, User)
        BY <4>1, FiniteUsers, SumOverSame
      <4>3. Shift(v, All(t)) = 0
        BY <2>3, <3>3
      <4> QED
        BY <2>5, <4>2, <4>3
    <3> QED
      BY <3>1, <3>2, <3>3
  <2>7. SumOver(g, User) = validatorStakes'[v][t]
    BY <1>8, <2>2, <2>6
  <2> QED
    BY <2>5, <2>7, ZenonT(90) DEF g
<1>12. ASSUME NEW t \in Token
       PROVE  SumOver([v \in Validator |-> validatorStakes'[v][t]], Validator) = totalSupply'[t]
  <2> DEFINE f == [v \in Validator |-> validatorStakes[v][t]]
             g == [v \in Validator |-> validatorStakes'[v][t]]
             p == All(t)
  <2>1. p \in Int
    BY ZenonT(90), <1>6
  <2>2. Moves(f, g, Validator, deleted, new, p, p)
    BY <1>8, <2>1 DEF Moves
  <2>3. IntValued(f, Validator) /\ SumOver(f, Validator) = totalSupply[t]
    BY ZenonT(90), StakeSums
  <2> HIDE DEF f, g, p
  <2>4. SumOver(f, Validator) \in Int /\ SumMoves(f, g, Validator, p, p)
    BY <2>1, <2>2, <2>3, FiniteUsers, SumOverMove, ZenonT(90)
  <2>5. SumOver(g, Validator) = SumOver(f, Validator)
    BY <2>1, <2>4 DEF SumMoves
  <2> QED
    BY <2>3, <2>5, ZenonT(90) DEF g
<1>13. validatorStakes' \in [Validator -> [Token -> Nat]]
  BY ZenonT(90), <1>3, <1>11
<1>14. StakesConserved'
  BY <1>11, <1>12, FiniteUsers, ZenonT(90) DEF StakesConserved, SumsTo
<1>15. ASSUME NEW u \in User, NEW t \in Token  PROVE UserStake(u, t)' = UserStake(u, t)
  <2> DEFINE f == [v \in Validator |-> userStakes[u][v][t]]
             g == [v \in Validator |-> userStakes'[u][v][t]]
             p == One(u, t)
  <2>1. p \in Int /\ IntValued(f, Validator)
    BY <1>5, <1>7 DEF IntValued
  <2>2. Moves(f, g, Validator, deleted, new, p, p)
    BY <1>7, <2>1 DEF Moves
  <2> HIDE DEF f, g, p
  <2>3. SumOver(f, Validator) \in Int /\ SumMoves(f, g, Validator, p, p)
    BY <2>1, <2>2, FiniteUsers, SumOverMove, ZenonT(90)
  <2>4. SumOver(g, Validator) = SumOver(f, Validator)
    BY <2>1, <2>3 DEF SumMoves
  <2> QED
    BY <2>4, ZenonT(90) DEF UserStake, f, g
<1> QED
  BY <1>4, <1>10, <1>13, <1>14, <1>15, ZenonT(90) DEF StakeInv, StakeTypes

-----------------------------------------------------------------------------
(* The invariant of the stakes.                                            *)

\* At deployment nothing is staked.
LEMMA StakeInit ==
  ASSUME WellOrdered
  PROVE  Init => StakeInv
<1> SUFFICES ASSUME Init  PROVE StakeInv
  OBVIOUS
<1>1. /\ userStakes = [u \in User |-> [v \in Validator |-> [t \in Token |-> 0]]]
      /\ validatorStakes = [v \in Validator |-> [t \in Token |-> 0]]
      /\ validatorStakedUsers = [v \in Validator |-> <<>>]
      /\ totalSupply = [t \in Token |-> 0]
  BY DEF Init, ChainInit, PoolInit
<1>2. StakeTypes /\ totalSupply \in [Token -> Nat]
  BY <1>1 DEF StakeTypes
<1>3. ASSUME NEW t \in Token, NEW v \in Validator
      PROVE  SumOver([u \in User |-> userStakes[u][v][t]], User) = validatorStakes[v][t]
  <2> DEFINE f == [u \in User |-> userStakes[u][v][t]]
  <2>1. \A u \in User : f[u] = 0
    BY <1>1
  <2> HIDE DEF f
  <2>2. SumOver(f, User) = 0
    BY <2>1, FiniteUsers, SumOverZero, ZenonT(90)
  <2>3. validatorStakes[v][t] = 0
    BY <1>1
  <2> QED
    BY <2>2, <2>3, ZenonT(90) DEF f
<1>4. ASSUME NEW t \in Token
      PROVE  SumOver([v \in Validator |-> validatorStakes[v][t]], Validator) = totalSupply[t]
  <2> DEFINE f == [v \in Validator |-> validatorStakes[v][t]]
  <2>1. \A v \in Validator : f[v] = 0
    BY <1>1
  <2> HIDE DEF f
  <2>2. SumOver(f, Validator) = 0
    BY <2>1, FiniteUsers, SumOverZero, ZenonT(90)
  <2>3. totalSupply[t] = 0
    BY <1>1
  <2> QED
    BY <2>2, <2>3, ZenonT(90) DEF f
<1>5. StakesConserved
  BY <1>3, <1>4, FiniteUsers, ZenonT(90) DEF StakesConserved, SumsTo
<1> QED
  BY <1>2, <1>5 DEF StakeInv

\* A migration moves at most as many users as there are.
LEMMA MigrateIsStep ==
  ASSUME WellOrdered,
         StakeInv, NEW deleted \in Validator, NEW new \in Validator, MigrateStakes(deleted, new)
  PROVE  StakeInv' /\ \A u \in User, t \in Token : UserStake(u, t)' = UserStake(u, t)
<1> DEFINE n == Len(validatorStakedUsers[deleted])
           deleteAmount == Min({n, MigrateStakeLimit})
<1>1. n \in Nat /\ MigrateStakeLimit \in Nat
  BY ChainAssumption DEF StakeInv, StakeTypes
<1>2. migrateStakes(deleted, new, deleteAmount) /\ totalSupply' = totalSupply
  BY ZenonT(90) DEF MigrateStakes, poolVars, supplyVars
<1> HIDE DEF n
<1>3. \E x \in {n, MigrateStakeLimit} : \A y \in {n, MigrateStakeLimit} : x <= y
  BY <1>1
<1>4. deleteAmount \in {n, MigrateStakeLimit} /\ deleteAmount <= n
  BY <1>3, ZenonT(90) DEF Min
<1> HIDE DEF deleteAmount
<1>5. deleteAmount \in Nat
  BY <1>1, <1>4
<1> QED
  BY <1>2, <1>4, <1>5, MigrationStep, ZenonT(90) DEF n

\* Every step keeps the sums of the stakes.
LEMMA StakeNext ==
  ASSUME WellOrdered, StakeInv, [Next]_vars
  PROVE  StakeInv'
<1> USE LendAssumption
<1>1. ASSUME UNCHANGED chainVars, UNCHANGED supplyVars  PROVE StakeInv'
  BY ZenonT(90), <1>1 DEF StakeInv, StakeTypes, StakesConserved, chainVars, supplyVars
<1>2. ASSUME NEW u \in User, NEW t \in Token, NEW amount \in Amount, NEW v \in Validator,
             \/ supply(u, t, amount, v) \/ swapAndSupply(u, t, amount, v)
      PROVE  StakeInv'
  <2>1. /\ stakeToken(u, v, t, amount) /\ amount \in Nat
        /\ totalSupply' = [totalSupply EXCEPT ![t] = @ + amount]
    BY <1>2 DEF supply, swapAndSupply, IncreaseAndStake, increasePoolToken
  <2> QED
    BY ZenonT(90), <2>1, StakeStep
<1>3. ASSUME NEW u \in User, NEW t \in Token, NEW amount \in Amount, NEW v \in Validator,
             \/ withdraw(u, t, amount, v) \/ withdrawAndDecreaseLiquidity(u, t, amount, v)
      PROVE  StakeInv'
  <2>1. /\ unstakeToken(u, v, t, amount) /\ amount \in Nat
        /\ totalSupply' = [totalSupply EXCEPT ![t] = @ - amount]
    BY <1>3 DEF withdraw, withdrawAndDecreaseLiquidity, DecreaseAndUnstake, decreasePoolToken
  <2> QED
    BY ZenonT(90), <2>1, UnstakeStep
<1>4. ASSUME NEW liquidator \in User, NEW u \in User, liquidate(liquidator, u)  PROVE StakeInv'
  <2>1. /\ liquidator # u /\ liquidatePosition(liquidator, u) /\ totalSupply' = totalSupply
    BY <1>4 DEF liquidate, liquidateTokens
  <2> QED
    BY ZenonT(90), <2>1, PositionStep
<1>5. CASE \E deleted, new \in Validator : MigrateStakes(deleted, new)
  BY ZenonT(90), <1>5, MigrateIsStep
<1>6. CASE SetValidators
  <2>1. /\ UNCHANGED <<userStakes, validatorStakes, validatorStakedUsers>>
        /\ UNCHANGED totalSupply
    BY ZenonT(90), <1>6 DEF SetValidators, setValidators, poolVars, supplyVars
  <2> QED
    BY ZenonT(90), <2>1 DEF StakeInv, StakeTypes, StakesConserved
<1>7. CASE \E u \in User, amount \in Amount : borrow(u, amount) \/ repay(u, amount)
  BY <1>1, <1>7 DEF borrow, repay
<1>8. CASE \E from, to \in User, amount \in Amount :
             /\ usdTransfer(from, to, amount)
             /\ UNCHANGED <<configVars, supplyVars, rewardVars, chainVars, plugin>>
  BY <1>1, <1>8
<1>9. CASE (\E isPlugin \in Plugin : setPlugin(isPlugin)) \/ Configure \/ Rewarding
  BY ZenonT(90), <1>1, <1>9 DEF setPlugin, Configure, Rewarding, poolVars
<1>10. CASE UNCHANGED vars
  BY <1>1, <1>10 DEF vars, poolVars
<1> QED
  BY ZenonT(90), <1>2, <1>3, <1>4, <1>5, <1>6, <1>7, <1>8, <1>9, <1>10 DEF Next

-----------------------------------------------------------------------------
(* What a user has staked and supplied.                                    *)

\* All stakes of a user are the user's supply, and are at listed validators.
Withdrawable ==
  \A u \in User, t \in Token :
    /\ UserStake(u, t) = userSupply[t][u]
    /\ \A v \in Validator : userStakes[u][v][t] # 0 => Listed(validators, v)

StakeIsSupply == \A u \in User, t \in Token : UserStake(u, t) = userSupply[t][u]

\* The sum of a user's stakes is a sum of numbers.
LEMMA UserStakeInt ==
  ASSUME WellOrdered, StakeInv, NEW u \in User, NEW t \in Token
  PROVE  /\ IntValued([v \in Validator |-> userStakes[u][v][t]], Validator)
         /\ UserStake(u, t) \in Int
<1>1. IntValued([v \in Validator |-> userStakes[u][v][t]], Validator)
  BY DEF IntValued, StakeInv, StakeTypes
<1> QED
  BY <1>1, FiniteUsers, SumOverInt, ZenonT(90) DEF UserStake

\* A change of one stake changes the sum of that user's stakes in that token.
LEMMA UserStakeChanges ==
  ASSUME WellOrdered,
         StakeInv, NEW u \in User, NEW v \in Validator, NEW t \in Token, NEW d \in Int,
         ChangeBy(u, v, t, d), NEW w \in User, NEW s \in Token
  PROVE  UserStake(w, s)' = UserStake(w, s) + (IF w = u /\ s = t THEN d ELSE 0)
<1> DEFINE f == [x \in Validator |-> userStakes[w][x][s]]
           g == [x \in Validator |-> userStakes'[w][x][s]]
           q == IF w = u /\ s = t THEN d ELSE 0
<1>1. IntValued(f, Validator)
  BY UserStakeInt, ZenonT(90)
<1>2. Moves(f, g, Validator, v, v, 0, q)
  BY DEF Moves, ChangeBy, StakeInv, StakeTypes
<1>3. q \in Int /\ 0 \in Int
  OBVIOUS
<1> HIDE DEF f, g, q
<1>4. SumOver(f, Validator) \in Int /\ SumMoves(f, g, Validator, 0, q)
  BY <1>1, <1>2, <1>3, FiniteUsers, SumOverMove, ZenonT(90)
<1>5. SumOver(g, Validator) = SumOver(f, Validator) + q
  BY <1>3, <1>4 DEF SumMoves
<1> QED
  BY <1>5, ZenonT(90) DEF UserStake, f, g, q

\* A supply and a withdrawal change stake and supply by the same amount.
LEMMA SupplyFollows ==
  ASSUME WellOrdered, StakeInv, userSupply \in [Token -> [User -> Nat]], StakeIsSupply,
         NEW u \in User, NEW v \in Validator, NEW t \in Token, NEW d \in Int,
         ChangeBy(u, v, t, d),
         userSupply' = [userSupply EXCEPT ![t] = Credit(userSupply[t], u, d)]
  PROVE  StakeIsSupply'
<1> SUFFICES ASSUME NEW w \in User, NEW s \in Token
             PROVE  UserStake(w, s)' = userSupply'[s][w]
  BY ZenonT(90) DEF StakeIsSupply
<1>1. UserStake(w, s)' = UserStake(w, s) + (IF w = u /\ s = t THEN d ELSE 0)
  BY UserStakeChanges, SMTT(60)
<1>2. userSupply'[s][w] = userSupply[s][w] + (IF w = u /\ s = t THEN d ELSE 0)
  <2>1. userSupply[t] \in [User -> Nat] /\ userSupply[s][w] \in Nat
    OBVIOUS
  <2>2. CASE s = t
    <3>1. userSupply'[s][w] = Credit(userSupply[t], u, d)[w]
      BY <2>2
    <3>2. Credit(userSupply[t], u, d)[w] = userSupply[t][w] + (IF w = u THEN d ELSE 0)
      BY <2>1, <2>2 DEF Credit
    <3> QED
      BY <2>2, <3>1, <3>2
  <2>3. CASE s # t
    BY <2>1, <2>3
  <2> QED
    BY <2>2, <2>3
<1>3. UserStake(w, s) = userSupply[s][w]
  BY ZenonT(90) DEF StakeIsSupply
<1> QED
  BY <1>1, <1>2, <1>3, ZenonT(90)

\* A liquidation hands over stake and supply of the whitelisted tokens, because no stake is at
\* a validator off the list.
LEMMA LiquidationFollows ==
  ASSUME WellOrdered, StakeInv, userSupply \in [Token -> [User -> Nat]], Withdrawable,
         NEW src \in User, NEW dest \in User, src # dest,
         liquidateTokens(src, dest), liquidatePosition(dest, src)
  PROVE  StakeIsSupply'
<1>1. /\ \A v \in Validator, t \in Token : TakenFrom(src, v, t) \in Nat
      /\ \A w \in User, v \in Validator, t \in Token :
           userStakes'[w][v][t] = userStakes[w][v][t]
                                    - (IF w = src THEN TakenFrom(src, v, t) ELSE 0)
                                    + (IF w = dest THEN TakenFrom(src, v, t) ELSE 0)
  BY PositionEffect, ZenonT(90)
<1>2. \A w \in User, v \in Validator, t \in Token : userStakes[w][v][t] \in Nat
  BY DEF StakeInv, StakeTypes
<1>3. \A v \in Validator, t \in Token :
        TakenFrom(src, v, t) = IF t \in whitelist THEN userStakes[src][v][t] ELSE 0
  BY ZenonT(90) DEF TakenFrom, Withdrawable
<1>4. userSupply' = [t \in Token |-> IF t \in whitelist THEN Moved(userSupply[t], src, dest)
                                     ELSE userSupply[t]]
  BY DEF liquidateTokens
<1> SUFFICES ASSUME NEW w \in User, NEW t \in Token
             PROVE  UserStake(w, t)' = userSupply'[t][w]
  BY ZenonT(90) DEF StakeIsSupply
<1> DEFINE f == [v \in Validator |-> userStakes[w][v][t]]
           g == [v \in Validator |-> userStakes'[w][v][t]]
           h == [v \in Validator |-> userStakes[src][v][t]]
<1>5. /\ IntValued(f, Validator) /\ SumOver(f, Validator) = userSupply[t][w]
      /\ IntValued(h, Validator) /\ SumOver(h, Validator) = userSupply[t][src]
  BY UserStakeInt, ZenonT(90) DEF Withdrawable, UserStake
<1>6. /\ \A v \in Validator : f[v] \in Nat /\ h[v] \in Nat
      /\ \A v \in Validator : g[v] = f[v] - (IF w = src /\ t \in whitelist THEN h[v] ELSE 0)
                                          + (IF w = dest /\ t \in whitelist THEN h[v] ELSE 0)
      /\ w = src => f = h
  <2>1. ASSUME NEW v \in Validator  PROVE f[v] \in Nat /\ h[v] \in Nat
    BY ZenonT(90), <1>2
  <2>2. ASSUME NEW v \in Validator
        PROVE  g[v] = f[v] - (IF w = src /\ t \in whitelist THEN h[v] ELSE 0)
                           + (IF w = dest /\ t \in whitelist THEN h[v] ELSE 0)
    <3>1. g[v] = f[v] - (IF w = src THEN TakenFrom(src, v, t) ELSE 0)
                      + (IF w = dest THEN TakenFrom(src, v, t) ELSE 0)
      BY ZenonT(90), <1>1
    <3>2. TakenFrom(src, v, t) = IF t \in whitelist THEN h[v] ELSE 0
      BY ZenonT(90), <1>3
    <3> HIDE DEF f, g, h
    <3> QED
      BY ZenonT(90), <3>1, <3>2
  <2>3. w = src => f = h
    OBVIOUS
  <2> QED
    BY ZenonT(90), <2>1, <2>2, <2>3
<1>7. UserStake(w, t)' = SumOver(g, Validator)
  BY ZenonT(90) DEF UserStake
<1> HIDE DEF f, g, h
<1>8. CASE w = src /\ t \in whitelist
  <2>1. \A v \in Validator : g[v] = 0
    BY <1>6, <1>8
  <2>2. SumOver(g, Validator) = 0
    BY <2>1, FiniteUsers, SumOverZero, ZenonT(90)
  <2>3. userSupply'[t][w] = 0
    BY <1>4, <1>8 DEF Moved
  <2> QED
    BY ZenonT(90), <1>7, <2>2, <2>3
<1>9. CASE w = dest /\ t \in whitelist
  <2>1. \A v \in Validator : g[v] = f[v] + h[v]
    BY <1>6, <1>9
  <2>2. SumOver(g, Validator) = SumOver(f, Validator) + SumOver(h, Validator)
    BY <1>5, <2>1, FiniteUsers, SumOverPlus, ZenonT(90)
  <2>3. userSupply'[t][w] = userSupply[t][w] + userSupply[t][src]
    BY <1>4, <1>9 DEF Moved
  <2> QED
    BY <1>5, <1>7, <2>2, <2>3, ZenonT(90)
<1>10. CASE ~(w \in {src, dest} /\ t \in whitelist)
  <2>1. SameOn(f, g, Validator)
    BY <1>6, <1>10 DEF SameOn
  <2>2. SumOver(f, Validator) = SumOver(g, Validator)
    BY <2>1, FiniteUsers, SumOverSame, ZenonT(90)
  <2>3. userSupply'[t][w] = userSupply[t][w]
    BY <1>4, <1>10 DEF Moved
  <2> QED
    BY <1>5, <1>7, <2>2, <2>3, ZenonT(90)
<1> QED
  BY <1>8, <1>9, <1>10

\* Every step that starts with all stakes withdrawable leaves stakes and supplies the same.
LEMMA FollowStep ==
  ASSUME WellOrdered, LendInv, StakeInv, [Next]_vars, Withdrawable
  PROVE  StakeIsSupply'
<1> USE LendAssumption
<1>1. userSupply \in [Token -> [User -> Nat]] /\ StakeIsSupply
  BY DEF LendInv, SupplyInv, Withdrawable, StakeIsSupply
<1>2. ASSUME UNCHANGED userStakes, UNCHANGED userSupply  PROVE StakeIsSupply'
  BY <1>1, <1>2 DEF StakeIsSupply, UserStake
<1>3. ASSUME NEW u \in User, NEW t \in Token, NEW amount \in Amount, NEW v \in Validator,
             \/ supply(u, t, amount, v) \/ swapAndSupply(u, t, amount, v)
      PROVE  StakeIsSupply'
  <2>1. /\ stakeToken(u, v, t, amount) /\ amount \in Nat /\ amount \in Int
        /\ totalSupply' = [totalSupply EXCEPT ![t] = @ + amount]
        /\ userSupply' = [userSupply EXCEPT ![t] = Credit(userSupply[t], u, amount)]
    <3>1. IncreaseAndStake(u, t, amount, v)
      BY ZenonT(90), <1>3 DEF supply, swapAndSupply
    <3>2. amount \in Nat
      BY ZenonT(90)
    <3>3. amount \in Int
      BY <3>2
    <3> QED
      BY ZenonT(90), <3>1, <3>2, <3>3 DEF IncreaseAndStake, increasePoolToken
  <2>2. ChangeBy(u, v, t, amount)
    BY ZenonT(90), <2>1, StakeStep
  <2> QED
    BY ZenonT(90), <1>1, <2>1, <2>2, SupplyFollows
<1>4. ASSUME NEW u \in User, NEW t \in Token, NEW amount \in Amount, NEW v \in Validator,
             \/ withdraw(u, t, amount, v) \/ withdrawAndDecreaseLiquidity(u, t, amount, v)
      PROVE  StakeIsSupply'
  <2>1. /\ unstakeToken(u, v, t, amount) /\ amount \in Nat
        /\ totalSupply' = [totalSupply EXCEPT ![t] = @ - amount]
        /\ userSupply' = [userSupply EXCEPT ![t] = Debit(userSupply[t], u, amount)]
    BY <1>4 DEF withdraw, withdrawAndDecreaseLiquidity, DecreaseAndUnstake, decreasePoolToken
  <2>2. ChangeBy(u, v, t, 0 - amount)
    BY ZenonT(90), <2>1, UnstakeStep
  <2>3. Debit(userSupply[t], u, amount) = Credit(userSupply[t], u, 0 - amount)
    <3>1. userSupply[t][u] \in Nat
      BY <1>1
    <3>2. userSupply[t][u] - amount = userSupply[t][u] + (0 - amount)
      BY <2>1, <3>1
    <3> QED
      BY ZenonT(90), <3>2 DEF Debit, Credit
  <2>4. userSupply' = [userSupply EXCEPT ![t] = Credit(userSupply[t], u, 0 - amount)]
    BY ZenonT(90), <2>1, <2>3
  <2>5. 0 - amount \in Int
    BY <2>1
  <2> QED
    BY ZenonT(90), <1>1, <2>2, <2>4, <2>5, SupplyFollows
<1>5. ASSUME NEW liquidator \in User, NEW u \in User, liquidate(liquidator, u)
      PROVE  StakeIsSupply'
  <2>1. /\ u # liquidator /\ liquidatePosition(liquidator, u) /\ liquidateTokens(u, liquidator)
    BY <1>5 DEF liquidate
  <2> QED
    BY ZenonT(90), <1>1, <2>1, LiquidationFollows
<1>6. ASSUME NEW deleted \in Validator, NEW new \in Validator, MigrateStakes(deleted, new)
      PROVE  StakeIsSupply'
  <2>1. userSupply' = userSupply
    BY <1>6 DEF MigrateStakes, poolVars, supplyVars
  <2>2. \A u \in User, t \in Token : UserStake(u, t)' = UserStake(u, t)
    BY ZenonT(90), <1>6, MigrateIsStep
  <2> QED
    BY ZenonT(90), <1>1, <2>1, <2>2 DEF StakeIsSupply
<1>7. CASE \E u \in User, amount \in Amount : borrow(u, amount) \/ repay(u, amount)
  BY <1>2, <1>7 DEF borrow, repay, supplyVars, chainVars
<1>8. CASE \E from, to \in User, amount \in Amount :
             /\ usdTransfer(from, to, amount)
             /\ UNCHANGED <<configVars, supplyVars, rewardVars, chainVars, plugin>>
  BY <1>2, <1>8 DEF supplyVars, chainVars
<1>9. CASE (\E isPlugin \in Plugin : setPlugin(isPlugin)) \/ Configure \/ Rewarding
  BY ZenonT(90), <1>2, <1>9 DEF setPlugin, Configure, Rewarding, poolVars, supplyVars, chainVars
<1>10. CASE SetValidators
  BY ZenonT(90), <1>2, <1>10 DEF SetValidators, setValidators, poolVars, supplyVars
<1>11. CASE UNCHANGED vars
  BY <1>2, <1>11 DEF vars, poolVars, supplyVars, chainVars
<1> QED
  BY ZenonT(90), <1>3, <1>4, <1>5, <1>6, <1>7, <1>8, <1>9, <1>10, <1>11 DEF Next

-----------------------------------------------------------------------------
(* Borrowing.                                                              *)

\* A quotient rounded down, from below and from above.
LEMMA Quotient ==
  ASSUME NEW x \in Nat, NEW y \in Nat \ {0}
  PROVE  x \div y \in Nat /\ (x \div y) * y <= x /\ x < (x \div y) * y + y
OBVIOUS

\* Products grow with their factors.
LEMMA ProductGrows ==
  ASSUME NEW a \in Int, NEW b \in Int, a <= b, NEW c \in Nat
  PROVE  a * c \in Int /\ b * c \in Int /\ a * c <= b * c
OBVIOUS

\* A number that fits in x often enough is at most the quotient.
LEMMA FitsIn ==
  ASSUME NEW x \in Nat, NEW y \in Nat \ {0}, NEW n \in Nat, n * y <= x
  PROVE  n <= x \div y
<1> DEFINE q == x \div y
<1>1. q \in Nat /\ x < q * y + y
  BY Quotient
<1> HIDE DEF q
<1>2. q + 1 <= n => (q + 1) * y <= n * y
  BY <1>1, ProductGrows
<1>3. (q + 1) * y = q * y + y
  BY <1>1
<1>4. q * y \in Nat /\ n * y \in Nat
  BY <1>1
<1>5. ~(q + 1 <= n)
  BY <1>1, <1>2, <1>3, <1>4
<1>6. n <= q
  BY <1>1, <1>5
<1> QED
  BY <1>6 DEF q

\* The debt may grow by what the collateral allows, up to one unit of a value in USD: b is the
\* debt, a the loan, s the value of the collateral, m the minimum ratio, p and k the precision
\* and how often it goes into a TUCUSD.
LEMMA LoanWithinMax ==
  ASSUME NEW a \in Nat, NEW b \in Nat, NEW s \in Nat, NEW m \in Nat \ {0},
         NEW p \in Nat \ {0}, NEW k \in Nat \ {0}, NEW old, NEW now, NEW most, NEW max,
         old = (b * p) \div (k * p), now = ((b + a) * p) \div (k * p), most = (s * p) \div m,
         now # 0 => (s * p) \div now > m,
         max = IF old >= most THEN 0 ELSE ((most - old) * (k * p)) \div p
  PROVE  (a - max) * p < k * p
<1> DEFINE unit == k * p
           bp == b * p
           ap == a * p
           sp == s * p
<1>1. unit \in Nat \ {0} /\ bp \in Nat /\ ap \in Nat /\ sp \in Nat /\ (b + a) * p = bp + ap
  OBVIOUS
<1>2. /\ old = bp \div unit /\ now = (bp + ap) \div unit /\ most = sp \div m
      /\ now # 0 => sp \div now > m
  BY ZenonT(90), <1>1
<1> HIDE DEF bp, ap, sp, unit
<1>3. /\ old \in Nat /\ old * unit <= bp /\ bp < old * unit + unit
      /\ now \in Nat /\ now * unit <= bp + ap /\ bp + ap < now * unit + unit
      /\ most \in Nat /\ most * m <= sp /\ sp < most * m + m
  <2>1. old \in Nat /\ old * unit <= bp /\ bp < old * unit + unit
    BY ZenonT(90), <1>1, <1>2, Quotient
  <2>2. bp + ap \in Nat
    BY <1>1
  <2>3. now \in Nat /\ now * unit <= bp + ap /\ bp + ap < now * unit + unit
    BY ZenonT(90), <1>1, <1>2, <2>2, Quotient
  <2>4. most \in Nat /\ most * m <= sp /\ sp < most * m + m
    BY ZenonT(90), <1>1, <1>2, Quotient
  <2> QED
    BY <2>1, <2>3, <2>4
<1>4. now <= most
  <2>1. CASE now = 0
    BY <1>3, <2>1
  <2>2. CASE now # 0
    <3> DEFINE r == sp \div now
    <3>1. r \in Nat /\ r * now <= sp /\ r > m
      BY ZenonT(90), <1>1, <1>2, <1>3, <2>2, Quotient
    <3> HIDE DEF r
    <3>2. m * now <= r * now
      BY <1>3, <3>1, ProductGrows
    <3>3. now * m <= sp
      BY <1>1, <1>3, <3>1, <3>2
    <3> QED
      BY ZenonT(90), <1>1, <1>2, <1>3, <3>3, FitsIn
  <2> QED
    BY <2>1, <2>2
<1>5. old * unit \in Nat /\ now * unit \in Nat
  BY <1>1, <1>3
<1>6. ap < now * unit + unit - old * unit
  BY <1>1, <1>3, <1>5
<1>7. CASE old >= most
  <2>1. max = 0 /\ now <= old
    BY <1>3, <1>4, <1>7
  <2>2. now * unit <= old * unit
    BY <1>1, <1>3, <2>1, ProductGrows
  <2>3. ap < unit
    BY <1>1, <1>5, <1>6, <2>2
  <2> QED
    BY <2>1, <2>3 DEF ap, unit
<1>8. CASE ~(old >= most)
  <2> DEFINE d == most - old
  <2>1. d \in Nat /\ now - old <= d
    BY <1>3, <1>4, <1>8
  <2>2. max = (d * unit) \div p
    BY <1>8 DEF unit
  <2> HIDE DEF d
  <2>3. max = d * k /\ max \in Nat
    <3>1. d * k \in Nat /\ d * unit = (d * k) * p
      BY <2>1 DEF unit
    <3> DEFINE dk == d * k
    <3> HIDE DEF dk
    <3>2. dk \in Nat => (dk * p) \div p = dk
      OBVIOUS
    <3> QED
      BY <2>2, <3>1, <3>2 DEF dk
  <2>4. max * p = d * unit
    BY <2>1, <2>3 DEF unit
  <2>5. (now - old) * unit <= d * unit
    BY <1>1, <1>3, <2>1, ProductGrows
  <2>6. (now - old) * unit = now * unit - old * unit
    BY <1>1, <1>3
  <2>7. d * unit \in Nat /\ max * p \in Nat
    BY <1>1, <2>1, <2>4
  <2>8. ap - max * p < unit
    BY <1>1, <1>5, <1>6, <2>4, <2>5, <2>6, <2>7
  <2>9. (a - max) * p = ap - max * p
    BY <2>3 DEF ap
  <2> QED
    BY ZenonT(90), <2>8, <2>9 DEF unit
<1> QED
  BY <1>7, <1>8

\* The value of a user's collateral is a sum of numbers.
LEMMA SupplyValue ==
  ASSUME WellOrdered, LendInv, NEW u \in User
  PROVE  getUserSupplyTotalUSD(u) \in Nat
<1> DEFINE f == [t \in whitelist |-> (userSupply[t][u] * getTokenPrice(t)) \div TokenUnit]
<1>1. whitelist \in SUBSET Token /\ IsFiniteSet(Token)
  BY ConfigAssumption DEF LendInv, ConfigTypeOK
<1>2. IsFiniteSet(whitelist)
  BY ZenonT(90), <1>1, FiniteSubset
<1>3. ASSUME NEW t \in whitelist  PROVE f[t] \in Nat
  <2>1. userSupply[t][u] \in Nat /\ getTokenPrice(t) \in Nat
    BY <1>1 DEF LendInv, SupplyInv, ConfigTypeOK, getTokenPrice
  <2> DEFINE x == userSupply[t][u] * getTokenPrice(t)
  <2>2. x \in Nat
    BY <2>1
  <2> HIDE DEF x
  <2>3. x \div TokenUnit \in Nat
    BY <2>2, ConfigAssumption
  <2> QED
    BY <2>3 DEF x
<1> HIDE DEF f
<1>4. NatValued(f, whitelist)
  BY <1>3 DEF NatValued
<1>5. SumOver(f, whitelist) \in Nat
  BY ZenonT(90), <1>2, <1>4, SumOverNat
<1> QED
  BY ZenonT(90), <1>5 DEF getUserSupplyTotalUSD, f

LoanAllowed(u) ==
  userBorrow'[u] > userBorrow[u] /\ mcr # 0 =>
    (userBorrow'[u] - userBorrow[u] - getUserMaxBorrowable(u)) * Precision < UsdUnit

\* A loan passes the check of the collateral ratio, so that it is within the maximum.
LEMMA LoanStep ==
  ASSUME WellOrdered, LendInv, NEW u \in User, NEW amount \in Nat, borrow(u, amount)
  PROVE  LoanAllowed(u)
<1> SUFFICES ASSUME mcr # 0
    PROVE  (userBorrow'[u] - userBorrow[u] - getUserMaxBorrowable(u)) * Precision < UsdUnit
  BY ZenonT(90) DEF LoanAllowed
<1> DEFINE s == getUserSupplyTotalUSD(u)
           k == UsdUnit \div Precision
           b == userBorrow[u]
           old == getUserBorrowTotalUSD(u)
           now == BorrowUSD(b + amount)
           most == (s * Precision) \div mcr
           max == getUserMaxBorrowable(u)
<1>1. s \in Nat /\ b \in Nat /\ mcr \in Nat \ {0} /\ userBorrow'[u] - b = amount
  BY SupplyValue DEF LendInv, DebtInv, ConfigTypeOK, borrow, borrowUSD, Credit
<1>2. Precision \in Nat \ {0} /\ UsdUnit \in Nat \ {0} /\ UsdUnit % Precision = 0
  BY ConfigAssumption
<1>3. k \in Nat \ {0} /\ UsdUnit = k * Precision
  BY <1>2
<1>4. /\ old = (b * Precision) \div UsdUnit /\ now = ((b + amount) * Precision) \div UsdUnit
      /\ max = IF old >= most THEN 0 ELSE ((most - old) * UsdUnit) \div Precision
  BY ZenonT(90) DEF getUserBorrowTotalUSD, BorrowUSD, getUserMaxBorrowable
<1>5. now # 0 => (s * Precision) \div now > mcr
  BY ZenonT(90) DEF borrow, RatioAbove
<1>6. most = (s * Precision) \div mcr
  OBVIOUS
<1> HIDE DEF s, k, b, old, now, most, max
<1>7. (amount - max) * Precision < k * Precision
  BY ZenonT(90), <1>1, <1>2, <1>3, <1>4, <1>5, <1>6, LoanWithinMax
<1> QED
  BY ZenonT(90), <1>1, <1>3, <1>7 DEF b, max

\* No other step raises a debt.
LEMMA LoansStep ==
  ASSUME WellOrdered, LendInv, [Next]_vars, NEW user \in User
  PROVE  LoanAllowed(user)
<1> USE LendAssumption
<1>1. userBorrow \in [User -> Nat]
  BY DEF LendInv, DebtInv
<1>2. ASSUME userBorrow'[user] <= userBorrow[user], userBorrow'[user] \in Nat  PROVE LoanAllowed(user)
  BY <1>1, <1>2 DEF LoanAllowed
<1>3. ASSUME UNCHANGED userBorrow  PROVE LoanAllowed(user)
  BY <1>1, <1>2, <1>3
<1>4. ASSUME NEW u \in User, NEW amount \in Amount, borrow(u, amount)  PROVE LoanAllowed(user)
  <2>1. CASE user = u
    BY <1>4, <2>1, LoanStep
  <2>2. CASE user # u
    BY <1>1, <1>2, <1>4, <2>2 DEF borrow, borrowUSD, Credit
  <2> QED
    BY <2>1, <2>2
<1>5. ASSUME NEW payer \in User, NEW u \in User, NEW amount \in Nat, repayUSD(payer, u, amount)
      PROVE  LoanAllowed(user)
  BY <1>1, <1>2, <1>5 DEF repayUSD, Debit
<1>6. ASSUME NEW u \in User, NEW amount \in Amount, repay(u, amount)  PROVE LoanAllowed(user)
  BY <1>5, <1>6 DEF repay
<1>7. ASSUME NEW liquidator \in User, NEW u \in User, liquidate(liquidator, u)
      PROVE  LoanAllowed(user)
  BY <1>1, <1>5, <1>7 DEF liquidate
<1>8. CASE \E from, to \in User, amount \in Amount :
             /\ usdTransfer(from, to, amount)
             /\ UNCHANGED <<configVars, supplyVars, rewardVars, chainVars, plugin>>
  BY ZenonT(90), <1>3, <1>8 DEF usdTransfer
<1>9. CASE \E u \in User, t \in Token, amount \in Amount, v \in Validator :
             \/ supply(u, t, amount, v) \/ swapAndSupply(u, t, amount, v)
             \/ withdraw(u, t, amount, v) \/ withdrawAndDecreaseLiquidity(u, t, amount, v)
  BY <1>3, <1>9 DEF supply, swapAndSupply, IncreaseAndStake, withdraw,
     withdrawAndDecreaseLiquidity, DecreaseAndUnstake, debtVars
<1>10. CASE \E deleted, new \in Validator : MigrateStakes(deleted, new)
  BY ZenonT(90), <1>3, <1>10 DEF MigrateStakes, poolVars, debtVars
<1>11. CASE (\E isPlugin \in Plugin : setPlugin(isPlugin)) \/ Configure \/ Rewarding \/ SetValidators
  BY ZenonT(90), <1>3, <1>11 DEF setPlugin, Configure, Rewarding, SetValidators, poolVars, debtVars
<1>12. CASE UNCHANGED vars
  BY <1>3, <1>12 DEF vars, poolVars, debtVars
<1> QED
  BY ZenonT(90), <1>4, <1>6, <1>7, <1>8, <1>9, <1>10, <1>11, <1>12 DEF Next

=============================================================================
