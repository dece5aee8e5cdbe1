-------------------------------- MODULE Lend --------------------------------
(***************************************************************************)
(* potv: the Lend contract composes Pool, ChainContract, Reward, Config    *)
(* and PriceFeed.  A user supplies collateral, staked at a validator, and  *)
(* borrows TUCUSD against it; the Router plugin supplies and withdraws     *)
(* liquidity tokens on behalf of a user.  A call that reverts leaves no    *)
(* trace: its requires are guards.                                         *)
(***************************************************************************)
EXTENDS Reward, ChainContract

CONSTANTS
  Amount,     \* amounts of calls
  Plugin,     \* what the owner may set the Router's plugin flag to
  MaxSupply   \* bound on the tokens in existence: liquidity the Router may add

VARIABLES
  plugin   \* whether the Router is a plugin of Lend

vars == <<configVars, poolVars, rewardVars, chainVars, plugin>>

ASSUME LendAssumption ==
  Amount \subseteq Nat /\ MaxSupply \in Nat /\ Plugin \subseteq BOOLEAN

-----------------------------------------------------------------------------
(* Values in USD.                                                          *)

\* The value of the collateral needs a price for every whitelisted token.
PricesSet == \A t \in whitelist : HasPrice(t)

getUserSupplyTotalUSD(u) ==
  SumOver([t \in whitelist |-> (userSupply[t][u] * getTokenPrice(t)) \div TokenUnit], whitelist)

BorrowUSD(borrow) == (borrow * Precision) \div UsdUnit
getUserBorrowTotalUSD(u) == BorrowUSD(userBorrow[u])

\* getUserCollateralRatio(u) > rate, for a debt of the given size.  Without debt the
\* ratio is the largest integer, and without debt and collateral the call reverts.
RatioAbove(u, borrow, rate) ==
  IF BorrowUSD(borrow) = 0 THEN getUserSupplyTotalUSD(u) # 0
  ELSE (getUserSupplyTotalUSD(u) * Precision) \div BorrowUSD(borrow) > rate

RatioAtMost(u, rate) == getUserBorrowTotalUSD(u) # 0 /\ ~RatioAbove(u, userBorrow[u], rate)

\* Mutant: the minimum is of the debt alone.
minCollateralAmountOfDebt(u, t) ==
  (getUserBorrowTotalUSD(u) * TokenUnit) \div getTokenPrice(t)

minCollateralAmount(u, t) ==
  (((mcr * getUserBorrowTotalUSD(u)) \div Precision) * TokenUnit) \div getTokenPrice(t)

getTokenMaxWithdrawable(u, t) ==
  IF minCollateralAmount(u, t) > userSupply[t][u] THEN 0
  ELSE userSupply[t][u] - minCollateralAmount(u, t)

getUserMaxBorrowable(u) ==
  LET maxBorrowUSDValue == (getUserSupplyTotalUSD(u) * Precision) \div mcr
  IN  IF getUserBorrowTotalUSD(u) >= maxBorrowUSDValue THEN 0
      ELSE ((maxBorrowUSDValue - getUserBorrowTotalUSD(u)) * UsdUnit) \div Precision

-----------------------------------------------------------------------------
(* Supplying and withdrawing.                                              *)

\* _supply after the transfer to the pool.
IncreaseAndStake(u, t, amount, v) ==
  /\ updateReward({u})
  /\ t \in whitelist
  /\ increasePoolToken(u, t, amount)
  /\ stakeToken(u, v, t, amount)
  /\ held' = [held EXCEPT ![t] = @ + amount]
  /\ UNCHANGED <<configVars, debtVars, plugin>>

supply(u, t, amount, v) ==
  /\ wallet[t][u] >= amount
  /\ IncreaseAndStake(u, t, amount, v)
  /\ wallet' = [wallet EXCEPT ![t] = Debit(@, u, amount)]

\* Router.swapAndSupply: the liquidity tokens are minted to the Router, which supplies
\* them for its caller.
swapAndSupply(u, t, amount, v) ==
  /\ plugin
  /\ held[t] + SumOver(wallet[t], User) + amount <= MaxSupply
  /\ IncreaseAndStake(u, t, amount, v)
  /\ UNCHANGED wallet

\* _withdraw before the transfer from the pool.
DecreaseAndUnstake(u, t, amount, v) ==
  /\ updateReward({u})
  /\ HasPrice(t)
  /\ amount <= getTokenMaxWithdrawable(u, t)
  /\ decreasePoolToken(u, t, amount)
  /\ unstakeToken(u, v, t, amount)
  /\ UNCHANGED <<configVars, debtVars, plugin>>

withdraw(u, t, amount, v) ==
  /\ DecreaseAndUnstake(u, t, amount, v)
  /\ wallet' = [wallet EXCEPT ![t] = Credit(@, u, amount)]

\* Router.withdrawAndDecreaseLiquidity: the Router receives the tokens and burns them.
withdrawAndDecreaseLiquidity(u, t, amount, v) ==
  /\ plugin
  /\ DecreaseAndUnstake(u, t, amount, v)
  /\ UNCHANGED wallet

-----------------------------------------------------------------------------
(* Borrowing, repaying and liquidating.                                    *)

\* Mutant: the ratio is read before the debt grows.
borrowBefore(u, amount) ==
  /\ PricesSet
  /\ RatioAbove(u, userBorrow[u], mcr)
  /\ borrowUSD(u, amount)
  /\ UNCHANGED <<configVars, supplyVars, rewardVars, chainVars, plugin>>

borrow(u, amount) ==
  /\ borrowUSD(u, amount)
  /\ PricesSet
  /\ RatioAbove(u, userBorrow[u] + amount, mcr)
  /\ UNCHANGED <<configVars, supplyVars, rewardVars, chainVars, plugin>>

repay(u, amount) ==
  /\ repayUSD(u, u, amount)
  /\ UNCHANGED <<configVars, supplyVars, rewardVars, chainVars, plugin>>

liquidate(liquidator, u) ==
  /\ liquidator # u
  /\ PricesSet
  /\ RatioAtMost(u, liquidationRate)
  /\ updateReward({u, liquidator})
  /\ repayUSD(liquidator, u, userBorrow[u])
  /\ liquidateTokens(u, liquidator)
  /\ liquidatePosition(liquidator, u)
  /\ UNCHANGED <<configVars, plugin>>

-----------------------------------------------------------------------------
(* Owner.                                                                  *)

MigrateStakes(deleted, new) ==
  LET stakedUsers == validatorStakedUsers[deleted]
      deleteAmount == Min({Len(stakedUsers), MigrateStakeLimit})
  IN  /\ Listed(validators, deleted)
      /\ updateReward(Range(SubSeq(stakedUsers, 1, deleteAmount)))
      /\ migrateStakes(deleted, new, deleteAmount)
      /\ UNCHANGED <<configVars, poolVars, plugin>>

setPlugin(isPlugin) ==
  /\ plugin' = isPlugin
  /\ UNCHANGED <<configVars, poolVars, rewardVars, chainVars>>

Configure ==
  /\ \/ \E t \in Collateral : addCollateral(t) \/ disableCollateral(t)
     \/ \E rate \in MCR : setMCR(rate)
     \/ \E rate \in LiquidationRate : setLiquidationRate(rate)
     \/ \E p \in Price : setTokenPrice(p[1], p[2])
  /\ UNCHANGED <<poolVars, rewardVars, chainVars, plugin>>

SetValidators ==
  /\ \E list \in ValidatorLists : setValidators(list)
  /\ UNCHANGED <<configVars, poolVars, rewardVars, plugin>>

Rewarding ==
  /\ \/ \E u \in User : updateReward({u})
     \/ \E u \in User, r \in RewardToken : claimReward(u, r)
     \/ \E r \in RewardToken, t \in Token, amount \in RewardAmount :
          distributeReward(r, t, amount)
     \/ \E r \in RewardToken : addRewardToken(r) \/ removeRewardToken(r)
  /\ UNCHANGED <<configVars, poolVars, chainVars, plugin>>

-----------------------------------------------------------------------------
Init == ConfigInit /\ PoolInit /\ RewardInit /\ ChainInit /\ plugin = FALSE

Next ==
  \/ \E u \in User, t \in Token, amount \in Amount, v \in Validator :
       \/ supply(u, t, amount, v)
       \/ swapAndSupply(u, t, amount, v)
       \/ withdraw(u, t, amount, v)
       \/ withdrawAndDecreaseLiquidity(u, t, amount, v)
  \/ \E u \in User, amount \in Amount : borrow(u, amount) \/ repay(u, amount)
  \/ \E liquidator, u \in User : liquidate(liquidator, u)
  \/ \E from, to \in User, amount \in Amount :
       /\ usdTransfer(from, to, amount)
       /\ UNCHANGED <<configVars, supplyVars, rewardVars, chainVars, plugin>>
  \/ \E deleted, new \in Validator : MigrateStakes(deleted, new)
  \/ \E isPlugin \in Plugin : setPlugin(isPlugin)
  \/ Configure
  \/ SetValidators
  \/ Rewarding

Spec == Init /\ [][Next]_vars

-----------------------------------------------------------------------------
(* Properties.                                                             *)

LendTypeOK ==
  ConfigTypeOK /\ PoolTypeOK /\ RewardTypeOK /\ ChainTypeOK /\ plugin \in BOOLEAN

\* The pool can pay every supplier: it holds the tokens it has recorded, and its total of a
\* token is the sum of what users supplied, through supplies, withdrawals, the Router's
\* liquidity and liquidations.
PoolSolvent ==
  \A t \in Token : /\ held[t] = totalSupply[t]
                   /\ SumsTo(userSupply[t], Users, totalSupply[t])

\* Every TUCUSD is somebody's debt: what exists is the total borrowed, which is the sum of
\* the users' debts and of their balances, whoever repays or liquidates.
UsdIsDebt ==
  /\ usdSupply = totalBorrow
  /\ SumsTo(userBorrow, Users, totalBorrow)
  /\ SumsTo(usd, Users, usdSupply)

\* The stake of a validator in a token is the sum of its users' stakes, and all validators
\* together, listed or not, hold the stake of exactly the tokens in the pool.
StakesConserved ==
  \A t \in Token :
    /\ \A v \in Validator :
         SumsTo([u \in User |-> userStakes[u][v][t]], Users, validatorStakes[v][t])
    /\ SumsTo([v \in Validator |-> validatorStakes[v][t]], Validators, totalSupply[t])

UserStake(u, t) == SumOver([v \in Validator |-> userStakes[u][v][t]], Validator)

\* What a user has staked is what the user has supplied, so that it can be withdrawn, for
\* as long as every stake is at a listed validator: supplies, withdrawals, migrations and
\* liquidations all move the two together.
StakeFollowsSupply ==
  [][(\A u \in User, t \in Token :
        /\ UserStake(u, t) = userSupply[t][u]
        /\ \A v \in Validator : userStakes[u][v][t] # 0 => Listed(validators, v)) =>
     \A u \in User, t \in Token : UserStake(u, t)' = userSupply'[t][u]]_vars

\* A user in debt never ends a step with less of a token than before, unless what is left
\* of that token alone is worth the minimum collateral, up to one unit of rounding.
CollateralKept ==
  [][\A u \in User, t \in Token :
       userSupply'[t][u] < userSupply[t][u] /\ userBorrow'[u] # 0 =>
         ((mcr * getUserBorrowTotalUSD(u)) \div Precision) * TokenUnit
            < (userSupply'[t][u] + 1) * getTokenPrice(t)]_vars

\* Nobody's debt grows by more than getUserMaxBorrowable announced, up to one unit of a
\* value in USD, to which borrow rounds the debt down when it checks the collateral ratio.
\* (While the minimum ratio is zero, getUserMaxBorrowable reverts.)
BorrowIsWithinMax ==
  [][\A u \in User :
       userBorrow'[u] > userBorrow[u] /\ mcr # 0 =>
         (userBorrow'[u] - userBorrow[u] - getUserMaxBorrowable(u)) * Precision < UsdUnit]_vars

\* The Reward contract can pay all that users may claim of a reward token, as long as the
\* token was on the list whenever it had rewards.
RewardSolvent ==
  \A r \in RewardToken \ skipped :
    SumOver([u \in User |-> claimableReward(u, r)], User) <= rewardBalance[r]

\* Lend.migrateStakes: "Migrates staked tokens from a deleted validator to a new
\* validator", "For each whitelisted token".  A validator that a migration takes off the
\* list has no stake of a whitelisted token left.
MigratedValidatorIsEmpty ==
  [][\A deleted, new \in Validator :
       MigrateStakes(deleted, new) /\ ~Listed(validators', deleted) =>
         \A t \in whitelist : validatorStakes'[deleted][t] = 0]_vars
=============================================================================
