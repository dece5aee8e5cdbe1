------------------------------- MODULE Reward -------------------------------
(***************************************************************************)
(* potv: the Reward contract shares reward tokens among the suppliers of a *)
(* collateral token, by an accumulator per reward token and collateral and *)
(* what each user has been paid of it.  Lend calls updateReward before it  *)
(* changes a supply.                                                       *)
(***************************************************************************)
EXTENDS Pool

CONSTANTS
  RewardToken,      \* tokens that may be rewards
  RewardAmount,     \* amounts the owner may distribute
  MaxReward,        \* the owner's balance of each reward token
  InitRewardTokens  \* the reward tokens listed at deployment

VARIABLES
  rewardTokens,            \* listed reward tokens
  rewardPerTokenStored,    \* reward token -> collateral -> accumulator
  userRewardPerTokenPaid,  \* user -> reward token -> collateral -> accumulator
  rewards,                 \* user -> reward token -> amount credited
  rewardBalance,           \* reward token -> the contract's balance
  distributed,             \* reward token -> amount received from the owner
  skipped                  \* reward tokens that were off the list while they had rewards

rewardVars == <<rewardTokens, rewardPerTokenStored, userRewardPerTokenPaid, rewards,
                rewardBalance, distributed, skipped>>

ASSUME RewardAssumption ==
  /\ RewardAmount \subseteq Nat /\ MaxReward \in Nat
  /\ InitRewardTokens \subseteq RewardToken

RewardInit ==
  /\ rewardTokens = InitRewardTokens
  /\ rewardPerTokenStored = [r \in RewardToken |-> [t \in Token |-> 0]]
  /\ userRewardPerTokenPaid = [u \in User |-> [r \in RewardToken |-> [t \in Token |-> 0]]]
  /\ rewards = [u \in User |-> [r \in RewardToken |-> 0]]
  /\ rewardBalance = [r \in RewardToken |-> 0]
  /\ distributed = [r \in RewardToken |-> 0]
  /\ skipped = {}

\* Mutant: the shares of a user are not rounded down one by one.
earnedRounded(u, r) ==
  (SumOver([t \in whitelist |->
              userSupply[t][u] * (rewardPerTokenStored[r][t] - userRewardPerTokenPaid[u][r][t])],
           whitelist) + Precision - 1) \div Precision

earned(u, r) ==
  SumOver([t \in whitelist |->
             (userSupply[t][u] * (rewardPerTokenStored[r][t] - userRewardPerTokenPaid[u][r][t]))
               \div Precision], whitelist)

claimableReward(u, r) == rewards[u][r] + earned(u, r)

\* What updateReward leaves in the two mappings, for the users it is called for.
Credited(users) ==
  [u \in User |-> [r \in RewardToken |->
     IF u \in users /\ r \in rewardTokens THEN claimableReward(u, r) ELSE rewards[u][r]]]

Paid(users) ==
  [u \in User |-> [r \in RewardToken |-> [t \in Token |->
     IF u \in users /\ r \in rewardTokens /\ t \in whitelist
     THEN rewardPerTokenStored[r][t] ELSE userRewardPerTokenPaid[u][r][t]]]]

\* Mutant: the second of two users is forgotten.
updateRewardOfOne(users) ==
  /\ rewards' = Credited({u \in users : \A w \in users : u <= w})
  /\ userRewardPerTokenPaid' = Paid({u \in users : \A w \in users : u <= w})
  /\ UNCHANGED <<rewardTokens, rewardPerTokenStored, rewardBalance, distributed, skipped>>

updateReward(users) ==
  /\ rewards' = Credited(users)
  /\ userRewardPerTokenPaid' = Paid(users)
  /\ UNCHANGED <<rewardTokens, rewardPerTokenStored, rewardBalance, distributed, skipped>>

\* The reward token need not be listed: what was credited before is paid.
claimReward(user, r) ==
  LET reward == Credited({user})[user][r] IN
  /\ rewardBalance[r] >= reward
  /\ rewards' = [Credited({user}) EXCEPT ![user][r] = 0]
  /\ userRewardPerTokenPaid' = Paid({user})
  /\ rewardBalance' = [rewardBalance EXCEPT ![r] = @ - reward]
  /\ UNCHANGED <<rewardTokens, rewardPerTokenStored, distributed, skipped>>

\* The reward tokens that are off the list while their accumulators are not zero.
OffList ==
  {r \in RewardToken \ rewardTokens : \E t \in Token : rewardPerTokenStored[r][t] # 0}

\* One reward token and one collateral: a call with several does them one by one.
distributeReward(r, t, amount) ==
  /\ totalSupply[t] # 0
  /\ distributed[r] + amount <= MaxReward
  /\ rewardPerTokenStored' =
       [rewardPerTokenStored EXCEPT ![r][t] = @ + (amount * Precision) \div totalSupply[t]]
  /\ rewardBalance' = [rewardBalance EXCEPT ![r] = @ + amount]
  /\ distributed' = [distributed EXCEPT ![r] = @ + amount]
  /\ UNCHANGED <<rewardTokens, userRewardPerTokenPaid, rewards>>
  /\ skipped' = skipped \cup OffList'

addRewardToken(r) ==
  /\ rewardTokens' = rewardTokens \cup {r}
  /\ UNCHANGED <<rewardPerTokenStored, userRewardPerTokenPaid, rewards, rewardBalance,
                 distributed, skipped>>

removeRewardToken(r) ==
  /\ rewardTokens' = rewardTokens \ {r}
  /\ UNCHANGED <<rewardPerTokenStored, userRewardPerTokenPaid, rewards, rewardBalance,
                 distributed>>
  /\ skipped' = skipped \cup OffList'

RewardTypeOK ==
  /\ rewardTokens \subseteq RewardToken /\ skipped \subseteq RewardToken
  /\ rewardPerTokenStored \in [RewardToken -> [Token -> Nat]]
  /\ userRewardPerTokenPaid \in [User -> [RewardToken -> [Token -> Nat]]]
  /\ rewards \in [User -> [RewardToken -> Nat]]
  /\ rewardBalance \in [RewardToken -> Nat] /\ distributed \in [RewardToken -> Nat]
=============================================================================
