----------------------------- MODULE LendProofs -----------------------------
(***************************************************************************)
(* The lemmas on the rewards: what users may claim is covered by what was  *)
(* distributed. Then the theorems of Pool, Lend, ChainContract and Reward, *)
(* which combine them with the lemmas of LendLemmas.                       *)
(***************************************************************************)
EXTENDS LendLemmas

\* The provers that try a leaf, one after the other, and the seconds each of them has.
USE SMTT(60), ZenonT(60), Z3T(60)

-----------------------------------------------------------------------------
(* Rewards.                                                                *)

\* A common factor of the values is a factor of the sum.
LEMMA SumOverScale ==
  ASSUME WellOrdered, NEW S, IsFiniteSet(S), NEW f, NEW h, IntValued(f, S), NEW c \in Int,
         \A x \in S : h[x] = c * f[x]
  PROVE  SumOver(h, S) = c * SumOver(f, S)
<1>1. IntValued(h, S)
  BY DEF IntValued
<1> DEFINE P == {T \in SUBSET S : SumOver(h, T) = c * SumOver(f, T)}
<1>2. ASSUME NEW T \in SUBSET S, \A x \in T : T \ {x} \in P
      PROVE  T \in P
  <2>1. CASE T = {}
    BY <2>1, SumOverEmpty
  <2>2. CASE T # {}
    <3>1. PICK x \in T : TRUE
      BY <2>2
    <3> DEFINE U == T \ {x}
    <3>2. SumOver(h, T) = h[x] + SumOver(h, U)
      BY <1>1, <3>1, PartsFinite
    <3>3. SumOver(f, T) = f[x] + SumOver(f, U)
      BY <3>1, PartsFinite
    <3>4. U \in SUBSET S
      OBVIOUS
    <3>5. SumOver(f, U) \in Int
      BY <3>4, PartsFinite
    <3>6. f[x] \in Int /\ h[x] = c * f[x]
      BY <3>1 DEF IntValued
    <3>7. SumOver(h, U) = c * SumOver(f, U)
      BY <1>2, <3>1
    <3> HIDE DEF U
    <3>8. SumOver(h, T) = c * SumOver(f, T)
      BY <3>2, <3>3, <3>5, <3>6, <3>7
    <3> QED
      BY <3>8
  <2> QED
    BY <2>1, <2>2
<1> HIDE DEF P
<1>3. S \in P
  BY <1>2, FiniteSetInduction, ZenonT(90)
<1> QED
  BY <1>3 DEF P

\* A sum over a part of a set is a sum over the set.
LEMMA SumOverPart ==
  ASSUME WellOrdered,
         NEW S, IsFiniteSet(S), NEW T \in SUBSET S, NEW f, IntValued(f, T), NEW h,
         \A x \in S : h[x] = IF x \in T THEN f[x] ELSE 0
  PROVE  IntValued(h, S) /\ SumOver(h, S) = SumOver(f, T)
<1>1. IntValued(h, S) /\ SameOn(h, f, T)
  BY DEF IntValued, SameOn
<1>2. \A x \in S \ T : h[x] = 0
  OBVIOUS
<1>3. SumOver(h, S) = SumOver(h, T)
  BY ZenonT(90), <1>1, <1>2, SumOverRest
<1>4. IsFiniteSet(T)
  BY ZenonT(90), FiniteSubset
<1>5. SumOver(h, T) = SumOver(f, T)
  BY ZenonT(90), <1>1, <1>4, SumOverSame
<1> QED
  BY <1>1, <1>3, <1>5

\* What the accumulators owe a user and have not credited yet, times Precision.
Pending(sup, sto, pd, u, r) ==
  SumOver([t \in Token |-> sup[t][u] * (sto[r][t] - pd[u][r][t])], Token)

\* All that a user may get of a reward token, times Precision, given the credited amounts,
\* the supplies, the accumulators and what was paid of them.
Due(rew, sup, sto, pd, u, r) == Precision * rew[u][r] + Pending(sup, sto, pd, u, r)

Dues(r) ==
  SumOver([u \in User |-> Due(rewards, userSupply, rewardPerTokenStored,
                              userRewardPerTokenPaid, u, r)], User)

RewardInv ==
  /\ RewardTypeOK
  /\ \A u \in User, r \in RewardToken, t \in Token :
       userRewardPerTokenPaid[u][r][t] <= rewardPerTokenStored[r][t]
  /\ \A r \in RewardToken \ (rewardTokens \cup skipped), t \in Token :
       rewardPerTokenStored[r][t] = 0
  /\ \A r \in RewardToken \ skipped : Dues(r) <= Precision * rewardBalance[r]

\* The tokens are finitely many, and so are the users.
LEMMA FiniteTokens ==
  ASSUME LendInv
  PROVE  /\ IsFiniteSet(Token) /\ whitelist \in SUBSET Token /\ IsFiniteSet(User)
         /\ Precision \in Nat \ {0} /\ User = 1..Users /\ Users \in Nat
<1>1. IsFiniteSet(User)
  BY ConfigAssumption, FiniteInterval DEF User
<1> QED
  BY <1>1, ConfigAssumption DEF LendInv, ConfigTypeOK, User

\* What a token owes a user is a number.
LEMMA TermIsNat ==
  ASSUME RewardInv, NEW sup \in [Token -> [User -> Nat]], NEW u \in User, NEW r \in RewardToken,
         NEW t \in Token
  PROVE  /\ rewardPerTokenStored[r][t] \in Nat /\ userRewardPerTokenPaid[u][r][t] \in Nat
         /\ userRewardPerTokenPaid[u][r][t] <= rewardPerTokenStored[r][t]
         /\ sup[t][u] \in Nat /\ rewards[u][r] \in Nat
         /\ sup[t][u] * (rewardPerTokenStored[r][t] - userRewardPerTokenPaid[u][r][t]) \in Nat
<1>1. /\ rewardPerTokenStored[r][t] \in Nat /\ userRewardPerTokenPaid[u][r][t] \in Nat
      /\ sup[t][u] \in Nat /\ rewards[u][r] \in Nat
  BY DEF RewardInv, RewardTypeOK
<1>2. userRewardPerTokenPaid[u][r][t] <= rewardPerTokenStored[r][t]
  BY DEF RewardInv
<1> DEFINE d == rewardPerTokenStored[r][t] - userRewardPerTokenPaid[u][r][t]
<1>3. d \in Nat
  BY <1>1, <1>2
<1> HIDE DEF d
<1>4. sup[t][u] * d \in Nat
  BY <1>1, <1>3
<1> QED
  BY <1>1, <1>2, <1>4 DEF d

\* The shares of a user, each rounded down, and what tokens off the whitelist owe are no more
\* than what all tokens owe.
LEMMA EarnedWithin ==
  ASSUME WellOrdered, LendInv, RewardInv, NEW u \in User, NEW r \in RewardToken
  PROVE  LET term == [t \in Token |-> userSupply[t][u]
                        * (rewardPerTokenStored[r][t] - userRewardPerTokenPaid[u][r][t])]
             rest == [t \in Token |-> IF t \in whitelist THEN 0 ELSE term[t]]
         IN  /\ earned(u, r) \in Nat
             /\ SumOver(term, Token) \in Nat /\ SumOver(rest, Token) \in Nat
             /\ Precision * earned(u, r) + SumOver(rest, Token) <= SumOver(term, Token)
<1> DEFINE Term(t) == userSupply[t][u]
                        * (rewardPerTokenStored[r][t] - userRewardPerTokenPaid[u][r][t])
           term == [t \in Token |-> Term(t)]
           rest == [t \in Token |-> IF t \in whitelist THEN 0 ELSE term[t]]
           part == [t \in whitelist |-> Term(t) \div Precision]
           share == [t \in Token |-> IF t \in whitelist THEN part[t] ELSE 0]
           scaled == [t \in Token |-> Precision * share[t]]
           both == [t \in Token |-> scaled[t] + rest[t]]
<1>1. earned(u, r) = SumOver(part, whitelist)
  BY ZenonT(90) DEF earned
<1>2. IsFiniteSet(Token) /\ whitelist \in SUBSET Token /\ Precision \in Nat \ {0}
  BY ZenonT(90), FiniteTokens
<1>3. \A t \in Token : Term(t) \in Nat
  BY ZenonT(90), TermIsNat DEF LendInv, SupplyInv
<1> HIDE DEF Term
<1>4. \A t \in Token : Term(t) \div Precision \in Nat /\ Precision * (Term(t) \div Precision) <= Term(t)
  BY <1>2, <1>3
<1>5. /\ \A t \in Token : term[t] = Term(t)
      /\ \A t \in Token : rest[t] = IF t \in whitelist THEN 0 ELSE term[t]
      /\ \A t \in whitelist : part[t] = Term(t) \div Precision
      /\ \A t \in Token : share[t] = IF t \in whitelist THEN part[t] ELSE 0
      /\ \A t \in Token : scaled[t] = Precision * share[t]
      /\ \A t \in Token : both[t] = scaled[t] + rest[t]
  BY <1>2
<1> HIDE DEF term, rest, part, share, scaled, both
<1>6. \A t \in Token : term[t] \in Nat /\ rest[t] \in Nat /\ share[t] \in Nat
  <2> SUFFICES ASSUME NEW t \in Token
               PROVE  term[t] \in Nat /\ rest[t] \in Nat /\ share[t] \in Nat
    OBVIOUS
  <2>0. 0 \in Nat
    OBVIOUS
  <2>1. term[t] \in Nat
    BY ZenonT(90), <1>3, <1>5
  <2>2. rest[t] \in Nat
    BY ZenonT(90), <2>0, <2>1, <1>5
  <2>3. CASE t \in whitelist
    <3>1. part[t] \in Nat
      BY ZenonT(90), <2>3, <1>4, <1>5
    <3>2. share[t] = part[t]
      BY ZenonT(90), <2>3, <1>5
    <3> QED
      BY ZenonT(90), <2>1, <2>2, <3>1, <3>2
  <2>4. CASE t \notin whitelist
    <3>1. share[t] = 0
      BY ZenonT(90), <2>4, <1>5
    <3> QED
      BY ZenonT(90), <2>0, <2>1, <2>2, <3>1
  <2> QED
    BY ZenonT(90), <2>3, <2>4
<1>7. \A t \in Token : scaled[t] \in Nat /\ both[t] \in Nat /\ both[t] <= term[t]
  <2> SUFFICES ASSUME NEW t \in Token
               PROVE  scaled[t] \in Nat /\ both[t] \in Nat /\ both[t] <= term[t]
    OBVIOUS
  <2>1. CASE t \in whitelist
    <3>1. rest[t] = 0 /\ share[t] = Term(t) \div Precision
      BY <1>5, <2>1
    <3>2. scaled[t] \in Nat /\ scaled[t] <= term[t]
      BY <1>2, <1>4, <1>5, <1>6, <3>1
    <3> QED
      BY <1>5, <1>6, <3>1, <3>2
  <2>2. CASE t \notin whitelist
    <3>1. rest[t] = term[t] /\ scaled[t] = 0
      BY <1>2, <1>5, <2>2
    <3> QED
      BY <1>5, <1>6, <3>1
  <2> QED
    BY <2>1, <2>2
<1>8. /\ IntValued(part, whitelist) /\ IntValued(share, Token) /\ NatValued(share, Token)
      /\ IntValued(scaled, Token) /\ NatValued(rest, Token) /\ IntValued(rest, Token)
      /\ IntValued(both, Token) /\ NatValued(term, Token) /\ IntValued(term, Token)
  <2>1. /\ NatValued(share, Token) /\ NatValued(rest, Token) /\ NatValued(term, Token)
    BY ZenonT(90), <1>6 DEF NatValued
  <2>2. \A t \in Token : /\ share[t] \in Int /\ scaled[t] \in Int /\ rest[t] \in Int
                         /\ both[t] \in Int /\ term[t] \in Int
    BY <1>6, <1>7
  <2>3. IntValued(part, whitelist)
    BY <1>2, <1>4, <1>5 DEF IntValued
  <2> QED
    BY ZenonT(90), <2>1, <2>2, <2>3 DEF IntValued
<1>9. SumOver(share, Token) = SumOver(part, whitelist)
  <2>1. \A t \in Token : share[t] = IF t \in whitelist THEN part[t] ELSE 0
    BY ZenonT(90), <1>5
  <2>2. IsFiniteSet(Token) /\ whitelist \in SUBSET Token /\ IntValued(part, whitelist)
    BY ZenonT(90), <1>2, <1>8
  <2> QED
    BY ZenonT(90), <2>1, <2>2, SumOverPart
<1>10. Precision \in Int
  BY <1>2
<1>11. SumOver(scaled, Token) = Precision * SumOver(share, Token)
  BY ZenonT(90), <1>2, <1>5, <1>8, <1>10, SumOverScale
<1>12. SumOver(both, Token) = SumOver(scaled, Token) + SumOver(rest, Token)
  BY ZenonT(90), <1>2, <1>5, <1>8, SumOverPlus
<1>13. SumOver(both, Token) <= SumOver(term, Token)
  BY ZenonT(90), <1>2, <1>7, <1>8, SumOverMonotone
<1>14. SumOver(share, Token) \in Nat /\ SumOver(term, Token) \in Nat /\ SumOver(rest, Token) \in Nat
  BY ZenonT(90), <1>2, <1>8, SumOverNat
<1>15. /\ earned(u, r) \in Nat
       /\ Precision * earned(u, r) + SumOver(rest, Token) <= SumOver(term, Token)
  BY ZenonT(90), <1>1, <1>9, <1>11, <1>12, <1>13, <1>14
<1> QED
  BY ZenonT(90), <1>14, <1>15 DEF term, rest, Term

\* The supplies after updateReward was called for some users: the others' are the same, and
\* those of tokens off the whitelist have not grown.
SuppliesAfter(sup, users) ==
  /\ \A u \in User \ users, t \in Token : sup[t][u] = userSupply[t][u]
  /\ \A u \in User, t \in Token \ whitelist : sup[t][u] <= userSupply[t][u]

\* What updateReward writes keeps its type, and pays no more than was stored.
LEMMA CreditedTyped ==
  ASSUME WellOrdered, LendInv, RewardInv, NEW users
  PROVE  /\ Credited(users) \in [User -> [RewardToken -> Nat]]
         /\ Paid(users) \in [User -> [RewardToken -> [Token -> Nat]]]
         /\ \A u \in User, r \in RewardToken, t \in Token :
              Paid(users)[u][r][t] <= rewardPerTokenStored[r][t]
<1>1. \A u \in User, r \in RewardToken : rewards[u][r] \in Nat
  BY DEF RewardInv, RewardTypeOK
<1>2. \A u \in User, r \in RewardToken : earned(u, r) \in Nat
  BY ZenonT(90), EarnedWithin
<1>3. \A u \in User, r \in RewardToken : claimableReward(u, r) \in Nat
  BY <1>1, <1>2 DEF claimableReward
<1>4. Credited(users) \in [User -> [RewardToken -> Nat]]
  BY <1>1, <1>3 DEF Credited
<1>5. \A u \in User, r \in RewardToken, t \in Token :
        /\ rewardPerTokenStored[r][t] \in Nat /\ userRewardPerTokenPaid[u][r][t] \in Nat
        /\ userRewardPerTokenPaid[u][r][t] <= rewardPerTokenStored[r][t]
  BY DEF RewardInv, RewardTypeOK
<1>6. /\ Paid(users) \in [User -> [RewardToken -> [Token -> Nat]]]
      /\ \A u \in User, r \in RewardToken, t \in Token :
           Paid(users)[u][r][t] <= rewardPerTokenStored[r][t]
  BY <1>5 DEF Paid
<1> QED
  BY <1>4, <1>6

\* updateReward gives nobody more than was due.
LEMMA DueFalls ==
  ASSUME WellOrdered, LendInv, RewardInv, NEW users, NEW sup \in [Token -> [User -> Nat]],
         SuppliesAfter(sup, users), NEW u \in User, NEW r \in RewardToken \ skipped
  PROVE  /\ Due(Credited(users), sup, rewardPerTokenStored, Paid(users), u, r) \in Nat
         /\ Due(rewards, userSupply, rewardPerTokenStored, userRewardPerTokenPaid, u, r) \in Nat
         /\ Due(Credited(users), sup, rewardPerTokenStored, Paid(users), u, r)
              <= Due(rewards, userSupply, rewardPerTokenStored, userRewardPerTokenPaid, u, r)
<1> DEFINE term == [t \in Token |-> userSupply[t][u]
                      * (rewardPerTokenStored[r][t] - userRewardPerTokenPaid[u][r][t])]
           rest == [t \in Token |-> IF t \in whitelist THEN 0 ELSE term[t]]
           after == [t \in Token |-> sup[t][u] * (rewardPerTokenStored[r][t] - Paid(users)[u][r][t])]
<1>1. /\ earned(u, r) \in Nat /\ SumOver(term, Token) \in Nat /\ SumOver(rest, Token) \in Nat
      /\ Precision * earned(u, r) + SumOver(rest, Token) <= SumOver(term, Token)
  BY ZenonT(90), EarnedWithin
<1>2. IsFiniteSet(Token) /\ Precision \in Nat \ {0} /\ rewards[u][r] \in Nat
  BY FiniteTokens DEF RewardInv, RewardTypeOK
<1>3. userSupply \in [Token -> [User -> Nat]]
  BY DEF LendInv, SupplyInv
<1>4. \A t \in Token :
        /\ rewardPerTokenStored[r][t] \in Nat /\ userRewardPerTokenPaid[u][r][t] \in Nat
        /\ userRewardPerTokenPaid[u][r][t] <= rewardPerTokenStored[r][t]
        /\ userSupply[t][u] \in Nat /\ sup[t][u] \in Nat /\ term[t] \in Nat
  BY ZenonT(90), <1>3, TermIsNat
<1>5. \A t \in Token :
        Paid(users)[u][r][t] = IF u \in users /\ r \in rewardTokens /\ t \in whitelist
                               THEN rewardPerTokenStored[r][t] ELSE userRewardPerTokenPaid[u][r][t]
  BY DEF Paid
<1>6. Credited(users)[u][r] = IF u \in users /\ r \in rewardTokens
                              THEN rewards[u][r] + earned(u, r) ELSE rewards[u][r]
  BY DEF Credited, claimableReward
<1>7. /\ \A t \in Token : after[t] = sup[t][u] * (rewardPerTokenStored[r][t] - Paid(users)[u][r][t])
      /\ \A t \in Token : term[t] = userSupply[t][u]
                            * (rewardPerTokenStored[r][t] - userRewardPerTokenPaid[u][r][t])
      /\ \A t \in Token : rest[t] = IF t \in whitelist THEN 0 ELSE term[t]
  OBVIOUS
<1>8. /\ Due(Credited(users), sup, rewardPerTokenStored, Paid(users), u, r)
           = Precision * Credited(users)[u][r] + SumOver(after, Token)
      /\ Due(rewards, userSupply, rewardPerTokenStored, userRewardPerTokenPaid, u, r)
           = Precision * rewards[u][r] + SumOver(term, Token)
  BY ZenonT(90) DEF Due, Pending
<1> HIDE DEF term, rest, after
<1>9. \A t \in Token : after[t] \in Nat
  <2> SUFFICES ASSUME NEW t \in Token  PROVE after[t] \in Nat
    OBVIOUS
  <2> DEFINE d == rewardPerTokenStored[r][t] - Paid(users)[u][r][t]
  <2>1. d \in Nat
    BY <1>4, <1>5
  <2> HIDE DEF d
  <2>2. sup[t][u] * d \in Nat
    BY <1>4, <2>1
  <2> QED
    BY <1>7, <2>2 DEF d
<1>10. /\ NatValued(after, Token) /\ IntValued(after, Token) /\ IntValued(term, Token)
       /\ IntValued(rest, Token)
  BY <1>4, <1>7, <1>9 DEF NatValued, IntValued
<1>11. SumOver(after, Token) \in Nat
  BY ZenonT(90), <1>2, <1>10, SumOverNat
<1>12. CASE u \in users /\ r \in rewardTokens
  <2>1. ASSUME NEW t \in Token  PROVE after[t] <= rest[t]
    <3>1. CASE t \in whitelist
      BY <1>4, <1>5, <1>7, <1>12, <3>1
    <3>2. CASE t \notin whitelist
      <4> DEFINE d == rewardPerTokenStored[r][t] - userRewardPerTokenPaid[u][r][t]
      <4>1. d \in Nat /\ sup[t][u] <= userSupply[t][u]
        BY <1>4, <3>2 DEF SuppliesAfter
      <4>2. after[t] = sup[t][u] * d /\ rest[t] = userSupply[t][u] * d
        BY ZenonT(90), <1>5, <1>7, <3>2
      <4> HIDE DEF d
      <4>3. sup[t][u] \in Int /\ userSupply[t][u] \in Int
        BY <1>4
      <4>4. sup[t][u] * d <= userSupply[t][u] * d
        BY ZenonT(90), <4>1, <4>3, ProductGrows
      <4> QED
        BY <4>2, <4>4
    <3> QED
      BY ZenonT(90), <3>1, <3>2
  <2>2. SumOver(after, Token) <= SumOver(rest, Token)
    BY ZenonT(90), <1>2, <1>10, <2>1, SumOverMonotone
  <2>3. Credited(users)[u][r] = rewards[u][r] + earned(u, r)
    BY <1>6, <1>12
  <2>4. /\ Precision * (rewards[u][r] + earned(u, r))
             = Precision * rewards[u][r] + Precision * earned(u, r)
        /\ Precision * rewards[u][r] \in Nat /\ Precision * earned(u, r) \in Nat
    BY <1>1, <1>2
  <2> QED
    BY <1>1, <1>8, <1>11, <2>2, <2>3, <2>4
<1>13. CASE ~(u \in users /\ r \in rewardTokens)
  <2>1. ASSUME NEW t \in Token  PROVE after[t] <= term[t]
    <3>1. Paid(users)[u][r][t] = userRewardPerTokenPaid[u][r][t]
      BY ZenonT(90), <1>5, <1>13
    <3>2. CASE r \in rewardTokens
      <4>1. sup[t][u] = userSupply[t][u]
        BY ZenonT(90), <1>13, <3>2 DEF SuppliesAfter
      <4> QED
        BY <1>4, <1>7, <3>1, <4>1
    <3>3. CASE r \notin rewardTokens
      <4>1. rewardPerTokenStored[r][t] = 0
        BY <3>3 DEF RewardInv
      <4>2. userRewardPerTokenPaid[u][r][t] = 0
        BY <1>4, <4>1
      <4>3. after[t] = sup[t][u] * (0 - 0)
        BY ZenonT(90), <1>7, <3>1, <4>1, <4>2
      <4>4. after[t] = 0
        BY <1>4, <4>3
      <4> QED
        BY <1>4, <4>4
    <3> QED
      BY ZenonT(90), <3>2, <3>3
  <2>2. SumOver(after, Token) <= SumOver(term, Token)
    BY ZenonT(90), <1>2, <1>10, <2>1, SumOverMonotone
  <2>3. Credited(users)[u][r] = rewards[u][r]
    BY ZenonT(90), <1>6, <1>13
  <2>4. Precision * rewards[u][r] \in Nat
    BY <1>2
  <2> QED
    BY <1>1, <1>8, <1>11, <2>2, <2>3, <2>4
<1> QED
  BY <1>12, <1>13

\* The dues after updateReward are no more than before.
LEMMA DuesFall ==
  ASSUME WellOrdered, LendInv, RewardInv, NEW users, NEW sup \in [Token -> [User -> Nat]],
         SuppliesAfter(sup, users), NEW r \in RewardToken \ skipped
  PROVE  LET now == [u \in User |-> Due(Credited(users), sup, rewardPerTokenStored,
                                        Paid(users), u, r)]
         IN  /\ IntValued(now, User) /\ SumOver(now, User) \in Int
             /\ SumOver(now, User) <= Precision * rewardBalance[r]
<1> DEFINE now == [u \in User |-> Due(Credited(users), sup, rewardPerTokenStored,
                                      Paid(users), u, r)]
           old == [u \in User |-> Due(rewards, userSupply, rewardPerTokenStored,
                                      userRewardPerTokenPaid, u, r)]
<1>1. \A u \in User : now[u] \in Nat /\ old[u] \in Nat /\ now[u] <= old[u]
  BY ZenonT(90), DueFalls
<1>2. SumOver(old, User) <= Precision * rewardBalance[r]
  BY ZenonT(90) DEF RewardInv, Dues
<1> HIDE DEF now, old
<1>3. IntValued(now, User) /\ IntValued(old, User) /\ IsFiniteSet(User)
  BY <1>1, FiniteTokens DEF IntValued
<1>4. SumOver(now, User) <= SumOver(old, User)
  BY ZenonT(90), <1>1, <1>3, SumOverMonotone
<1>5. SumOver(now, User) \in Int /\ SumOver(old, User) \in Int
  BY ZenonT(90), <1>3, SumOverInt
<1>6. Precision * rewardBalance[r] \in Int
  <2>1. Precision \in Nat /\ rewardBalance[r] \in Nat
    BY FiniteTokens DEF RewardInv, RewardTypeOK
  <2> QED
    BY <2>1
<1>7. SumOver(now, User) <= Precision * rewardBalance[r]
  <2> DEFINE b == Precision * rewardBalance[r]
  <2> HIDE DEF b
  <2>1. b \in Int /\ SumOver(old, User) <= b
    BY ZenonT(90), <1>2, <1>6 DEF b
  <2>2. SumOver(now, User) <= b
    BY <1>4, <1>5, <2>1
  <2> QED
    BY ZenonT(90), <2>2 DEF b
<1> QED
  BY ZenonT(90), <1>3, <1>5, <1>7 DEF now

\* A step that updates the rewards of some users, and may change the supplies of these.
LEMMA UpdateStep ==
  ASSUME WellOrdered, LendInv, RewardInv, NEW users, updateReward(users),
         userSupply' \in [Token -> [User -> Nat]], SuppliesAfter(userSupply', users)
  PROVE  RewardInv'
<1>1. /\ rewards' = Credited(users) /\ userRewardPerTokenPaid' = Paid(users)
      /\ UNCHANGED <<rewardTokens, rewardPerTokenStored, rewardBalance, distributed, skipped>>
  BY DEF updateReward
<1>2. /\ Credited(users) \in [User -> [RewardToken -> Nat]]
      /\ Paid(users) \in [User -> [RewardToken -> [Token -> Nat]]]
      /\ \A u \in User, r \in RewardToken, t \in Token :
           Paid(users)[u][r][t] <= rewardPerTokenStored[r][t]
  BY ZenonT(90), CreditedTyped
<1>3. RewardTypeOK'
  BY <1>1, <1>2 DEF RewardInv, RewardTypeOK
<1>4. ASSUME NEW r \in RewardToken \ skipped  PROVE Dues(r)' <= Precision * rewardBalance[r]
  BY ZenonT(90), <1>1, DuesFall DEF Dues
<1>5. \A r \in RewardToken \ skipped' : Dues(r)' <= Precision * rewardBalance'[r]
  BY ZenonT(90), <1>1, <1>4
<1>6. \A r \in RewardToken \ (rewardTokens' \cup skipped'), t \in Token :
        rewardPerTokenStored'[r][t] = 0
  BY ZenonT(90), <1>1 DEF RewardInv
<1> QED
  BY ZenonT(90), <1>1, <1>2, <1>3, <1>5, <1>6 DEF RewardInv

\* What a user claims is no longer due, and leaves the balance.
LEMMA ClaimStep ==
  ASSUME WellOrdered, LendInv, RewardInv, NEW user \in User, NEW q \in RewardToken,
         claimReward(user, q), UNCHANGED userSupply
  PROVE  RewardInv'
<1> DEFINE credited == Credited({user})
           paid == Paid({user})
           reward == credited[user][q]
<1>1. /\ rewardBalance[q] >= reward
      /\ rewards' = [credited EXCEPT ![user][q] = 0]
      /\ userRewardPerTokenPaid' = paid
      /\ rewardBalance' = [rewardBalance EXCEPT ![q] = rewardBalance[q] - reward]
      /\ UNCHANGED <<rewardTokens, rewardPerTokenStored, distributed, skipped>>
  BY ZenonT(90) DEF claimReward
<1>2. /\ credited \in [User -> [RewardToken -> Nat]]
      /\ paid \in [User -> [RewardToken -> [Token -> Nat]]]
      /\ \A u \in User, r \in RewardToken, t \in Token :
           paid[u][r][t] <= rewardPerTokenStored[r][t]
  BY ZenonT(90), CreditedTyped
<1>3. \A r \in RewardToken \ skipped :
        LET now == [u \in User |-> Due(credited, userSupply, rewardPerTokenStored,
                                       paid, u, r)]
        IN  /\ IntValued(now, User) /\ SumOver(now, User) \in Int
            /\ SumOver(now, User) <= Precision * rewardBalance[r]
  <2>1. userSupply \in [Token -> [User -> Nat]] /\ SuppliesAfter(userSupply, {user})
    BY DEF LendInv, SupplyInv, SuppliesAfter
  <2> QED
    BY ZenonT(90), <2>1, DuesFall
<1>4. IsFiniteSet(User) /\ Precision \in Nat
  BY FiniteTokens
<1> HIDE DEF credited, paid
<1>5. /\ rewards' \in [User -> [RewardToken -> Nat]] /\ rewards'[user][q] = 0
      /\ \A u \in User, r \in RewardToken :
           u # user \/ r # q => rewards'[u][r] = credited[u][r]
  BY <1>1, <1>2
<1>6. reward \in Nat /\ \A r \in RewardToken : rewardBalance[r] \in Nat
  BY <1>2 DEF RewardInv, RewardTypeOK
<1>7. /\ rewardBalance' \in [RewardToken -> Nat] /\ rewardBalance'[q] = rewardBalance[q] - reward
      /\ \A r \in RewardToken \ {q} : rewardBalance'[r] = rewardBalance[r]
  BY <1>1, <1>6 DEF RewardInv, RewardTypeOK
<1>8. RewardTypeOK'
  BY ZenonT(90), <1>1, <1>2, <1>5, <1>7 DEF RewardInv, RewardTypeOK
<1>9. ASSUME NEW r \in RewardToken \ skipped  PROVE Dues(r)' <= Precision * rewardBalance'[r]
  <2> DEFINE now == [u \in User |-> Due(credited, userSupply, rewardPerTokenStored,
                                        paid, u, r)]
             next == [u \in User |-> Due(rewards', userSupply, rewardPerTokenStored,
                                         paid, u, r)]
             pending == [u \in User |-> Pending(userSupply, rewardPerTokenStored, paid, u, r)]
  <2>1. Dues(r)' = SumOver(next, User)
    BY ZenonT(90), <1>1 DEF Dues
  <2>2. IntValued(now, User) /\ SumOver(now, User) \in Int
    BY ZenonT(90), <1>3
  <2>3. SumOver(now, User) <= Precision * rewardBalance[r]
    BY ZenonT(90), <1>3
  <2>4. \A u \in User : /\ now[u] = Precision * credited[u][r] + pending[u]
                        /\ next[u] = Precision * rewards'[u][r] + pending[u]
    BY ZenonT(90) DEF Due
  <2> HIDE DEF now, next, pending, reward
  <2>5. CASE r # q
    <3>1. SameOn(next, now, User)
      BY <1>5, <2>4, <2>5 DEF SameOn
    <3>2. SumOver(next, User) = SumOver(now, User)
      BY ZenonT(90), <1>4, <3>1, SumOverSame
    <3> QED
      BY ZenonT(90), <1>7, <2>1, <2>3, <2>5, <3>2
  <2>6. CASE r = q
    <3>1. SameOn(now, next, User \ {user})
      BY <1>5, <2>4 DEF SameOn
    <3>2. now[user] = Precision * reward + pending[user] /\ next[user] = Precision * 0 + pending[user]
      BY <1>5, <2>4, <2>6 DEF reward
    <3>3. now[user] \in Int /\ Precision * reward \in Nat /\ Precision * 0 = 0
      BY <1>4, <1>6, <2>2 DEF IntValued
    <3>4. next[user] - now[user] = 0 - Precision * reward /\ next[user] \in Int
      <4>1. pending[user] \in Int
        <5>1. Pending(userSupply, rewardPerTokenStored, paid, user, r) \in Int
          <6> DEFINE f == [t \in Token |-> userSupply[t][user]
                             * (rewardPerTokenStored[r][t] - paid[user][r][t])]
          <6>1. ASSUME NEW t \in Token  PROVE f[t] \in Int
            <7>1. userSupply[t][user] \in Nat
              BY DEF LendInv, SupplyInv
            <7>2. rewardPerTokenStored[r][t] \in Nat
              BY DEF RewardInv, RewardTypeOK
            <7>3. paid[user][r][t] \in Nat
              BY <1>2
            <7> QED
              BY <7>1, <7>2, <7>3
          <6>2. IntValued(f, Token)
            BY ZenonT(90), <6>1 DEF IntValued
          <6> QED
            BY ZenonT(90), <6>2, FiniteTokens, SumOverInt DEF Pending
        <5> QED
          BY <5>1 DEF pending
      <4> QED
        BY <3>2, <3>3, <4>1
    <3>5. IntValued(next, User)
      BY <2>2, <3>1, <3>4 DEF IntValued, SameOn
    <3>6. SumChangesAt(now, next, User, user)
      BY ZenonT(90), <1>4, <2>2, <3>1, <3>5, SumOverChange
    <3>7. SumOver(next, User) = SumOver(now, User) - Precision * reward
      BY <2>2, <3>3, <3>4, <3>6 DEF SumChangesAt
    <3>8. Precision * (rewardBalance[q] - reward) = Precision * rewardBalance[q] - Precision * reward
      BY <1>4, <1>6
    <3>9. Precision * rewardBalance[q] \in Int
      BY <1>4, <1>6
    <3> QED
      BY <1>7, <2>1, <2>2, <2>3, <2>6, <3>3, <3>7, <3>8, <3>9
  <2> QED
    BY <2>5, <2>6
<1>10. \A r \in RewardToken \ (rewardTokens' \cup skipped'), t \in Token :
         rewardPerTokenStored'[r][t] = 0
  BY ZenonT(90), <1>1 DEF RewardInv
<1> QED
  BY ZenonT(90), <1>1, <1>2, <1>8, <1>9, <1>10 DEF RewardInv

\* What is due to each user is a number.
LEMMA DueIsNat ==
  ASSUME WellOrdered, LendInv, RewardInv, NEW u \in User, NEW r \in RewardToken \ skipped
  PROVE  Due(rewards, userSupply, rewardPerTokenStored, userRewardPerTokenPaid, u, r) \in Nat
<1>1. userSupply \in [Token -> [User -> Nat]] /\ SuppliesAfter(userSupply, {})
  BY DEF LendInv, SupplyInv, SuppliesAfter
<1> QED
  BY ZenonT(90), <1>1, DueFalls

\* A distribution adds to what is due to a user the user's share.
LEMMA DueGrows ==
  ASSUME WellOrdered,
         LendInv, RewardInv, NEW r \in RewardToken, NEW t \in Token, NEW d \in Nat, NEW sto,
         sto[r][t] = rewardPerTokenStored[r][t] + d,
         \A s \in Token \ {t} : sto[r][s] = rewardPerTokenStored[r][s],
         NEW u \in User
  PROVE  Due(rewards, userSupply, sto, userRewardPerTokenPaid, u, r)
           = Due(rewards, userSupply, rewardPerTokenStored, userRewardPerTokenPaid, u, r)
               + d * userSupply[t][u]
<1> DEFINE old == [s \in Token |-> userSupply[s][u]
                     * (rewardPerTokenStored[r][s] - userRewardPerTokenPaid[u][r][s])]
           new == [s \in Token |-> userSupply[s][u] * (sto[r][s] - userRewardPerTokenPaid[u][r][s])]
<1>1. \A s \in Token : /\ userSupply[s][u] \in Nat /\ rewardPerTokenStored[r][s] \in Nat
                       /\ userRewardPerTokenPaid[u][r][s] \in Nat /\ rewards[u][r] \in Nat
  BY DEF LendInv, SupplyInv, RewardInv, RewardTypeOK
<1>2. IntValued(old, Token) /\ IntValued(new, Token) /\ SameOn(old, new, Token \ {t})
  BY <1>1 DEF IntValued, SameOn
<1>3. new[t] - old[t] = d * userSupply[t][u]
  <2> DEFINE s == userSupply[t][u]
             a == rewardPerTokenStored[r][t]
             p == userRewardPerTokenPaid[u][r][t]
  <2>1. s \in Nat /\ a \in Nat /\ p \in Nat
    BY <1>1
  <2>2. new[t] = s * ((a + d) - p) /\ old[t] = s * (a - p)
    OBVIOUS
  <2> HIDE DEF s, a, p, new, old
  <2>3. s * ((a + d) - p) - s * (a - p) = d * s
    BY <2>1
  <2>4. new[t] - old[t] = d * s
    BY <2>2, <2>3
  <2> QED
    BY <2>4 DEF s
<1> HIDE DEF old, new
<1>4. SumChangesAt(old, new, Token, t)
  BY ZenonT(90), <1>2, FiniteTokens, SumOverChange
<1>5. SumOver(old, Token) \in Int /\ Precision * rewards[u][r] \in Int /\ d * userSupply[t][u] \in Int
  <2>1. SumOver(old, Token) \in Int
    BY ZenonT(90), <1>2, FiniteTokens, SumOverInt
  <2> QED
    BY <1>1, <2>1, FiniteTokens
<1>6. SumOver(new, Token) = SumOver(old, Token) + d * userSupply[t][u]
  BY <1>3, <1>4 DEF SumChangesAt
<1>7. /\ Due(rewards, userSupply, sto, userRewardPerTokenPaid, u, r)
           = Precision * rewards[u][r] + SumOver(new, Token)
      /\ Due(rewards, userSupply, rewardPerTokenStored, userRewardPerTokenPaid, u, r)
           = Precision * rewards[u][r] + SumOver(old, Token)
  BY ZenonT(90) DEF Due, Pending, new, old
<1> QED
  BY <1>5, <1>6, <1>7

\* A distribution adds no more to what is due than it adds to the balance.
LEMMA DistributeStep ==
  ASSUME WellOrdered,
         LendInv, RewardInv, NEW q \in RewardToken, NEW t \in Token, NEW amount \in Nat,
         distributeReward(q, t, amount), UNCHANGED userSupply
  PROVE  RewardInv'
<1> DEFINE d == (amount * Precision) \div totalSupply[t]
<1>1. /\ totalSupply[t] # 0
      /\ rewardPerTokenStored' =
           [rewardPerTokenStored EXCEPT ![q][t] = rewardPerTokenStored[q][t] + d]
      /\ rewardBalance' = [rewardBalance EXCEPT ![q] = rewardBalance[q] + amount]
      /\ distributed' = [distributed EXCEPT ![q] = distributed[q] + amount]
      /\ UNCHANGED <<rewardTokens, userRewardPerTokenPaid, rewards>>
      /\ skipped' = skipped \cup OffList'
  BY ZenonT(90) DEF distributeReward
<1>2. /\ IsFiniteSet(User) /\ Precision \in Nat \ {0} /\ totalSupply[t] \in Nat
      /\ userSupply[t] \in [User -> Nat] /\ SumOver(userSupply[t], User) = totalSupply[t]
  BY ZenonT(90), FiniteTokens DEF LendInv, SupplyInv, PoolSolvent, SumsTo
<1>3. d \in Nat /\ d * totalSupply[t] <= amount * Precision /\ amount * Precision \in Nat
  <2>1. amount * Precision \in Nat
    BY <1>2
  <2> DEFINE x == amount * Precision
  <2> HIDE DEF x
  <2>2. \A n \in Nat \ {0} : x \in Nat => x \div n \in Nat /\ (x \div n) * n <= x
    OBVIOUS
  <2> QED
    BY ZenonT(90), <1>1, <1>2, <2>1, <2>2 DEF x
<1> HIDE DEF d
<1>4. /\ rewardPerTokenStored \in [RewardToken -> [Token -> Nat]]
      /\ rewardBalance \in [RewardToken -> Nat] /\ distributed \in [RewardToken -> Nat]
      /\ userRewardPerTokenPaid \in [User -> [RewardToken -> [Token -> Nat]]]
      /\ rewards \in [User -> [RewardToken -> Nat]]
      /\ rewardTokens \subseteq RewardToken /\ skipped \subseteq RewardToken
  BY DEF RewardInv, RewardTypeOK
<1>5. /\ rewardPerTokenStored' \in [RewardToken -> [Token -> Nat]]
      /\ rewardPerTokenStored'[q][t] = rewardPerTokenStored[q][t] + d
      /\ \A r \in RewardToken, s \in Token :
           r # q \/ s # t => rewardPerTokenStored'[r][s] = rewardPerTokenStored[r][s]
  BY <1>1, <1>3, <1>4
<1>6. /\ rewardBalance' \in [RewardToken -> Nat] /\ distributed' \in [RewardToken -> Nat]
      /\ rewardBalance'[q] = rewardBalance[q] + amount
      /\ \A r \in RewardToken \ {q} : rewardBalance'[r] = rewardBalance[r]
  BY <1>1, <1>4
<1>7. skipped' \subseteq RewardToken /\ skipped \subseteq skipped'
  BY <1>1, <1>4 DEF OffList
<1>8. RewardTypeOK'
  BY ZenonT(90), <1>1, <1>4, <1>5, <1>6, <1>7 DEF RewardTypeOK
<1>9. \A u \in User, r \in RewardToken, s \in Token :
        userRewardPerTokenPaid'[u][r][s] <= rewardPerTokenStored'[r][s]
  <2>1. \A u \in User, r \in RewardToken, s \in Token :
          userRewardPerTokenPaid[u][r][s] <= rewardPerTokenStored[r][s]
    BY DEF RewardInv
  <2>2. ASSUME NEW r \in RewardToken, NEW s \in Token
        PROVE  rewardPerTokenStored[r][s] <= rewardPerTokenStored'[r][s]
    <3>1. rewardPerTokenStored[r][s] \in Nat
      BY ZenonT(90), <1>4
    <3>2. CASE r = q /\ s = t
      BY <1>3, <1>5, <3>1, <3>2
    <3>3. CASE r # q \/ s # t
      BY <1>5, <3>1, <3>3
    <3> QED
      BY ZenonT(90), <3>2, <3>3
  <2>3. \A r \in RewardToken, s \in Token :
          rewardPerTokenStored[r][s] \in Nat /\ rewardPerTokenStored'[r][s] \in Nat
    BY <1>4, <1>5
  <2>4. \A u \in User, r \in RewardToken, s \in Token : userRewardPerTokenPaid[u][r][s] \in Nat
    BY <1>4
  <2> QED
    BY <1>1, <2>1, <2>2, <2>3, <2>4
<1>10. \A r \in RewardToken \ (rewardTokens' \cup skipped'), s \in Token :
         rewardPerTokenStored'[r][s] = 0
  BY ZenonT(90), <1>1 DEF OffList
<1>11. ASSUME NEW r \in RewardToken \ skipped  PROVE Dues(r)' <= Precision * rewardBalance'[r]
  <2> DEFINE old == [u \in User |-> Due(rewards, userSupply, rewardPerTokenStored,
                                        userRewardPerTokenPaid, u, r)]
             new == [u \in User |-> Due(rewards, userSupply, rewardPerTokenStored',
                                        userRewardPerTokenPaid, u, r)]
  <2>1. Dues(r)' = SumOver(new, User) /\ Dues(r) = SumOver(old, User)
    BY ZenonT(90), <1>1 DEF Dues
  <2>2. SumOver(old, User) <= Precision * rewardBalance[r]
    BY ZenonT(90), <2>1 DEF RewardInv
  <2>3. \A u \in User : old[u] \in Nat
    BY ZenonT(90), DueIsNat
  <2>4. CASE r # q
    <3>1. /\ rewardPerTokenStored'[r][t] = rewardPerTokenStored[r][t] + 0 /\ 0 \in Nat
          /\ \A s \in Token \ {t} : rewardPerTokenStored'[r][s] = rewardPerTokenStored[r][s]
      BY <1>4, <1>5, <2>4
    <3>2. ASSUME NEW u \in User  PROVE new[u] = old[u] + 0 * userSupply[t][u]
      <4> DEFINE sto == rewardPerTokenStored'
      <4>1. /\ sto[r][t] = rewardPerTokenStored[r][t] + 0 /\ 0 \in Nat
            /\ \A s \in Token \ {t} : sto[r][s] = rewardPerTokenStored[r][s]
        BY ZenonT(90), <3>1
      <4> HIDE DEF sto
      <4>2. Due(rewards, userSupply, sto, userRewardPerTokenPaid, u, r)
              = Due(rewards, userSupply, rewardPerTokenStored, userRewardPerTokenPaid, u, r)
                  + 0 * userSupply[t][u]
        BY <4>1, DueGrows
      <4> QED
        BY ZenonT(90), <4>2 DEF sto
    <3>3. SameOn(new, old, User)
      BY <1>2, <2>3, <3>2 DEF SameOn
    <3>4. SumOver(new, User) = SumOver(old, User)
      BY ZenonT(90), <1>2, <3>3, SumOverSame
    <3> QED
      BY ZenonT(90), <1>6, <2>1, <2>2, <2>4, <3>4
  <2>5. CASE r = q
    <3> DEFINE gain == [u \in User |-> d * userSupply[t][u]]
    <3>1. ASSUME NEW u \in User  PROVE new[u] = old[u] + gain[u]
      <4> DEFINE sto == rewardPerTokenStored'
      <4>1. /\ sto[r][t] = rewardPerTokenStored[r][t] + d /\ d \in Nat
            /\ \A s \in Token \ {t} : sto[r][s] = rewardPerTokenStored[r][s]
        BY ZenonT(90), <1>3, <1>5, <2>5
      <4> HIDE DEF sto
      <4>2. Due(rewards, userSupply, sto, userRewardPerTokenPaid, u, r)
              = Due(rewards, userSupply, rewardPerTokenStored, userRewardPerTokenPaid, u, r)
                  + d * userSupply[t][u]
        BY <4>1, DueGrows
      <4> QED
        BY ZenonT(90), <4>2 DEF sto
    <3>2. \A u \in User : gain[u] = d * userSupply[t][u]
      OBVIOUS
    <3> HIDE DEF old, new, gain
    <3>3. IntValued(old, User) /\ IntValued(gain, User) /\ IntValued(userSupply[t], User) /\ d \in Int
      BY <1>2, <1>3, <2>3, <3>2 DEF IntValued
    <3>4. SumOver(new, User) = SumOver(old, User) + SumOver(gain, User)
      BY ZenonT(90), <1>2, <3>1, <3>3, SumOverPlus
    <3>5. SumOver(gain, User) = d * SumOver(userSupply[t], User)
      <4> DEFINE g == userSupply[t]
      <4>1. IntValued(g, User) /\ \A u \in User : gain[u] = d * g[u]
        BY ZenonT(90), <3>2, <3>3
      <4> HIDE DEF g
      <4>2. SumOver(gain, User) = d * SumOver(g, User)
        BY <1>2, <3>3, <4>1, SumOverScale
      <4> QED
        BY <4>2 DEF g
    <3>6. SumOver(old, User) \in Int /\ SumOver(gain, User) \in Int
      BY ZenonT(90), <1>2, <3>3, SumOverInt
    <3>7. SumOver(gain, User) <= amount * Precision
      BY ZenonT(90), <1>2, <1>3, <3>5
    <3>8. Precision * (rewardBalance[q] + amount) = Precision * rewardBalance[q] + amount * Precision
      BY <1>2, <1>4
    <3>9. Precision * rewardBalance[q] \in Int
      BY <1>2, <1>4
    <3> QED
      BY <1>3, <1>6, <2>1, <2>2, <2>5, <3>4, <3>6, <3>7, <3>8, <3>9
  <2> QED
    BY <2>4, <2>5
<1> QED
  BY ZenonT(90), <1>7, <1>8, <1>9, <1>10, <1>11 DEF RewardInv

\* A reward token that is taken off the list with rewards counts as skipped.
LEMMA ListStep ==
  ASSUME RewardInv, NEW q \in RewardToken, addRewardToken(q) \/ removeRewardToken(q),
         UNCHANGED userSupply
  PROVE  RewardInv'
<1>1. /\ UNCHANGED <<rewardPerTokenStored, userRewardPerTokenPaid, rewards, rewardBalance,
                     distributed>>
      /\ rewardTokens' = rewardTokens \cup {q} \/ rewardTokens' = rewardTokens \ {q}
      /\ skipped \subseteq skipped' /\ skipped' \subseteq skipped \cup OffList'
      /\ rewardTokens \subseteq rewardTokens' \/ skipped' = skipped \cup OffList'
  BY DEF addRewardToken, removeRewardToken
<1>2. RewardTypeOK'
  BY <1>1 DEF RewardInv, RewardTypeOK, OffList
<1>3. \A r \in RewardToken : Dues(r)' = Dues(r)
  BY ZenonT(90), <1>1 DEF Dues
<1>4. \A r \in RewardToken \ skipped' : Dues(r)' <= Precision * rewardBalance'[r]
  BY ZenonT(90), <1>1, <1>3 DEF RewardInv
<1>5. ASSUME NEW r \in RewardToken \ (rewardTokens' \cup skipped'), NEW t \in Token
      PROVE  rewardPerTokenStored'[r][t] = 0
  <2>1. CASE rewardTokens \subseteq rewardTokens'
    BY <1>1, <2>1 DEF RewardInv
  <2>2. CASE skipped' = skipped \cup OffList'
    BY ZenonT(90), <2>2 DEF OffList
  <2> QED
    BY ZenonT(90), <1>1, <2>1, <2>2
<1>6. \A u \in User, r \in RewardToken, t \in Token :
        userRewardPerTokenPaid'[u][r][t] <= rewardPerTokenStored'[r][t]
  BY <1>1 DEF RewardInv
<1> QED
  BY ZenonT(90), <1>2, <1>4, <1>5, <1>6 DEF RewardInv

\* Nothing is due at first.
LEMMA RewardStart ==
  ASSUME WellOrdered, Init
  PROVE  RewardInv
<1>1. /\ rewardPerTokenStored = [r \in RewardToken |-> [t \in Token |-> 0]]
      /\ userRewardPerTokenPaid = [u \in User |-> [r \in RewardToken |-> [t \in Token |-> 0]]]
      /\ rewards = [u \in User |-> [r \in RewardToken |-> 0]]
      /\ rewardBalance = [r \in RewardToken |-> 0]
      /\ rewardTokens = InitRewardTokens /\ skipped = {}
      /\ distributed = [r \in RewardToken |-> 0]
      /\ userSupply = [t \in Token |-> [u \in User |-> 0]]
  BY DEF Init, RewardInit, PoolInit
<1>2. RewardTypeOK
  BY <1>1, RewardAssumption DEF RewardTypeOK
<1>3. \A u \in User, r \in RewardToken, t \in Token :
        /\ userRewardPerTokenPaid[u][r][t] = 0 /\ rewardPerTokenStored[r][t] = 0
        /\ rewards[u][r] = 0 /\ rewardBalance[r] = 0 /\ userSupply[t][u] = 0
  BY <1>1
<1>4. LendInv
  BY InitStep
<1>5. ASSUME NEW r \in RewardToken  PROVE Dues(r) <= Precision * rewardBalance[r]
  <2> DEFINE due == [u \in User |-> Due(rewards, userSupply, rewardPerTokenStored,
                                        userRewardPerTokenPaid, u, r)]
  <2>1. ASSUME NEW u \in User  PROVE due[u] = 0
    <3> DEFINE f == [t \in Token |-> userSupply[t][u]
                       * (rewardPerTokenStored[r][t] - userRewardPerTokenPaid[u][r][t])]
    <3>1. \A t \in Token : f[t] = 0
      BY <1>3
    <3> HIDE DEF f
    <3>2. SumOver(f, Token) = 0
      BY ZenonT(90), <1>4, <3>1, FiniteTokens, SumOverZero
    <3>3. due[u] = Precision * rewards[u][r] + SumOver(f, Token)
      BY ZenonT(90) DEF Due, Pending, f
    <3>4. rewards[u][r] = 0 /\ Precision \in Nat
      BY <1>1, <1>4, FiniteTokens
    <3> HIDE DEF due
    <3> QED
      BY <3>2, <3>3, <3>4
  <2> HIDE DEF due
  <2>2. SumOver(due, User) = 0
    BY ZenonT(90), <1>4, <2>1, FiniteTokens, SumOverZero
  <2>3. Dues(r) = SumOver(due, User)
    BY ZenonT(90) DEF Dues, due
  <2>4. rewardBalance[r] = 0 /\ Precision \in Nat
    BY <1>1, <1>4, FiniteTokens
  <2> QED
    BY <2>2, <2>3, <2>4
<1>6. \A u \in User, r \in RewardToken, t \in Token :
        userRewardPerTokenPaid[u][r][t] <= rewardPerTokenStored[r][t]
  BY <1>3
<1>7. \A r \in RewardToken, t \in Token : rewardPerTokenStored[r][t] = 0
  BY <1>1
<1> QED
  BY ZenonT(90), <1>2, <1>5, <1>6, <1>7 DEF RewardInv

\* Every step keeps the rewards covered: Lend updates the rewards of the users whose supplies
\* it is about to change.
LEMMA RewardNext ==
  ASSUME WellOrdered, LendInv, LendInv', RewardInv, [Next]_vars
  PROVE  RewardInv'
<1> USE LendAssumption
<1>1. /\ userSupply \in [Token -> [User -> Nat]] /\ userSupply' \in [Token -> [User -> Nat]]
      /\ \A t \in Token, u \in User : userSupply[t][u] \in Nat
  BY DEF LendInv, SupplyInv
<1>2. ASSUME UNCHANGED <<userSupply, rewardVars>>  PROVE RewardInv'
  BY ZenonT(90), <1>2 DEF RewardInv, RewardTypeOK, Dues, rewardVars
<1>3. ASSUME NEW users, updateReward(users), UNCHANGED userSupply  PROVE RewardInv'
  <2>1. SuppliesAfter(userSupply', users)
    BY <1>1, <1>3 DEF SuppliesAfter
  <2> QED
    BY ZenonT(90), <1>1, <1>3, <2>1, UpdateStep
<1>4. ASSUME NEW u \in User, NEW t \in Token, NEW amount \in Amount, NEW v \in Validator,
             \/ supply(u, t, amount, v) \/ swapAndSupply(u, t, amount, v)
      PROVE  RewardInv'
  <2>1. /\ updateReward({u}) /\ t \in whitelist
        /\ userSupply' = [userSupply EXCEPT ![t] = Credit(userSupply[t], u, amount)]
    BY <1>4 DEF supply, swapAndSupply, IncreaseAndStake, increasePoolToken
  <2>2. SuppliesAfter(userSupply', {u})
    <3>1. \A w \in User, s \in Token : s # t => userSupply'[s][w] = userSupply[s][w]
      BY <1>1, <2>1
    <3>2. \A w \in User \ {u} : userSupply'[t][w] = userSupply[t][w]
      BY <1>1, <2>1 DEF Credit
    <3>3. \A w \in User \ {u}, s \in Token : userSupply'[s][w] = userSupply[s][w]
      BY ZenonT(90), <3>1, <3>2
    <3>4. \A w \in User, s \in Token \ whitelist : userSupply'[s][w] <= userSupply[s][w]
      BY <1>1, <2>1, <3>1
    <3> QED
      BY ZenonT(90), <3>3, <3>4 DEF SuppliesAfter
  <2> QED
    BY ZenonT(90), <1>1, <2>1, <2>2, UpdateStep
<1>5. ASSUME NEW u \in User, NEW t \in Token, NEW amount \in Amount, NEW v \in Validator,
             \/ withdraw(u, t, amount, v) \/ withdrawAndDecreaseLiquidity(u, t, amount, v)
      PROVE  RewardInv'
  <2>1. /\ updateReward({u}) /\ amount \in Nat
        /\ userSupply' = [userSupply EXCEPT ![t] = Debit(userSupply[t], u, amount)]
    BY <1>5 DEF withdraw, withdrawAndDecreaseLiquidity, DecreaseAndUnstake, decreasePoolToken
  <2>2. SuppliesAfter(userSupply', {u})
    <3>1. \A w \in User, s \in Token : s # t => userSupply'[s][w] = userSupply[s][w]
      BY <1>1, <2>1
    <3>2. /\ \A w \in User \ {u} : userSupply'[t][w] = userSupply[t][w]
          /\ userSupply'[t][u] <= userSupply[t][u]
      BY <1>1, <2>1 DEF Debit
    <3>3. \A w \in User \ {u}, s \in Token : userSupply'[s][w] = userSupply[s][w]
      BY ZenonT(90), <3>1, <3>2
    <3>4. ASSUME NEW w \in User, NEW s \in Token  PROVE userSupply'[s][w] <= userSupply[s][w]
      <4>1. userSupply[s][w] \in Nat
        BY <1>1
      <4>2. CASE s = t /\ w = u
        BY <3>2, <4>2
      <4>3. CASE s # t \/ w # u
        BY <3>1, <3>3, <4>1, <4>3
      <4> QED
        BY <4>2, <4>3
    <3> QED
      BY ZenonT(90), <3>3, <3>4 DEF SuppliesAfter
  <2> QED
    BY ZenonT(90), <1>1, <2>1, <2>2, UpdateStep
<1>6. ASSUME NEW liquidator \in User, NEW u \in User, liquidate(liquidator, u)  PROVE RewardInv'
  <2>1. /\ updateReward({u, liquidator})
        /\ userSupply' = [t \in Token |-> IF t \in whitelist
                                          THEN Moved(userSupply[t], u, liquidator)
                                          ELSE userSupply[t]]
    BY <1>6 DEF liquidate, liquidateTokens
  <2>2. \A t \in Token, w \in User \ {u, liquidator} :
          Moved(userSupply[t], u, liquidator)[w] = userSupply[t][w]
    BY <1>1 DEF Moved
  <2>3. \A w \in User \ {u, liquidator}, t \in Token : userSupply'[t][w] = userSupply[t][w]
    BY <2>1, <2>2
  <2>4. \A w \in User, t \in Token \ whitelist : userSupply'[t][w] <= userSupply[t][w]
    BY <1>1, <2>1
  <2>5. SuppliesAfter(userSupply', {u, liquidator})
    BY ZenonT(90), <2>3, <2>4 DEF SuppliesAfter
  <2> QED
    BY ZenonT(90), <1>1, <2>1, <2>5, UpdateStep
<1>7. ASSUME NEW deleted \in Validator, NEW new \in Validator, MigrateStakes(deleted, new)
      PROVE  RewardInv'
  <2>1. UNCHANGED userSupply /\ \E users : updateReward(users)
    BY ZenonT(90), <1>7 DEF MigrateStakes, poolVars, supplyVars
  <2> QED
    BY ZenonT(90), <1>3, <2>1
<1>8. ASSUME Rewarding  PROVE RewardInv'
  <2>1. UNCHANGED userSupply
    BY <1>8 DEF Rewarding, poolVars, supplyVars
  <2>2. ASSUME NEW u \in User, updateReward({u})  PROVE RewardInv'
    BY ZenonT(90), <1>3, <2>1, <2>2
  <2>3. ASSUME NEW u \in User, NEW r \in RewardToken, claimReward(u, r)  PROVE RewardInv'
    BY ZenonT(90), <2>1, <2>3, ClaimStep
  <2>4. ASSUME NEW r \in RewardToken, NEW t \in Token, NEW amount \in RewardAmount,
               distributeReward(r, t, amount)
        PROVE  RewardInv'
    <3>1. amount \in Nat
      BY RewardAssumption
    <3> QED
      BY ZenonT(90), <2>1, <2>4, <3>1, DistributeStep
  <2>5. ASSUME NEW r \in RewardToken, addRewardToken(r) \/ removeRewardToken(r)  PROVE RewardInv'
    BY ZenonT(90), <2>1, <2>5, ListStep
  <2> QED
    BY ZenonT(90), <1>8, <2>2, <2>3, <2>4, <2>5 DEF Rewarding
<1>9. ASSUME NEW u \in User, NEW amount \in Amount, borrow(u, amount) \/ repay(u, amount)
      PROVE  RewardInv'
  BY ZenonT(90), <1>2, <1>9 DEF borrow, repay, supplyVars
<1>10. ASSUME NEW from \in User, NEW to \in User, NEW amount \in Amount,
              UNCHANGED <<configVars, supplyVars, rewardVars, chainVars, plugin>>
       PROVE  RewardInv'
  BY ZenonT(90), <1>2, <1>10 DEF supplyVars
<1>11. ASSUME \/ \E isPlugin \in Plugin : setPlugin(isPlugin)
              \/ Configure \/ SetValidators \/ UNCHANGED vars
       PROVE  RewardInv'
  BY ZenonT(90), <1>2, <1>11 DEF setPlugin, Configure, SetValidators, vars, poolVars, supplyVars
<1> QED
  BY ZenonT(90), <1>4, <1>5, <1>6, <1>7, <1>8, <1>9, <1>10, <1>11 DEF Next

\* What is due covers all that users may claim.
LEMMA DuesCover ==
  ASSUME WellOrdered, LendInv, RewardInv
  PROVE  RewardSolvent
<1> SUFFICES ASSUME NEW r \in RewardToken \ skipped
             PROVE  SumOver([u \in User |-> claimableReward(u, r)], User) <= rewardBalance[r]
  BY ZenonT(90) DEF RewardSolvent
<1> DEFINE claim == [u \in User |-> claimableReward(u, r)]
           scaled == [u \in User |-> Precision * claim[u]]
           due == [u \in User |-> Due(rewards, userSupply, rewardPerTokenStored,
                                      userRewardPerTokenPaid, u, r)]
<1>1. /\ IsFiniteSet(User) /\ Precision \in Nat \ {0} /\ Precision \in Int
      /\ rewardBalance[r] \in Nat
  BY FiniteTokens DEF RewardInv, RewardTypeOK
<1>2. ASSUME NEW u \in User
      PROVE  /\ claim[u] \in Nat /\ due[u] \in Nat /\ scaled[u] = Precision * claim[u]
             /\ scaled[u] \in Nat /\ scaled[u] <= due[u]
  <2> DEFINE term == [t \in Token |-> userSupply[t][u]
                        * (rewardPerTokenStored[r][t] - userRewardPerTokenPaid[u][r][t])]
             rest == [t \in Token |-> IF t \in whitelist THEN 0 ELSE term[t]]
  <2>1. /\ earned(u, r) \in Nat /\ SumOver(term, Token) \in Nat /\ SumOver(rest, Token) \in Nat
        /\ Precision * earned(u, r) + SumOver(rest, Token) <= SumOver(term, Token)
    BY ZenonT(90), EarnedWithin
  <2>2. due[u] = Precision * rewards[u][r] + SumOver(term, Token)
    BY ZenonT(90) DEF Due, Pending
  <2>3. claim[u] = rewards[u][r] + earned(u, r) /\ scaled[u] = Precision * claim[u]
    BY DEF claimableReward
  <2>4. rewards[u][r] \in Nat
    BY ZenonT(90) DEF RewardInv, RewardTypeOK
  <2> HIDE DEF claim, scaled, due, term, rest
  <2>5. /\ Precision * (rewards[u][r] + earned(u, r))
             = Precision * rewards[u][r] + Precision * earned(u, r)
        /\ Precision * rewards[u][r] \in Nat /\ Precision * earned(u, r) \in Nat
    BY <1>1, <2>1, <2>4
  <2> QED
    BY <2>1, <2>2, <2>3, <2>4, <2>5
<1> HIDE DEF claim, scaled, due
<1>3. IntValued(claim, User) /\ IntValued(scaled, User) /\ IntValued(due, User)
  BY <1>2 DEF IntValued
<1>4. SumOver(scaled, User) = Precision * SumOver(claim, User)
  BY ZenonT(90), <1>1, <1>2, <1>3, SumOverScale
<1>5. SumOver(scaled, User) <= SumOver(due, User)
  BY ZenonT(90), <1>1, <1>2, <1>3, SumOverMonotone
<1>6. SumOver(due, User) <= Precision * rewardBalance[r]
  BY ZenonT(90) DEF RewardInv, Dues, due
<1>7. SumOver(due, User) \in Int /\ SumOver(claim, User) \in Int
  BY ZenonT(90), <1>1, <1>3, SumOverInt
<1>8. Precision * SumOver(claim, User) <= Precision * rewardBalance[r]
  <2>1. Precision * rewardBalance[r] \in Int /\ Precision * SumOver(claim, User) \in Int
    BY <1>1, <1>7
  <2> QED
    BY <1>4, <1>5, <1>6, <1>7, <2>1
<1>9. SumOver(claim, User) <= rewardBalance[r]
  BY <1>1, <1>7, <1>8
<1> QED
  BY <1>9 DEF claim

-----------------------------------------------------------------------------
(* Theorems.                                                               *)

INSTANCE WellFoundedInduction

\* The natural numbers are well-ordered, as the library's theorems have it: the hypothesis of
\* the lemmas above holds.
LEMMA NatWellOrdered == WellOrdered
<1> SUFFICES ASSUME NEW T \in SUBSET Nat, T # {}
             PROVE  \E x \in T : \A y \in T : x <= y
  BY DEF WellOrdered
<1> DEFINE less == OpToRel(<, Nat)
<1>1. IsWellFoundedOn(less, Nat)
  BY NatLessThanWellFounded, ZenonT(90)
<1>2. \A x, y \in T : <<y, x>> \in less <=> y < x
  BY DEF OpToRel
<1> HIDE DEF less
<1>3. PICK x \in T : \A y \in T : ~(<<y, x>> \in less)
  BY <1>1, WFMin, ZenonT(90)
<1>4. \A y \in T : ~(y < x)
  BY ZenonT(90), <1>2, <1>3
<1> QED
  BY <1>4

USE NatWellOrdered

\* The types and sums of Pool and Config, for every number of users and tokens.
THEOREM LendInvariant == Spec => []LendInv
<1>1. Init => LendInv
  BY InitStep
<1>2. LendInv /\ [Next]_vars => LendInv'
  BY NextStep
<1> QED
  BY <1>1, <1>2, PTL DEF Spec

\* The pool holds what its users supplied, so that it can pay them all.
THEOREM PoolStaysSolvent == Spec => []PoolSolvent
<1>1. LendInv => PoolSolvent
  BY DEF LendInv, SupplyInv
<1> QED
  BY <1>1, LendInvariant, PTL

\* All TUCUSD in circulation is owed by borrowers.
THEOREM UsdStaysDebt == Spec => []UsdIsDebt
<1>1. LendInv => UsdIsDebt
  BY DEF LendInv, DebtInv
<1> QED
  BY <1>1, LendInvariant, PTL

\* No step leaves a debtor less of a token than the minimum collateral ratio asks for.
THEOREM CollateralIsKept == Spec => CollateralKept
<1>1. LendInv /\ [Next]_vars =>
        [\A u \in User, t \in Token :
           userSupply'[t][u] < userSupply[t][u] /\ userBorrow'[u] # 0 =>
             ((mcr * getUserBorrowTotalUSD(u)) \div Precision) * TokenUnit
                < (userSupply'[t][u] + 1) * getTokenPrice(t)]_vars
  BY ZenonT(90), CollateralStep DEF CollateralLeft
<1> QED
  BY <1>1, LendInvariant, PTL DEF Spec, CollateralKept

\* The stakes at the validators are exactly what the pool holds, through supplies, withdrawals,
\* migrations and liquidations.
THEOREM StakesSafe == Spec => []StakesConserved
<1>1. StakeInv => StakesConserved
  BY DEF StakeInv
<1> QED
  BY <1>1, StakeInit, StakeNext, PTL DEF Spec

\* As long as all stakes are at listed validators, no step separates what a user has staked
\* from what the user has supplied.
THEOREM StakesFollow == Spec => StakeFollowsSupply
<1>1. LendInv /\ StakeInv /\ [Next]_vars =>
        [(\A u \in User, t \in Token :
            /\ UserStake(u, t) = userSupply[t][u]
            /\ \A v \in Validator : userStakes[u][v][t] # 0 => Listed(validators, v)) =>
         \A u \in User, t \in Token : UserStake(u, t)' = userSupply'[t][u]]_vars
  BY ZenonT(90), FollowStep DEF Withdrawable, StakeIsSupply
<1> QED
  BY <1>1, LendInvariant, StakeInit, StakeNext, PTL DEF Spec, StakeFollowsSupply

\* A debt never grows by more than getUserMaxBorrowable, up to one unit of a value in USD.
THEOREM LoansAreWithinMax == Spec => BorrowIsWithinMax
<1>1. LendInv /\ [Next]_vars =>
        [\A u \in User :
           userBorrow'[u] > userBorrow[u] /\ mcr # 0 =>
             (userBorrow'[u] - userBorrow[u] - getUserMaxBorrowable(u)) * Precision < UsdUnit]_vars
  BY ZenonT(90), LoansStep DEF LoanAllowed
<1> QED
  BY <1>1, LendInvariant, PTL DEF Spec, BorrowIsWithinMax

\* Of a reward token that was on the list whenever it had rewards, the Reward contract can
\* pay what its users may claim: supplies and withdrawals, liquidations, migrations,
\* distributions and claims, in any order, give out no more of it than the contract
\* received, though every share is rounded.
THEOREM RewardsSafe == Spec => []RewardSolvent
<1>1. Init => RewardInv
  BY RewardStart
<1>2. LendInv /\ LendInv' /\ RewardInv /\ [Next]_vars => RewardInv'
  BY RewardNext
<1>3. LendInv /\ RewardInv => RewardSolvent
  BY DuesCover
<1> QED
  BY <1>1, <1>2, <1>3, LendInvariant, PTL DEF Spec
=============================================================================
