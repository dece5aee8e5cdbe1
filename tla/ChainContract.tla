--------------------------- MODULE ChainContract ---------------------------
(***************************************************************************)
(* potv: the ChainContract records at which validator a user's collateral  *)
(* is staked.  Its functions are called by Lend, setValidators by the      *)
(* owner.  The contract's EnumerableSets of addresses are sequences: the   *)
(* order of a set is visible in what setValidators and migrateStakes do.   *)
(***************************************************************************)
EXTENDS PotvConfig, Sequences

CONSTANTS
  Validators,        \* number of validators
  MigrateStakeLimit, \* users that one migration may move
  InitValidators,    \* the list at deployment
  ValidatorLists     \* lists that the owner may set

VARIABLES
  validators,            \* the listed validators
  userStakes,            \* user -> validator -> token -> amount
  validatorStakes,       \* validator -> token -> amount
  validatorStakedUsers   \* validator -> the users it lists

chainVars == <<validators, userStakes, validatorStakes, validatorStakedUsers>>

Validator == 1..Validators

ASSUME ChainAssumption ==
  /\ Validators \in Nat /\ MigrateStakeLimit \in Nat \ {0}
  /\ ValidatorLists \cup {InitValidators} \subseteq Seq(Validator)

\* EnumerableSet (external): remove puts the last element in the gap.
Listed(list, e) == e \in Range(list)
Add(list, e) == IF Listed(list, e) THEN list ELSE Append(list, e)
Drop(list, e) ==
  IF ~Listed(list, e) THEN list
  ELSE [i \in 1..Len(list) - 1 |-> IF list[i] = e THEN list[Len(list)] ELSE list[i]]

ChainInit ==
  /\ validators = InitValidators
  /\ userStakes = [u \in User |-> [v \in Validator |-> [t \in Token |-> 0]]]
  /\ validatorStakes = [v \in Validator |-> [t \in Token |-> 0]]
  /\ validatorStakedUsers = [v \in Validator |-> <<>>]

\* The first loop removes the i-th validator of a list that shrinks as it runs, so that
\* it ends half way through the old list; the second adds the new ones.
setValidators(newValidators) ==
  LET kept[i \in 0..Len(validators)] ==
        IF i = 0 THEN validators
        ELSE LET list == kept[i - 1] IN IF i <= Len(list) THEN Drop(list, list[i]) ELSE list
      added[i \in 0..Len(newValidators)] ==
        IF i = 0 THEN kept[Len(validators)] ELSE Add(added[i - 1], newValidators[i])
  IN  /\ validators' = added[Len(newValidators)]
      /\ UNCHANGED <<userStakes, validatorStakes, validatorStakedUsers>>

stakeToken(user, validator, token, amount) ==
  /\ Listed(validators, validator)
  /\ userStakes' = [userStakes EXCEPT ![user][validator][token] = @ + amount]
  /\ validatorStakes' = [validatorStakes EXCEPT ![validator][token] = @ + amount]
  /\ validatorStakedUsers' = [validatorStakedUsers EXCEPT ![validator] = Add(@, user)]
  /\ UNCHANGED validators

\* Mutant: the validator's total is not lowered.
unstakeTokenTotal(user, validator, token, amount) ==
  /\ userStakes[user][validator][token] >= amount
  /\ userStakes' = [userStakes EXCEPT ![user][validator][token] = @ - amount]
  /\ UNCHANGED <<validators, validatorStakes, validatorStakedUsers>>

\* The user leaves the validator's list when the stake of this one token is gone.
unstakeToken(user, validator, token, amount) ==
  /\ userStakes[user][validator][token] >= amount
  /\ userStakes' = [userStakes EXCEPT ![user][validator][token] = @ - amount]
  /\ validatorStakes' = [validatorStakes EXCEPT ![validator][token] = @ - amount]
  /\ validatorStakedUsers' =
       IF userStakes[user][validator][token] = amount
       THEN [validatorStakedUsers EXCEPT ![validator] = Drop(@, user)]
       ELSE validatorStakedUsers
  /\ UNCHANGED validators

\* Mutant: only the tokens in the pool change hands.
liquidatePositionForgotten(liquidator, liquidated) == UNCHANGED chainVars

\* Stakes at listed validators in tokens that are collateral now go to the liquidator;
\* the validators' lists of users stay as they are.
liquidatePosition(liquidator, liquidated) ==
  LET Taken(v, t) == IF Listed(validators, v) /\ t \in whitelist
                     THEN userStakes[liquidated][v][t] ELSE 0
  IN  /\ userStakes' =
           [u \in User |-> [v \in Validator |-> [t \in Token |->
              CASE u = liquidator -> userStakes[u][v][t] + Taken(v, t)
                [] u = liquidated -> userStakes[u][v][t] - Taken(v, t)
                [] OTHER -> userStakes[u][v][t]]]]
      /\ UNCHANGED <<validators, validatorStakes, validatorStakedUsers>>

\* The stake in token t that a migration moves for some users.
Migrated(users, deleted, t) ==
  IF t \in whitelist THEN SumOver([u \in users |-> userStakes[u][deleted][t]], users) ELSE 0

\* A user leaves the deleted validator's list for the new one's.
Relist(lists, user, deleted, new) ==
  LET left == [lists EXCEPT ![deleted] = Drop(@, user)]
  IN  [left EXCEPT ![new] = Add(@, user)]

\* The validators' lists after the users of a sequence have moved one by one.
Relisted(moved, deleted, new) ==
  LET lists[i \in 0..Len(moved)] ==
        IF i = 0 THEN validatorStakedUsers ELSE Relist(lists[i - 1], moved[i], deleted, new)
  IN  lists[Len(moved)]

\* Unstaking at the deleted validator and staking at the new one, for the first users of
\* the deleted validator's list.
migrateStakes(deleted, new, deleteAmount) ==
  LET moved == SubSeq(validatorStakedUsers[deleted], 1, deleteAmount)
      users == Range(moved)
      Shift(v, amount) == (IF v = new THEN amount ELSE 0) - (IF v = deleted THEN amount ELSE 0)
      listed == Add(validators, new)
  IN  /\ deleteAmount <= MigrateStakeLimit
      /\ userStakes' =
           [u \in User |-> [v \in Validator |-> [t \in Token |->
              userStakes[u][v][t] + Shift(v, Migrated({u} \cap users, deleted, t))]]]
      /\ validatorStakes' =
           [v \in Validator |-> [t \in Token |->
              validatorStakes[v][t] + Shift(v, Migrated(users, deleted, t))]]
      /\ validatorStakedUsers' = Relisted(moved, deleted, new)
      /\ validators' = IF validatorStakedUsers'[deleted] = <<>> THEN Drop(listed, deleted)
                       ELSE listed

ChainTypeOK ==
  /\ validators \in Seq(Validator)
  /\ userStakes \in [User -> [Validator -> [Token -> Nat]]]
  /\ validatorStakes \in [Validator -> [Token -> Nat]]
  /\ validatorStakedUsers \in [Validator -> Seq(User)]
=============================================================================
