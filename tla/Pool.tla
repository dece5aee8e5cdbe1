-------------------------------- MODULE Pool --------------------------------
(***************************************************************************)
(* potv: the Pool contract holds the collateral and the debts; it alone    *)
(* mints and burns TUCUSD.  Its functions are called by Lend only; each is *)
(* a conjunct of the Lend action that calls it, and its requires are       *)
(* guards.  The token contracts' balances of users and pool are state of   *)
(* this module.                                                            *)
(***************************************************************************)
EXTENDS PotvConfig

CONSTANTS InitWallet  \* token -> user -> tokens the user starts with

VARIABLES
  userSupply,   \* token -> user -> amount
  totalSupply,  \* token -> amount
  userBorrow,   \* user -> amount
  totalBorrow,
  held,         \* token -> the pool's balance at the token's contract
  wallet,       \* token -> user -> balance at the token's contract
  usd,          \* TUCUSD balances of the users
  usdSupply     \* TUCUSD in existence

supplyVars == <<userSupply, totalSupply, held, wallet>>
debtVars == <<userBorrow, totalBorrow, usd, usdSupply>>
poolVars == <<supplyVars, debtVars>>

ASSUME PoolAssumption == InitWallet \in [Token -> [User -> Nat]]

PoolInit ==
  /\ userSupply = [t \in Token |-> [u \in User |-> 0]]
  /\ totalSupply = [t \in Token |-> 0]
  /\ userBorrow = [u \in User |-> 0] /\ totalBorrow = 0
  /\ held = [t \in Token |-> 0]
  /\ wallet = InitWallet
  /\ usd = [u \in User |-> 0] /\ usdSupply = 0

increasePoolToken(user, token, amount) ==
  /\ token \in whitelist
  /\ userSupply' = [userSupply EXCEPT ![token] = Credit(@, user, amount)]
  /\ totalSupply' = [totalSupply EXCEPT ![token] = @ + amount]

\* The caller says who receives the tokens.
decreasePoolToken(user, token, amount) ==
  /\ userSupply[token][user] >= amount
  /\ userSupply' = [userSupply EXCEPT ![token] = Debit(@, user, amount)]
  /\ totalSupply' = [totalSupply EXCEPT ![token] = @ - amount]
  /\ held' = [held EXCEPT ![token] = @ - amount]

Moved(f, src, dest) == [f EXCEPT ![src] = 0, ![dest] = @ + f[src]]

\* Mutant: what the receiver had supplied is overwritten.
liquidateTokensOverwriting(src, dest) ==
  /\ userSupply' = [t \in Token |-> IF t \in whitelist
                                    THEN [userSupply[t] EXCEPT ![src] = 0, ![dest] = userSupply[t][src]]
                                    ELSE userSupply[t]]
  /\ UNCHANGED <<totalSupply, held, wallet>>

\* Only tokens that are collateral now change hands.
liquidateTokens(src, dest) ==
  /\ userSupply' = [t \in Token |-> IF t \in whitelist THEN Moved(userSupply[t], src, dest)
                                    ELSE userSupply[t]]
  /\ UNCHANGED <<totalSupply, held, wallet>>

borrowUSD(user, amount) ==
  /\ userBorrow' = Credit(userBorrow, user, amount)
  /\ totalBorrow' = totalBorrow + amount
  /\ usd' = Credit(usd, user, amount)
  /\ usdSupply' = usdSupply + amount

\* Mutant: the payer's TUCUSD are not burned.
repayUSDUnburned(repayer, repaidUser, amount) ==
  /\ userBorrow[repaidUser] >= amount
  /\ usd[repayer] >= amount
  /\ userBorrow' = Debit(userBorrow, repaidUser, amount)
  /\ totalBorrow' = totalBorrow - amount
  /\ UNCHANGED <<usd, usdSupply>>

repayUSD(repayer, repaidUser, amount) ==
  /\ userBorrow[repaidUser] >= amount
  /\ usd[repayer] >= amount
  /\ userBorrow' = Debit(userBorrow, repaidUser, amount)
  /\ totalBorrow' = totalBorrow - amount
  /\ usd' = Debit(usd, repayer, amount)
  /\ usdSupply' = usdSupply - amount

\* TUCUSD is an ordinary ERC20 token.
usdTransfer(from, to, amount) ==
  /\ from # to
  /\ usd[from] >= amount
  /\ usd' = Credit(Debit(usd, from, amount), to, amount)
  /\ UNCHANGED <<userBorrow, totalBorrow, usdSupply>>

PoolTypeOK ==
  /\ userSupply \in [Token -> [User -> Nat]] /\ totalSupply \in [Token -> Nat]
  /\ userBorrow \in [User -> Nat] /\ totalBorrow \in Nat
  /\ held \in [Token -> Nat] /\ wallet \in [Token -> [User -> Nat]]
  /\ usd \in [User -> Nat] /\ usdSupply \in Nat
=============================================================================
