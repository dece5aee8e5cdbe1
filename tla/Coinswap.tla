------------------------------ MODULE Coinswap ------------------------------
(***************************************************************************)
(* x/coinswap: constant-product pools between the standard coin and one    *)
(* counterparty denom each.  A pool is an escrow account of the bank that  *)
(* holds both reserves; shares are coins of the pool's "lpt" denom, whose  *)
(* total is the bank's supply of that denom.                               *)
(*                                                                         *)
(* A message that fails leaves no trace (the SDK drops the transaction's   *)
(* cached store), so every error return of a handler is a conjunct of its  *)
(* action's guard.  Decimals (LegacyDec) are integers scaled by One.       *)
(***************************************************************************)
EXTENDS Sums, FiniteSets

CONSTANTS
  User,          \* accounts that sign messages
  Token,         \* denoms other than the standard one and the lpt denoms
  Standard,      \* the standard denom
  ModuleAccount, \* the coinswap module account
  FeeCollector,  \* the fee collector module account
  One,           \* 1.0 as a LegacyDec
  MaxPools,      \* bound on the pool sequence
  MaxTime,       \* bound on the block time
  Amount,        \* positive amounts that messages carry
  Bound,         \* lower bounds (minLiquidity, minToken, ...) that messages carry
  Deadline,      \* deadlines that messages carry
  InitBalance,   \* balances of the genesis accounts
  InitSupply,    \* their totals
  InitParams,    \* module parameters at genesis
  ParamChoices   \* parameters governance may propose

VARIABLES
  params,    \* the module's parameters
  sequence,  \* next pool sequence number
  pools,     \* counterparty denom -> sequence number of its lpt denom, or NoPool
  lptIndex,  \* lpt denom -> counterparty denom of the pool, or NoToken
  bank,      \* bank balances: address -> denom -> amount
  supply,    \* bank supply: denom -> amount
  blockTime

vars == <<params, sequence, pools, lptIndex, bank, supply, blockTime>>

NoPool == 0
NoToken == 0

\* The lpt denom "lpt-n" is the number n; its escrow address is a hash of it.
LptDenom == 1..MaxPools
GetReservePoolAddr(lpt) == <<"escrow", lpt>>
Escrow == {GetReservePoolAddr(lpt) : lpt \in LptDenom}

Denom == {Standard} \cup Token \cup LptDenom
Addr == User \cup Escrow \cup {ModuleAccount, FeeCollector}
BlockedAddr == {ModuleAccount, FeeCollector}

Params == [fee : 0..(One - 1), taxRate : 0..(One - 1), poolCreationFee : Nat,
           maxStandardCoinPerPool : Nat \ {0}, maxSwapAmount : [Token -> Nat]]

Balances == [Addr -> [Denom -> Nat]]

ASSUME ConstantsAssumption ==
  /\ One \in Nat \ {0}
  /\ IsFiniteSet(User)
  /\ MaxPools \in Nat /\ MaxTime \in Nat
  /\ Amount \subseteq Nat \ {0} /\ Bound \subseteq Nat /\ Deadline \subseteq Nat
  /\ InitParams \in Params
  /\ InitBalance \in [User -> [{Standard} \cup Token -> Nat]]
  /\ InitSupply \in [{Standard} \cup Token -> Nat]

ASSUME SupplyAssumption ==
  \A d \in {Standard} \cup Token :
    InitSupply[d] = SumOver([u \in User |-> InitBalance[u][d]], User)

ASSUME DenomAssumption ==
  /\ Standard \notin Token \cup Nat
  /\ Token \cap Nat = {}

ASSUME AddrAssumption ==
  /\ ModuleAccount # FeeCollector
  /\ User \cap BlockedAddr = {}
  /\ (User \cup BlockedAddr) \cap Escrow = {}

-----------------------------------------------------------------------------
(* The bank keeper (external).  A send fails when the sender is short of   *)
(* the coins, a burn when the supply is: the callers' guards say so.       *)

SendCoins(b, from, to, denom, amt) ==
  LET debited == [b EXCEPT ![from][denom] = @ - amt]
  IN  [debited EXCEPT ![to][denom] = @ + amt]

MintCoins(b, denom, amt) == [b EXCEPT ![ModuleAccount][denom] = @ + amt]

BurnCoins(b, denom, amt) == [b EXCEPT ![ModuleAccount][denom] = @ - amt]

\* x/bank MsgSend: any account may send any of its coins to any address that is
\* not a blocked module account.  Escrow addresses are ordinary addresses.
BankSend(from, to, denom, amt) ==
  /\ bank[from][denom] >= amt
  /\ bank' = SendCoins(bank, from, to, denom, amt)
  /\ UNCHANGED <<params, sequence, pools, lptIndex, supply, blockTime>>

-----------------------------------------------------------------------------
(* Pricing.                                                                *)

\* Mutant: the bought amount is rounded up.
GetInputPriceRoundedUp(inputAmt, inputReserve, outputReserve, fee) ==
  LET inputAmtWithFee == inputAmt * (One - fee)
  IN  (inputAmtWithFee * outputReserve) \div (inputReserve * One + inputAmtWithFee) + 1

GetInputPrice(inputAmt, inputReserve, outputReserve, fee) ==
  LET inputAmtWithFee == inputAmt * (One - fee)
  IN  (inputAmtWithFee * outputReserve) \div (inputReserve * One + inputAmtWithFee)

\* Mutant: the sold amount is rounded down.
GetOutputPriceRoundedDown(outputAmt, inputReserve, outputReserve, fee) ==
  (inputReserve * outputAmt * One) \div ((outputReserve - outputAmt) * (One - fee))

GetOutputPrice(outputAmt, inputReserve, outputReserve, fee) ==
  (inputReserve * outputAmt * One) \div ((outputReserve - outputAmt) * (One - fee)) + 1

GetMaximumSwapAmount(token) == params.maxSwapAmount[token]

Reserve(lpt, denom) == bank[GetReservePoolAddr(lpt)][denom]

-----------------------------------------------------------------------------
(* Liquidity.                                                              *)

\* The deposits of AddLiquidity.  The keeper first moves both coins into the
\* escrow account, then mints the shares on the module account and sends them on.
addLiquidity(b, sender, lpt, token, standardAmt, tokenAmt, mintAmt) ==
  LET escrow == GetReservePoolAddr(lpt)
      deposited == SendCoins(SendCoins(b, sender, escrow, Standard, standardAmt),
                             sender, escrow, token, tokenAmt)
  IN  SendCoins(MintCoins(deposited, lpt, mintAmt), ModuleAccount, sender, lpt, mintAmt)

CommunityTax == (params.poolCreationFee * params.taxRate) \div One

DeductPoolCreationFee(b, creator) ==
  LET fee == params.poolCreationFee
      collected == SendCoins(b, creator, ModuleAccount, Standard, fee)
      taxed == SendCoins(collected, ModuleAccount, FeeCollector, Standard, CommunityTax)
  IN  BurnCoins(taxed, Standard, fee - CommunityTax)

\* Mutant: the second key is not written.
CreatePoolOneKey(token) ==
  /\ sequence' = sequence + 1
  /\ pools' = [pools EXCEPT ![token] = sequence]
  /\ UNCHANGED lptIndex

\* Mutant: the sequence is not advanced.
CreatePoolSameSequence(token) ==
  /\ UNCHANGED sequence
  /\ pools' = [pools EXCEPT ![token] = sequence]
  /\ lptIndex' = [lptIndex EXCEPT ![sequence] = token]

\* A pool is stored under its counterparty denom and under its lpt denom.
CreatePool(token) ==
  /\ sequence' = sequence + 1
  /\ pools' = [pools EXCEPT ![token] = sequence]
  /\ lptIndex' = [lptIndex EXCEPT ![sequence] = token]

\* The pool-creating branch: AddLiquidity on a denom that has no pool yet.
AddLiquidityCreate(sender, token, maxToken, exactStandardAmt, minLiquidity, deadline) ==
  LET fee == params.poolCreationFee
  IN  /\ blockTime <= deadline
      /\ params.maxSwapAmount[token] > 0
      /\ pools[token] = NoPool
      /\ exactStandardAmt <= params.maxStandardCoinPerPool
      /\ exactStandardAmt >= minLiquidity
      /\ sequence \in LptDenom
      /\ bank[sender][Standard] >= fee + exactStandardAmt
      /\ supply[Standard] >= fee - CommunityTax
      /\ bank[sender][token] >= maxToken
      /\ CreatePool(token)
      /\ bank' = addLiquidity(DeductPoolCreationFee(bank, sender), sender, sequence,
                              token, exactStandardAmt, maxToken, exactStandardAmt)
      /\ supply' = [supply EXCEPT ![Standard] = @ - (fee - CommunityTax),
                                  ![sequence] = @ + exactStandardAmt]
      /\ UNCHANGED <<params, blockTime>>

\* The pool exists but all its shares have been withdrawn.
AddLiquidityEmpty(sender, token, maxToken, exactStandardAmt, minLiquidity, deadline) ==
  LET lpt == pools[token]
  IN  /\ blockTime <= deadline
      /\ params.maxSwapAmount[token] > 0
      /\ lpt # NoPool
      /\ supply[lpt] = 0
      /\ exactStandardAmt <= params.maxStandardCoinPerPool
      /\ exactStandardAmt >= minLiquidity
      /\ bank[sender][Standard] >= exactStandardAmt
      /\ bank[sender][token] >= maxToken
      /\ bank' = addLiquidity(bank, sender, lpt, token,
                              exactStandardAmt, maxToken, exactStandardAmt)
      /\ supply' = [supply EXCEPT ![lpt] = @ + exactStandardAmt]
      /\ UNCHANGED <<params, sequence, pools, lptIndex, blockTime>>

StandardInputAmt(lpt, exactStandardAmt) ==
  Min({exactStandardAmt, params.maxStandardCoinPerPool - Reserve(lpt, Standard)})

\* The pool has liquidity: the deposit follows the reserves' ratio, rounded
\* against the depositor on both sides.
AddLiquidityJoin(sender, token, maxToken, exactStandardAmt, minLiquidity, deadline) ==
  LET lpt == pools[token]
      standardReserve == Reserve(lpt, Standard)
      standardAmt == StandardInputAmt(lpt, exactStandardAmt)
      mintAmt == (supply[lpt] * standardAmt) \div standardReserve
      depositAmt == (Reserve(lpt, token) * standardAmt) \div standardReserve + 1
  IN  /\ blockTime <= deadline
      /\ params.maxSwapAmount[token] > 0
      /\ lpt # NoPool
      /\ supply[lpt] # 0
      /\ standardReserve < params.maxStandardCoinPerPool
      /\ mintAmt >= minLiquidity
      /\ depositAmt <= maxToken
      /\ bank[sender][Standard] >= standardAmt
      /\ bank[sender][token] >= depositAmt
      /\ bank' = addLiquidity(bank, sender, lpt, token, standardAmt, depositAmt, mintAmt)
      /\ supply' = [supply EXCEPT ![lpt] = @ + mintAmt]
      /\ UNCHANGED <<params, sequence, pools, lptIndex, blockTime>>

\* Mutant: the shares are collected but not burnt.
removeLiquidityUnburnt(b, sender, lpt, token, withdraw, standardAmt, tokenAmt) ==
  LET escrow == GetReservePoolAddr(lpt)
      collected == SendCoins(b, sender, ModuleAccount, lpt, withdraw)
  IN  SendCoins(SendCoins(collected, escrow, sender, Standard, standardAmt),
                escrow, sender, token, tokenAmt)

\* Coins out of the escrow account for burnt shares.
removeLiquidity(b, sender, lpt, token, withdraw, standardAmt, tokenAmt) ==
  LET escrow == GetReservePoolAddr(lpt)
      burnt == BurnCoins(SendCoins(b, sender, ModuleAccount, lpt, withdraw), lpt, withdraw)
  IN  SendCoins(SendCoins(burnt, escrow, sender, Standard, standardAmt),
                escrow, sender, token, tokenAmt)

RemoveLiquidity(sender, lpt, withdraw, minStandardAmt, minToken, deadline) ==
  LET token == lptIndex[lpt]
      standardReserve == Reserve(lpt, Standard)
      tokenReserve == Reserve(lpt, token)
      standardAmt == (withdraw * standardReserve) \div supply[lpt]
      tokenAmt == (withdraw * tokenReserve) \div supply[lpt]
  IN  /\ blockTime <= deadline
      /\ token # NoToken
      /\ standardReserve >= minStandardAmt
      /\ tokenReserve >= minToken
      /\ supply[lpt] >= withdraw
      /\ standardAmt >= minStandardAmt
      /\ tokenAmt >= minToken
      /\ bank[sender][lpt] >= withdraw
      /\ bank' = removeLiquidity(bank, sender, lpt, token, withdraw, standardAmt, tokenAmt)
      /\ supply' = [supply EXCEPT ![lpt] = @ - withdraw]
      /\ UNCHANGED <<params, sequence, pools, lptIndex, blockTime>>

-----------------------------------------------------------------------------
(* Swaps.  One of the two denoms is the standard one, the other is token.  *)

swapCoins(sender, recipient, lpt, sold, soldAmt, bought, boughtAmt) ==
  LET escrow == GetReservePoolAddr(lpt)
  IN  /\ bank[sender][sold] >= soldAmt
      /\ bank' = SendCoins(SendCoins(bank, sender, escrow, sold, soldAmt),
                           escrow, recipient, bought, boughtAmt)
      /\ UNCHANGED <<params, sequence, pools, lptIndex, supply, blockTime>>

\* Sell exactly inputAmt of the input denom for at least minOutput.
TradeExactInputForOutput(sender, recipient, token, input, inputAmt, output, minOutput) ==
  LET lpt == pools[token]
      bought == GetInputPrice(inputAmt, Reserve(lpt, input), Reserve(lpt, output), params.fee)
  IN  /\ lpt # NoPool
      /\ Reserve(lpt, input) > 0
      /\ Reserve(lpt, output) > 0
      /\ bought >= minOutput
      /\ (IF output = token THEN bought ELSE inputAmt) <= GetMaximumSwapAmount(token)
      /\ swapCoins(sender, recipient, lpt, input, inputAmt, output, bought)

\* Buy exactly outputAmt of the output denom for at most maxInput.
TradeInputForExactOutput(sender, recipient, token, input, maxInput, output, outputAmt) ==
  LET lpt == pools[token]
      sold == GetOutputPrice(outputAmt, Reserve(lpt, input), Reserve(lpt, output), params.fee)
  IN  /\ lpt # NoPool
      /\ Reserve(lpt, input) > 0
      /\ Reserve(lpt, output) > 0
      /\ outputAmt < Reserve(lpt, output)
      /\ sold <= maxInput
      /\ (IF input = token THEN sold ELSE outputAmt) <= GetMaximumSwapAmount(token)
      /\ swapCoins(sender, recipient, lpt, input, sold, output, outputAmt)

SwapCoin(sender, recipient, token, input, inputAmt, output, outputAmt, isBuyOrder, deadline) ==
  /\ blockTime <= deadline
  /\ recipient \notin BlockedAddr
  /\ \/ /\ isBuyOrder
        /\ TradeInputForExactOutput(sender, recipient, token, input, inputAmt, output, outputAmt)
     \/ /\ ~isBuyOrder
        /\ TradeExactInputForOutput(sender, recipient, token, input, inputAmt, output, outputAmt)

-----------------------------------------------------------------------------
(* Governance, genesis and time.                                           *)

Validate(p) == p \in Params

UpdateParams(p) ==
  /\ Validate(p)
  /\ params' = p
  /\ UNCHANGED <<sequence, pools, lptIndex, bank, supply, blockTime>>

\* Genesis export keeps the pool list and the sequence, not the lpt index.
ExportGenesis == [params |-> params, sequence |-> sequence, pools |-> pools]

ValidateGenesis(g) ==
  LET created == {t \in Token : g.pools[t] # NoPool}
  IN  /\ \A s, t \in created : s # t => g.pools[s] # g.pools[t]
      /\ \A t \in created : g.pools[t] < g.sequence
      /\ g.sequence = 1 \/ \E t \in created : g.pools[t] + 1 = g.sequence
      /\ Validate(g.params)

\* Mutant: InitGenesis stores a pool under its first key only.
InitGenesisIndexOneKey(g) == [lpt \in LptDenom |-> NoToken]

\* The lpt index that InitGenesis rebuilds with setPool.
InitGenesisIndex(g) ==
  [lpt \in LptDenom |-> IF \E t \in Token : g.pools[t] = lpt
                          THEN CHOOSE t \in Token : g.pools[t] = lpt
                          ELSE NoToken]

NextBlock ==
  /\ blockTime < MaxTime
  /\ blockTime' = blockTime + 1
  /\ UNCHANGED <<params, sequence, pools, lptIndex, bank, supply>>

-----------------------------------------------------------------------------

Init ==
  /\ params = InitParams
  /\ sequence = 1
  /\ pools = [t \in Token |-> NoPool]
  /\ lptIndex = [lpt \in LptDenom |-> NoToken]
  /\ bank = [a \in Addr |-> [d \in Denom |->
               IF a \in User /\ d \notin LptDenom THEN InitBalance[a][d] ELSE 0]]
  /\ supply = [d \in Denom |-> IF d \in LptDenom THEN 0 ELSE InitSupply[d]]
  /\ blockTime = 1

AddLiquidity ==
  \E sender \in User, token \in Token, maxToken, exactStandardAmt \in Amount,
     minLiquidity \in Bound, deadline \in Deadline :
    \/ AddLiquidityCreate(sender, token, maxToken, exactStandardAmt, minLiquidity, deadline)
    \/ AddLiquidityEmpty(sender, token, maxToken, exactStandardAmt, minLiquidity, deadline)
    \/ AddLiquidityJoin(sender, token, maxToken, exactStandardAmt, minLiquidity, deadline)

Withdraw ==
  \E sender \in User, lpt \in LptDenom, withdraw \in Amount,
     minStandardAmt, minToken \in Bound, deadline \in Deadline :
    RemoveLiquidity(sender, lpt, withdraw, minStandardAmt, minToken, deadline)

Swap ==
  \E sender \in User, recipient \in Addr, token \in Token, inputAmt, outputAmt \in Amount,
     isBuyOrder \in BOOLEAN, deadline \in Deadline :
    \/ SwapCoin(sender, recipient, token, Standard, inputAmt, token, outputAmt, isBuyOrder, deadline)
    \/ SwapCoin(sender, recipient, token, token, inputAmt, Standard, outputAmt, isBuyOrder, deadline)

Transfer ==
  \E from \in User, to \in Addr \ BlockedAddr, denom \in Denom, amt \in Amount :
    BankSend(from, to, denom, amt)

Governance == \E p \in ParamChoices : UpdateParams(p)

Next == AddLiquidity \/ Withdraw \/ Swap \/ Transfer \/ Governance \/ NextBlock

Spec == Init /\ [][Next]_vars

-----------------------------------------------------------------------------
(* Properties.                                                             *)

\* The stores hold what their types promise; in particular no balance and no
\* supply is ever driven below zero by a keeper's arithmetic.
TypeOK ==
  /\ params \in Params
  /\ sequence \in 1..(MaxPools + 1)
  /\ pools \in [Token -> LptDenom \cup {NoPool}]
  /\ lptIndex \in [LptDenom -> Token \cup {NoToken}]
  /\ bank \in Balances
  /\ supply \in [Denom -> Nat]
  /\ blockTime \in Nat

\* A pool with outstanding shares has both reserves, whatever swaps, rounded
\* withdrawals, donations and re-openings preceded: AddLiquidity divides by the
\* standard reserve and RemoveLiquidity must have something to pay out.
SharesAreBacked ==
  \A t \in Token :
    (pools[t] # NoPool /\ supply[pools[t]] > 0)
      => Reserve(pools[t], Standard) > 0 /\ Reserve(pools[t], t) > 0

\* The bank's supply of every denom is the sum of all balances, and the module
\* account that fees, mints and burns pass through is empty between messages.
SupplyIsBalances ==
  /\ \A d \in Denom : supply[d] = SumOver([a \in Addr |-> bank[a][d]], Addr)
  /\ \A d \in Denom : bank[ModuleAccount][d] = 0

\* The two indexes that setPool writes agree, pool numbers are those below the
\* sequence, and no share of a pool exists before the pool does.
PoolsIndexed ==
  /\ \A t \in Token : pools[t] # NoPool => pools[t] < sequence /\ lptIndex[pools[t]] = t
  /\ \A n \in LptDenom : n < sequence => lptIndex[n] # NoToken
  /\ \A n \in LptDenom : lptIndex[n] # NoToken => pools[lptIndex[n]] = n
  /\ \A n \in LptDenom : n >= sequence => supply[n] = 0

\* The inductive invariant behind the theorems of CoinswapProofs.
IndInv == TypeOK /\ PoolsIndexed /\ SharesAreBacked

\* Exporting the state at any point yields a genesis that passes ValidateGenesis,
\* and importing it rebuilds the lpt index exactly as the running chain had it.
GenesisRoundTrip ==
  /\ ValidateGenesis(ExportGenesis)
  /\ InitGenesisIndex(ExportGenesis) = lptIndex

\* Whoever holds shares can redeem all of them in the current block, if they ask
\* for no minimum: no parameter change, swap or donation locks liquidity in.
HoldersCanExit ==
  \A u \in User, lpt \in LptDenom :
    bank[u][lpt] > 0 => ENABLED RemoveLiquidity(u, lpt, bank[u][lpt], 0, 0, blockTime)

\* The value of a share, measured as (standard reserve * token reserve) / shares^2,
\* never falls: neither joins, withdrawals, swaps in either direction nor donations
\* can take value from the holders that stay.
ShareValueStep(t, n) ==
  LET e == GetReservePoolAddr(n)
  IN  bank'[e][Standard] * bank'[e][t] * (supply[n] * supply[n])
        >= bank[e][Standard] * bank[e][t] * (supply'[n] * supply'[n])

ShareValueNeverFalls ==
  [][\A t \in Token, n \in LptDenom :
       (pools[t] = n /\ supply[n] > 0) => ShareValueStep(t, n)]_vars
=============================================================================
