----------------------------- MODULE Onboarding -----------------------------
(***************************************************************************)
(* x/onboarding composed with x/coinswap and x/erc20 over one bank: the    *)
(* IBC middleware that, when a transfer arrives, buys the recipient some   *)
(* standard coin with part of it and converts the rest to ERC20 tokens.    *)
(*                                                                         *)
(* A packet is received in one transaction: nothing happens between the    *)
(* phases "transfer", "swap" and "convert".  The pool and the token pairs  *)
(* exist from the start; the chain that sends the packets is one account.  *)
(***************************************************************************)
EXTENDS Integers, FiniteSets, FiniteSetsExt

CONSTANTS
  User,           \* accounts
  Receiver,       \* the users and module accounts that packets are sent to
  Trader,         \* the user that trades with the pool
  Standard,       \* the standard coin
  Voucher,        \* denom of the coins of the other chain
  External,       \* a contract that the erc20 module did not deploy
  CoinswapModule, FeeCollector, Erc20Module, ZeroAddress,
  TransferEscrow, \* account that holds the coins that left for the other chain
  Channel,        \* channels to the other chain
  Remote,         \* denom -> amount on the other chain at the start
  PoolStandard, PoolVoucher, \* the reserves of the pool at the start
  Funds,          \* coins of the trader in both denoms of the pool at the start
  One,            \* 1.0 as a LegacyDec
  Amount,         \* amounts of packets and trades
  MaxPackets,     \* bound on the packets sent
  ParamChoices,   \* parameters that governance may set
  MaxSwap,        \* limits of a swap of vouchers that governance may set
  None

VARIABLES
  params,     \* enableOnboarding, autoSwapThreshold and whitelistedChannels
  maxSwap,    \* x/coinswap: limit of a swap of vouchers
  bank, supply,
  tokenPairs, denomIndex, erc20Index, \* x/erc20: the pairs
  code, tokens, totalSupply,          \* the contracts
  remote,     \* denom -> amount on the other chain
  inflight,   \* packets sent and not received
  refunds,    \* packets with an error acknowledgement on its way
  sent,       \* number of packets sent
  phase, packet, swapped, \* the packet that is being received
  saved       \* the ledgers before it was

pairVars == <<tokenPairs, denomIndex, erc20Index>>
evmVars == <<code, tokens, totalSupply>>
ledgers == <<bank, supply>>
ibcVars == <<remote, inflight, refunds, sent>>
recvVars == <<phase, packet, swapped, saved>>
governed == <<params, maxSwap>>
vars == <<governed, ledgers, pairVars, evmVars, ibcVars, recvVars>>

Minter == 0  \* the contract that the erc20 module deployed for vouchers
TokenDenom == <<"erc20", External>>
Token == {Voucher, TokenDenom}
PoolAddr == <<"escrow", 1>>
Denom == {Standard} \cup Token
ModuleAccounts == {CoinswapModule, FeeCollector, Erc20Module}
Addr == User \cup {PoolAddr, TransferEscrow} \cup ModuleAccounts
SumOf(b, d) == MapThenSumSet(LAMBDA a : b[a][d], Addr)

SwapParams == [fee |-> 0, taxRate |-> 0, poolCreationFee |-> 0,
               maxStandardCoinPerPool |-> PoolStandard,
               maxSwapAmount |-> [t \in Token |-> IF t = Voucher THEN maxSwap ELSE 0]]

C == INSTANCE Coinswap WITH
       ModuleAccount <- CoinswapModule, MaxPools <- 1, MaxTime <- 1, Bound <- {0},
       Deadline <- {1}, InitBalance <- None, InitSupply <- None, InitParams <- None,
       params <- SwapParams, sequence <- 2, blockTime <- 1,
       pools <- [t \in Token |-> IF t = Voucher THEN 1 ELSE 0],
       lptIndex <- [n \in {1} |-> Voucher]

E == INSTANCE Erc20 WITH
       ModuleAddress <- Erc20Module, Coin <- {Standard, Voucher},
       External <- {External}, Approving <- {}, Fee <- [c \in {External, Minter} |-> 0],
       SendDisabled <- {}, Metadata <- {"metadata"}, NoMetadata <- None, NoPair <- None,
       NoId <- None, InitCoins <- None, InitSupply <- None, InitTokens <- None,
       InitTotal <- None, MaxNonce <- 1, MaxSupply <- 0, MaxLogs <- 0,
       params <- [enableErc20 |-> TRUE, enableEVMHook |-> TRUE],
       metadata <- "metadata", coins <- bank, nonce <- 1,
       phase <- "idle", receipt <- <<>>

Packet == [sequence : 1..MaxPackets, channel : Channel, validSender : BOOLEAN,
           receiver : Receiver, denom : Denom, amount : Amount]

Params == [enableOnboarding : BOOLEAN, autoSwapThreshold : Nat,
           whitelistedChannels : SUBSET Channel]

ASSUME OnboardingAssumption ==
  /\ Amount \subseteq Nat \ {0} /\ ParamChoices \subseteq Params
  /\ Trader \in User /\ Receiver \subseteq User \cup ModuleAccounts
  /\ Standard # Voucher
  /\ Remote \in [Denom -> Nat]

-----------------------------------------------------------------------------
(* The transfer application and the relayer (external).                    *)

SendPacket(p) ==
  /\ phase = "idle"
  /\ sent < MaxPackets /\ p.sequence = sent + 1
  /\ remote[p.denom] >= p.amount
  /\ remote' = [remote EXCEPT ![p.denom] = @ - p.amount]
  /\ inflight' = inflight \cup {p}
  /\ sent' = sent + 1
  /\ UNCHANGED <<governed, ledgers, pairVars, evmVars, refunds, recvVars>>

\* A refused packet, or one that timed out, is refunded on the other chain.
Refund(p) ==
  /\ phase = "idle"
  /\ p \in inflight \cup refunds
  /\ remote' = [remote EXCEPT ![p.denom] = @ + p.amount]
  /\ inflight' = inflight \ {p} /\ refunds' = refunds \ {p}
  /\ UNCHANGED <<governed, ledgers, pairVars, evmVars, sent, recvVars>>

\* The transfer: vouchers are minted, coins of this chain come back from escrow.
TransferCoins(p) ==
  IF p.denom = Voucher
  THEN /\ bank' = [bank EXCEPT ![p.receiver][p.denom] = @ + p.amount]
       /\ supply' = [supply EXCEPT ![p.denom] = @ + p.amount]
  ELSE /\ bank[TransferEscrow][p.denom] >= p.amount
       /\ bank' = C!SendCoins(bank, TransferEscrow, p.receiver, p.denom, p.amount)
       /\ UNCHANGED supply

\* Module accounts cannot receive: the middleware returns the error acknowledgement.
RecvRefused(p) ==
  /\ phase = "idle"
  /\ p \in inflight /\ p.receiver \in ModuleAccounts
  /\ inflight' = inflight \ {p} /\ refunds' = refunds \cup {p}
  /\ UNCHANGED <<governed, ledgers, pairVars, evmVars, remote, sent, recvVars>>

Recv(p) ==
  /\ phase = "idle"
  /\ p \in inflight /\ p.receiver \notin ModuleAccounts
  /\ TransferCoins(p)
  /\ inflight' = inflight \ {p}
  /\ phase' = "transfer" /\ packet' = p
  /\ saved' = [bank |-> bank, supply |-> supply, tokens |-> tokens]
  /\ UNCHANGED <<governed, pairVars, evmVars, remote, refunds, sent, swapped>>

\* Back to ibc-core with the acknowledgement of the transfer.
ReturnAck ==
  /\ phase' = "idle" /\ packet' = None /\ swapped' = 0 /\ saved' = None
  /\ UNCHANGED ibcVars

-----------------------------------------------------------------------------
(* The middleware.                                                         *)

\* Mutant: the packet of any channel is onboarded.
OnboardingAppliesAnywhere ==
  /\ params.enableOnboarding
  /\ packet.validSender => packet.receiver \notin ModuleAccounts

OnboardingApplies ==
  /\ params.enableOnboarding
  /\ packet.channel \in params.whitelistedChannels
  /\ packet.validSender => packet.receiver \notin ModuleAccounts

Skip ==
  /\ phase = "transfer"
  /\ ~OnboardingApplies
  /\ ReturnAck
  /\ UNCHANGED <<governed, ledgers, pairVars, evmVars>>

\* Mutant: what the transfer wrote is kept.
InvalidSenderCommits ==
  /\ phase = "transfer"
  /\ OnboardingApplies
  /\ ~packet.validSender
  /\ refunds' = refunds \cup {packet}
  /\ phase' = "idle" /\ packet' = None /\ saved' = None
  /\ UNCHANGED <<governed, ledgers, pairVars, evmVars, remote, inflight, sent, swapped>>

\* An error acknowledgement makes ibc-core drop what the transfer wrote.
InvalidSender ==
  /\ phase = "transfer"
  /\ OnboardingApplies
  /\ ~packet.validSender
  /\ bank' = saved.bank /\ supply' = saved.supply
  /\ refunds' = refunds \cup {packet}
  /\ phase' = "idle" /\ packet' = None /\ saved' = None
  /\ UNCHANGED <<governed, pairVars, evmVars, remote, inflight, sent, swapped>>

BelowThreshold == bank[packet.receiver][Standard] < params.autoSwapThreshold

\* The recipient buys exactly the threshold, for at most what was transferred.
Trade ==
  /\ UNCHANGED governed
  /\ packet.denom # Standard
  /\ C!TradeInputForExactOutput(packet.receiver, packet.receiver, packet.denom, packet.denom,
                                packet.amount, Standard, params.autoSwapThreshold)

Swap ==
  /\ phase = "transfer"
  /\ OnboardingApplies /\ packet.validSender
  /\ BelowThreshold
  /\ Trade
  /\ swapped' = bank[packet.receiver][packet.denom] - bank'[packet.receiver][packet.denom]
  /\ phase' = "convert"
  /\ UNCHANGED <<pairVars, evmVars, ibcVars, packet, saved>>

\* The swap is not needed, or its error is logged.
NoSwap ==
  /\ phase = "transfer"
  /\ OnboardingApplies /\ packet.validSender
  /\ BelowThreshold => ~ENABLED Trade
  /\ phase' = "convert"
  /\ UNCHANGED <<governed, ledgers, pairVars, evmVars, ibcVars, packet, swapped, saved>>

\* Mutant: the transferred amount is converted, swapped or not.
convertAmountOfTransfer == packet.amount

convertAmount == packet.amount - swapped

\* ConvertCoin of the erc20 module, which refuses an amount of zero.
ConvertCoin ==
  LET id == denomIndex[packet.denom]
  IN  /\ UNCHANGED governed
      /\ id # None
      /\ tokenPairs[id].enabled
      /\ E!ConvertCoin(packet.receiver, packet.receiver, packet.denom, convertAmount)

Convert ==
  /\ phase = "convert"
  /\ ConvertCoin
  /\ ReturnAck

\* The denom has no enabled pair, or the cached writes of the conversion are dropped.
NoConvert ==
  /\ phase = "convert"
  /\ ~ENABLED ConvertCoin
  /\ ReturnAck
  /\ UNCHANGED <<governed, ledgers, pairVars, evmVars>>

OnRecvPacket == Skip \/ InvalidSender \/ Swap \/ NoSwap \/ Convert \/ NoConvert

-----------------------------------------------------------------------------
(* What else happens on the chain.                                         *)

UpdateParams(p) ==
  /\ phase = "idle"
  /\ params' = p
  /\ UNCHANGED <<maxSwap, ledgers, pairVars, evmVars, ibcVars, recvVars>>

\* x/coinswap: governance changes the limit of swaps.
LimitSwaps ==
  /\ phase = "idle"
  /\ maxSwap' \in MaxSwap
  /\ UNCHANGED <<params, ledgers, pairVars, evmVars, ibcVars, recvVars>>

TradePool ==
  /\ phase = "idle"
  /\ UNCHANGED governed
  /\ \E amount \in Amount, input, output \in {Standard, Voucher} :
       /\ input # output
       /\ C!SwapCoin(Trader, Trader, Voucher, input, amount, output, 1, FALSE, 1)
  /\ UNCHANGED <<pairVars, evmVars, ibcVars, recvVars>>

TogglePair ==
  /\ phase = "idle"
  /\ UNCHANGED governed
  /\ \E d \in Token : E!ToggleConversion(denomIndex[d])
  /\ UNCHANGED <<ibcVars, recvVars>>

ConvertBack ==
  /\ phase = "idle"
  /\ UNCHANGED governed
  /\ \E u \in User, c \in E!Contract, amount \in Amount : E!ConvertERC20(u, u, c, amount)
  /\ UNCHANGED <<ibcVars, recvVars>>

SelfDestruct ==
  /\ phase = "idle"
  /\ External \in code
  /\ code' = code \ {External}
  /\ tokens' = [tokens EXCEPT ![External] = [a \in DOMAIN @ |-> 0]]
  /\ totalSupply' = [totalSupply EXCEPT ![External] = 0]
  /\ UNCHANGED <<governed, ledgers, pairVars, ibcVars, recvVars>>

\* What the coins of the other chain, the pool and the trader are at the start.
InitBank ==
  [a \in Addr |-> [d \in Denom |->
     CASE a = PoolAddr /\ d = Standard -> PoolStandard
       [] a = PoolAddr /\ d = Voucher -> PoolVoucher
       [] a = Trader /\ d # TokenDenom -> Funds
       [] a = TransferEscrow /\ d # Voucher -> Remote[d]
       [] OTHER -> 0]]

VoucherId == <<Minter, Voucher>>
TokenId == <<External, TokenDenom>>

Init ==
  /\ params \in ParamChoices /\ maxSwap \in MaxSwap
  /\ bank = InitBank
  /\ supply = [d \in Denom |-> SumOf(bank, d)]
  /\ tokenPairs = [id \in E!Id |->
       CASE id = VoucherId -> [enabled |-> TRUE, contractOwner |-> "module"]
         [] id = TokenId -> [enabled |-> TRUE, contractOwner |-> "external"]
         [] OTHER -> None]
  /\ denomIndex = [d \in E!Denom |->
       CASE d = Voucher -> VoucherId [] d = TokenDenom -> TokenId [] OTHER -> None]
  /\ erc20Index = [c \in E!Contract |-> IF c = Minter THEN VoucherId ELSE TokenId]
  /\ code = E!Contract
  /\ tokens = [c \in E!Contract |-> [a \in E!Addr |->
       IF c = External /\ a = Erc20Module THEN Remote[TokenDenom] ELSE 0]]
  /\ totalSupply = [c \in E!Contract |-> IF c = External THEN Remote[TokenDenom] ELSE 0]
  /\ remote = Remote /\ inflight = {} /\ refunds = {} /\ sent = 0
  /\ phase = "idle" /\ packet = None /\ swapped = 0 /\ saved = None

Next ==
  \/ \E p \in Packet : SendPacket(p)
  \/ \E p \in inflight \cup refunds : Refund(p) \/ RecvRefused(p) \/ Recv(p)
  \/ OnRecvPacket
  \/ \E p \in ParamChoices : UpdateParams(p)
  \/ LimitSwaps \/ TradePool \/ TogglePair \/ ConvertBack \/ SelfDestruct

Spec == Init /\ [][Next]_vars

-----------------------------------------------------------------------------
(* Properties.                                                             *)

OnTheWay(d) == MapThenSumSet(LAMBDA p : p.amount, {p \in inflight \cup refunds : p.denom = d})

\* Coins are neither lost nor doubled between the two chains, whatever is swapped,
\* converted, refused, refunded or dropped: a voucher here stands for a coin that left
\* there, a coin there for one that is in escrow here, and the bank adds up.
CoinsConserved ==
  /\ supply[Voucher] + remote[Voucher] + OnTheWay(Voucher)
       = PoolVoucher + Funds + Remote[Voucher]
  /\ \A d \in Denom \ {Voucher} : bank[TransferEscrow][d] = remote[d] + OnTheWay(d)
  /\ \A d \in Denom : supply[d] = SumOf(bank, d)

\* The conversions of the middleware and of the messages keep the tokens of both kinds
\* of pairs backed, on the balances that swaps and transfers change as well.
TokensBacked == E!NativeCoinBacked /\ E!NativeTokenBacked

\* What an account gained since before the packet was received.
Contract(d) == CASE d = Voucher -> Minter [] d = TokenDenom -> External [] OTHER -> None

TokenGain(d, u) ==
  IF d = Standard THEN 0 ELSE tokens'[Contract(d)][u] - saved.tokens[Contract(d)][u]

CoinGain(d, a) == bank'[a][d] - saved.bank[a][d]

\* The recipient's gains, and what the pool was paid for the coins it sold.
Onboarded(r, d) ==
  LET paid == IF d = Standard THEN 0 ELSE CoinGain(d, PoolAddr)
      bought == -CoinGain(Standard, PoolAddr)
  IN  /\ CoinGain(d, r) >= 0 /\ TokenGain(d, r) >= 0 /\ paid >= 0
      /\ CoinGain(d, r) + TokenGain(d, r) + paid
           = packet.amount + (IF d = Standard THEN bought ELSE 0)
      /\ bought = IF paid > 0 THEN params.autoSwapThreshold ELSE 0
      /\ d # Standard => CoinGain(Standard, r) = bought
      /\ paid > 0 => saved.bank[r][Standard] < params.autoSwapThreshold
      /\ paid + TokenGain(d, r) > 0 => packet.channel \in params.whitelistedChannels

\* When the middleware is done with a packet, the recipient has received exactly what was
\* sent, in three forms: coins, tokens and what the pool was paid.  Coins held before are
\* not touched, the pool is paid only for the threshold and only if the recipient had
\* less, nobody else gains or loses, and packets of other channels are left as coins.
OnboardingIsFair ==
  [][phase # "idle" /\ phase' = "idle" /\ refunds' = refunds =>
       /\ Onboarded(packet.receiver, packet.denom)
       /\ \A u \in User \ {packet.receiver}, d \in Denom :
            CoinGain(d, u) = 0 /\ TokenGain(d, u) = 0]_vars
=============================================================================
