------------------------------- MODULE Erc20 -------------------------------
(***************************************************************************)
(* The erc20 module: pairs of a bank denom and an ERC20 contract, the four *)
(* conversions between them, and the hook that converts tokens sent to the *)
(* module's address by an Ethereum transaction.                            *)
(*                                                                         *)
(* A message either succeeds as a whole or changes nothing, so its error   *)
(* returns are guards.  An Ethereum transaction moves tokens in phase      *)
(* "evm" and is followed, in phase "hook", by one step per log of its      *)
(* receipt.  Nothing else happens between the two.                         *)
(***************************************************************************)
EXTENDS Naturals, Sequences, FiniteSets

CONSTANTS
  User,           \* accounts that sign messages and transactions
  ModuleAddress,  \* the module's account, the same on both ledgers
  ZeroAddress,    \* from and to of the logs of a mint and of a burn
  Coin,           \* denoms that exist before they are registered
  External,       \* contracts that the module did not deploy
  Approving,      \* external contracts whose transfer logs an Approval
  Fee,            \* what a transfer of an external contract burns
  SendDisabled,   \* denoms whose transfers the bank module disables
  Metadata,       \* metadata a proposal may carry
  NoMetadata,
  NoPair,
  NoId,
  InitCoins,      \* coins of each user in each denom of Coin
  InitSupply,     \* their supply
  InitTokens,     \* tokens of each user in each external contract
  InitTotal,      \* their total supply
  Amount,         \* amounts of messages and transfers
  MaxNonce,       \* bound on deployments
  MaxSupply,      \* bound on the supply of an external contract
  MaxLogs         \* bound on the logs of a transaction

VARIABLES
  params,       \* enableErc20 and enableEVMHook
  tokenPairs,   \* pairs by id
  denomIndex,   \* pair ids by denom
  erc20Index,   \* pair ids by contract
  metadata,     \* bank metadata by denom
  coins,        \* bank balances
  supply,       \* bank supply
  code,         \* the contracts that have code
  tokens,       \* token balances by contract
  totalSupply,  \* token supply by contract
  nonce,        \* sequence of the module's account
  phase,        \* "idle", "evm" or "hook"
  receipt       \* logs of the current transaction that are not processed

pairVars == <<tokenPairs, denomIndex, erc20Index, metadata>>
bankVars == <<coins, supply>>
evmVars == <<code, tokens, totalSupply, nonce>>
txVars == <<phase, receipt>>
vars == <<params, pairVars, bankVars, evmVars, txVars>>

Addr == User \cup {ModuleAddress, ZeroAddress}
Deployed == 0..(MaxNonce - 1)
Contract == External \cup Deployed
CreateDenom(contract) == <<"erc20", contract>>
Denom == Coin \cup {CreateDenom(c) : c \in Contract}

\* A hash of contract and denom, taken to be free of collisions.
Id == Contract \X Denom
Pair == [enabled : BOOLEAN, contractOwner : {"module", "external"}]
Log == [contract : Contract, from : Addr, to : Addr, amount : Nat]

ASSUME ConstantsAssumption ==
  /\ IsFiniteSet(User)
  /\ ModuleAddress \notin User /\ ZeroAddress \notin User /\ ModuleAddress # ZeroAddress
  /\ External \cap Deployed = {}
  /\ \A c \in Contract : CreateDenom(c) \notin Coin
  /\ Approving \subseteq External
  /\ Fee \in [Contract -> Nat] /\ \A c \in Deployed : Fee[c] = 0
  /\ NoPair \notin Pair /\ NoId \notin Id /\ NoMetadata \notin Metadata
  /\ InitCoins \in [Coin -> Nat] /\ InitTokens \in [External -> Nat]
  /\ InitSupply \in [Coin -> Nat] /\ InitTotal \in [External -> Nat]
  /\ Amount \subseteq Nat /\ MaxNonce \in Nat /\ MaxSupply \in Nat /\ MaxLogs \in Nat

TypeOK ==
  /\ params \in [enableErc20 : BOOLEAN, enableEVMHook : BOOLEAN]
  /\ tokenPairs \in [Id -> Pair \cup {NoPair}]
  /\ denomIndex \in [Denom -> Id \cup {NoId}]
  /\ erc20Index \in [Contract -> Id \cup {NoId}]
  /\ metadata \in [Denom -> Metadata \cup {NoMetadata}]
  /\ coins \in [Addr -> [Denom -> Nat]]
  /\ supply \in [Denom -> Nat]
  /\ code \in SUBSET Contract
  /\ tokens \in [Contract -> [Addr -> Nat]]
  /\ totalSupply \in [Contract -> Nat]
  /\ nonce \in Nat
  /\ phase \in {"idle", "evm", "hook"}
  /\ receipt \in Seq(Log)

-----------------------------------------------------------------------------
(* The two ledgers, as the module uses them.                               *)

BlockedAddr(addr) == addr = ModuleAddress

SendCoins(b, from, to, denom, amount) ==
  LET debited == [b EXCEPT ![from][denom] = @ - amount]
  IN  [debited EXCEPT ![to][denom] = @ + amount]

\* An external contract may burn a fee out of what is transferred.
Received(contract, amount) == amount - Fee[contract]

CanTransfer(contract, from, to, amount) ==
  /\ contract \in code
  /\ to # ZeroAddress
  /\ tokens[contract][from] >= amount
  /\ amount >= Fee[contract]
  /\ totalSupply[contract] >= Fee[contract]

Transfer(contract, from, to, amount) ==
  LET debited == [tokens EXCEPT ![contract][from] = @ - amount]
  IN  /\ tokens' = [debited EXCEPT ![contract][to] = @ + Received(contract, amount)]
      /\ totalSupply' = [totalSupply EXCEPT ![contract] = @ - Fee[contract]]

CanBurn(contract, from, amount) ==
  /\ contract \in code
  /\ tokens[contract][from] >= amount
  /\ totalSupply[contract] >= amount

Burn(contract, from, amount) ==
  /\ tokens' = [tokens EXCEPT ![contract][from] = @ - amount]
  /\ totalSupply' = [totalSupply EXCEPT ![contract] = @ - amount]

Mint(contract, to, amount) ==
  /\ tokens' = [tokens EXCEPT ![contract][to] = @ + amount]
  /\ totalSupply' = [totalSupply EXCEPT ![contract] = @ + amount]

-----------------------------------------------------------------------------
(* Token pairs.                                                            *)

IsDenomRegistered(denom) == denomIndex[denom] # NoId
IsERC20Registered(contract) == erc20Index[contract] # NoId

\* SetTokenPair and the two index entries of a new pair.
SetPairAndIndexes(contract, denom, owner) ==
  LET id == <<contract, denom>>
  IN  /\ tokenPairs' = [tokenPairs EXCEPT ![id] = [enabled |-> TRUE, contractOwner |-> owner]]
      /\ denomIndex' = [denomIndex EXCEPT ![denom] = id]
      /\ erc20Index' = [erc20Index EXCEPT ![contract] = id]

\* Mutant: the entry of the denom is left behind.
DeleteTokenPairKeepsDenom(id) ==
  /\ tokenPairs' = [tokenPairs EXCEPT ![id] = NoPair]
  /\ erc20Index' = [erc20Index EXCEPT ![id[1]] = NoId]
  /\ UNCHANGED denomIndex

DeleteTokenPair(id) ==
  /\ tokenPairs' = [tokenPairs EXCEPT ![id] = NoPair]
  /\ erc20Index' = [erc20Index EXCEPT ![id[1]] = NoId]
  /\ denomIndex' = [denomIndex EXCEPT ![id[2]] = NoId]

\* verifyMetadata: what is stored must be equal, otherwise it is set.
verifyMetadata(denom, meta) == metadata[denom] \in {NoMetadata, meta}

\* RegisterCoin refuses denoms that contain "CANTO".  No denom of the chain does.
Prohibited == {}

\* Mutant: the address of the new contract is computed from a stale sequence.
RegisterCoinStaleNonce(denom, meta) ==
  /\ phase = "idle"
  /\ params.enableErc20
  /\ denom \notin Prohibited
  /\ ~IsDenomRegistered(denom)
  /\ supply[denom] > 0
  /\ verifyMetadata(denom, meta)
  /\ nonce \in Deployed
  /\ metadata' = [metadata EXCEPT ![denom] = meta]
  /\ code' = code \cup {nonce}
  /\ SetPairAndIndexes(nonce, denom, "module")
  /\ UNCHANGED <<params, bankVars, tokens, totalSupply, nonce, txVars>>

RegisterCoin(denom, meta) ==
  /\ phase = "idle"
  /\ params.enableErc20
  /\ denom \notin Prohibited
  /\ ~IsDenomRegistered(denom)
  /\ supply[denom] > 0
  /\ verifyMetadata(denom, meta)
  /\ nonce \in Deployed
  /\ metadata' = [metadata EXCEPT ![denom] = meta]
  /\ code' = code \cup {nonce}
  /\ nonce' = nonce + 1
  /\ SetPairAndIndexes(nonce, denom, "module")
  /\ UNCHANGED <<params, bankVars, tokens, totalSupply, txVars>>

RegisterERC20(contract, meta) ==
  LET denom == CreateDenom(contract)
  IN  /\ phase = "idle"
      /\ params.enableErc20
      /\ ~IsERC20Registered(contract)
      /\ contract \in code
      /\ metadata[denom] = NoMetadata
      /\ ~IsDenomRegistered(denom)
      /\ metadata' = [metadata EXCEPT ![denom] = meta]
      /\ SetPairAndIndexes(contract, denom, "external")
      /\ UNCHANGED <<params, bankVars, evmVars, txVars>>

ToggleConversion(id) ==
  /\ phase = "idle"
  /\ id # NoId
  /\ tokenPairs[id] # NoPair
  /\ tokenPairs' = [tokenPairs EXCEPT ![id] =
                       [enabled |-> ~@.enabled, contractOwner |-> @.contractOwner]]
  /\ UNCHANGED <<params, denomIndex, erc20Index, metadata, bankVars, evmVars, txVars>>

UpdateParams(p) ==
  /\ phase = "idle"
  /\ params' = p
  /\ UNCHANGED <<pairVars, bankVars, evmVars, txVars>>

-----------------------------------------------------------------------------
(* Conversions.                                                            *)

MintingEnabled(sender, receiver, id) ==
  /\ params.enableErc20
  /\ id # NoId
  /\ tokenPairs[id] # NoPair
  /\ tokenPairs[id].enabled
  /\ ~BlockedAddr(receiver)
  /\ sender = receiver \/ id[2] \notin SendDisabled

\* A transfer that also logs an Approval fails the message.
monitorApprovalEvent(contract) == contract \notin Approving

\* The coins are escrowed and tokens are minted.
convertCoinNativeCoin(id, sender, receiver, denom, amount) ==
  /\ tokenPairs[id].contractOwner = "module"
  /\ coins[sender][denom] >= amount
  /\ receiver # ZeroAddress
  /\ coins' = SendCoins(coins, sender, ModuleAddress, denom, amount)
  /\ Mint(id[1], receiver, amount)
  /\ tokens'[id[1]][receiver] = tokens[id[1]][receiver] + amount
  /\ UNCHANGED supply

\* Mutant: sender and receiver are exchanged.
convertERC20NativeCoinSwapped(id, sender, receiver, amount) ==
  /\ tokenPairs[id].contractOwner = "module"
  /\ CanBurn(id[1], receiver, amount)
  /\ coins[ModuleAddress][id[2]] >= amount
  /\ Burn(id[1], receiver, amount)
  /\ coins' = SendCoins(coins, ModuleAddress, sender, id[2], amount)
  /\ UNCHANGED supply

\* Mutant: the last escrowed coin is never released.
convertERC20NativeCoinStrict(id, sender, receiver, amount) ==
  /\ tokenPairs[id].contractOwner = "module"
  /\ CanBurn(id[1], sender, amount)
  /\ coins[ModuleAddress][id[2]] > amount
  /\ Burn(id[1], sender, amount)
  /\ coins' = SendCoins(coins, ModuleAddress, receiver, id[2], amount)
  /\ UNCHANGED supply

\* The tokens are burnt and escrowed coins are released.
convertERC20NativeCoin(id, sender, receiver, amount) ==
  /\ tokenPairs[id].contractOwner = "module"
  /\ CanBurn(id[1], sender, amount)
  /\ coins[ModuleAddress][id[2]] >= amount
  /\ Burn(id[1], sender, amount)
  /\ coins' = SendCoins(coins, ModuleAddress, receiver, id[2], amount)
  /\ coins'[receiver][id[2]] = coins[receiver][id[2]] + amount
  /\ tokens'[id[1]][sender] = tokens[id[1]][sender] - amount
  /\ UNCHANGED supply

\* Mutant: what arrives in escrow is not compared with the amount.
convertERC20NativeTokenUnchecked(id, sender, receiver, amount) ==
  /\ tokenPairs[id].contractOwner = "external"
  /\ CanTransfer(id[1], sender, ModuleAddress, amount)
  /\ Transfer(id[1], sender, ModuleAddress, amount)
  /\ coins' = [coins EXCEPT ![receiver][id[2]] = @ + amount]
  /\ supply' = [supply EXCEPT ![id[2]] = @ + amount]
  /\ monitorApprovalEvent(id[1])

\* The tokens are escrowed and coins are minted.
convertERC20NativeToken(id, sender, receiver, amount) ==
  /\ tokenPairs[id].contractOwner = "external"
  /\ CanTransfer(id[1], sender, ModuleAddress, amount)
  /\ Transfer(id[1], sender, ModuleAddress, amount)
  /\ tokens'[id[1]][ModuleAddress] = tokens[id[1]][ModuleAddress] + amount
  /\ coins' = [coins EXCEPT ![receiver][id[2]] = @ + amount]
  /\ supply' = [supply EXCEPT ![id[2]] = @ + amount]
  /\ monitorApprovalEvent(id[1])

\* Mutant: the escrowed coins are not burnt.
convertCoinNativeERC20Unburnt(id, sender, receiver, denom, amount) ==
  /\ tokenPairs[id].contractOwner = "external"
  /\ coins[sender][denom] >= amount
  /\ CanTransfer(id[1], ModuleAddress, receiver, amount)
  /\ Transfer(id[1], ModuleAddress, receiver, amount)
  /\ tokens'[id[1]][receiver] = tokens[id[1]][receiver] + amount
  /\ coins' = SendCoins(coins, sender, ModuleAddress, denom, amount)
  /\ UNCHANGED supply

\* The coins are burnt and escrowed tokens are released.
convertCoinNativeERC20(id, sender, receiver, denom, amount) ==
  /\ tokenPairs[id].contractOwner = "external"
  /\ coins[sender][denom] >= amount
  /\ supply[denom] >= amount
  /\ CanTransfer(id[1], ModuleAddress, receiver, amount)
  /\ Transfer(id[1], ModuleAddress, receiver, amount)
  /\ tokens'[id[1]][receiver] = tokens[id[1]][receiver] + amount
  /\ coins' = [coins EXCEPT ![sender][denom] = @ - amount]
  /\ supply' = [supply EXCEPT ![denom] = @ - amount]
  /\ monitorApprovalEvent(id[1])

\* The pair of a contract that has been destroyed is removed instead of used.
RemovePair(id) ==
  /\ id[1] \notin code
  /\ DeleteTokenPair(id)
  /\ UNCHANGED <<metadata, bankVars, evmVars>>

ConvertCoin(sender, receiver, denom, amount) ==
  LET id == denomIndex[denom]
  IN  /\ phase = "idle"
      /\ amount > 0
      /\ MintingEnabled(sender, receiver, id)
      /\ \/ RemovePair(id)
         \/ /\ id[1] \in code
            /\ \/ convertCoinNativeCoin(id, sender, receiver, denom, amount)
               \/ convertCoinNativeERC20(id, sender, receiver, denom, amount)
            /\ UNCHANGED <<pairVars, code, nonce>>
      /\ UNCHANGED <<params, txVars>>

ConvertERC20(sender, receiver, contract, amount) ==
  LET id == erc20Index[contract]
  IN  /\ phase = "idle"
      /\ amount > 0
      /\ MintingEnabled(sender, receiver, id)
      /\ \/ RemovePair(id)
         \/ /\ id[1] \in code
            /\ \/ convertERC20NativeCoin(id, sender, receiver, amount)
               \/ convertERC20NativeToken(id, sender, receiver, amount)
            /\ UNCHANGED <<pairVars, code, nonce>>
      /\ UNCHANGED <<params, txVars>>

-----------------------------------------------------------------------------
(* Ethereum transactions.  Each step below adds the logs of one call to    *)
(* the receipt of the current transaction, which may hold calls for        *)
(* several accounts.                                                       *)

Call(logs) ==
  /\ phase \in {"idle", "evm"}
  /\ Len(receipt) + Len(logs) <= MaxLogs
  /\ phase' = "evm"
  /\ receipt' = receipt \o logs

TransferLog(contract, from, to, amount) ==
  [contract |-> contract, from |-> from, to |-> to, amount |-> amount]

EvmTransfer(contract, from, to, amount) ==
  /\ CanTransfer(contract, from, to, amount)
  /\ Transfer(contract, from, to, amount)
  /\ Call(<<TransferLog(contract, from, to, Received(contract, amount))>>)
  /\ UNCHANGED <<params, pairVars, bankVars, code, nonce>>

EvmBurn(contract, from, amount) ==
  /\ CanBurn(contract, from, amount)
  /\ Burn(contract, from, amount)
  /\ Call(<<TransferLog(contract, from, ZeroAddress, amount)>>)
  /\ UNCHANGED <<params, pairVars, bankVars, code, nonce>>

EvmMint(contract, to, amount) ==
  /\ contract \in code
  /\ totalSupply[contract] + amount <= MaxSupply
  /\ Mint(contract, to, amount)
  /\ Call(<<TransferLog(contract, ZeroAddress, to, amount)>>)
  /\ UNCHANGED <<params, pairVars, bankVars, code, nonce>>

EvmSelfDestruct(contract) ==
  /\ contract \in code
  /\ code' = code \ {contract}
  /\ tokens' = [tokens EXCEPT ![contract] = [a \in Addr |-> 0]]
  /\ totalSupply' = [totalSupply EXCEPT ![contract] = 0]
  /\ Call(<<>>)
  /\ UNCHANGED <<params, pairVars, bankVars, nonce>>

\* The transaction ends and its logs are handed to the hook, if it is enabled.
PostTxProcessing ==
  /\ phase = "evm"
  /\ IF params.enableErc20 /\ params.enableEVMHook /\ receipt # <<>>
     THEN phase' = "hook" /\ UNCHANGED receipt
     ELSE phase' = "idle" /\ receipt' = <<>>
  /\ UNCHANGED <<params, pairVars, bankVars, evmVars>>

NextLog ==
  /\ receipt' = Tail(receipt)
  /\ phase' = IF Len(receipt) = 1 THEN "idle" ELSE "hook"

\* Mutant: the receiver of the transfer is not looked at.
ConvertibleAny(log) ==
  LET id == erc20Index[log.contract]
  IN  /\ log.amount > 0
      /\ id # NoId
      /\ tokenPairs[id] # NoPair
      /\ tokenPairs[id].enabled

\* The log is a transfer to the module of tokens that can be converted.
Convertible(log) ==
  LET id == erc20Index[log.contract]
  IN  /\ log.amount > 0
      /\ id # NoId
      /\ tokenPairs[id] # NoPair
      /\ log.to = ModuleAddress
      /\ tokenPairs[id].enabled

\* Sending the converted coins to the sender of the tokens may fail; what was
\* done before is kept.
SendConverted(b, denom, recipient, amount) ==
  IF BlockedAddr(recipient) \/ b[ModuleAddress][denom] < amount
  THEN b
  ELSE SendCoins(b, ModuleAddress, recipient, denom, amount)

SkipLog ==
  /\ phase = "hook"
  /\ ~Convertible(Head(receipt))
  /\ NextLog
  /\ UNCHANGED <<params, pairVars, bankVars, evmVars>>

\* Mutant: the tokens stay with the module.
HookNativeCoinUnburnt ==
  LET log == Head(receipt)
      id == erc20Index[log.contract]
  IN  /\ phase = "hook"
      /\ Convertible(log)
      /\ tokenPairs[id].contractOwner = "module"
      /\ coins' = SendConverted(coins, id[2], log.from, log.amount)
      /\ NextLog
      /\ UNCHANGED <<params, pairVars, supply, evmVars>>

\* The tokens of a native coin are burnt.  If that fails the log is skipped.
HookNativeCoin ==
  LET log == Head(receipt)
      id == erc20Index[log.contract]
  IN  /\ phase = "hook"
      /\ Convertible(log)
      /\ tokenPairs[id].contractOwner = "module"
      /\ IF CanBurn(log.contract, ModuleAddress, log.amount)
         THEN /\ Burn(log.contract, ModuleAddress, log.amount)
              /\ coins' = SendConverted(coins, id[2], log.from, log.amount)
         ELSE UNCHANGED <<tokens, totalSupply, coins>>
      /\ NextLog
      /\ UNCHANGED <<params, pairVars, supply, code, nonce>>

\* The tokens of an external contract are kept and coins are minted.
HookNativeToken ==
  LET log == Head(receipt)
      id == erc20Index[log.contract]
      minted == [coins EXCEPT ![ModuleAddress][id[2]] = @ + log.amount]
  IN  /\ phase = "hook"
      /\ Convertible(log)
      /\ tokenPairs[id].contractOwner = "external"
      /\ supply' = [supply EXCEPT ![id[2]] = @ + log.amount]
      /\ coins' = SendConverted(minted, id[2], log.from, log.amount)
      /\ NextLog
      /\ UNCHANGED <<params, pairVars, evmVars>>

-----------------------------------------------------------------------------
(* Genesis.                                                                *)

Registered(id) == tokenPairs[id] # NoPair

\* The parameters, the pairs and the entries of the two indexes.
ExportGenesis ==
  [params |-> params,
   tokenPairs |-> [id \in {i \in Id : Registered(i)} |-> tokenPairs[id]],
   denomIndexes |-> [denom \in {d \in Denom : IsDenomRegistered(d)} |-> denomIndex[denom]],
   erc20AddressIndexes |->
     [contract \in {c \in Contract : IsERC20Registered(c)} |-> erc20Index[contract]]]

\* Every store is filled from its own list.
InitGenesis(data) ==
  /\ params' = data.params
  /\ tokenPairs' = [id \in Id |->
       IF id \in DOMAIN data.tokenPairs THEN data.tokenPairs[id] ELSE NoPair]
  /\ denomIndex' = [denom \in Denom |->
       IF denom \in DOMAIN data.denomIndexes THEN data.denomIndexes[denom] ELSE NoId]
  /\ erc20Index' = [contract \in Contract |->
       IF contract \in DOMAIN data.erc20AddressIndexes
       THEN data.erc20AddressIndexes[contract] ELSE NoId]

\* The chain is exported between two blocks and starts again from that genesis; bank and
\* EVM keep their own.
Restart ==
  /\ phase = "idle"
  /\ InitGenesis(ExportGenesis)
  /\ UNCHANGED <<metadata, bankVars, evmVars, txVars>>

-----------------------------------------------------------------------------
Init ==
  /\ params = [enableErc20 |-> TRUE, enableEVMHook |-> TRUE]
  /\ tokenPairs = [id \in Id |-> NoPair]
  /\ denomIndex = [d \in Denom |-> NoId]
  /\ erc20Index = [c \in Contract |-> NoId]
  /\ metadata = [d \in Denom |-> NoMetadata]
  /\ coins = [a \in Addr |-> [d \in Denom |->
                IF a \in User /\ d \in Coin THEN InitCoins[d] ELSE 0]]
  /\ supply = [d \in Denom |-> IF d \in Coin THEN InitSupply[d] ELSE 0]
  /\ code = External
  /\ tokens = [c \in Contract |-> [a \in Addr |->
                 IF a \in User /\ c \in External THEN InitTokens[c] ELSE 0]]
  /\ totalSupply = [c \in Contract |-> IF c \in External THEN InitTotal[c] ELSE 0]
  /\ nonce = 0
  /\ phase = "idle"
  /\ receipt = <<>>

Governance ==
  \/ \E d \in Denom, m \in Metadata : RegisterCoin(d, m)
  \/ \E c \in Contract, m \in Metadata : RegisterERC20(c, m)
  \/ \E d \in Denom : ToggleConversion(denomIndex[d])
  \/ \E c \in Contract : ToggleConversion(erc20Index[c])
  \/ \E e, h \in BOOLEAN : UpdateParams([enableErc20 |-> e, enableEVMHook |-> h])

Conversion ==
  \E u \in User, r \in Addr, a \in Amount :
    \/ \E d \in Denom : ConvertCoin(u, r, d, a)
    \/ \E c \in Contract : ConvertERC20(u, r, c, a)

Ethereum ==
  \/ \E c \in Contract, u \in User, to \in Addr, a \in Amount : EvmTransfer(c, u, to, a)
  \/ \E c \in Contract, u \in User, a \in Amount : EvmBurn(c, u, a)
  \/ \E c \in External, to \in User \cup {ModuleAddress}, a \in Amount : EvmMint(c, to, a)
  \/ \E c \in External : EvmSelfDestruct(c)
  \/ PostTxProcessing

Hook == SkipLog \/ HookNativeCoin \/ HookNativeToken

Next == Governance \/ Conversion \/ Ethereum \/ Hook \/ Restart

Spec == Init /\ [][Next]_vars
-----------------------------------------------------------------------------
(* Properties.                                                             *)

\* The three stores of RegisterCoin, RegisterERC20 and DeleteTokenPair agree: a pair
\* is found under its contract and under its denom, and an index entry leads to a
\* pair of that contract or denom.
PairsIndexed ==
  /\ \A id \in Id : Registered(id) => erc20Index[id[1]] = id /\ denomIndex[id[2]] = id
  /\ \A c \in Contract :
       IsERC20Registered(c) => erc20Index[c][1] = c /\ Registered(erc20Index[c])
  /\ \A d \in Denom :
       IsDenomRegistered(d) => denomIndex[d][2] = d /\ Registered(denomIndex[d])

\* Contracts of the module are its deployments so far, each with its pair; the denom of
\* an external pair is the one CreateDenom makes, and no such coin exists before.
OwnersKnown ==
  /\ \A id \in Id : Registered(id) =>
       /\ metadata[id[2]] # NoMetadata
       /\ \/ tokenPairs[id].contractOwner = "module" /\ id[1] \in Deployed
          \/ tokenPairs[id].contractOwner = "external" /\ id[1] \in External
             /\ id[2] = CreateDenom(id[1])
  /\ \A c \in Deployed :
       \/ c < nonce /\ c \in code /\ IsERC20Registered(c)
       \/ c >= nonce /\ c \notin code /\ ~IsERC20Registered(c) /\ totalSupply[c] = 0
  /\ \A c \in Contract : metadata[CreateDenom(c)] = NoMetadata => supply[CreateDenom(c)] = 0

\* Every token of a contract the module deployed can be converted back: the module's
\* account holds at least as many coins as there are tokens, whatever mix of messages,
\* transfers to the module and half-failed hooks came before.
NativeCoinBacked ==
  \A id \in Id : Registered(id) /\ tokenPairs[id].contractOwner = "module" =>
     totalSupply[id[1]] <= coins[ModuleAddress][id[2]]

\* Every coin of an external contract that still exists is backed by a token that the
\* module's address holds, also when the contract takes a fee on transfers.
NativeTokenBacked ==
  \A id \in Id : Registered(id) /\ tokenPairs[id].contractOwner = "external" /\ id[1] \in code =>
     supply[id[2]] <= tokens[id[1]][ModuleAddress]

\* What a log of the receipt brings to the module's address.
Deposit(log, c) == IF log.contract = c /\ log.to = ModuleAddress THEN log.amount ELSE 0

\* The tokens that the module's address holds of an external contract also back the coins
\* that the logs still to be processed will mint: due[i] are the coins before log i.
PendingBacked ==
  \A id \in Id : Registered(id) /\ tokenPairs[id].contractOwner = "external" /\ id[1] \in code =>
    \E due \in [1..Len(receipt) + 1 -> 0..tokens[id[1]][ModuleAddress]] :
      /\ supply[id[2]] <= due[1]
      /\ \A i \in 1..Len(receipt) : due[i] + Deposit(receipt[i], id[1]) <= due[i + 1]

\* The inductive invariant: types, the receipt of each phase, indexes, owners, and the
\* backing of both kinds of pairs, with the logs of the current transaction counted.
IndInv ==
  /\ TypeOK
  /\ phase = "hook" => receipt # <<>>
  /\ phase = "idle" => receipt = <<>>
  /\ PairsIndexed
  /\ OwnersKnown
  /\ NativeCoinBacked
  /\ PendingBacked

\* Once the hook of PostTxProcessing accepts a log, the burn and the transfer of coins
\* that follow cannot fail, whatever logs of the same transaction came before: the
\* branches that log an error and go on with the next log are never taken.
HookNeverFails ==
  phase = "hook" /\ Convertible(Head(receipt)) =>
    LET log == Head(receipt)
        id == erc20Index[log.contract]
    IN  /\ ~BlockedAddr(log.from)
        /\ tokenPairs[id].contractOwner = "module" =>
             /\ CanBurn(log.contract, ModuleAddress, log.amount)
             /\ coins[ModuleAddress][id[2]] >= log.amount

\* With conversions enabled, a holder can always convert to the other form and keep
\* it: tokens of a native coin to coins, and coins of a live standard contract to
\* tokens.  No guard of ConvertERC20 and ConvertCoin can stand in the way.
Redeemable ==
  phase = "idle" /\ params.enableErc20 =>
    \A id \in Id, u \in User, a \in Amount \ {0} :
      Registered(id) /\ tokenPairs[id].enabled /\ id[1] \in code =>
        IF tokenPairs[id].contractOwner = "module"
        THEN tokens[id[1]][u] >= a => ENABLED ConvertERC20(u, u, id[1], a)
        ELSE coins[u][id[2]] >= a /\ Fee[id[1]] = 0 /\ id[1] \notin Approving
               => ENABLED ConvertCoin(u, u, id[2], a)

\* The module never mints or burns a coin that exists on its own, on any path.
NativeSupplyFixed == [][\A d \in Coin : supply'[d] = supply[d]]_vars

\* What an account holds of a pair, in both forms.
Holding(id, a) == coins[a][id[2]] + tokens[id[1]][a]

\* Of pair id, amt goes from one account to another; nothing else changes hands.
Conveys(id, from, to, amt) ==
  \A j \in Id, v \in User \cup {to} : Registered(j) =>
    LET share == IF j = id /\ id[1] \in code THEN amt ELSE 0
    IN  Holding(j, v)' + (IF v = from THEN share ELSE 0)
          = Holding(j, v) + (IF v = to THEN share ELSE 0)

\* A message of ConvertCoin or ConvertERC20 moves value from its sender to its receiver
\* and nowhere else: what the sender gives up in one form the receiver gets in the
\* other, and no third account and no other pair is touched.  If the contract is gone,
\* nothing moves.
ConversionIsFair ==
  [][\A u \in User, to \in Addr, a \in Amount :
       /\ \A d \in Denom : ConvertCoin(u, to, d, a) => Conveys(denomIndex[d], u, to, a)
       /\ \A c \in Contract : ConvertERC20(u, to, c, a) => Conveys(erc20Index[c], u, to, a)]_vars

\* The pairs seen as vaults.  The assets of a native coin are the module's coins and
\* the claims its tokens; for an external contract it is the other way round.
VaultOpen == {c \in code : IsERC20Registered(c)}

Locked(c) ==
  IF c \notin VaultOpen THEN 0
  ELSE IF tokenPairs[erc20Index[c]].contractOwner = "module"
  THEN coins[ModuleAddress][erc20Index[c][2]]
  ELSE tokens[c][ModuleAddress]

Issued(c) ==
  IF c \notin VaultOpen THEN 0
  ELSE IF tokenPairs[erc20Index[c]].contractOwner = "module"
  THEN totalSupply[c]
  ELSE supply[erc20Index[c][2]]

V == INSTANCE Vault WITH
       open <- VaultOpen,
       locked <- [c \in Contract |-> Locked(c)],
       issued <- [c \in Contract |-> Issued(c)]

\* Conversions, registration, deletion, transfers and the hook together implement the
\* vaults: every step changes at most one vault, and only as a vault may change.
ImplementsVault == V!Spec
=============================================================================
