-------------------------------- MODULE Csr --------------------------------
(***************************************************************************)
(* x/csr: contract secured revenue.  A contract registers itself at the    *)
(* Turnstile contract for an NFT; the hook that runs after every EVM       *)
(* transaction copies the Turnstile's events into the module's registry    *)
(* and splits the transaction's fee between the NFT and the burner.        *)
(*                                                                         *)
(* A transaction is several steps of one thread: the ante handler takes    *)
(* the fee, the EVM runs calls that leave logs, the hook handles one log   *)
(* per step and then the fee.  An error of the hook, or of the EVM, undoes *)
(* all that happened since the ante handler: `saved` is the store it goes  *)
(* back to.  Decimals (LegacyDec) are integers scaled by One.              *)
(***************************************************************************)
EXTENDS Integers, Sequences, Sums

CONSTANTS
  Contract,     \* addresses that may hold code
  EOA,          \* externally owned accounts that call the Turnstile
  None,         \* no address: the target of a contract creation
  MaxNFT,       \* bound on the NFTs the Turnstile mints
  One,          \* 1.0 as a LegacyDec
  GasLimit,     \* gas limit of every transaction
  GasUsed,      \* gas a transaction may use
  GasPrice,     \* gas prices of transactions
  Funds,        \* coins of the users at genesis
  ParamChoices  \* parameters governance may set

VARIABLES
  params,        \* the module's parameters
  csrs,          \* store of CSRs: NFT -> CSR, or NoCSR
  index,         \* store of contracts: address -> NFT, or NoNFT
  turnstile,     \* whether the store holds the Turnstile's address
  feeRecipient,  \* Turnstile: address -> NFT it is registered to, or NoNFT
  tokenId,       \* Turnstile: the next NFT
  balances,      \* Turnstile: NFT -> fees it may withdraw
  withdrawn,     \* fees withdrawn so far: NFT -> amount
  code,          \* contracts that have code
  bank,          \* balances of the EVM denom
  supply,        \* bank supply of the EVM denom
  phase,         \* what the chain is doing
  tx,            \* the transaction being executed
  logs,          \* its Turnstile logs that the hook has not handled
  saved          \* the store that a failed transaction goes back to

evm == <<feeRecipient, tokenId, balances, withdrawn, code>>
vars == <<params, csrs, index, turnstile, evm, bank, supply, phase, tx, logs, saved>>

Address == Contract \cup EOA
NFT == 0..(MaxNFT - 1)
NoNFT == MaxNFT
NoCSR == [contracts |-> {}, txs |-> 0, revenue |-> 0]
CSR == [contracts : SUBSET Address, txs : Nat, revenue : Nat]

Account == {"users", "fee_collector", "csr", "turnstile"}
Params == [enableCsr : BOOLEAN, csrShares : 0..One]
Event == [name : {"Register", "Assign"}, contract : Address, id : NFT]
Tx == [to : Address \cup {None}, gasPrice : Nat, gasUsed : Nat]
NoTx == [to |-> None, gasPrice |-> 0, gasUsed |-> 0]

Store == [csrs : [NFT -> CSR], index : [Address -> NFT \cup {NoNFT}],
          feeRecipient : [Address -> NFT \cup {NoNFT}], tokenId : 0..MaxNFT,
          balances : [NFT -> Nat], withdrawn : [NFT -> Nat],
          code : SUBSET Contract, bank : [Account -> Nat], supply : Nat]

Current == [csrs |-> csrs, index |-> index, feeRecipient |-> feeRecipient,
            tokenId |-> tokenId, balances |-> balances, withdrawn |-> withdrawn,
            code |-> code, bank |-> bank, supply |-> supply]

ASSUME ConstantsAssumption ==
  /\ MaxNFT \in Nat /\ One \in Nat \ {0} /\ Funds \in Nat
  /\ GasLimit \in Nat /\ GasUsed \subseteq 0..GasLimit /\ GasPrice \subseteq Nat
  /\ ParamChoices \subseteq Params
  /\ Contract \cap EOA = {} /\ None \notin Address

-----------------------------------------------------------------------------
(* The stores of the keeper.                                               *)

GetCSR(id) == csrs[id]

\* A CSR is found when its bytes are not empty: it has a contract.
Found(csr) == csr.contracts # {}

GetNFTByContract(contract) == index[contract]

\* Mutant: the new contract is not indexed.
SetCSRUnindexed(id, csr) ==
  /\ csrs' = [csrs EXCEPT ![id] = csr]
  /\ index' = IF Found(csrs[id]) THEN index
              ELSE [a \in Address |-> IF a \in csr.contracts THEN id ELSE index[a]]

SetCSR(id, csr) ==
  /\ csrs' = [csrs EXCEPT ![id] = csr]
  /\ index' = [a \in Address |-> IF a \in csr.contracts THEN id ELSE index[a]]

-----------------------------------------------------------------------------
(* The bank (external).  It refuses a coin of amount zero.                 *)

SendCoins(b, from, to, amt) == [b EXCEPT ![from] = @ - amt, ![to] = @ + amt]
BurnCoins(b, from, amt) == [b EXCEPT ![from] = @ - amt]

-----------------------------------------------------------------------------
(* Blocks.  Governance acts in the end blocker of x/gov; the begin blocker *)
(* of x/distribution empties the fee collector.                            *)

BeginBlock ==
  /\ phase = "begin"
  /\ turnstile' = (turnstile \/ params.enableCsr)
  /\ bank' = SendCoins(bank, "fee_collector", "users", bank["fee_collector"])
  /\ phase' = "idle"
  /\ UNCHANGED <<params, csrs, index, evm, supply, tx, logs>>
  /\ saved' = Current'

UpdateParams(p) ==
  /\ phase = "idle"
  /\ params' = p
  /\ phase' = "begin"
  /\ UNCHANGED <<csrs, index, turnstile, evm, bank, supply, tx, logs, saved>>

EndBlock ==
  /\ phase = "idle"
  /\ phase' = "begin"
  /\ UNCHANGED <<params, csrs, index, turnstile, evm, bank, supply, tx, logs, saved>>

ExportGenesis == [params |-> params, csrs |-> csrs, turnstile |-> turnstile]

\* Restart of the chain from an exported genesis: SetCSR indexes the contracts of every
\* CSR anew (an address is in one at most); the bank and the EVM keep their state.
InitGenesis(genState) ==
  LET owners(a) == {id \in NFT : a \in genState.csrs[id].contracts} IN
  /\ phase = "begin"
  /\ params' = genState.params /\ csrs' = genState.csrs
  /\ turnstile' = genState.turnstile
  /\ index' = [a \in Address |->
                  IF owners(a) = {} THEN NoNFT ELSE CHOOSE id \in owners(a) : TRUE]
  /\ UNCHANGED <<evm, bank, supply, phase, tx, logs, saved>>

-----------------------------------------------------------------------------
(* Transactions (external): the ante handler, and the calls the EVM runs.  *)

\* The ante handler moves the fee of the whole gas limit to the fee collector.
AnteHandle(price) ==
  /\ phase = "idle"
  /\ bank["users"] >= GasLimit * price
  /\ bank' = SendCoins(bank, "users", "fee_collector", GasLimit * price)
  /\ tx' = [to |-> None, gasPrice |-> price, gasUsed |-> 0]
  /\ phase' = "evm"
  /\ UNCHANGED <<params, csrs, index, turnstile, evm, supply, logs>>
  /\ saved' = Current'

EvmCreate(c) ==
  /\ phase = "evm" /\ c \notin code
  /\ code' = code \cup {c}
  /\ UNCHANGED <<params, csrs, index, turnstile, feeRecipient, tokenId, balances,
                 withdrawn, bank, supply, phase, tx, logs, saved>>

EvmSelfDestruct(c) ==
  /\ phase = "evm" /\ c \in code
  /\ code' = code \ {c}
  /\ UNCHANGED <<params, csrs, index, turnstile, feeRecipient, tokenId, balances,
                 withdrawn, bank, supply, phase, tx, logs, saved>>

\* Mutant: an address may register again.
RegisterTwice(sender) ==
  /\ phase = "evm" /\ turnstile
  /\ sender \in EOA \cup code
  /\ tokenId < MaxNFT
  /\ feeRecipient' = [feeRecipient EXCEPT ![sender] = tokenId]
  /\ tokenId' = tokenId + 1
  /\ logs' = Append(logs, [name |-> "Register", contract |-> sender, id |-> tokenId])
  /\ UNCHANGED <<params, csrs, index, turnstile, balances, withdrawn, code, bank,
                 supply, phase, tx, saved>>

\* Turnstile.register, called by a contract or by an account without code.
Register(sender) ==
  /\ phase = "evm" /\ turnstile
  /\ sender \in EOA \cup code
  /\ feeRecipient[sender] = NoNFT
  /\ tokenId < MaxNFT
  /\ feeRecipient' = [feeRecipient EXCEPT ![sender] = tokenId]
  /\ tokenId' = tokenId + 1
  /\ logs' = Append(logs, [name |-> "Register", contract |-> sender, id |-> tokenId])
  /\ UNCHANGED <<params, csrs, index, turnstile, balances, withdrawn, code, bank,
                 supply, phase, tx, saved>>

\* Turnstile.assign.
Assign(sender, id) ==
  /\ phase = "evm" /\ turnstile
  /\ sender \in EOA \cup code
  /\ feeRecipient[sender] = NoNFT
  /\ id < tokenId
  /\ feeRecipient' = [feeRecipient EXCEPT ![sender] = id]
  /\ logs' = Append(logs, [name |-> "Assign", contract |-> sender, id |-> id])
  /\ UNCHANGED <<params, csrs, index, turnstile, tokenId, balances, withdrawn, code,
                 bank, supply, phase, tx, saved>>

\* Turnstile.withdraw, called by the NFT's owner.
Withdraw(id, amount) ==
  LET paid == IF amount > balances[id] THEN balances[id] ELSE amount IN
  /\ phase = "evm" /\ turnstile
  /\ balances[id] # 0 /\ amount # 0
  /\ balances' = [balances EXCEPT ![id] = @ - paid]
  /\ withdrawn' = [withdrawn EXCEPT ![id] = @ + paid]
  /\ bank' = SendCoins(bank, "turnstile", "users", paid)
  /\ UNCHANGED <<params, csrs, index, turnstile, feeRecipient, tokenId, code, supply,
                 phase, tx, logs, saved>>

\* What is left of the gas limit goes back to the sender.
RefundGas(b, used) ==
  SendCoins(b, "fee_collector", "users", (GasLimit - used) * tx.gasPrice)

\* A transaction that fails keeps nothing but the fee.
Fail(used) ==
  /\ csrs' = saved.csrs /\ index' = saved.index
  /\ feeRecipient' = saved.feeRecipient /\ tokenId' = saved.tokenId
  /\ balances' = saved.balances /\ withdrawn' = saved.withdrawn
  /\ code' = saved.code /\ supply' = saved.supply
  /\ bank' = RefundGas(saved.bank, used)
  /\ phase' = "idle" /\ tx' = NoTx /\ logs' = <<>> /\ saved' = Current'
  /\ UNCHANGED <<params, turnstile>>

EvmRevert(used) == phase = "evm" /\ Fail(used)

\* The message's target and the receipt's gas are first read by the hook.
EvmReturn(to, used) ==
  /\ phase = "evm"
  /\ phase' = "hook"
  /\ tx' = [to |-> to, gasPrice |-> tx.gasPrice, gasUsed |-> used]
  /\ UNCHANGED <<params, csrs, index, turnstile, evm, bank, supply, logs, saved>>

-----------------------------------------------------------------------------
(* PostTxProcessing.                                                       *)

\* The hook returns nil with the bank in state b: the transaction is kept.
Commit(b, burned) ==
  /\ bank' = RefundGas(b, tx.gasUsed)
  /\ supply' = supply - burned
  /\ phase' = "idle" /\ tx' = NoTx /\ logs' = <<>>
  /\ UNCHANGED <<params, turnstile, feeRecipient, tokenId, withdrawn, code>>
  /\ saved' = Current'

HookDisabled ==
  /\ phase = "hook" /\ ~params.enableCsr
  /\ UNCHANGED <<csrs, index, balances>>
  /\ Commit(bank, 0)

ValidateContract(contract) == GetNFTByContract(contract) = NoNFT /\ contract \in code

RegisterEvent(contract, id) ==
  /\ ValidateContract(contract)
  /\ ~Found(GetCSR(id))
  /\ SetCSR(id, [contracts |-> {contract}, txs |-> 0, revenue |-> 0])

UpdateEvent(contract, id) ==
  LET csr == GetCSR(id) IN
  /\ ValidateContract(contract)
  /\ Found(csr)
  /\ SetCSR(id, [contracts |-> csr.contracts \cup {contract},
                 txs |-> csr.txs, revenue |-> csr.revenue])

\* Whether the handler of an event returns nil.
EventAccepted(event) ==
  /\ ValidateContract(event.contract)
  /\ Found(GetCSR(event.id)) <=> event.name = "Assign"

\* One log of processEvents.
ProcessEvent ==
  /\ phase = "hook" /\ params.enableCsr /\ turnstile /\ logs # <<>>
  /\ LET event == Head(logs) IN
       /\ EventAccepted(event)
       /\ CASE event.name = "Register" -> RegisterEvent(event.contract, event.id)
            [] event.name = "Assign" -> UpdateEvent(event.contract, event.id)
  /\ logs' = Tail(logs)
  /\ UNCHANGED <<params, turnstile, evm, bank, supply, phase, tx, saved>>

\* The first event that is refused ends the loop: the logs after it are dropped.
ProcessEventFails ==
  /\ phase = "hook" /\ params.enableCsr /\ turnstile /\ logs # <<>>
  /\ ~EventAccepted(Head(logs))
  /\ logs' = <<>>
  /\ UNCHANGED <<params, csrs, index, turnstile, evm, bank, supply, phase, tx, saved>>

TxFee == tx.gasUsed * tx.gasPrice
TxNFT == IF tx.to = None THEN NoNFT ELSE GetNFTByContract(tx.to)

\* Mutant: the share is rounded before it is multiplied.
CsrFeeDividedFirst == TxFee * (params.csrShares \div One)

CsrFee == (TxFee * params.csrShares) \div One

\* The hook panics without a Turnstile; the bank refuses to send, and to burn, a
\* zero fee, and distributeFees reverts on a zero value.
FeesFail ==
  \/ ~turnstile
  \/ tx.gasUsed # 0 /\ (TxFee = 0 \/ bank["fee_collector"] < TxFee)
  \/ /\ tx.gasUsed # 0 /\ TxNFT # NoNFT
     /\ ~Found(GetCSR(TxNFT)) \/ CsrFee = 0 \/ CsrFee = TxFee

AtFees == phase = "hook" /\ params.enableCsr /\ (turnstile => logs = <<>>)

HookFails == AtFees /\ FeesFail /\ Fail(tx.gasUsed)

HookNoGas ==
  /\ AtFees /\ ~FeesFail /\ tx.gasUsed = 0
  /\ UNCHANGED <<csrs, index, balances>>
  /\ Commit(bank, 0)

\* Mutant: the fee stays with the module.
HookBurnsNothing ==
  /\ AtFees /\ ~FeesFail /\ tx.gasUsed # 0 /\ TxNFT = NoNFT
  /\ UNCHANGED <<csrs, index, balances>>
  /\ Commit(SendCoins(bank, "fee_collector", "csr", TxFee), 0)

\* Not a call of a registered contract: the whole fee is burned.
HookBurns ==
  /\ AtFees /\ ~FeesFail /\ tx.gasUsed # 0 /\ TxNFT = NoNFT
  /\ UNCHANGED <<csrs, index, balances>>
  /\ Commit(BurnCoins(SendCoins(bank, "fee_collector", "csr", TxFee), "csr", TxFee), TxFee)

\* Mutant: the revenue is overwritten.
HookDistributesOverwriting ==
  LET sent == SendCoins(bank, "fee_collector", "csr", TxFee)
      distributed == SendCoins(sent, "csr", "turnstile", CsrFee) IN
  /\ AtFees /\ ~FeesFail /\ tx.gasUsed # 0 /\ TxNFT # NoNFT
  /\ balances' = [balances EXCEPT ![TxNFT] = @ + CsrFee]
  /\ SetCSR(TxNFT, [contracts |-> GetCSR(TxNFT).contracts, txs |-> GetCSR(TxNFT).txs + 1,
                    revenue |-> CsrFee])
  /\ Commit(BurnCoins(distributed, "csr", TxFee - CsrFee), TxFee - CsrFee)

\* Turnstile.distributeFees takes the share; the rest is burned.
HookDistributes ==
  LET sent == SendCoins(bank, "fee_collector", "csr", TxFee)
      distributed == SendCoins(sent, "csr", "turnstile", CsrFee)
      csr == GetCSR(TxNFT) IN
  /\ AtFees /\ ~FeesFail /\ tx.gasUsed # 0 /\ TxNFT # NoNFT
  /\ balances' = [balances EXCEPT ![TxNFT] = @ + CsrFee]
  /\ SetCSR(TxNFT, [contracts |-> csr.contracts, txs |-> csr.txs + 1,
                    revenue |-> csr.revenue + CsrFee])
  /\ Commit(BurnCoins(distributed, "csr", TxFee - CsrFee), TxFee - CsrFee)

-----------------------------------------------------------------------------
Init ==
  /\ params \in ParamChoices
  /\ csrs = [id \in NFT |-> NoCSR]
  /\ index = [a \in Address |-> NoNFT]
  /\ turnstile = FALSE
  /\ feeRecipient = [a \in Address |-> NoNFT]
  /\ tokenId = 0
  /\ balances = [id \in NFT |-> 0] /\ withdrawn = [id \in NFT |-> 0]
  /\ code = {}
  /\ bank = [a \in Account |-> IF a = "users" THEN Funds ELSE 0]
  /\ supply = Funds
  /\ phase = "begin"
  /\ tx = NoTx /\ logs = <<>> /\ saved = Current

Next ==
  \/ BeginBlock
  \/ \E p \in ParamChoices : UpdateParams(p)
  \/ EndBlock
  \/ InitGenesis(ExportGenesis)
  \/ \E price \in GasPrice : AnteHandle(price)
  \/ \E c \in Contract : EvmCreate(c) \/ EvmSelfDestruct(c)
  \/ \E a \in Address : Register(a)
  \/ \E a \in Address, id \in NFT : Assign(a, id)
  \/ \E id \in NFT, amount \in 1..Funds : Withdraw(id, amount)
  \/ \E used \in GasUsed : EvmRevert(used)
  \/ \E to \in Address \cup {None}, used \in GasUsed : EvmReturn(to, used)
  \/ HookDisabled
  \/ ProcessEvent
  \/ ProcessEventFails
  \/ HookFails
  \/ HookNoGas
  \/ HookBurns
  \/ HookDistributes

Spec == Init /\ [][Next]_vars

-----------------------------------------------------------------------------
(* Properties.                                                             *)

TypeOK ==
  /\ params \in Params
  /\ turnstile \in BOOLEAN
  /\ Current \in Store /\ saved \in Store
  /\ phase \in {"begin", "idle", "evm", "hook"}
  /\ tx \in Tx /\ tx.gasUsed <= GasLimit
  /\ logs \in Seq(Event)

\* The contract index and the CSRs agree at every point of the hook: an address is
\* indexed under an NFT exactly when the NFT's CSR lists it.  So no contract earns for
\* two NFTs, the CSR the fee split looks up exists, and a restart
\* from genesis, which rebuilds the index from the CSRs, changes nothing.
RegistryIndexed ==
  \A a \in Address, id \in NFT : index[a] = id <=> a \in csrs[id].contracts

\* The registry holds nothing that the Turnstile does not: an indexed contract is
\* registered there to the same NFT, although events are handled after the calls that
\* emitted them, some are dropped, and a failed hook undoes both sides.
RegistryFromTurnstile ==
  \A a \in Address : index[a] # NoNFT => feeRecipient[a] = index[a]

\* The revenue metric of a CSR is what its NFT withdrew and may still withdraw; an NFT
\* without a CSR has earned nothing.
RevenueIsEarned ==
  \A id \in NFT : csrs[id].revenue = balances[id] + withdrawn[id]

ByNumber(b) == [i \in 1..MaxNFT |-> b[i - 1]]

\* Every coin is accounted for: the supply is what users, fee collector and Turnstile
\* hold, the module account keeps nothing between two steps, and the Turnstile holds
\* what the NFTs may withdraw.
FeesConserved ==
  /\ supply = bank["users"] + bank["fee_collector"] + bank["turnstile"]
  /\ bank["csr"] = 0
  /\ SumsTo(ByNumber(balances), MaxNFT, bank["turnstile"])

\* The hook fails only for a fee that cannot be split.  The Turnstile is deployed
\* ("Turnstile existence is invariant", BeginBlock), the fee collector holds the fee and
\* an indexed contract has its CSR, so what remains is a fee of zero, a share that rounds
\* down to nothing, and the share of everything, for which no call of a registered
\* contract that pays a fee can succeed.
HookFailsUnsplit ==
  (AtFees /\ FeesFail) =>
    /\ turnstile
    /\ \/ TxFee = 0
       \/ TxNFT # NoNFT /\ (params.csrShares = One \/ TxFee * params.csrShares < One)

\* The transaction that registers an address at the Turnstile decides for good: an
\* address the Turnstile knew before this transaction keeps its place in the registry,
\* or stays out of it (its event was dropped, or the module was disabled).
RegistrationIsFinal ==
  [][\A a \in Address :
       saved.feeRecipient[a] # NoNFT => index'[a] = saved.index[a]]_vars
=============================================================================
