------------------------------ MODULE CsrProofs ------------------------------
(***************************************************************************)
(* For any contracts, number of NFTs, gas, prices and parameters: the      *)
(* registry of x/csr mirrors the Turnstile, fees are neither lost nor paid *)
(* twice, and the hook fails only for a fee that cannot be split.  A       *)
(* failed transaction goes back to `saved`, so that the invariant is about *)
(* both states.                                                            *)
(***************************************************************************)
EXTENDS Csr, SumLemmas

\* The provers that try a leaf, one after the other, and the seconds each of them has.
USE SMTT(60), ZenonT(60), Z3T(60)

\* The registry of a state: index and CSRs agree, with each other and with the Turnstile.
RegistryOK(cs, ix, recipient) ==
  /\ cs \in [NFT -> CSR]
  /\ ix \in [Address -> NFT \cup {NoNFT}] /\ recipient \in [Address -> NFT \cup {NoNFT}]
  /\ \A a \in Address, id \in NFT : ix[a] = id <=> a \in cs[id].contracts
  /\ \A a \in Address : ix[a] # NoNFT => recipient[a] = ix[a]

\* The revenue of a state; a CSR without a contract has none.
RevenueOK(cs, bal, wd) ==
  /\ cs \in [NFT -> CSR] /\ bal \in [NFT -> Nat] /\ wd \in [NFT -> Nat]
  /\ \A id \in NFT : /\ cs[id].revenue = bal[id] + wd[id]
                     /\ cs[id].contracts = {} => cs[id].revenue = 0

BankOK(b, s) ==
  /\ b \in [Account -> Nat]
  /\ s = b["users"] + b["fee_collector"] + b["turnstile"]
  /\ b["csr"] = 0

EarnedOK(bal, b) == bal \in [NFT -> Nat] /\ SumsTo(ByNumber(bal), MaxNFT, b["turnstile"])

RegistryInv ==
  /\ RegistryOK(csrs, index, feeRecipient)
  /\ RegistryOK(saved.csrs, saved.index, saved.feeRecipient)

MoneyInv ==
  /\ RevenueOK(csrs, balances, withdrawn)
  /\ RevenueOK(saved.csrs, saved.balances, saved.withdrawn)
  /\ BankOK(bank, supply) /\ BankOK(saved.bank, saved.supply)
  /\ EarnedOK(balances, bank) /\ EarnedOK(saved.balances, saved.bank)

\* The fee collector holds what the transaction has paid, now and when it started.
TxInv ==
  /\ params \in Params /\ turnstile \in BOOLEAN
  /\ tx.to \in Address \cup {None} /\ tx.gasPrice \in Nat
  /\ tx.gasUsed \in Nat /\ tx.gasUsed <= GasLimit
  /\ phase \in {"begin", "idle", "evm", "hook"}
  /\ phase \in {"evm", "hook"} => /\ bank["fee_collector"] >= GasLimit * tx.gasPrice
                                  /\ saved.bank["fee_collector"] >= GasLimit * tx.gasPrice
  /\ phase # "begin" /\ params.enableCsr => turnstile

\* A log tells of a registration of this transaction.  What was registered before it is
\* as it was.
LogInv ==
  /\ tokenId \in 0..MaxNFT /\ saved.tokenId \in 0..MaxNFT
  /\ logs \in Seq(Event)
  /\ phase \in {"begin", "idle"} => logs = <<>>
  /\ \A i \in 1..Len(logs) : /\ feeRecipient[logs[i].contract] = logs[i].id
                             /\ saved.feeRecipient[logs[i].contract] = NoNFT
  /\ \A a \in Address : saved.feeRecipient[a] # NoNFT =>
                           /\ feeRecipient[a] = saved.feeRecipient[a]
                           /\ index[a] = saved.index[a]

CsrInv == RegistryInv /\ MoneyInv /\ TxInv /\ LogInv

\* The NFT of a transaction is the one its target is registered with.
LEMMA TargetRegistered ==
  ASSUME CsrInv, TxNFT # NoNFT
  PROVE  /\ tx.to \in Address /\ TxNFT = index[tx.to] /\ TxNFT \in NFT
         /\ tx.to \in csrs[TxNFT].contracts
<1>1. RegistryOK(csrs, index, feeRecipient) /\ tx.to \in Address \cup {None}
  BY ZenonT(90) DEF CsrInv, RegistryInv, TxInv
<1>2. tx.to # None /\ TxNFT = index[tx.to]
  BY ZenonT(90) DEF TxNFT, GetNFTByContract
<1>3. index[tx.to] \in NFT \cup {NoNFT}
  BY ZenonT(90), <1>1, <1>2 DEF RegistryOK
<1>4. tx.to \in Address /\ TxNFT \in NFT
  BY ZenonT(90), <1>1, <1>2, <1>3
<1> QED
  BY ZenonT(90), <1>1, <1>2, <1>4 DEF RegistryOK

\* A credit of nothing changes no balance.
LEMMA CreditZero ==
  ASSUME NEW S, NEW f \in [S -> Nat], NEW i \in S
  PROVE  [f EXCEPT ![i] = @ + 0] = f
OBVIOUS

-----------------------------------------------------------------------------
(* The bank.                                                               *)

\* The fee that moves to the users, or from them, leaves the sums as they are.
LEMMA FeeMoves ==
  ASSUME NEW b, NEW s, BankOK(b, s), NEW from \in {"users", "fee_collector"},
         NEW to \in {"users", "fee_collector"}, from # to,
         NEW amt \in Nat, amt <= b[from]
  PROVE  LET c == SendCoins(b, from, to, amt)
         IN  /\ BankOK(c, s) /\ c["turnstile"] = b["turnstile"]
             /\ c[to] = b[to] + amt
  BY DEF BankOK, SendCoins, Account

\* Fees that go to the module account and are burned leave the supply.
LEMMA FeeBurned ==
  ASSUME NEW b, NEW s, BankOK(b, s), NEW fee \in Nat, fee <= b["fee_collector"]
  PROVE  LET c == BurnCoins(SendCoins(b, "fee_collector", "csr", fee), "csr", fee)
         IN  /\ BankOK(c, s - fee) /\ c["turnstile"] = b["turnstile"]
             /\ c["fee_collector"] = b["fee_collector"] - fee
<1> DEFINE sent == SendCoins(b, "fee_collector", "csr", fee)
<1>1. /\ sent \in [Account -> Nat] /\ sent["fee_collector"] = b["fee_collector"] - fee
      /\ sent["csr"] = fee /\ sent["turnstile"] = b["turnstile"] /\ sent["users"] = b["users"]
  BY DEF BankOK, SendCoins, Account
<1> HIDE DEF sent
<1>2. LET c == BurnCoins(sent, "csr", fee)
      IN  /\ c \in [Account -> Nat] /\ c["fee_collector"] = b["fee_collector"] - fee
          /\ c["csr"] = 0 /\ c["turnstile"] = b["turnstile"] /\ c["users"] = b["users"]
  BY <1>1 DEF BurnCoins, Account
<1>3. b["users"] \in Nat /\ b["fee_collector"] \in Nat /\ b["turnstile"] \in Nat
      /\ s = b["users"] + b["fee_collector"] + b["turnstile"]
  BY DEF BankOK, Account
<1> QED
  BY <1>2, <1>3 DEF BankOK, sent

\* A share of the fee goes to the Turnstile and the rest is burned.
LEMMA FeeShared ==
  ASSUME NEW b, NEW s, BankOK(b, s), NEW fee \in Nat, fee <= b["fee_collector"],
         NEW share \in Nat, share <= fee
  PROVE  LET sent == SendCoins(b, "fee_collector", "csr", fee)
             c == BurnCoins(SendCoins(sent, "csr", "turnstile", share), "csr", fee - share)
         IN  /\ BankOK(c, s - (fee - share)) /\ c["turnstile"] = b["turnstile"] + share
             /\ c["fee_collector"] = b["fee_collector"] - fee
<1> DEFINE sent == SendCoins(b, "fee_collector", "csr", fee)
           distributed == SendCoins(sent, "csr", "turnstile", share)
<1>1. /\ sent \in [Account -> Nat] /\ sent["fee_collector"] = b["fee_collector"] - fee
      /\ sent["csr"] = fee /\ sent["turnstile"] = b["turnstile"] /\ sent["users"] = b["users"]
  BY DEF BankOK, SendCoins, Account
<1> HIDE DEF sent
<1>2. /\ distributed \in [Account -> Nat]
      /\ distributed["fee_collector"] = b["fee_collector"] - fee
      /\ distributed["csr"] = fee - share /\ distributed["turnstile"] = b["turnstile"] + share
      /\ distributed["users"] = b["users"]
  BY <1>1 DEF SendCoins, Account
<1> HIDE DEF distributed
<1>3. LET c == BurnCoins(distributed, "csr", fee - share)
      IN  /\ c \in [Account -> Nat] /\ c["fee_collector"] = b["fee_collector"] - fee
          /\ c["csr"] = 0 /\ c["turnstile"] = b["turnstile"] + share /\ c["users"] = b["users"]
  BY <1>2 DEF BurnCoins, Account
<1>4. /\ b["users"] \in Nat /\ b["fee_collector"] \in Nat /\ b["turnstile"] \in Nat
      /\ s = b["users"] + b["fee_collector"] + b["turnstile"]
  BY DEF BankOK, Account
<1> QED
  BY <1>3, <1>4 DEF BankOK, sent, distributed

\* A withdrawal moves coins of the Turnstile to a user.
LEMMA FeeWithdrawn ==
  ASSUME NEW b, NEW s, BankOK(b, s), NEW paid \in Nat, paid <= b["turnstile"]
  PROVE  LET c == SendCoins(b, "turnstile", "users", paid)
         IN  /\ BankOK(c, s) /\ c["turnstile"] = b["turnstile"] - paid
             /\ c["fee_collector"] = b["fee_collector"]
  BY DEF BankOK, SendCoins, Account

\* The Turnstile's balances, numbered from 1.
LEMMA NumberedUpdate ==
  ASSUME NEW bal \in [NFT -> Nat], NEW id \in NFT, NEW x \in Nat
  PROVE  /\ id + 1 \in 1..MaxNFT /\ ByNumber(bal) \in [1..MaxNFT -> Nat]
         /\ ByNumber(bal)[id + 1] = bal[id]
         /\ ByNumber([bal EXCEPT ![id] = @ + x]) = Credit(ByNumber(bal), id + 1, x)
         /\ ByNumber([bal EXCEPT ![id] = @ - x]) = Debit(ByNumber(bal), id + 1, x)
<1> USE ConstantsAssumption
<1>1. id + 1 \in 1..MaxNFT /\ \A i \in 1..MaxNFT : i - 1 \in NFT /\ (i - 1 = id <=> i = id + 1)
  BY DEF NFT
<1>2. ByNumber(bal) \in [1..MaxNFT -> Nat] /\ \A i \in 1..MaxNFT : ByNumber(bal)[i] = bal[i - 1]
  BY <1>1 DEF ByNumber
<1>3. ByNumber(bal)[id + 1] = bal[id]
  <2>1. (id + 1) - 1 = id
    BY DEF NFT
  <2> QED
    BY <1>1, <1>2, <2>1
<1>4. ByNumber([bal EXCEPT ![id] = @ + x]) = Credit(ByNumber(bal), id + 1, x)
  <2> DEFINE more == [bal EXCEPT ![id] = @ + x]
  <2>1. more \in [NFT -> Nat] /\ more[id] = bal[id] + x /\ \A n \in NFT \ {id} : more[n] = bal[n]
    OBVIOUS
  <2> HIDE DEF more
  <2>2. ByNumber(more) \in [1..MaxNFT -> Nat] /\ \A i \in 1..MaxNFT : ByNumber(more)[i] = more[i - 1]
    BY <1>1, <2>1 DEF ByNumber
  <2>3. Credit(ByNumber(bal), id + 1, x) \in [1..MaxNFT -> Nat]
    BY <1>1, <1>2 DEF Credit
  <2>4. ASSUME NEW i \in 1..MaxNFT  PROVE ByNumber(more)[i] = Credit(ByNumber(bal), id + 1, x)[i]
    BY <1>1, <1>2, <1>3, <2>1, <2>2 DEF Credit
  <2>5. ByNumber(more) = Credit(ByNumber(bal), id + 1, x)
    BY <2>2, <2>3, <2>4
  <2> QED
    BY <2>5 DEF more
<1>5. ByNumber([bal EXCEPT ![id] = @ - x]) = Debit(ByNumber(bal), id + 1, x)
  <2> DEFINE less == [bal EXCEPT ![id] = @ - x]
  <2>1. less \in [NFT -> Int] /\ less[id] = bal[id] - x /\ \A n \in NFT \ {id} : less[n] = bal[n]
    OBVIOUS
  <2> HIDE DEF less
  <2>2. ByNumber(less) \in [1..MaxNFT -> Int] /\ \A i \in 1..MaxNFT : ByNumber(less)[i] = less[i - 1]
    BY <1>1, <2>1 DEF ByNumber
  <2>3. Debit(ByNumber(bal), id + 1, x) \in [1..MaxNFT -> Int]
    BY <1>1, <1>2 DEF Debit
  <2>4. ASSUME NEW i \in 1..MaxNFT  PROVE ByNumber(less)[i] = Debit(ByNumber(bal), id + 1, x)[i]
    BY <1>1, <1>2, <1>3, <2>1, <2>2 DEF Debit
  <2>5. ByNumber(less) = Debit(ByNumber(bal), id + 1, x)
    BY <2>2, <2>3, <2>4
  <2> QED
    BY <2>5 DEF less
<1> QED
  BY <1>1, <1>2, <1>3, <1>4, <1>5

\* A share credited to an NFT.
LEMMA EarnedMore ==
  ASSUME WellOrdered,
         NEW bal, NEW b, NEW c, EarnedOK(bal, b), NEW id \in NFT, NEW x \in Nat,
         b["turnstile"] \in Nat, c["turnstile"] = b["turnstile"] + x
  PROVE  EarnedOK([bal EXCEPT ![id] = @ + x], c)
<1>1. bal \in [NFT -> Nat]
  BY DEF EarnedOK
<1>2. /\ id + 1 \in 1..MaxNFT /\ ByNumber(bal) \in [1..MaxNFT -> Nat]
      /\ ByNumber([bal EXCEPT ![id] = @ + x]) = Credit(ByNumber(bal), id + 1, x)
  BY ZenonT(90), <1>1, NumberedUpdate
<1>3. SumsTo(Credit(ByNumber(bal), id + 1, x), MaxNFT, b["turnstile"] + x)
  <2>1. MaxNFT \in Nat /\ SumsTo(ByNumber(bal), MaxNFT, b["turnstile"])
    BY ConstantsAssumption DEF EarnedOK
  <2> QED
    BY ZenonT(90), <1>2, <2>1, SumCredit
<1>4. [bal EXCEPT ![id] = @ + x] \in [NFT -> Nat]
  BY <1>1
<1> QED
  BY <1>2, <1>3, <1>4 DEF EarnedOK

\* Fees withdrawn by an NFT: the Turnstile has them.
LEMMA EarnedLess ==
  ASSUME WellOrdered,
         NEW bal, NEW b, NEW c, EarnedOK(bal, b), NEW id \in NFT, NEW x \in Nat,
         b["turnstile"] \in Nat, x <= bal[id]
  PROVE  /\ x <= b["turnstile"]
         /\ c["turnstile"] = b["turnstile"] - x => EarnedOK([bal EXCEPT ![id] = @ - x], c)
<1>1. bal \in [NFT -> Nat]
  BY DEF EarnedOK
<1>2. /\ id + 1 \in 1..MaxNFT /\ ByNumber(bal) \in [1..MaxNFT -> Nat]
      /\ ByNumber(bal)[id + 1] = bal[id]
      /\ ByNumber([bal EXCEPT ![id] = @ - x]) = Debit(ByNumber(bal), id + 1, x)
  BY ZenonT(90), <1>1, NumberedUpdate
<1>3. /\ b["turnstile"] - x \in Nat
      /\ SumsTo(Debit(ByNumber(bal), id + 1, x), MaxNFT, b["turnstile"] - x)
  <2>1. MaxNFT \in Nat /\ SumsTo(ByNumber(bal), MaxNFT, b["turnstile"])
        /\ x <= ByNumber(bal)[id + 1]
    BY <1>2, ConstantsAssumption DEF EarnedOK
  <2> DEFINE f == ByNumber(bal)
             total == b["turnstile"]
  <2> HIDE DEF f, total
  <2>2. total - x \in Nat /\ SumsTo(Debit(f, id + 1, x), MaxNFT, total - x)
    <3>1. /\ MaxNFT \in Nat /\ f \in [1..MaxNFT -> Nat] /\ total \in Nat
          /\ SumsTo(f, MaxNFT, total) /\ id + 1 \in 1..MaxNFT /\ x <= f[id + 1]
      BY <1>2, <2>1 DEF f, total
    <3> QED
      BY ZenonT(90), <3>1, SumDebit
  <2> QED
    BY <2>2 DEF f, total
<1>4. [bal EXCEPT ![id] = @ - x] \in [NFT -> Nat]
  BY <1>1
<1> QED
  BY <1>2, <1>3, <1>4 DEF EarnedOK

-----------------------------------------------------------------------------
(* The registry.                                                           *)

\* SetCSR with contracts that are new to the registry and known to the Turnstile.
LEMMA SetCSRStep ==
  ASSUME NEW recipient, RegistryOK(csrs, index, recipient), NEW id \in NFT, NEW csr \in CSR,
         SetCSR(id, csr), csrs[id].contracts \subseteq csr.contracts,
         \A a \in csr.contracts \ csrs[id].contracts : index[a] = NoNFT /\ recipient[a] = id
  PROVE  RegistryOK(csrs', index', recipient)
<1>1. /\ csrs \in [NFT -> CSR]
      /\ index \in [Address -> NFT \cup {NoNFT}] /\ recipient \in [Address -> NFT \cup {NoNFT}]
      /\ \A a \in Address, j \in NFT : index[a] = j <=> a \in csrs[j].contracts
      /\ \A a \in Address : index[a] # NoNFT => recipient[a] = index[a]
  BY DEF RegistryOK
<1>2. csrs' \in [NFT -> CSR] /\ csrs'[id] = csr /\ \A j \in NFT \ {id} : csrs'[j] = csrs[j]
  BY <1>1 DEF SetCSR
<1>3. /\ index' \in [Address -> NFT \cup {NoNFT}]
      /\ \A a \in Address : index'[a] = IF a \in csr.contracts THEN id ELSE index[a]
  BY <1>1 DEF SetCSR
<1>4. NoNFT \notin NFT
  BY ConstantsAssumption DEF NFT, NoNFT
<1>5. ASSUME NEW a \in Address, NEW j \in NFT  PROVE index'[a] = j <=> a \in csrs'[j].contracts
  <2>1. CASE j = id
    BY <1>1, <1>2, <1>3, <2>1
  <2>2. CASE j # id
    BY <1>1, <1>2, <1>3, <1>4, <2>2
  <2> QED
    BY <2>1, <2>2
<1>6. ASSUME NEW a \in Address, index'[a] # NoNFT  PROVE recipient[a] = index'[a]
  <2>1. CASE a \in csrs[id].contracts
    BY <1>1, <1>3, <1>4, <2>1
  <2>2. CASE a \notin csrs[id].contracts
    BY <1>1, <1>3, <1>6, <2>2
  <2> QED
    BY <2>1, <2>2
<1> QED
  BY <1>1, <1>2, <1>3, <1>5, <1>6 DEF RegistryOK

\* A restart from genesis rebuilds the index that was there.
LEMMA GenesisIndex ==
  ASSUME NEW recipient, RegistryOK(csrs, index, recipient), InitGenesis(ExportGenesis)
  PROVE  index' = index /\ csrs' = csrs /\ params' = params /\ turnstile' = turnstile
<1>1. csrs' = csrs /\ params' = params /\ turnstile' = turnstile
  BY DEF InitGenesis, ExportGenesis
<1> DEFINE owners(a) == {id \in NFT : a \in csrs[id].contracts}
<1>2. index' = [a \in Address |->
                  IF owners(a) = {} THEN NoNFT ELSE CHOOSE id \in owners(a) : TRUE]
  BY DEF InitGenesis, ExportGenesis
<1>3. index \in [Address -> NFT \cup {NoNFT}]
  BY DEF RegistryOK
<1>4. ASSUME NEW a \in Address  PROVE index'[a] = index[a]
  <2>1. \A id \in NFT : id \in owners(a) <=> index[a] = id
    BY DEF RegistryOK
  <2>2. CASE owners(a) = {}
    BY <1>2, <1>3, <2>1, <2>2
  <2>3. CASE owners(a) # {}
    <3>1. (CHOOSE id \in owners(a) : TRUE) \in owners(a)
      BY <2>3
    <3> QED
      BY <1>2, <2>1, <2>3, <3>1
  <2> QED
    BY <2>2, <2>3
<1>5. index' \in [Address -> NFT \cup {NoNFT}]
  <2>1. index' = [a \in Address |-> index'[a]]
    BY <1>2
  <2> QED
    BY <1>3, <1>4, <2>1
<1>6. index' = index
  BY <1>3, <1>4, <1>5
<1> QED
  BY <1>1, <1>6

-----------------------------------------------------------------------------
(* Steps that save the state, or go back to it.                            *)

StateInv ==
  /\ RegistryOK(csrs, index, feeRecipient)
  /\ RevenueOK(csrs, balances, withdrawn)
  /\ BankOK(bank, supply) /\ EarnedOK(balances, bank)
  /\ tokenId \in 0..MaxNFT

\* A state that is saved is one to go back to.
LEMMA SaveStep ==
  ASSUME StateInv', TxInv', logs' = <<>>, saved' = Current'
  PROVE  CsrInv'
<1>1. /\ saved'.csrs = csrs' /\ saved'.index = index' /\ saved'.feeRecipient = feeRecipient'
      /\ saved'.tokenId = tokenId' /\ saved'.balances = balances'
      /\ saved'.withdrawn = withdrawn' /\ saved'.bank = bank' /\ saved'.supply = supply'
  BY DEF Current
<1>2. RegistryInv'
  BY <1>1 DEF RegistryInv, StateInv
<1>3. MoneyInv'
  BY <1>1 DEF MoneyInv, StateInv
<1>4. LogInv'
  BY <1>1 DEF LogInv, StateInv
<1> QED
  BY <1>2, <1>3, <1>4 DEF CsrInv

\* What is left of the limit is less than the limit.
LEMMA GasBounds ==
  ASSUME NEW price \in Nat, NEW used \in Nat, used <= GasLimit
  PROVE  /\ used * price \in Nat /\ (GasLimit - used) * price \in Nat
         /\ used * price + (GasLimit - used) * price = GasLimit * price
         /\ used * price <= GasLimit * price /\ (GasLimit - used) * price <= GasLimit * price
<1>1. GasLimit \in Nat
  BY ConstantsAssumption
<1>2. used * price \in Nat /\ (GasLimit - used) * price \in Nat
  BY <1>1
<1>3. used * price + (GasLimit - used) * price = GasLimit * price
  BY <1>1
<1> QED
  BY <1>1, <1>2, <1>3

\* A failed transaction.
LEMMA FailStep ==
  ASSUME CsrInv, phase \in {"evm", "hook"}, NEW used \in Nat, used <= GasLimit, Fail(used)
  PROVE  CsrInv'
<1>1. /\ BankOK(saved.bank, saved.supply) /\ tx.gasPrice \in Nat
      /\ saved.bank["fee_collector"] >= GasLimit * tx.gasPrice
  BY DEF CsrInv, MoneyInv, TxInv
<1> DEFINE refund == (GasLimit - used) * tx.gasPrice
<1>2. refund \in Nat /\ refund <= GasLimit * tx.gasPrice /\ GasLimit * tx.gasPrice \in Nat
  <2>1. refund \in Nat /\ refund <= GasLimit * tx.gasPrice
    BY ZenonT(90), <1>1, GasBounds
  <2>2. GasLimit * tx.gasPrice \in Nat
    BY <1>1, ConstantsAssumption
  <2> QED
    BY <2>1, <2>2
<1>3. bank' = SendCoins(saved.bank, "fee_collector", "users", refund)
  BY DEF Fail, RefundGas
<1> HIDE DEF refund
<1>4. saved.bank["fee_collector"] \in Nat
  BY <1>1 DEF BankOK, Account
<1>5. refund <= saved.bank["fee_collector"]
  BY <1>1, <1>2, <1>4
<1>6. BankOK(bank', saved.supply) /\ bank'["turnstile"] = saved.bank["turnstile"]
  BY <1>1, <1>2, <1>3, <1>5, FeeMoves
<1>7. StateInv'
  BY <1>6 DEF StateInv, Fail, CsrInv, RegistryInv, MoneyInv, LogInv, EarnedOK
<1>8. TxInv'
  BY ConstantsAssumption DEF CsrInv, TxInv, Fail, NoTx
<1>9. logs' = <<>> /\ saved' = Current'
  BY DEF Fail
<1> QED
  BY <1>7, <1>8, <1>9, SaveStep

\* A transaction that is kept.
LEMMA CommitStep ==
  ASSUME CsrInv, phase = "hook", NEW b, NEW burned, Commit(b, burned),
         RegistryOK(csrs', index', feeRecipient), RevenueOK(csrs', balances', withdrawn),
         BankOK(b, supply - burned), EarnedOK(balances', b),
         (GasLimit - tx.gasUsed) * tx.gasPrice <= b["fee_collector"]
  PROVE  CsrInv'
<1> DEFINE refund == (GasLimit - tx.gasUsed) * tx.gasPrice
<1>1. refund \in Nat
  BY GasBounds DEF CsrInv, TxInv
<1>2. bank' = SendCoins(b, "fee_collector", "users", refund) /\ supply' = supply - burned
  BY DEF Commit, RefundGas
<1>3. refund <= b["fee_collector"]
  OBVIOUS
<1> HIDE DEF refund
<1>4. BankOK(bank', supply') /\ bank'["turnstile"] = b["turnstile"]
  BY <1>1, <1>2, <1>3, FeeMoves
<1>5. StateInv'
  BY <1>4 DEF StateInv, Commit, CsrInv, LogInv, EarnedOK
<1>6. TxInv'
  BY ConstantsAssumption DEF CsrInv, TxInv, Commit, NoTx
<1>7. logs' = <<>> /\ saved' = Current'
  BY DEF Commit
<1> QED
  BY <1>5, <1>6, <1>7, SaveStep

-----------------------------------------------------------------------------
(* Steps that leave the saved state alone.                                 *)

\* Only the block or the phase changes.
LEMMA IdleStep ==
  ASSUME CsrInv, TxInv', UNCHANGED <<csrs, index, feeRecipient, tokenId, balances, withdrawn,
                                     bank, supply, saved>>,
         logs' = logs \/ logs' = <<>>,
         phase' \in {"begin", "idle"} => logs' = <<>>
  PROVE  CsrInv'
<1>1. RegistryInv'
  BY DEF CsrInv, RegistryInv
<1>2. MoneyInv'
  BY DEF CsrInv, MoneyInv
<1>3. LogInv'
  <2>1. LogInv
    BY DEF CsrInv
  <2>2. /\ logs' \in Seq(Event)
        /\ \A i \in 1..Len(logs') : /\ feeRecipient[logs'[i].contract] = logs'[i].id
                                    /\ saved.feeRecipient[logs'[i].contract] = NoNFT
    <3>1. CASE logs' = logs
      BY <2>1, <3>1 DEF LogInv
    <3>2. CASE logs' = <<>>
      BY <3>2
    <3> QED
      BY <3>1, <3>2
  <2> QED
    BY <2>1, <2>2 DEF LogInv
<1> QED
  BY <1>1, <1>2, <1>3 DEF CsrInv

\* BeginBlock, which pays out the fee collector, preserves the invariant.
LEMMA BeginBlockStep ==
  ASSUME CsrInv, BeginBlock
  PROVE  CsrInv'
<1>1. BankOK(bank, supply) /\ bank["fee_collector"] \in Nat
  BY DEF CsrInv, MoneyInv, BankOK, Account
<1>2. bank' = SendCoins(bank, "fee_collector", "users", bank["fee_collector"])
  BY DEF BeginBlock
<1>3. BankOK(bank', supply) /\ bank'["turnstile"] = bank["turnstile"]
  BY <1>1, <1>2, FeeMoves
<1>4. StateInv'
  BY <1>3 DEF StateInv, BeginBlock, evm, CsrInv, RegistryInv, MoneyInv, LogInv, EarnedOK
<1>5. TxInv'
  BY DEF CsrInv, TxInv, BeginBlock, Params
<1>6. logs' = <<>> /\ saved' = Current'
  BY ZenonT(90) DEF BeginBlock, CsrInv, LogInv
<1> QED
  BY <1>4, <1>5, <1>6, SaveStep

\* Taking the fee of the gas limit and saving the state preserves it.
LEMMA AnteHandleStep ==
  ASSUME CsrInv, NEW price \in Nat, AnteHandle(price)
  PROVE  CsrInv'
<1> DEFINE fee == GasLimit * price
<1>1. BankOK(bank, supply) /\ bank["fee_collector"] \in Nat
  BY DEF CsrInv, MoneyInv, BankOK, Account
<1>2. fee \in Nat
  BY ConstantsAssumption
<1>3. bank' = SendCoins(bank, "users", "fee_collector", fee) /\ fee <= bank["users"]
  <2>1. bank["users"] \in Nat
    BY <1>1 DEF BankOK, Account
  <2> QED
    BY <1>2, <2>1 DEF AnteHandle
<1>4. saved' = Current' /\ logs' = <<>>
  BY DEF AnteHandle, CsrInv, LogInv
<1> HIDE DEF fee
<1>5. /\ BankOK(bank', supply) /\ bank'["turnstile"] = bank["turnstile"]
      /\ bank'["fee_collector"] = bank["fee_collector"] + fee
  BY <1>1, <1>2, <1>3, FeeMoves
<1>6. bank'["fee_collector"] >= fee
  BY <1>1, <1>2, <1>5
<1>7. StateInv'
  BY ZenonT(90), <1>5 DEF StateInv, AnteHandle, evm, CsrInv, RegistryInv, MoneyInv, LogInv, EarnedOK
<1>8. TxInv'
  <2>1. saved'.bank = bank'
    BY <1>4 DEF Current
  <2>2. /\ tx'.to = None /\ tx'.gasPrice = price /\ tx'.gasUsed = 0 /\ phase' = "evm"
        /\ phase = "idle" /\ params' = params /\ turnstile' = turnstile
    BY DEF AnteHandle
  <2>3. GasLimit * tx'.gasPrice = fee
    BY <2>2 DEF fee
  <2> QED
    BY <1>6, <2>1, <2>2, <2>3, ConstantsAssumption DEF CsrInv, TxInv
<1> QED
  BY <1>4, <1>7, <1>8, SaveStep

\* An address the Turnstile does not know registers for an NFT, which leaves a log.
LEMMA RegisteredStep ==
  ASSUME CsrInv, phase = "evm", NEW sender \in Address, feeRecipient[sender] = NoNFT,
         NEW id \in NFT, NEW name \in {"Register", "Assign"}, tokenId' \in 0..MaxNFT,
         feeRecipient' = [feeRecipient EXCEPT ![sender] = id],
         logs' = Append(logs, [name |-> name, contract |-> sender, id |-> id]),
         UNCHANGED <<params, csrs, index, turnstile, balances, withdrawn, bank, supply,
                     phase, tx, saved>>
  PROVE  CsrInv'
<1>1. NoNFT \notin NFT
  BY ConstantsAssumption DEF NFT, NoNFT
<1>2. RegistryOK(csrs, index, feeRecipient) /\ LogInv
  BY DEF CsrInv, RegistryInv
<1>3. /\ feeRecipient \in [Address -> NFT \cup {NoNFT}]
      /\ feeRecipient' \in [Address -> NFT \cup {NoNFT}]
      /\ feeRecipient'[sender] = id /\ \A a \in Address \ {sender} : feeRecipient'[a] = feeRecipient[a]
  BY <1>2 DEF RegistryOK
<1>4. RegistryOK(csrs, index, feeRecipient')
  BY <1>1, <1>2, <1>3 DEF RegistryOK
<1>5. saved.feeRecipient[sender] = NoNFT
  BY ZenonT(90), <1>2 DEF LogInv
<1>6. ASSUME NEW i \in 1..Len(logs)
      PROVE  feeRecipient'[logs[i].contract] = logs[i].id
  <2>1. logs[i] \in Event /\ feeRecipient[logs[i].contract] = logs[i].id
    BY <1>2 DEF LogInv
  <2>2. logs[i].contract \in Address /\ logs[i].id \in NFT
    BY <2>1 DEF Event
  <2> QED
    BY <1>1, <1>3, <2>1, <2>2
<1> DEFINE event == [name |-> name, contract |-> sender, id |-> id]
<1>7. event \in Event /\ event.contract = sender /\ event.id = id
  BY DEF Event
<1>8. logs' = Append(logs, event)
  OBVIOUS
<1> HIDE DEF event
<1>9. /\ logs' \in Seq(Event) /\ Len(logs') = Len(logs) + 1 /\ Len(logs) \in Nat
      /\ \A i \in 1..Len(logs) : logs'[i] = logs[i]
      /\ logs'[Len(logs) + 1] = event
  BY <1>2, <1>7, <1>8 DEF LogInv
<1>10. ASSUME NEW i \in 1..Len(logs')
       PROVE  /\ feeRecipient'[logs'[i].contract] = logs'[i].id
              /\ saved.feeRecipient[logs'[i].contract] = NoNFT
  <2>1. CASE i = Len(logs) + 1
    BY <1>3, <1>5, <1>7, <1>9, <2>1
  <2>2. CASE i # Len(logs) + 1
    <3>1. i \in 1..Len(logs) /\ logs'[i] = logs[i]
      BY <1>9, <2>2
    <3>2. saved.feeRecipient[logs[i].contract] = NoNFT
      BY <1>2, <3>1 DEF LogInv
    <3> QED
      BY ZenonT(90), <1>6, <3>1, <3>2
  <2> QED
    BY <2>1, <2>2
<1>11. ASSUME NEW a \in Address, saved.feeRecipient[a] # NoNFT
       PROVE  feeRecipient'[a] = saved.feeRecipient[a] /\ index[a] = saved.index[a]
  BY ZenonT(90), <1>2, <1>3, <1>5, <1>11 DEF LogInv
<1>12. LogInv'
  BY ZenonT(90), <1>2, <1>9, <1>10, <1>11 DEF LogInv
<1>13. RegistryInv' /\ MoneyInv' /\ TxInv'
  BY ZenonT(90), <1>4 DEF CsrInv, RegistryInv, MoneyInv, TxInv
<1> QED
  BY <1>12, <1>13 DEF CsrInv

\* A withdrawal of revenue preserves it.
LEMMA WithdrawStep ==
  ASSUME WellOrdered, CsrInv, NEW id \in NFT, NEW amount \in Nat, Withdraw(id, amount)
  PROVE  CsrInv'
<1> DEFINE paid == IF amount > balances[id] THEN balances[id] ELSE amount
<1>1. /\ RevenueOK(csrs, balances, withdrawn) /\ BankOK(bank, supply)
      /\ EarnedOK(balances, bank) /\ bank["turnstile"] \in Nat
      /\ balances \in [NFT -> Nat] /\ withdrawn \in [NFT -> Nat]
  BY ZenonT(90) DEF CsrInv, MoneyInv, BankOK, Account, EarnedOK, RevenueOK
<1>2. paid \in Nat /\ paid <= balances[id]
  BY <1>1
<1>3. /\ balances' = [balances EXCEPT ![id] = @ - paid]
      /\ withdrawn' = [withdrawn EXCEPT ![id] = @ + paid]
      /\ bank' = SendCoins(bank, "turnstile", "users", paid)
  BY DEF Withdraw
<1>4. /\ phase = "evm" /\ UNCHANGED <<params, csrs, index, turnstile, feeRecipient, tokenId,
                                     supply, phase, tx, logs, saved>>
  BY DEF Withdraw
<1> HIDE DEF paid
<1>5. paid <= bank["turnstile"]
  BY ZenonT(90), <1>1, <1>2, EarnedLess
<1>6. /\ BankOK(bank', supply) /\ bank'["turnstile"] = bank["turnstile"] - paid
      /\ bank'["fee_collector"] = bank["fee_collector"]
  BY <1>1, <1>2, <1>3, <1>5, FeeWithdrawn
<1>7. EarnedOK(balances', bank')
  BY ZenonT(90), <1>1, <1>2, <1>3, <1>6, EarnedLess
<1>8. RevenueOK(csrs, balances', withdrawn')
  BY <1>1, <1>2, <1>3 DEF RevenueOK
<1>9. MoneyInv'
  BY ZenonT(90), <1>4, <1>6, <1>7, <1>8 DEF CsrInv, MoneyInv
<1>10. RegistryInv' /\ LogInv'
  BY <1>4 DEF CsrInv, RegistryInv, LogInv
<1>11. TxInv'
  BY <1>4, <1>6 DEF CsrInv, TxInv
<1> QED
  BY <1>9, <1>10, <1>11 DEF CsrInv

-----------------------------------------------------------------------------
(* Steps of the hook.                                                      *)

\* A new CSR accounts for the revenue.
LEMMA RevenueStep ==
  ASSUME NEW bal, NEW wd, RevenueOK(csrs, bal, wd), NEW id \in NFT, NEW csr \in CSR,
         SetCSR(id, csr), csr.contracts # {}, NEW x \in Nat,
         csr.revenue = csrs[id].revenue + x
  PROVE  RevenueOK(csrs', [bal EXCEPT ![id] = @ + x], wd)
<1>1. /\ csrs \in [NFT -> CSR] /\ bal \in [NFT -> Nat] /\ wd \in [NFT -> Nat]
      /\ \A j \in NFT : /\ csrs[j].revenue = bal[j] + wd[j]
                        /\ csrs[j].contracts = {} => csrs[j].revenue = 0
  BY DEF RevenueOK
<1>2. csrs' \in [NFT -> CSR] /\ csrs'[id] = csr /\ \A j \in NFT \ {id} : csrs'[j] = csrs[j]
  BY <1>1 DEF SetCSR
<1> DEFINE more == [bal EXCEPT ![id] = @ + x]
<1>3. more \in [NFT -> Nat] /\ more[id] = bal[id] + x /\ \A j \in NFT \ {id} : more[j] = bal[j]
  BY <1>1
<1> HIDE DEF more
<1>4. ASSUME NEW j \in NFT
      PROVE  /\ csrs'[j].revenue = more[j] + wd[j]
             /\ csrs'[j].contracts = {} => csrs'[j].revenue = 0
  <2>1. CASE j = id
    <3>1. csrs'[j] = csr /\ more[j] = bal[id] + x
      BY <1>2, <1>3, <2>1
    <3>2. csrs[id].revenue = bal[id] + wd[id]
      BY <1>1
    <3>3. bal[id] \in Nat /\ wd[id] \in Nat
      BY <1>1
    <3>4. csrs'[j].revenue = csrs[id].revenue + x /\ csrs'[j].contracts # {}
      BY <3>1
    <3> QED
      BY <2>1, <3>1, <3>2, <3>3, <3>4
  <2>2. CASE j # id
    <3>1. csrs'[j] = csrs[j] /\ more[j] = bal[j]
      BY <1>2, <1>3, <2>2
    <3>2. /\ csrs[j].revenue = bal[j] + wd[j]
          /\ csrs[j].contracts = {} => csrs[j].revenue = 0
      BY <1>1
    <3> QED
      BY <3>1, <3>2
  <2> QED
    BY <2>1, <2>2
<1>5. RevenueOK(csrs', more, wd)
  BY <1>1, <1>2, <1>3, <1>4 DEF RevenueOK
<1> QED
  BY <1>5 DEF more

\* Handling one log of the Turnstile preserves it.
LEMMA ProcessEventStep ==
  ASSUME CsrInv, ProcessEvent
  PROVE  CsrInv'
<1> DEFINE event == Head(logs)
<1>1. /\ RegistryOK(csrs, index, feeRecipient) /\ RevenueOK(csrs, balances, withdrawn)
      /\ LogInv /\ logs # <<>> /\ logs' = Tail(logs) /\ phase = "hook"
      /\ UNCHANGED <<params, turnstile, feeRecipient, tokenId, balances, withdrawn,
                     bank, supply, phase, tx, saved>>
  BY DEF CsrInv, RegistryInv, MoneyInv, ProcessEvent, evm
<1>2. event \in Event /\ event = logs[1] /\ 1 \in 1..Len(logs)
  BY <1>1 DEF LogInv
<1>3. CASE event.name = "Register" \/ event.name = "Assign"
  <2>1. /\ event.contract \in Address /\ event.id \in NFT
        /\ feeRecipient[event.contract] = event.id
        /\ saved.feeRecipient[event.contract] = NoNFT
    BY <1>1, <1>2 DEF LogInv, Event
  <2>2. \/ event.name = "Register" /\ RegisterEvent(event.contract, event.id)
        \/ event.name = "Assign" /\ UpdateEvent(event.contract, event.id)
    BY ZenonT(90), <1>3 DEF ProcessEvent
  <2>3. index[event.contract] = NoNFT
    BY <2>2 DEF RegisterEvent, UpdateEvent, ValidateContract, GetNFTByContract
  <2> DEFINE old == csrs[event.id]
  <2>4. /\ old \in CSR /\ old.contracts \subseteq Address /\ old.revenue \in Nat /\ old.txs \in Nat
        /\ old.contracts = {} => old.revenue = 0
    <3>1. old \in CSR /\ (old.contracts = {} => old.revenue = 0)
      BY ZenonT(90), <1>1, <2>1 DEF RevenueOK
    <3> HIDE DEF old
    <3>2. old.contracts \subseteq Address /\ old.revenue \in Nat /\ old.txs \in Nat
      BY <3>1 DEF CSR
    <3> QED
      BY <3>1, <3>2
  <2>5. \E csr \in CSR : /\ SetCSR(event.id, csr)
                         /\ csr.contracts = old.contracts \cup {event.contract}
                         /\ csr.revenue = old.revenue
    <3>1. CASE event.name = "Register" /\ RegisterEvent(event.contract, event.id)
      <4> DEFINE csr == [contracts |-> {event.contract}, txs |-> 0, revenue |-> 0]
      <4>1. csr \in CSR /\ csr.contracts = {event.contract} /\ csr.revenue = 0
        BY <2>1 DEF CSR
      <4>2. SetCSR(event.id, csr) /\ old.contracts = {}
        BY <3>1 DEF RegisterEvent, Found, GetCSR
      <4> HIDE DEF csr
      <4> QED
        BY <2>4, <4>1, <4>2
    <3>2. CASE event.name = "Assign" /\ UpdateEvent(event.contract, event.id)
      <4> DEFINE csr == [contracts |-> old.contracts \cup {event.contract},
                         txs |-> old.txs, revenue |-> old.revenue]
      <4>1. /\ csr \in CSR /\ csr.contracts = old.contracts \cup {event.contract}
            /\ csr.revenue = old.revenue
        BY ZenonT(90), <2>1, <2>4 DEF CSR
      <4>2. SetCSR(event.id, csr)
        BY <3>2 DEF UpdateEvent, GetCSR
      <4> HIDE DEF csr
      <4> QED
        BY <4>1, <4>2
    <3> QED
      BY <2>2, <3>1, <3>2
  <2>6. PICK csr \in CSR : /\ SetCSR(event.id, csr)
                           /\ csr.contracts = old.contracts \cup {event.contract}
                           /\ csr.revenue = old.revenue
    BY <2>5
  <2> HIDE DEF event
  <2>7. RegistryOK(csrs', index', feeRecipient)
    BY ZenonT(90), <1>1, <2>1, <2>3, <2>6, SetCSRStep
  <2>8. RevenueOK(csrs', balances, withdrawn)
    <3>1. csr.revenue = csrs[event.id].revenue + 0
      BY <2>4, <2>6
    <3>2. csr.contracts # {}
      BY <2>6
    <3>3. RevenueOK(csrs', [balances EXCEPT ![event.id] = @ + 0], withdrawn)
      BY ZenonT(90), <1>1, <2>1, <2>6, <3>1, <3>2, RevenueStep
    <3>4. [balances EXCEPT ![event.id] = @ + 0] = balances
      <4>1. balances \in [NFT -> Nat]
        BY ZenonT(90), <1>1 DEF RevenueOK
      <4> QED
        BY ZenonT(90), <2>1, <4>1, CreditZero
    <3> QED
      BY <3>3, <3>4
  <2>9. ASSUME NEW a \in Address, a # event.contract  PROVE index'[a] = index[a]
    BY ZenonT(90), <1>1, <2>1, <2>6, <2>9 DEF SetCSR, RegistryOK
  <2>10. ASSUME NEW a \in Address, saved.feeRecipient[a] # NoNFT
         PROVE  feeRecipient[a] = saved.feeRecipient[a] /\ index'[a] = saved.index[a]
    <3>1. a # event.contract
      BY <2>1, <2>10
    <3> QED
      BY <1>1, <2>9, <2>10, <3>1 DEF LogInv
  <2>11. /\ logs' \in Seq(Event) /\ Len(logs') = Len(logs) - 1 /\ Len(logs) \in Nat
         /\ \A i \in 1..Len(logs') : logs'[i] = logs[i + 1]
    BY <1>1 DEF LogInv
  <2>12. ASSUME NEW i \in 1..Len(logs')
         PROVE  /\ feeRecipient[logs'[i].contract] = logs'[i].id
                /\ saved.feeRecipient[logs'[i].contract] = NoNFT
    <3>1. i + 1 \in 1..Len(logs) /\ logs'[i] = logs[i + 1]
      BY <2>11
    <3> QED
      BY ZenonT(90), <1>1, <3>1 DEF LogInv
  <2>13. LogInv'
    BY ZenonT(90), <1>1, <2>10, <2>11, <2>12 DEF LogInv
  <2>14. RegistryInv' /\ MoneyInv' /\ TxInv'
    BY ZenonT(90), <1>1, <2>7, <2>8 DEF CsrInv, RegistryInv, MoneyInv, TxInv
  <2> QED
    BY <2>13, <2>14 DEF CsrInv
<1> QED
  BY <1>2, <1>3 DEF Event

\* What is in the fee collector when the hook splits the fee.
LEMMA HookBank ==
  ASSUME CsrInv, phase = "hook"
  PROVE  /\ TxFee \in Nat /\ bank["fee_collector"] \in Nat
         /\ TxFee <= bank["fee_collector"]
         /\ (GasLimit - tx.gasUsed) * tx.gasPrice \in Nat
         /\ (GasLimit - tx.gasUsed) * tx.gasPrice <= bank["fee_collector"] - TxFee
<1>1. /\ tx.gasPrice \in Nat /\ tx.gasUsed \in Nat /\ tx.gasUsed <= GasLimit
      /\ bank["fee_collector"] >= GasLimit * tx.gasPrice
  BY DEF CsrInv, TxInv
<1>2. bank["fee_collector"] \in Nat
  BY DEF CsrInv, MoneyInv, BankOK, Account
<1> DEFINE refund == (GasLimit - tx.gasUsed) * tx.gasPrice
           all == GasLimit * tx.gasPrice
<1>3. TxFee \in Nat /\ refund \in Nat /\ TxFee + refund = all
  BY ZenonT(90), <1>1, GasBounds DEF TxFee
<1>4. bank["fee_collector"] >= all
  BY <1>1
<1> HIDE DEF refund, all
<1>5. TxFee <= bank["fee_collector"] /\ refund <= bank["fee_collector"] - TxFee
  BY <1>2, <1>3, <1>4
<1> QED
  BY <1>2, <1>3, <1>5 DEF refund

\* The share is part of the fee.
LEMMA ShareBounds ==
  ASSUME CsrInv, phase = "hook"
  PROVE  CsrFee \in Nat /\ CsrFee <= TxFee
<1>1. params.csrShares \in Nat /\ params.csrShares <= One /\ One \in Nat \ {0} /\ TxFee \in Nat
  BY HookBank, ConstantsAssumption DEF CsrInv, TxInv, Params
<1> DEFINE f == TxFee
           p == params.csrShares
           q == (f * p) \div One
<1>2. f * p \in Nat /\ f * p <= f * One
  BY <1>1
<1>3. q \in Nat /\ One * q <= f * p
  BY <1>1, <1>2
<1> HIDE DEF q, f, p
<1>4. f \in Nat
  BY <1>1 DEF f
<1>5. One * q <= One * f
  BY <1>1, <1>2, <1>3, <1>4 DEF p
<1>6. q <= f
  BY <1>1, <1>3, <1>4, <1>5
<1> QED
  BY <1>3, <1>6 DEF CsrFee, q, f, p

\* The fee is left where it is.
LEMMA HookNothingStep ==
  ASSUME CsrInv, phase = "hook", UNCHANGED <<csrs, index, balances>>, Commit(bank, 0)
  PROVE  CsrInv'
<1>1. /\ RegistryOK(csrs', index', feeRecipient) /\ RevenueOK(csrs', balances', withdrawn)
      /\ BankOK(bank, supply) /\ EarnedOK(balances', bank)
  BY DEF CsrInv, RegistryInv, MoneyInv
<1>2. BankOK(bank, supply - 0)
  BY <1>1 DEF BankOK, Account
<1>3. (GasLimit - tx.gasUsed) * tx.gasPrice <= bank["fee_collector"]
  <2>1. /\ TxFee \in Nat /\ bank["fee_collector"] \in Nat
        /\ (GasLimit - tx.gasUsed) * tx.gasPrice \in Nat
        /\ (GasLimit - tx.gasUsed) * tx.gasPrice <= bank["fee_collector"] - TxFee
    BY HookBank
  <2> DEFINE refund == (GasLimit - tx.gasUsed) * tx.gasPrice
  <2> HIDE DEF refund
  <2>2. refund \in Nat /\ refund <= bank["fee_collector"] - TxFee
    BY <2>1 DEF refund
  <2>3. refund <= bank["fee_collector"]
    BY <2>1, <2>2
  <2> QED
    BY <2>3 DEF refund
<1> QED
  BY <1>1, <1>2, <1>3, CommitStep

\* Burning the share of the fees of an unregistered contract preserves it.
LEMMA HookBurnsStep ==
  ASSUME CsrInv, HookBurns
  PROVE  CsrInv'
<1> DEFINE b == BurnCoins(SendCoins(bank, "fee_collector", "csr", TxFee), "csr", TxFee)
<1>1. phase = "hook" /\ UNCHANGED <<csrs, index, balances>> /\ Commit(b, TxFee)
  BY DEF HookBurns, AtFees
<1>2. /\ TxFee \in Nat /\ TxFee <= bank["fee_collector"]
      /\ (GasLimit - tx.gasUsed) * tx.gasPrice <= bank["fee_collector"] - TxFee
  BY <1>1, HookBank
<1>3. /\ RegistryOK(csrs', index', feeRecipient) /\ RevenueOK(csrs', balances', withdrawn)
      /\ BankOK(bank, supply) /\ EarnedOK(balances', bank)
  BY <1>1 DEF CsrInv, RegistryInv, MoneyInv
<1>4. /\ BankOK(b, supply - TxFee) /\ b["turnstile"] = bank["turnstile"]
      /\ b["fee_collector"] = bank["fee_collector"] - TxFee
  BY ZenonT(90), <1>2, <1>3, FeeBurned
<1> HIDE DEF b
<1>5. EarnedOK(balances', b)
  BY <1>3, <1>4 DEF EarnedOK
<1> QED
  BY <1>1, <1>2, <1>3, <1>4, <1>5, CommitStep

\* Sending the share of the fees to the Turnstile preserves it.
LEMMA HookDistributesStep ==
  ASSUME WellOrdered, CsrInv, HookDistributes
  PROVE  CsrInv'
<1> DEFINE sent == SendCoins(bank, "fee_collector", "csr", TxFee)
           distributed == SendCoins(sent, "csr", "turnstile", CsrFee)
           b == BurnCoins(distributed, "csr", TxFee - CsrFee)
           old == csrs[TxNFT]
           csr == [contracts |-> old.contracts, txs |-> old.txs + 1,
                   revenue |-> old.revenue + CsrFee]
<1>1. /\ phase = "hook" /\ tx.gasUsed # 0 /\ ~FeesFail /\ TxNFT # NoNFT
      /\ balances' = [balances EXCEPT ![TxNFT] = @ + CsrFee]
      /\ SetCSR(TxNFT, csr) /\ Commit(b, TxFee - CsrFee)
  BY ZenonT(90) DEF HookDistributes, AtFees, GetCSR
<1>2. TxNFT \in NFT /\ old.contracts # {}
  <2>1. TxNFT \in NFT \cup {NoNFT}
    BY ZenonT(90) DEF TxNFT, GetNFTByContract, CsrInv, RegistryInv, RegistryOK, TxInv
  <2>2. Found(GetCSR(TxNFT))
    BY ZenonT(90), <1>1 DEF FeesFail
  <2> QED
    BY ZenonT(90), <1>1, <2>1, <2>2 DEF Found, GetCSR
<1>3. /\ TxFee \in Nat /\ TxFee <= bank["fee_collector"]
      /\ (GasLimit - tx.gasUsed) * tx.gasPrice <= bank["fee_collector"] - TxFee
  BY ZenonT(90), <1>1, HookBank
<1>4. CsrFee \in Nat /\ CsrFee <= TxFee
  BY ZenonT(90), <1>1, ShareBounds
<1>5. /\ RegistryOK(csrs, index, feeRecipient) /\ RevenueOK(csrs, balances, withdrawn)
      /\ BankOK(bank, supply) /\ EarnedOK(balances, bank) /\ bank["turnstile"] \in Nat
  BY ZenonT(90) DEF CsrInv, RegistryInv, MoneyInv, BankOK, Account
<1>6. /\ old \in CSR /\ old.contracts \subseteq Address /\ old.txs \in Nat /\ old.revenue \in Nat
  BY <1>2, <1>5 DEF RevenueOK, CSR
<1>7. /\ csr \in CSR /\ csr.contracts = old.contracts /\ csr.revenue = old.revenue + CsrFee
  BY <1>4, <1>6 DEF CSR
<1>8. /\ BankOK(b, supply - (TxFee - CsrFee)) /\ b["turnstile"] = bank["turnstile"] + CsrFee
      /\ b["fee_collector"] = bank["fee_collector"] - TxFee
  BY ZenonT(90), <1>3, <1>4, <1>5, FeeShared
<1> HIDE DEF b, csr
<1>9. RegistryOK(csrs', index', feeRecipient)
  BY ZenonT(90), <1>1, <1>2, <1>5, <1>7, SetCSRStep
<1>10. RevenueOK(csrs', balances', withdrawn)
  BY ZenonT(90), <1>1, <1>2, <1>4, <1>5, <1>7, RevenueStep
<1>11. EarnedOK(balances', b)
  BY ZenonT(90), <1>1, <1>2, <1>4, <1>5, <1>8, EarnedMore
<1> QED
  BY ZenonT(90), <1>1, <1>3, <1>8, <1>9, <1>10, <1>11, CommitStep

-----------------------------------------------------------------------------
(* The invariant.                                                          *)

\* The chain starts with no contract, no NFT and no fees.
LEMMA InitStep ==
  ASSUME WellOrdered
  PROVE  Init => CsrInv
<1> SUFFICES ASSUME Init PROVE CsrInv
  OBVIOUS
<1> USE ConstantsAssumption
<1>1. NoNFT \notin NFT /\ NoCSR \in CSR /\ NoCSR.contracts = {} /\ NoCSR.revenue = 0
  BY DEF NFT, NoNFT, NoCSR, CSR
<1>2. csrs = [id \in NFT |-> NoCSR] /\ index = [a \in Address |-> NoNFT]
      /\ feeRecipient = [a \in Address |-> NoNFT]
  BY DEF Init
<1>3. RegistryOK(csrs, index, feeRecipient)
  BY <1>1, <1>2 DEF RegistryOK
<1>4. RevenueOK(csrs, balances, withdrawn)
  <2>1. balances = [id \in NFT |-> 0] /\ withdrawn = [id \in NFT |-> 0]
    BY DEF Init
  <2> QED
    BY <1>1, <1>2, <2>1 DEF RevenueOK
<1>5. BankOK(bank, supply) /\ bank["turnstile"] = 0
  <2>1. bank = [a \in Account |-> IF a = "users" THEN Funds ELSE 0] /\ supply = Funds
    BY DEF Init
  <2> QED
    BY <2>1 DEF BankOK, Account
<1>6. EarnedOK(balances, bank)
  <2>1. balances \in [NFT -> Nat] /\ \A id \in NFT : balances[id] = 0
    BY DEF Init
  <2>2. /\ ByNumber(balances) \in [1..MaxNFT -> Nat]
        /\ \A i \in 1..MaxNFT : ByNumber(balances)[i] = 0
    BY <2>1 DEF ByNumber, NFT
  <2>3. SumsTo(ByNumber(balances), MaxNFT, 0)
    BY <2>2, SumZero
  <2> QED
    BY <1>5, <2>1, <2>3 DEF EarnedOK
<1>7. /\ saved.csrs = csrs /\ saved.index = index /\ saved.feeRecipient = feeRecipient
      /\ saved.tokenId = tokenId /\ saved.balances = balances
      /\ saved.withdrawn = withdrawn /\ saved.bank = bank /\ saved.supply = supply
  BY ZenonT(90) DEF Init, Current
<1>8. RegistryInv /\ MoneyInv
  BY ZenonT(90), <1>3, <1>4, <1>5, <1>6, <1>7 DEF RegistryInv, MoneyInv
<1>9. TxInv
  <2>1. params \in Params /\ turnstile \in BOOLEAN
    BY ZenonT(90) DEF Init
  <2>2. phase = "begin" /\ phase \notin {"evm", "hook"}
    BY DEF Init
  <2>3. /\ tx.to \in Address \cup {None} /\ tx.gasPrice \in Nat
        /\ tx.gasUsed \in Nat /\ tx.gasUsed <= GasLimit
    BY DEF Init, NoTx
  <2> QED
    BY <2>1, <2>2, <2>3 DEF TxInv
<1>10. LogInv
  BY <1>7 DEF Init, LogInv
<1> QED
  BY <1>8, <1>9, <1>10 DEF CsrInv

\* Every step keeps the invariant.
LEMMA NextStep ==
  ASSUME WellOrdered, CsrInv, [Next]_vars
  PROVE  CsrInv'
<1> USE ConstantsAssumption
<1>1. CASE BeginBlock
  BY <1>1, BeginBlockStep
<1>2. CASE EndBlock \/ \E p \in ParamChoices : UpdateParams(p)
  <2>1. TxInv'
    BY ZenonT(90), <1>2 DEF EndBlock, UpdateParams, CsrInv, TxInv
  <2>2. /\ UNCHANGED <<csrs, index, feeRecipient, tokenId, balances, withdrawn, bank, supply, saved>>
        /\ logs' = logs /\ logs = <<>>
    BY ZenonT(90), <1>2 DEF EndBlock, UpdateParams, evm, CsrInv, LogInv
  <2> QED
    BY <2>1, <2>2, IdleStep
<1>3. CASE InitGenesis(ExportGenesis)
  <2>1. index' = index /\ csrs' = csrs /\ params' = params /\ turnstile' = turnstile
    BY <1>3, GenesisIndex DEF CsrInv, RegistryInv
  <2>2. /\ UNCHANGED <<feeRecipient, tokenId, balances, withdrawn, bank, supply, phase, tx, logs,
                       saved>>
        /\ phase = "begin"
    BY ZenonT(90), <1>3 DEF InitGenesis, evm
  <2>3. TxInv' /\ logs = <<>>
    BY ZenonT(90), <2>1, <2>2 DEF CsrInv, TxInv, LogInv
  <2> QED
    BY ZenonT(90), <2>1, <2>2, <2>3, IdleStep
<1>4. ASSUME NEW price \in GasPrice, AnteHandle(price)  PROVE CsrInv'
  BY <1>4, AnteHandleStep
<1>5. CASE \E c \in Contract : EvmCreate(c) \/ EvmSelfDestruct(c)
  <2>1. UNCHANGED <<params, csrs, index, turnstile, feeRecipient, tokenId, balances,
                    withdrawn, bank, supply, phase, tx, logs, saved>>
        /\ phase = "evm"
    BY <1>5 DEF EvmCreate, EvmSelfDestruct
  <2>2. TxInv'
    BY <2>1 DEF CsrInv, TxInv
  <2> QED
    BY <2>1, <2>2, IdleStep
<1>6. ASSUME NEW a \in Address, Register(a)  PROVE CsrInv'
  <2>1. tokenId \in NFT /\ tokenId + 1 \in 0..MaxNFT
    <3>1. tokenId \in 0..MaxNFT /\ tokenId < MaxNFT
      BY ZenonT(90), <1>6 DEF Register, CsrInv, LogInv
    <3> QED
      BY <3>1, ConstantsAssumption DEF NFT
  <2>2. /\ phase = "evm" /\ feeRecipient[a] = NoNFT /\ tokenId' = tokenId + 1
        /\ feeRecipient' = [feeRecipient EXCEPT ![a] = tokenId]
        /\ logs' = Append(logs, [name |-> "Register", contract |-> a, id |-> tokenId])
        /\ UNCHANGED <<params, csrs, index, turnstile, balances, withdrawn, bank, supply,
                       phase, tx, saved>>
    BY <1>6 DEF Register
  <2> QED
    BY ZenonT(90), <2>1, <2>2, RegisteredStep
<1>7. ASSUME NEW a \in Address, NEW id \in NFT, Assign(a, id)  PROVE CsrInv'
  <2>1. /\ phase = "evm" /\ feeRecipient[a] = NoNFT /\ tokenId' = tokenId
        /\ feeRecipient' = [feeRecipient EXCEPT ![a] = id]
        /\ logs' = Append(logs, [name |-> "Assign", contract |-> a, id |-> id])
        /\ UNCHANGED <<params, csrs, index, turnstile, balances, withdrawn, bank, supply,
                       phase, tx, saved>>
    BY <1>7 DEF Assign
  <2>2. tokenId' \in 0..MaxNFT
    BY ZenonT(90), <2>1 DEF CsrInv, LogInv
  <2> QED
    BY ZenonT(90), <2>1, <2>2, RegisteredStep
<1>8. ASSUME NEW id \in NFT, NEW amount \in 1..Funds, Withdraw(id, amount)  PROVE CsrInv'
  BY <1>8, WithdrawStep
<1>9. ASSUME NEW used \in GasUsed, EvmRevert(used)  PROVE CsrInv'
  <2>1. used \in Nat /\ used <= GasLimit /\ phase \in {"evm", "hook"} /\ Fail(used)
    BY <1>9 DEF EvmRevert
  <2> QED
    BY <2>1, FailStep
<1>10. ASSUME NEW to \in Address \cup {None}, NEW used \in GasUsed, EvmReturn(to, used)
       PROVE  CsrInv'
  <2>1. /\ UNCHANGED <<params, csrs, index, turnstile, feeRecipient, tokenId, balances,
                       withdrawn, bank, supply, logs, saved>>
        /\ phase = "evm" /\ phase' = "hook"
        /\ tx'.to = to /\ tx'.gasPrice = tx.gasPrice /\ tx'.gasUsed = used
    BY <1>10 DEF EvmReturn, evm
  <2>2. used \in Nat /\ used <= GasLimit
    OBVIOUS
  <2>3. TxInv'
    BY ZenonT(90), <2>1, <2>2 DEF CsrInv, TxInv
  <2> QED
    BY <2>1, <2>3, IdleStep
<1>11. CASE HookDisabled \/ HookNoGas
  <2>1. phase = "hook" /\ UNCHANGED <<csrs, index, balances>> /\ Commit(bank, 0)
    BY <1>11 DEF HookDisabled, HookNoGas, AtFees
  <2> QED
    BY <2>1, HookNothingStep
<1>12. CASE ProcessEvent
  BY <1>12, ProcessEventStep
<1>13. CASE ProcessEventFails
  <2>1. /\ UNCHANGED <<params, csrs, index, turnstile, feeRecipient, tokenId, balances,
                       withdrawn, bank, supply, phase, tx, saved>>
        /\ logs' = <<>>
    BY <1>13 DEF ProcessEventFails, evm
  <2>2. TxInv'
    BY ZenonT(90), <2>1 DEF CsrInv, TxInv
  <2> QED
    BY <2>1, <2>2, IdleStep
<1>14. CASE HookFails
  <2>1. tx.gasUsed \in Nat /\ tx.gasUsed <= GasLimit /\ phase = "hook" /\ Fail(tx.gasUsed)
    BY <1>14 DEF HookFails, AtFees, CsrInv, TxInv
  <2> QED
    BY <2>1, FailStep
<1>15. CASE HookBurns
  BY <1>15, HookBurnsStep
<1>16. CASE HookDistributes
  BY <1>16, HookDistributesStep
<1>17. CASE UNCHANGED vars
  <2>1. UNCHANGED <<params, csrs, index, turnstile, feeRecipient, tokenId, balances,
                    withdrawn, bank, supply, phase, tx, logs, saved>>
    BY <1>17 DEF vars, evm
  <2>2. TxInv'
    BY ZenonT(90), <2>1 DEF CsrInv, TxInv
  <2>3. phase' \in {"begin", "idle"} => logs' = <<>>
    BY ZenonT(90), <2>1 DEF CsrInv, LogInv
  <2> QED
    BY <2>1, <2>2, <2>3, IdleStep
<1> QED
  BY <1>1, <1>2, <1>3, <1>4, <1>5, <1>6, <1>7, <1>8, <1>9, <1>10, <1>11, <1>12, <1>13,
     <1>14, <1>15, <1>16, <1>17 DEF Next

\* What the Turnstile knew before the transaction keeps its place in the registry.
LEMMA FinalStep ==
  ASSUME WellOrdered,
         CsrInv, [Next]_vars, NEW addr \in Address, saved.feeRecipient[addr] # NoNFT
  PROVE  index'[addr] = saved.index[addr]
<1>1. index[addr] = saved.index[addr]
  BY DEF CsrInv, LogInv
<1>2. CASE UNCHANGED saved
  <2>1. LogInv'
    BY NextStep DEF CsrInv
  <2> QED
    BY <1>2, <2>1 DEF LogInv
<1>3. CASE index' = index
  BY <1>1, <1>3
<1>4. ASSUME NEW used, Fail(used)  PROVE index'[addr] = saved.index[addr]
  BY <1>4 DEF Fail
<1>5. CASE HookDistributes
  <2>1. \E csr : csr.contracts = csrs[TxNFT].contracts /\ SetCSR(TxNFT, csr)
    BY ZenonT(90), <1>5 DEF HookDistributes, GetCSR
  <2>2. PICK csr : csr.contracts = csrs[TxNFT].contracts /\ SetCSR(TxNFT, csr)
    BY <2>1
  <2>3. TxNFT # NoNFT
    BY <1>5 DEF HookDistributes
  <2>4. TxNFT \in NFT
    BY ZenonT(90), <2>3, TargetRegistered
  <2>5. index[addr] = TxNFT <=> addr \in csrs[TxNFT].contracts
    BY ZenonT(90), <2>4 DEF CsrInv, RegistryInv, RegistryOK
  <2>6. index'[addr] = IF addr \in csr.contracts THEN TxNFT ELSE index[addr]
    BY <2>2 DEF SetCSR
  <2> QED
    BY <1>1, <2>2, <2>5, <2>6
<1>6. \/ UNCHANGED saved \/ index' = index \/ HookDistributes \/ \E used : Fail(used)
  BY ZenonT(90) DEF Next, vars, BeginBlock, UpdateParams, EndBlock, InitGenesis, AnteHandle, EvmCreate,
         EvmSelfDestruct, Register, Assign, Withdraw, EvmRevert, EvmReturn, HookDisabled,
         ProcessEvent, ProcessEventFails, HookFails, HookNoGas, HookBurns
<1> QED
  BY <1>2, <1>3, <1>4, <1>5, <1>6

-----------------------------------------------------------------------------
(* Theorems.                                                               *)

INSTANCE WellFoundedInduction

\* The natural numbers are well-ordered, as the library's theorems have it: the hypothesis of
\* the lemmas above holds.
LEMMA NatWellOrdered == WellOrdered
<1> SUFFICES ASSUME NEW T \in SUBSET Nat, T # {}
             PROVE  \E x \in T : \A y \in T : x <= y
  BY DEF WellOrdered
<1> DEFINE less == OpToRel(<, Nat)
<1>1. IsWellFoundedOn(less, Nat)
  BY NatLessThanWellFounded, ZenonT(90)
<1>2. \A x, y \in T : <<y, x>> \in less <=> y < x
  BY DEF OpToRel
<1> HIDE DEF less
<1>3. PICK x \in T : \A y \in T : ~(<<y, x>> \in less)
  BY <1>1, WFMin, ZenonT(90)
<1>4. \A y \in T : ~(y < x)
  BY ZenonT(90), <1>2, <1>3
<1> QED
  BY <1>4

USE NatWellOrdered

\* The registry, the fees and the transaction are in order, and so is the state a failed
\* transaction goes back to.
THEOREM CsrInvariant == Spec => []CsrInv
<1>1. Init => CsrInv
  BY InitStep
<1>2. CsrInv /\ [Next]_vars => CsrInv'
  BY NextStep
<1> QED
  BY <1>1, <1>2, PTL DEF Spec

\* Index and CSRs agree at every point of a transaction.
THEOREM RegistryStaysIndexed == Spec => []RegistryIndexed
<1>1. CsrInv => RegistryIndexed
  BY ZenonT(90) DEF CsrInv, RegistryInv, RegistryOK, RegistryIndexed
<1> QED
  BY <1>1, CsrInvariant, PTL

\* The registry holds nothing that the Turnstile does not.
THEOREM RegistryStaysFromTurnstile == Spec => []RegistryFromTurnstile
<1>1. CsrInv => RegistryFromTurnstile
  BY ZenonT(90) DEF CsrInv, RegistryInv, RegistryOK, RegistryFromTurnstile
<1> QED
  BY <1>1, CsrInvariant, PTL

\* The revenue metric is what the NFT earned.
THEOREM RevenueStaysEarned == Spec => []RevenueIsEarned
<1>1. CsrInv => RevenueIsEarned
  BY ZenonT(90) DEF CsrInv, MoneyInv, RevenueOK, RevenueIsEarned
<1> QED
  BY <1>1, CsrInvariant, PTL

\* Every coin is accounted for, and the Turnstile can pay every NFT.
THEOREM FeesStayConserved == Spec => []FeesConserved
<1>1. CsrInv => FeesConserved
  BY ZenonT(90) DEF CsrInv, MoneyInv, BankOK, EarnedOK, FeesConserved
<1> QED
  BY <1>1, CsrInvariant, PTL

\* A share below the whole is less than the fee, and it is nothing only when the product
\* is below One.
LEMMA ShareEdges ==
  ASSUME CsrInv, phase = "hook", TxFee # 0, CsrFee \in {0, TxFee}
  PROVE  params.csrShares = One \/ TxFee * params.csrShares < One
<1>1. params.csrShares \in Nat /\ params.csrShares <= One /\ One \in Nat \ {0} /\ TxFee \in Nat
  BY HookBank, ConstantsAssumption DEF CsrInv, TxInv, Params
<1> DEFINE f == TxFee
           p == params.csrShares
           q == (f * p) \div One
<1>2. f * p \in Nat
  BY <1>1
<1>3. q \in Nat /\ One * q <= f * p /\ f * p < One * q + One
  BY <1>1, <1>2
<1>4. q = CsrFee /\ f = TxFee /\ p = params.csrShares
  BY DEF CsrFee
<1> HIDE DEF q, f, p
<1>5. CASE q = 0
  <2>1. One * q = 0
    BY <1>1, <1>5
  <2> QED
    BY <1>1, <1>2, <1>3, <1>4, <2>1
<1>6. CASE q = f
  <2> SUFFICES ASSUME p # One PROVE FALSE
    BY <1>4
  <2>1. f \in Nat /\ f # 0 /\ p \in Nat /\ p <= One - 1 /\ One \in Nat
    BY <1>1, <1>4
  <2>2. f * p <= f * (One - 1)
    BY <2>1
  <2>3. f * (One - 1) = One * f - f
    BY <2>1
  <2>4. One * f \in Nat /\ One * f <= f * p
    BY <1>3, <1>6, <2>1
  <2> QED
    BY <1>2, <2>1, <2>2, <2>3, <2>4
<1> QED
  BY <1>4, <1>5, <1>6

\* The hook fails for nothing but a fee that cannot be split: zero, a share that rounds
\* down to nothing, or the share of everything.
THEOREM HookFailureExplained == Spec => []HookFailsUnsplit
<1>1. CsrInv => HookFailsUnsplit
  <2> SUFFICES ASSUME CsrInv, AtFees, FeesFail, TxFee # 0
               PROVE  /\ turnstile /\ TxNFT # NoNFT
                      /\ params.csrShares = One \/ TxFee * params.csrShares < One
    BY DEF HookFailsUnsplit, AtFees, CsrInv, TxInv
  <2>1. phase = "hook" /\ turnstile
    BY DEF AtFees, CsrInv, TxInv
  <2>2. TxFee <= bank["fee_collector"] /\ TxFee \in Nat /\ bank["fee_collector"] \in Nat
    BY <2>1, HookBank
  <2>3. ~(bank["fee_collector"] < TxFee)
    BY <2>2
  <2>4. ASSUME TxNFT # NoNFT  PROVE Found(GetCSR(TxNFT))
    <3>1. tx.to \in csrs[TxNFT].contracts
      BY ZenonT(90), <2>4, TargetRegistered
    <3> QED
      BY ZenonT(90), <3>1 DEF Found, GetCSR
  <2>5. TxNFT # NoNFT /\ CsrFee \in {0, TxFee}
    BY <2>1, <2>3, <2>4 DEF FeesFail
  <2> QED
    BY <2>1, <2>5, ShareEdges
<1> QED
  BY <1>1, CsrInvariant, PTL

\* The transaction that registers an address decides for good.
THEOREM RegistrationStaysFinal == Spec => RegistrationIsFinal
<1>1. CsrInv /\ [Next]_vars =>
        [\A a \in Address : saved.feeRecipient[a] # NoNFT => index'[a] = saved.index[a]]_vars
  BY FinalStep
<1> QED
  BY <1>1, CsrInvariant, PTL DEF Spec, RegistrationIsFinal
=============================================================================
