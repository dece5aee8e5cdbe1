---------------------------- MODULE Erc20Proofs -----------------------------
(***************************************************************************)
(* The pairs of the erc20 module stay indexed and backed, a conversion     *)
(* moves one amount, and the module implements the vaults of module Vault, *)
(* for any number of users, coins, contracts, amounts and logs.            *)
(***************************************************************************)
EXTENDS Erc20Lemmas

\* The provers that try a leaf, one after the other, and the seconds each of them has.
USE SMTT(60), ZenonT(60), Z3T(60)

-----------------------------------------------------------------------------
(* Every step is of one of the kinds.                                      *)

\* An import of the exported genesis rebuilds the state that was exported.
LEMMA RestartKeeps ==
  ASSUME TypeOK, Restart
  PROVE  UNCHANGED vars
  <1> DEFINE g == ExportGenesis
  <1>1. InitGenesis(g) /\ UNCHANGED <<metadata, bankVars, evmVars, txVars>>
    BY DEF Restart
  <1>2. params' = params
    BY <1>1 DEF InitGenesis, ExportGenesis
  <1>3. tokenPairs' = tokenPairs
    <2>1. /\ DOMAIN g.tokenPairs = {i \in Id : Registered(i)}
          /\ \A id \in Id : Registered(id) => g.tokenPairs[id] = tokenPairs[id]
      BY DEF ExportGenesis
    <2>2. tokenPairs' = [id \in Id |->
             IF id \in DOMAIN g.tokenPairs THEN g.tokenPairs[id] ELSE NoPair]
      BY <1>1 DEF InitGenesis
    <2>3. tokenPairs = [id \in Id |-> tokenPairs[id]]
      BY DEF TypeOK
    <2> HIDE DEF g
    <2>4. \A id \in Id : (IF id \in DOMAIN g.tokenPairs THEN g.tokenPairs[id] ELSE NoPair)
                           = tokenPairs[id]
      BY ZenonT(90), <2>1 DEF Registered
    <2> QED
      BY <2>2, <2>3, <2>4
  <1>4. denomIndex' = denomIndex
    <2>1. /\ DOMAIN g.denomIndexes = {d \in Denom : IsDenomRegistered(d)}
          /\ \A d \in Denom : IsDenomRegistered(d) => g.denomIndexes[d] = denomIndex[d]
      BY DEF ExportGenesis
    <2>2. denomIndex' = [d \in Denom |->
             IF d \in DOMAIN g.denomIndexes THEN g.denomIndexes[d] ELSE NoId]
      BY <1>1 DEF InitGenesis
    <2>3. denomIndex = [d \in Denom |-> denomIndex[d]]
      BY DEF TypeOK
    <2> HIDE DEF g
    <2>4. \A d \in Denom : (IF d \in DOMAIN g.denomIndexes THEN g.denomIndexes[d] ELSE NoId)
                             = denomIndex[d]
      BY ZenonT(90), <2>1 DEF IsDenomRegistered
    <2> QED
      BY <2>2, <2>3, <2>4
  <1>5. erc20Index' = erc20Index
    <2>1. /\ DOMAIN g.erc20AddressIndexes = {c \in Contract : IsERC20Registered(c)}
          /\ \A c \in Contract : IsERC20Registered(c) => g.erc20AddressIndexes[c] = erc20Index[c]
      BY DEF ExportGenesis
    <2>2. erc20Index' = [c \in Contract |->
             IF c \in DOMAIN g.erc20AddressIndexes THEN g.erc20AddressIndexes[c] ELSE NoId]
      BY <1>1 DEF InitGenesis
    <2>3. erc20Index = [c \in Contract |-> erc20Index[c]]
      BY DEF TypeOK
    <2> HIDE DEF g
    <2>4. \A c \in Contract :
            (IF c \in DOMAIN g.erc20AddressIndexes THEN g.erc20AddressIndexes[c] ELSE NoId)
              = erc20Index[c]
      BY ZenonT(90), <2>1 DEF IsERC20Registered
    <2> QED
      BY <2>2, <2>3, <2>4
  <1> QED
    BY ZenonT(90), <1>1, <1>2, <1>3, <1>4, <1>5 DEF vars, pairVars

\* What a step of Next is, for the arguments that follow.
LEMMA StepCases ==
  ASSUME IndInv, Next
  PROVE  StepKind \/ UNCHANGED vars
  \* convertCoinNativeCoin escrows as many coins as it mints tokens.
  <1>CoinToTokenEffect.
      ASSUME TypeOK, NEW id \in Id, NEW u \in User, NEW r \in Addr, NEW a \in Nat,
             r # ModuleAddress, convertCoinNativeCoin(id, u, r, id[2], a)
      PROVE  LedgerTypes /\ NativeExchange(id)
    <2> USE <1>CoinToTokenEffect
    <2>1. id[1] \in Contract /\ id[2] \in Denom /\ u \in Addr /\ ModuleAddress \in Addr /\ u # ModuleAddress
      BY IdFacts, AddrFacts
    <2>2. /\ coins[u][id[2]] >= a /\ Mint(id[1], r, a) /\ supply' = supply
          /\ coins' = SendCoins(coins, u, ModuleAddress, id[2], a)
      BY DEF convertCoinNativeCoin
    <2>3. /\ tokens' \in Holdings /\ totalSupply' \in [Contract -> Nat]
          /\ \A k \in Contract : totalSupply'[k] = totalSupply[k] + (IF k = id[1] THEN a ELSE 0)
          /\ \A k \in Contract, x \in Addr :
               tokens'[k][x] = tokens[k][x] + (IF k = id[1] /\ x = r THEN a ELSE 0)
      BY <2>1, <2>2, MintEffect
    <2>4. /\ coins' \in Balances
          /\ \A x \in Addr, e \in Denom :
               coins'[x][e] = coins[x][e] - (IF x = u /\ e = id[2] THEN a ELSE 0)
                                + (IF x = ModuleAddress /\ e = id[2] THEN a ELSE 0)
      BY <2>1, <2>2, SendEffect, LedgersTyped
    <2>5. /\ coins'[ModuleAddress][id[2]] = coins[ModuleAddress][id[2]] + a
          /\ \A e \in Denom \ {id[2]} : coins'[ModuleAddress][e] = coins[ModuleAddress][e]
      BY <2>1, <2>4, LedgersTyped DEF Balances
    <2>6. /\ totalSupply'[id[1]] = totalSupply[id[1]] + a
          /\ \A k \in Contract \ {id[1]} : totalSupply'[k] = totalSupply[k]
          /\ \A k \in Contract : tokens'[k][ModuleAddress] = tokens[k][ModuleAddress]
      BY <2>1, <2>3, LedgersTyped DEF Holdings
    <2>7. coins[ModuleAddress][id[2]] \in Nat /\ totalSupply[id[1]] \in Nat
      BY <2>1, LedgersTyped DEF Balances
    <2>8. LedgerTypes
      BY ZenonT(90), <2>2, <2>3, <2>4, LedgersTyped DEF LedgerTypes
    <2> QED
      BY <2>2, <2>5, <2>6, <2>7, <2>8 DEF NativeExchange
  \* convertERC20NativeCoin releases as many coins as it burns tokens.
  <1>TokenToCoinEffect.
      ASSUME TypeOK, NEW id \in Id, NEW u \in User, NEW r \in Addr, NEW a \in Nat,
             r # ModuleAddress, convertERC20NativeCoin(id, u, r, a)
      PROVE  LedgerTypes /\ NativeExchange(id)
    <2> USE <1>TokenToCoinEffect
    <2>1. id[1] \in Contract /\ id[2] \in Denom /\ u \in Addr /\ ModuleAddress \in Addr /\ u # ModuleAddress
      BY ZenonT(90), IdFacts, AddrFacts
    <2>2. /\ coins[ModuleAddress][id[2]] >= a /\ CanBurn(id[1], u, a) /\ Burn(id[1], u, a)
          /\ supply' = supply
          /\ coins' = SendCoins(coins, ModuleAddress, r, id[2], a)
      BY ZenonT(90) DEF convertERC20NativeCoin
    <2>3. /\ tokens' \in Holdings /\ totalSupply' \in [Contract -> Nat]
          /\ \A k \in Contract : totalSupply'[k] = totalSupply[k] - (IF k = id[1] THEN a ELSE 0)
          /\ \A k \in Contract, x \in Addr :
               tokens'[k][x] = tokens[k][x] - (IF k = id[1] /\ x = u THEN a ELSE 0)
      BY <2>1, <2>2, BurnEffect
    <2>4. /\ coins' \in Balances
          /\ \A x \in Addr, e \in Denom :
               coins'[x][e] = coins[x][e] - (IF x = ModuleAddress /\ e = id[2] THEN a ELSE 0)
                                + (IF x = r /\ e = id[2] THEN a ELSE 0)
      BY <2>1, <2>2, SendEffect, LedgersTyped
    <2>5. /\ coins'[ModuleAddress][id[2]] = coins[ModuleAddress][id[2]] - a
          /\ \A e \in Denom \ {id[2]} : coins'[ModuleAddress][e] = coins[ModuleAddress][e]
      BY <2>1, <2>4, LedgersTyped DEF Balances
    <2>6. /\ totalSupply'[id[1]] = totalSupply[id[1]] - a
          /\ \A k \in Contract \ {id[1]} : totalSupply'[k] = totalSupply[k]
          /\ \A k \in Contract : tokens'[k][ModuleAddress] = tokens[k][ModuleAddress]
      BY <2>1, <2>3, LedgersTyped DEF Holdings
    <2>7. coins[ModuleAddress][id[2]] \in Nat /\ totalSupply[id[1]] \in Nat
      BY <2>1, LedgersTyped DEF Balances
    <2>8. LedgerTypes
      BY ZenonT(90), <2>2, <2>3, <2>4, LedgersTyped DEF LedgerTypes
    <2> QED
      BY <2>2, <2>5, <2>6, <2>7, <2>8 DEF NativeExchange
  \* convertERC20NativeToken mints as many coins as arrive in escrow, also when the contract
  \* takes a fee: the balance of the module's address is compared with the amount.
  <1>TokenInEffect.
      ASSUME TypeOK, NEW id \in Id, NEW u \in User, NEW r \in Addr, NEW a \in Nat,
             r # ModuleAddress, convertERC20NativeToken(id, u, r, a)
      PROVE  LedgerTypes /\ ExternalExchange(id)
    <2> USE <1>TokenInEffect
    <2>1. id[1] \in Contract /\ id[2] \in Denom /\ u \in Addr /\ ModuleAddress \in Addr /\ u # ModuleAddress
      BY IdFacts, AddrFacts
    <2>2. /\ CanTransfer(id[1], u, ModuleAddress, a) /\ Transfer(id[1], u, ModuleAddress, a)
          /\ tokens'[id[1]][ModuleAddress] = tokens[id[1]][ModuleAddress] + a
      BY ZenonT(90) DEF convertERC20NativeToken
    <2>3. /\ tokens' \in Holdings /\ totalSupply' \in [Contract -> Nat] /\ Fee[id[1]] \in Nat
          /\ \A k \in Contract : totalSupply'[k] = totalSupply[k] - (IF k = id[1] THEN Fee[id[1]] ELSE 0)
          /\ \A k \in Contract, x \in Addr :
               tokens'[k][x] = tokens[k][x] - (IF k = id[1] /\ x = u THEN a ELSE 0)
                                 + (IF k = id[1] /\ x = ModuleAddress THEN a - Fee[id[1]] ELSE 0)
      <3>1. Moved(id[1], u, ModuleAddress, a)
        BY <2>1, <2>2, TransferEffect
      <3> QED
        BY <3>1 DEF Moved
    <2> DEFINE credited == CreditCoin(coins, r, id[2], a)
    <2>a. coins' = credited
      BY ZenonT(90) DEF convertERC20NativeToken, CreditCoin
    <2>b. /\ credited \in Balances
          /\ \A x \in Addr, e \in Denom :
               credited[x][e] = coins[x][e] + (IF x = r /\ e = id[2] THEN a ELSE 0)
      <3>1. coins \in Balances
        BY ZenonT(90), LedgersTyped
      <3>2. ASSUME NEW d \in Denom
            PROVE  /\ CreditCoin(coins, r, d, a) \in Balances
                   /\ \A x \in Addr, e \in Denom :
                        CreditCoin(coins, r, d, a)[x][e] = coins[x][e] + (IF x = r /\ e = d THEN a ELSE 0)
        BY <3>1, CreditCoins
      <3> QED
        BY <2>1, <3>2
    <2> HIDE DEF credited
    <2>5. coins' \in Balances /\ \A e \in Denom : coins'[ModuleAddress][e] = coins[ModuleAddress][e]
      BY <2>1, <2>a, <2>b, LedgersTyped DEF Balances
    <2>c. supply' = [supply EXCEPT ![id[2]] = @ + a]
      BY DEF convertERC20NativeToken
    <2>d. /\ supply' \in [Denom -> Nat] /\ supply'[id[2]] = supply[id[2]] + a
          /\ \A e \in Denom \ {id[2]} : supply'[e] = supply[e]
      BY <2>1, <2>c, LedgersTyped
    <2>6. /\ \A k \in Contract \ {id[1]} : totalSupply'[k] = totalSupply[k]
          /\ \A k \in Contract \ {id[1]} : tokens'[k][ModuleAddress] = tokens[k][ModuleAddress]
      BY <2>1, <2>3, LedgersTyped DEF Holdings
    <2>7. tokens[id[1]][ModuleAddress] \in Nat /\ supply[id[2]] \in Nat
      BY <2>1, LedgersTyped DEF Holdings
    <2>8. LedgerTypes
      BY ZenonT(90), <2>3, <2>5, <2>d DEF LedgerTypes
    <2> QED
      BY <2>2, <2>5, <2>6, <2>7, <2>8, <2>d DEF ExternalExchange
  \* convertCoinNativeERC20 burns as many coins as leave escrow.
  <1>TokenOutEffect.
      ASSUME TypeOK, NEW id \in Id, NEW u \in User, NEW r \in Addr, NEW a \in Nat,
             r # ModuleAddress, convertCoinNativeERC20(id, u, r, id[2], a)
      PROVE  LedgerTypes /\ ExternalExchange(id)
    <2> USE <1>TokenOutEffect
    <2>1. id[1] \in Contract /\ id[2] \in Denom /\ u \in Addr /\ ModuleAddress \in Addr /\ u # ModuleAddress
      BY IdFacts, AddrFacts
    <2>2. /\ CanTransfer(id[1], ModuleAddress, r, a) /\ Transfer(id[1], ModuleAddress, r, a)
          /\ coins[u][id[2]] >= a /\ supply[id[2]] >= a
      BY ZenonT(90) DEF convertCoinNativeERC20
    <2>3. /\ tokens' \in Holdings /\ totalSupply' \in [Contract -> Nat] /\ Fee[id[1]] \in Nat
          /\ \A k \in Contract : totalSupply'[k] = totalSupply[k] - (IF k = id[1] THEN Fee[id[1]] ELSE 0)
          /\ \A k \in Contract, x \in Addr :
               tokens'[k][x] = tokens[k][x] - (IF k = id[1] /\ x = ModuleAddress THEN a ELSE 0)
                                 + (IF k = id[1] /\ x = r THEN a - Fee[id[1]] ELSE 0)
      <3>1. Moved(id[1], ModuleAddress, r, a)
        BY <2>1, <2>2, TransferEffect
      <3> QED
        BY ZenonT(90), <3>1 DEF Moved
    <2> DEFINE debited == DebitCoin(coins, u, id[2], a)
    <2>a. coins' = debited
      BY ZenonT(90) DEF convertCoinNativeERC20, DebitCoin
    <2>b. /\ debited \in Balances
          /\ \A x \in Addr, e \in Denom :
               debited[x][e] = coins[x][e] - (IF x = u /\ e = id[2] THEN a ELSE 0)
      BY <2>1, <2>2, DebitCoins, LedgersTyped
    <2> HIDE DEF debited
    <2>5. coins' \in Balances /\ \A e \in Denom : coins'[ModuleAddress][e] = coins[ModuleAddress][e]
      BY <2>1, <2>a, <2>b, LedgersTyped DEF Balances
    <2>c. supply' = [supply EXCEPT ![id[2]] = @ - a]
      BY ZenonT(90) DEF convertCoinNativeERC20
    <2>d. /\ supply' \in [Denom -> Nat] /\ supply'[id[2]] = supply[id[2]] - a
          /\ \A e \in Denom \ {id[2]} : supply'[e] = supply[e]
      BY <2>1, <2>2, <2>c, LedgersTyped
    <2>6. /\ \A k \in Contract \ {id[1]} : totalSupply'[k] = totalSupply[k]
          /\ \A k \in Contract \ {id[1]} : tokens'[k][ModuleAddress] = tokens[k][ModuleAddress]
          /\ tokens'[id[1]][ModuleAddress] = tokens[id[1]][ModuleAddress] - a
      BY <2>1, <2>3, LedgersTyped DEF Holdings
    <2>7. tokens[id[1]][ModuleAddress] \in Nat /\ supply[id[2]] \in Nat
      BY ZenonT(90), <2>1, LedgersTyped DEF Holdings
    <2>8. LedgerTypes
      BY ZenonT(90), <2>3, <2>5, <2>d DEF LedgerTypes
    <2> QED
      BY <2>5, <2>6, <2>7, <2>8, <2>d DEF ExternalExchange
  \* ConvertCoin exchanges or removes the pair of its denom.
  <1>ConvertCoinCases.
      ASSUME IndInv, NEW u \in User, NEW r \in Addr, NEW d \in Denom, NEW a \in Amount,
             ConvertCoin(u, r, d, a)
      PROVE  \E id \in Id : Exchanged(id) \/ Removed(id)
    <2> USE <1>ConvertCoinCases
    <2> DEFINE id == denomIndex[d]
    <2>1. id \in Id /\ Registered(id) /\ r # ModuleAddress
      <3>1. id \in Id \cup {NoId} /\ MintingEnabled(u, r, id)
        BY ZenonT(90) DEF IndInv, TypeOK, ConvertCoin
      <3> QED
        BY <3>1, MintingEnabledFacts
    <2>2. id[2] = d /\ TypeOK /\ a \in Nat
      BY <2>1, ConstantsAssumption DEF IndInv, PairsIndexed, IsDenomRegistered
    <2>3. CASE RemovePair(id)
      <3>1. id[1] \notin code /\ DeleteTokenPair(id) /\ UNCHANGED <<metadata, bankVars, evmVars>>
        BY <2>3 DEF RemovePair
      <3>2. UNCHANGED <<params, txVars>>
        BY ZenonT(90) DEF ConvertCoin
      <3> HIDE DEF id
      <3>3. Removed(id)
        BY <2>1, <3>1, <3>2 DEF Removed
      <3> QED
        BY <2>1, <3>3
    <2>4. CASE ~RemovePair(id)
      <3>1. /\ id[1] \in code /\ phase = "idle"
            /\ UNCHANGED <<params, pairVars, code, nonce, txVars>>
            /\ \/ convertCoinNativeCoin(id, u, r, d, a)
               \/ convertCoinNativeERC20(id, u, r, d, a)
        BY ZenonT(90), <2>4 DEF ConvertCoin
      <3> HIDE DEF id
      <3>2. CASE convertCoinNativeCoin(id, u, r, d, a)
        <4>1. tokenPairs[id].contractOwner = "module"
          BY ZenonT(90), <3>2 DEF convertCoinNativeCoin
        <4>2. LedgerTypes /\ NativeExchange(id)
          BY ZenonT(90), <2>1, <2>2, <3>2, <1>CoinToTokenEffect
        <4> QED
          BY ZenonT(90), <2>1, <3>1, <4>1, <4>2 DEF Exchanged
      <3>3. CASE convertCoinNativeERC20(id, u, r, d, a)
        <4>1. tokenPairs[id].contractOwner = "external"
          BY <3>3 DEF convertCoinNativeERC20
        <4>2. LedgerTypes /\ ExternalExchange(id)
          BY <2>1, <2>2, <3>3, <1>TokenOutEffect
        <4> QED
          BY ZenonT(90), <2>1, <3>1, <4>1, <4>2 DEF Exchanged
      <3> QED
        BY ZenonT(90), <3>1, <3>2, <3>3
    <2> QED
      BY <2>3, <2>4
  \* ConvertERC20 exchanges or removes the pair of its contract.
  <1>ConvertERC20Cases.
      ASSUME IndInv, NEW u \in User, NEW r \in Addr, NEW c \in Contract, NEW a \in Amount,
             ConvertERC20(u, r, c, a)
      PROVE  \E id \in Id : Exchanged(id) \/ Removed(id)
    <2> USE <1>ConvertERC20Cases
    <2> DEFINE id == erc20Index[c]
    <2>1. id \in Id /\ Registered(id) /\ r # ModuleAddress
      <3>1. id \in Id \cup {NoId} /\ MintingEnabled(u, r, id)
        BY DEF IndInv, TypeOK, ConvertERC20
      <3> QED
        BY <3>1, MintingEnabledFacts
    <2>2. TypeOK /\ a \in Nat
      BY ConstantsAssumption DEF IndInv
    <2>3. CASE RemovePair(id)
      <3>1. id[1] \notin code /\ DeleteTokenPair(id) /\ UNCHANGED <<metadata, bankVars, evmVars>>
        BY <2>3 DEF RemovePair
      <3>2. UNCHANGED <<params, txVars>>
        BY DEF ConvertERC20
      <3> HIDE DEF id
      <3>3. Removed(id)
        BY <2>1, <3>1, <3>2 DEF Removed
      <3> QED
        BY <2>1, <3>3
    <2>4. CASE ~RemovePair(id)
      <3>1. /\ id[1] \in code /\ phase = "idle"
            /\ UNCHANGED <<params, pairVars, code, nonce, txVars>>
            /\ \/ convertERC20NativeCoin(id, u, r, a)
               \/ convertERC20NativeToken(id, u, r, a)
        BY ZenonT(90), <2>4 DEF ConvertERC20
      <3> HIDE DEF id
      <3>2. CASE convertERC20NativeCoin(id, u, r, a)
        <4>1. tokenPairs[id].contractOwner = "module"
          BY ZenonT(90), <3>2 DEF convertERC20NativeCoin
        <4>2. LedgerTypes /\ NativeExchange(id)
          BY ZenonT(90), <2>1, <2>2, <3>2, <1>TokenToCoinEffect
        <4> QED
          BY ZenonT(90), <2>1, <3>1, <4>1, <4>2 DEF Exchanged
      <3>3. CASE convertERC20NativeToken(id, u, r, a)
        <4>1. tokenPairs[id].contractOwner = "external"
          BY ZenonT(90), <3>3 DEF convertERC20NativeToken
        <4>2. LedgerTypes /\ ExternalExchange(id)
          BY <2>1, <2>2, <3>3, <1>TokenInEffect
        <4> QED
          BY ZenonT(90), <2>1, <3>1, <4>1, <4>2 DEF Exchanged
      <3> QED
        BY <3>1, <3>2, <3>3
    <2> QED
      BY <2>3, <2>4
  \* A transfer adds a log of what arrives.
  <1>EvmTransferEffect.
      ASSUME TypeOK, NEW c \in Contract, NEW u \in User, NEW to \in Addr, NEW a \in Amount,
             EvmTransfer(c, u, to, a)
      PROVE  \E log \in Log : EvmMoved(c, log)
    <2> USE <1>EvmTransferEffect
    <2> DEFINE log == TransferLog(c, u, to, Received(c, a))
    <2>0. a \in Nat /\ u \in Addr /\ u # ModuleAddress /\ ModuleAddress \in Addr
      BY ConstantsAssumption, AddrFacts
    <2>1. /\ CanTransfer(c, u, to, a) /\ Transfer(c, u, to, a) /\ Call(<<log>>)
          /\ UNCHANGED <<params, pairVars, bankVars, code, nonce>>
      BY ZenonT(90) DEF EvmTransfer
    <2>2. /\ Fee[c] \in Nat /\ Received(c, a) \in Nat /\ Received(c, a) = a - Fee[c]
          /\ tokens' \in Holdings /\ totalSupply' \in [Contract -> Nat]
          /\ \A k \in Contract : totalSupply'[k] = totalSupply[k] - (IF k = c THEN Fee[c] ELSE 0)
          /\ \A k \in Contract, x \in Addr :
               tokens'[k][x] = tokens[k][x] - (IF k = c /\ x = u THEN a ELSE 0)
                                 + (IF k = c /\ x = to THEN a - Fee[c] ELSE 0)
      <3>1. CanTransfer(c, u, to, a) /\ Transfer(c, u, to, a)
        BY ZenonT(90), <2>1
      <3> HIDE DEF log
      <3>2. Moved(c, u, to, a)
        BY ZenonT(90), <2>0, <3>1, TransferEffect
      <3> QED
        BY ZenonT(90), <3>2 DEF Moved
    <2>3. log \in Log /\ log.contract = c
          /\ Deposit(log, c) = IF to = ModuleAddress THEN Received(c, a) ELSE 0
      BY <2>0, <2>2, TransferLogFacts
    <2>4. c \in code
      BY ZenonT(90), <2>1 DEF CanTransfer
    <2>5. phase' = "evm" /\ receipt' = receipt \o <<log>>
      BY ZenonT(90), <2>1 DEF Call
    <2> HIDE DEF log
    <2>6. /\ \A k \in Contract \ {c} : tokens'[k][ModuleAddress] = tokens[k][ModuleAddress]
          /\ \A k \in Contract \ {c} : totalSupply'[k] = totalSupply[k]
      BY <2>0, <2>2, LedgersTyped DEF Holdings
    <2>7. tokens'[c][ModuleAddress] = tokens[c][ModuleAddress] + Deposit(log, c)
      <3>1. tokens[c][ModuleAddress] \in Nat
        BY ZenonT(90), <2>0, LedgersTyped DEF Holdings
      <3>2. tokens'[c][ModuleAddress] = tokens[c][ModuleAddress] + (IF to = ModuleAddress THEN a - Fee[c] ELSE 0)
        BY <2>0, <2>2, <3>1
      <3> QED
        BY ZenonT(90), <2>2, <2>3, <3>2
    <2>8. c \in Deployed => totalSupply'[c] <= totalSupply[c]
      BY <2>2, LedgersTyped
    <2> QED
      BY ZenonT(90), <2>1, <2>2, <2>3, <2>4, <2>5, <2>6, <2>7, <2>8 DEF EvmMoved
  \* A burn by a user adds a log that brings the module nothing.
  <1>EvmBurnEffect.
      ASSUME TypeOK, NEW c \in Contract, NEW u \in User, NEW a \in Amount, EvmBurn(c, u, a)
      PROVE  \E log \in Log : EvmMoved(c, log)
    <2> USE <1>EvmBurnEffect
    <2> DEFINE log == TransferLog(c, u, ZeroAddress, a)
    <2>0. /\ a \in Nat /\ u \in Addr /\ u # ModuleAddress /\ ModuleAddress \in Addr
          /\ ZeroAddress \in Addr /\ ZeroAddress # ModuleAddress
      BY ConstantsAssumption, AddrFacts
    <2>1. /\ CanBurn(c, u, a) /\ Burn(c, u, a) /\ Call(<<log>>)
          /\ UNCHANGED <<params, pairVars, bankVars, code, nonce>>
      BY ZenonT(90) DEF EvmBurn
    <2>2. /\ tokens' \in Holdings /\ totalSupply' \in [Contract -> Nat]
          /\ \A k \in Contract : totalSupply'[k] = totalSupply[k] - (IF k = c THEN a ELSE 0)
          /\ \A k \in Contract, x \in Addr :
               tokens'[k][x] = tokens[k][x] - (IF k = c /\ x = u THEN a ELSE 0)
      <3>1. CanBurn(c, u, a) /\ Burn(c, u, a)
        BY <2>1
      <3> HIDE DEF log
      <3> QED
        BY <2>0, <3>1, BurnEffect
    <2>3. log \in Log /\ log.contract = c /\ Deposit(log, c) = 0
      BY <2>0, TransferLogFacts
    <2>4. c \in code
      BY <2>1 DEF CanBurn
    <2>5. phase' = "evm" /\ receipt' = receipt \o <<log>>
      BY ZenonT(90), <2>1 DEF Call
    <2> HIDE DEF log
    <2>6. /\ \A k \in Contract \ {c} : tokens'[k][ModuleAddress] = tokens[k][ModuleAddress]
          /\ \A k \in Contract \ {c} : totalSupply'[k] = totalSupply[k]
          /\ tokens'[c][ModuleAddress] = tokens[c][ModuleAddress] + Deposit(log, c)
      BY <2>0, <2>2, <2>3, LedgersTyped DEF Holdings
    <2>8. c \in Deployed => totalSupply'[c] <= totalSupply[c]
      BY <2>0, <2>2, LedgersTyped
    <2> QED
      BY ZenonT(90), <2>1, <2>2, <2>3, <2>4, <2>5, <2>6, <2>8 DEF EvmMoved
  \* A mint of an external contract adds a log of what it makes.
  <1>EvmMintEffect.
      ASSUME TypeOK, NEW c \in External, NEW to \in User \cup {ModuleAddress}, NEW a \in Amount,
             EvmMint(c, to, a)
      PROVE  \E log \in Log : EvmMoved(c, log)
    <2> USE <1>EvmMintEffect
    <2> DEFINE log == TransferLog(c, ZeroAddress, to, a)
    <2>0. /\ a \in Nat /\ to \in Addr /\ ModuleAddress \in Addr /\ c \in Contract
          /\ ZeroAddress \in Addr /\ c \notin Deployed
      BY ConstantsAssumption, AddrFacts
    <2>1. /\ c \in code /\ Mint(c, to, a) /\ Call(<<log>>)
          /\ UNCHANGED <<params, pairVars, bankVars, code, nonce>>
      BY DEF EvmMint
    <2>2. /\ tokens' \in Holdings /\ totalSupply' \in [Contract -> Nat]
          /\ \A k \in Contract : totalSupply'[k] = totalSupply[k] + (IF k = c THEN a ELSE 0)
          /\ \A k \in Contract, x \in Addr :
               tokens'[k][x] = tokens[k][x] + (IF k = c /\ x = to THEN a ELSE 0)
      <3>1. Mint(c, to, a)
        BY ZenonT(90), <2>1
      <3> HIDE DEF log
      <3> QED
        BY <2>0, <3>1, MintEffect
    <2>3. log \in Log /\ log.contract = c
          /\ Deposit(log, c) = IF to = ModuleAddress THEN a ELSE 0
      BY <2>0, TransferLogFacts
    <2>5. phase' = "evm" /\ receipt' = receipt \o <<log>>
      BY ZenonT(90), <2>1 DEF Call
    <2> HIDE DEF log
    <2>6. /\ \A k \in Contract \ {c} : tokens'[k][ModuleAddress] = tokens[k][ModuleAddress]
          /\ \A k \in Contract \ {c} : totalSupply'[k] = totalSupply[k]
          /\ tokens'[c][ModuleAddress] = tokens[c][ModuleAddress] + Deposit(log, c)
      BY <2>0, <2>2, <2>3, LedgersTyped DEF Holdings
    <2> QED
      BY ZenonT(90), <2>0, <2>1, <2>2, <2>3, <2>5, <2>6 DEF EvmMoved
  \* RegisterERC20 is only for contracts that the module did not deploy: those have a pair
  \* as long as they have code.
  <1>RegistersExternal.
      ASSUME IndInv, NEW c \in Contract, NEW m, RegisterERC20(c, m)
      PROVE  c \in External
    BY <1>RegistersExternal, ZenonT(90) DEF IndInv, OwnersKnown, RegisterERC20, Contract
  <1>0. TypeOK
    BY DEF IndInv
  <1> USE DEF StepKind
  <1>1. CASE Governance
    <2>1. CASE \E d \in Denom, m \in Metadata : RegisterCoin(d, m)
      BY ZenonT(90), <2>1
    <2>2. CASE \E c \in Contract, m \in Metadata : RegisterERC20(c, m)
      BY <2>2, <1>RegistersExternal
    <2>3. CASE \E d \in Denom : ToggleConversion(denomIndex[d])
      <3>1. PICK d \in Denom : ToggleConversion(denomIndex[d])
        BY <2>3
      <3>2. denomIndex[d] \in Id \cup {NoId}
        BY ZenonT(90), <1>0 DEF TypeOK
      <3> QED
        BY <3>1, <3>2
    <2>4. CASE \E c \in Contract : ToggleConversion(erc20Index[c])
      <3>1. PICK c \in Contract : ToggleConversion(erc20Index[c])
        BY <2>4
      <3>2. erc20Index[c] \in Id \cup {NoId}
        BY ZenonT(90), <1>0 DEF TypeOK
      <3> QED
        BY <3>1, <3>2
    <2>5. CASE \E e, h \in BOOLEAN : UpdateParams([enableErc20 |-> e, enableEVMHook |-> h])
      BY ZenonT(90), <2>5
    <2> QED
      BY ZenonT(90), <1>1, <2>1, <2>2, <2>3, <2>4, <2>5 DEF Governance
  <1>2. CASE Conversion
    <2>1. PICK u \in User, r \in Addr, a \in Amount :
            \/ \E d \in Denom : ConvertCoin(u, r, d, a)
            \/ \E c \in Contract : ConvertERC20(u, r, c, a)
      BY <1>2 DEF Conversion
    <2>2. \E id \in Id : Exchanged(id) \/ Removed(id)
      BY <2>1, <1>ConvertCoinCases, <1>ConvertERC20Cases
    <2> QED
      BY <2>2
  <1>3. CASE Ethereum
    <2>1. CASE \E c \in Contract, u \in User, to \in Addr, a \in Amount : EvmTransfer(c, u, to, a)
      BY <1>0, <2>1, <1>EvmTransferEffect
    <2>2. CASE \E c \in Contract, u \in User, a \in Amount : EvmBurn(c, u, a)
      BY ZenonT(90), <1>0, <2>2, <1>EvmBurnEffect
    <2>3. CASE \E c \in External, to \in User \cup {ModuleAddress}, a \in Amount : EvmMint(c, to, a)
      BY ZenonT(90), <1>0, <2>3, <1>EvmMintEffect, AddrFacts
    <2>4. CASE \E c \in External : EvmSelfDestruct(c)
      BY <2>4
    <2>5. CASE PostTxProcessing
      BY <2>5
    <2> QED
      BY ZenonT(90), <1>3, <2>1, <2>2, <2>3, <2>4, <2>5 DEF Ethereum
  <1>4. CASE Hook
    BY <1>4 DEF Hook
  <1>5. CASE Restart
    BY <1>0, <1>5, RestartKeeps
  <1> QED
    BY ZenonT(90), <1>1, <1>2, <1>3, <1>4, <1>5 DEF Next

-----------------------------------------------------------------------------
(* The theorems.                                                           *)

\* The invariant holds initially.
LEMMA InitHolds == Init => IndInv
  <1> SUFFICES ASSUME Init PROVE IndInv
    BY ZenonT(90)
  <1>1. TypeOK
    <2>1. /\ tokenPairs \in [Id -> Pair \cup {NoPair}]
          /\ denomIndex \in [Denom -> Id \cup {NoId}]
          /\ erc20Index \in [Contract -> Id \cup {NoId}]
          /\ metadata \in [Denom -> Metadata \cup {NoMetadata}]
          /\ params \in [enableErc20 : BOOLEAN, enableEVMHook : BOOLEAN]
      BY ZenonT(90) DEF Init
    <2>2. coins \in [Addr -> [Denom -> Nat]] /\ supply \in [Denom -> Nat]
      BY ZenonT(90), ConstantsAssumption DEF Init
    <2>3. tokens \in [Contract -> [Addr -> Nat]] /\ totalSupply \in [Contract -> Nat]
      BY ZenonT(90), ConstantsAssumption DEF Init
    <2>4. code \in SUBSET Contract /\ nonce \in Nat /\ phase = "idle" /\ receipt \in Seq(Log)
      BY ZenonT(90), AddrFacts, LogsAdded DEF Init
    <2> QED
      BY <2>1, <2>2, <2>3, <2>4 DEF TypeOK
  <1>2. receipt = <<>> /\ phase = "idle"
    BY ZenonT(90) DEF Init
  <1>3. \A id \in Id : ~Registered(id)
    BY ZenonT(90) DEF Init, Registered
  <1>4. PairsIndexed
    BY ZenonT(90), <1>3 DEF Init, PairsIndexed, IsERC20Registered, IsDenomRegistered
  <1>5. OwnersKnown
    <2>1. \A c \in Deployed : /\ c >= nonce /\ c \notin code /\ ~IsERC20Registered(c)
                              /\ totalSupply[c] = 0
      <3> SUFFICES ASSUME NEW c \in Deployed
                   PROVE  /\ c >= nonce /\ c \notin code /\ ~IsERC20Registered(c)
                          /\ totalSupply[c] = 0
        OBVIOUS
      <3>1. c \in Nat
        BY DEF Deployed
      <3>2. c \in Contract /\ c \notin External
        BY ZenonT(90), AddrFacts, ConstantsAssumption
      <3>3. nonce = 0
        BY ZenonT(90) DEF Init
      <3>4. c >= 0
        BY <3>1
      <3> QED
        BY ZenonT(90), <3>2, <3>3, <3>4 DEF Init, IsERC20Registered
    <2>2. \A c \in Contract : supply[CreateDenom(c)] = 0
      BY ZenonT(90), AddrFacts, ConstantsAssumption DEF Init
    <2> QED
      BY ZenonT(90), <1>3, <2>1, <2>2 DEF OwnersKnown
  <1>6. NativeCoinBacked /\ NativeTokenBacked
    BY <1>3 DEF NativeCoinBacked, NativeTokenBacked
  <1>7. PendingBacked
    BY ZenonT(90), <1>1, <1>2, <1>6, PendingEmpty
  <1> QED
    BY <1>1, <1>2, <1>4, <1>5, <1>6, <1>7 DEF IndInv

\* Every step preserves the invariant.
LEMMA StepHolds == IndInv /\ [Next]_vars => IndInv'
  BY ZenonT(90), KindHolds, StepCases

\* The indexes and the backing of all pairs are invariants of messages, transactions
\* and hooks in any order.
THEOREM Invariance == Spec => []IndInv
  <1>1. Init => IndInv
    BY InitHolds
  <1>2. IndInv /\ [Next]_vars => IndInv'
    BY StepHolds
  <1> QED
    BY <1>1, <1>2, PTL DEF Spec

\* The three stores of the token pairs always agree.
THEOREM IndexesAgree == Spec => []PairsIndexed
  <1>1. IndInv => PairsIndexed
    BY DEF IndInv
  <1> QED
    BY <1>1, Invariance, PTL

\* Every token that the module minted for a native coin is backed by an escrowed coin.
THEOREM NativeCoinsBacked == Spec => []NativeCoinBacked
  <1>1. IndInv => NativeCoinBacked
    BY DEF IndInv
  <1> QED
    BY <1>1, Invariance, PTL

\* Every coin that the module minted for a live external contract is backed by an
\* escrowed token, whatever fee the contract takes.
THEOREM NativeTokensBacked == Spec => []NativeTokenBacked
  <1>1. IndInv => NativeTokenBacked
    BY PendingImpliesBacked DEF IndInv
  <1> QED
    BY <1>1, Invariance, PTL

\* No path of the module mints or burns a coin that is native to the chain.
THEOREM NativeSupplyNeverChanges == Spec => NativeSupplyFixed
  <1>1. IndInv /\ [Next]_vars => [\A d \in Coin : supply'[d] = supply[d]]_vars
    <2> SUFFICES ASSUME IndInv, Next PROVE \A d \in Coin : supply'[d] = supply[d]
      OBVIOUS
    <2>0. OwnersKnown
      BY DEF IndInv
    <2>1. ASSUME NEW id \in Id, Registered(id), tokenPairs[id].contractOwner = "external",
                 \A e \in Denom \ {id[2]} : supply'[e] = supply[e]
          PROVE  \A d \in Coin : supply'[d] = supply[d]
      <3>1. id[2] \notin Coin
        BY <2>0, <2>1, OwnerSplit, IdFacts, ConstantsAssumption
      <3> QED
        BY ZenonT(90), <2>1, <3>1, AddrFacts
    <2>2. CASE \E id \in Id : Exchanged(id)
      <3>1. PICK id \in Id : Exchanged(id)
        BY <2>2
      <3>2. CASE supply' = supply
        BY ZenonT(90), <3>2
      <3>3. CASE tokenPairs[id].contractOwner = "external" /\ ExternalExchange(id)
        <4>1. Registered(id) /\ \A e \in Denom \ {id[2]} : supply'[e] = supply[e]
          BY ZenonT(90), <3>1, <3>3 DEF Exchanged, ExternalExchange
        <4> QED
          BY ZenonT(90), <2>1, <3>3, <4>1
      <3> QED
        BY ZenonT(90), <3>1, <3>2, <3>3 DEF Exchanged, NativeExchange
    <2>3. CASE HookNativeToken
      <3>1. PICK id \in Id, a \in Nat : HookMinted(id, a)
        BY ZenonT(90), <2>3, HookNativeTokenEffect
      <3>2. /\ Registered(id) /\ tokenPairs[id].contractOwner = "external"
            /\ \A e \in Denom \ {id[2]} : supply'[e] = supply[e]
        BY ZenonT(90), <3>1 DEF HookMinted
      <3> QED
        BY <2>1, <3>2
    <2>4. CASE supply' = supply
      BY ZenonT(90), <2>4
    <2>5. ASSUME \/ \E d \in Denom, m \in Metadata : RegisterCoin(d, m)
                 \/ \E c \in External, m \in Metadata : RegisterERC20(c, m)
                 \/ \E id \in Id \cup {NoId} : ToggleConversion(id)
                 \/ \E e, h \in BOOLEAN : UpdateParams([enableErc20 |-> e, enableEVMHook |-> h])
                 \/ \E id \in Id : Removed(id)
          PROVE  supply' = supply
      BY ZenonT(90), <2>5 DEF RegisterCoin, RegisterERC20, ToggleConversion, UpdateParams,
         Removed, bankVars
    <2>6. ASSUME \/ \E c \in Contract, log \in Log : EvmMoved(c, log)
                 \/ \E c \in External : EvmSelfDestruct(c)
                 \/ PostTxProcessing \/ SkipLog \/ HookNativeCoin
          PROVE  supply' = supply
      BY ZenonT(90), <2>6 DEF EvmMoved, EvmSelfDestruct, PostTxProcessing, SkipLog,
         HookNativeCoin, bankVars
    <2>7. CASE UNCHANGED vars
      BY ZenonT(90), <2>7 DEF vars, bankVars
    <2> QED
      BY ZenonT(90), <2>2, <2>3, <2>4, <2>5, <2>6, <2>7, StepCases DEF StepKind
  <1> QED
    BY <1>1, Invariance, PTL DEF Spec, NativeSupplyFixed

-----------------------------------------------------------------------------
(* Conversions are fair.                                                   *)

\* u gives coins of id and r gets as many tokens of it, in the eyes of all accounts but
\* the module's.
CoinsForTokens(id, u, r, a) ==
  \A v \in Addr \ {ModuleAddress} :
    /\ \A e \in Denom : coins'[v][e] = coins[v][e] - (IF v = u /\ e = id[2] THEN a ELSE 0)
    /\ \A k \in Contract : tokens'[k][v] = tokens[k][v] + (IF v = r /\ k = id[1] THEN a ELSE 0)

\* u gives tokens of id and r gets as many coins of it.
TokensForCoins(id, u, r, a) ==
  \A v \in Addr \ {ModuleAddress} :
    /\ \A e \in Denom : coins'[v][e] = coins[v][e] + (IF v = r /\ e = id[2] THEN a ELSE 0)
    /\ \A k \in Contract : tokens'[k][v] = tokens[k][v] - (IF v = u /\ k = id[1] THEN a ELSE 0)

\* ConversionIsFair: a conversion moves its amount from the sender to the receiver, and of
\* no other pair or account anything moves.
THEOREM ConversionsAreFair == Spec => ConversionIsFair
  \* convertCoinNativeCoin gives tokens for coins.
  <1>CoinToTokenFair.
      ASSUME TypeOK, NEW id \in Id, NEW u \in User, NEW r \in Addr, NEW a \in Nat,
             convertCoinNativeCoin(id, u, r, id[2], a)
      PROVE  CoinsForTokens(id, u, r, a)
    <2> USE <1>CoinToTokenFair
    <2>1. /\ u \in Addr /\ ModuleAddress \in Addr /\ id[1] \in Contract /\ id[2] \in Denom
          /\ coins \in Balances /\ tokens \in Holdings
      BY ZenonT(90), IdFacts, AddrFacts, LedgersTyped
    <2>2. /\ coins[u][id[2]] >= a /\ Mint(id[1], r, a)
          /\ coins' = SendCoins(coins, u, ModuleAddress, id[2], a)
      BY ZenonT(90) DEF convertCoinNativeCoin
    <2>3. \A k \in Contract, x \in Addr :
            tokens'[k][x] = tokens[k][x] + (IF k = id[1] /\ x = r THEN a ELSE 0)
      BY <2>1, <2>2, MintEffect
    <2>4. \A x \in Addr, e \in Denom :
            coins'[x][e] = coins[x][e] - (IF x = u /\ e = id[2] THEN a ELSE 0)
                             + (IF x = ModuleAddress /\ e = id[2] THEN a ELSE 0)
      BY <2>1, <2>2, SendEffect
    <2> QED
      BY <2>1, <2>3, <2>4 DEF CoinsForTokens, Balances
  \* convertERC20NativeCoin gives coins for tokens.
  <1>TokenToCoinFair.
      ASSUME TypeOK, NEW id \in Id, NEW u \in User, NEW r \in Addr, NEW a \in Nat,
             convertERC20NativeCoin(id, u, r, a)
      PROVE  TokensForCoins(id, u, r, a)
    <2> USE <1>TokenToCoinFair
    <2>1. /\ u \in Addr /\ ModuleAddress \in Addr /\ id[1] \in Contract /\ id[2] \in Denom
          /\ coins \in Balances /\ tokens \in Holdings
      BY ZenonT(90), IdFacts, AddrFacts, LedgersTyped
    <2>2. /\ coins[ModuleAddress][id[2]] >= a /\ CanBurn(id[1], u, a) /\ Burn(id[1], u, a)
          /\ coins' = SendCoins(coins, ModuleAddress, r, id[2], a)
      BY ZenonT(90) DEF convertERC20NativeCoin
    <2>3. \A k \in Contract, x \in Addr :
            tokens'[k][x] = tokens[k][x] - (IF k = id[1] /\ x = u THEN a ELSE 0)
      BY <2>1, <2>2, BurnEffect
    <2>4. \A x \in Addr, e \in Denom :
            coins'[x][e] = coins[x][e] - (IF x = ModuleAddress /\ e = id[2] THEN a ELSE 0)
                             + (IF x = r /\ e = id[2] THEN a ELSE 0)
      BY <2>1, <2>2, SendEffect
    <2> QED
      BY <2>1, <2>3, <2>4 DEF TokensForCoins, Balances
  \* convertERC20NativeToken gives coins for tokens.
  <1>TokenInFair.
      ASSUME TypeOK, NEW id \in Id, NEW u \in User, NEW r \in Addr, NEW a \in Nat,
             convertERC20NativeToken(id, u, r, a)
      PROVE  TokensForCoins(id, u, r, a)
    <2> USE <1>TokenInFair
    <2>1. /\ u \in Addr /\ ModuleAddress \in Addr /\ id[1] \in Contract /\ id[2] \in Denom
          /\ coins \in Balances /\ tokens \in Holdings
      BY IdFacts, AddrFacts, LedgersTyped
    <2>2. /\ CanTransfer(id[1], u, ModuleAddress, a) /\ Transfer(id[1], u, ModuleAddress, a)
          /\ coins' = CreditCoin(coins, r, id[2], a)
      BY ZenonT(90) DEF convertERC20NativeToken, CreditCoin
    <2>3. \A k \in Contract, x \in Addr :
            tokens'[k][x] = tokens[k][x] - (IF k = id[1] /\ x = u THEN a ELSE 0)
                       + (IF k = id[1] /\ x = ModuleAddress THEN a - Fee[id[1]] ELSE 0)
      BY <2>1, <2>2, TransferEffect DEF Moved
    <2>4. \A x \in Addr, e \in Denom :
            coins'[x][e] = coins[x][e] + (IF x = r /\ e = id[2] THEN a ELSE 0)
      BY <2>1, <2>2, CreditCoins
    <2> QED
      BY <2>1, <2>3, <2>4 DEF TokensForCoins, Holdings
  \* convertCoinNativeERC20 gives tokens for coins: a contract that takes a fee fails the
  \* check of the receiver's balance.
  <1>TokenOutFair.
      ASSUME TypeOK, NEW id \in Id, NEW u \in User, NEW r \in Addr, NEW a \in Nat,
             r # ModuleAddress, convertCoinNativeERC20(id, u, r, id[2], a)
      PROVE  CoinsForTokens(id, u, r, a)
    <2> USE <1>TokenOutFair
    <2>1. /\ u \in Addr /\ ModuleAddress \in Addr /\ id[1] \in Contract /\ id[2] \in Denom
          /\ coins \in Balances /\ tokens \in Holdings
      BY IdFacts, AddrFacts, LedgersTyped
    <2>2. /\ CanTransfer(id[1], ModuleAddress, r, a) /\ Transfer(id[1], ModuleAddress, r, a)
          /\ coins[u][id[2]] >= a /\ coins' = DebitCoin(coins, u, id[2], a)
          /\ tokens'[id[1]][r] = tokens[id[1]][r] + a
      BY DEF convertCoinNativeERC20, DebitCoin
    <2>3. /\ Fee[id[1]] \in Nat
          /\ \A k \in Contract, x \in Addr :
               tokens'[k][x] = tokens[k][x] - (IF k = id[1] /\ x = ModuleAddress THEN a ELSE 0)
                       + (IF k = id[1] /\ x = r THEN a - Fee[id[1]] ELSE 0)
      BY <2>1, <2>2, TransferEffect DEF Moved
    <2>4. \A x \in Addr, e \in Denom :
            coins'[x][e] = coins[x][e] - (IF x = u /\ e = id[2] THEN a ELSE 0)
      BY <2>1, <2>2, DebitCoins
    <2>5. Fee[id[1]] = 0
      <3> DEFINE fee == Fee[id[1]]
                 x == tokens[id[1]][r]
                 y == tokens'[id[1]][r]
      <3>1. y = x + (a - fee) /\ x \in Nat
        BY <2>1, <2>3 DEF Holdings
      <3>2. y = x + a /\ fee \in Nat
        BY <2>2, <2>3
      <3> HIDE DEF fee, x, y
      <3>3. fee = 0
        BY <3>1, <3>2
      <3> QED
        BY <3>3 DEF fee
    <2> QED
      BY <2>1, <2>3, <2>4, <2>5 DEF CoinsForTokens, Holdings
  \* An exchange conveys its amount from the sender to the receiver.
  <1>ExchangeConveys.
      ASSUME IndInv, NEW id \in Id, Registered(id), id[1] \in code, NEW u \in User,
             NEW r \in Addr, NEW a \in Nat, r # ModuleAddress,
             CoinsForTokens(id, u, r, a) \/ TokensForCoins(id, u, r, a)
      PROVE  Conveys(id, u, r, a)
    <2> USE <1>ExchangeConveys
    <2> SUFFICES ASSUME NEW j \in Id, NEW v \in User \cup {r}, Registered(j)
                 PROVE  Holding(j, v)' + (IF v = u THEN IF j = id THEN a ELSE 0 ELSE 0)
                          = Holding(j, v) + (IF v = r THEN IF j = id THEN a ELSE 0 ELSE 0)
      BY DEF Conveys
    <2>1. v \in Addr \ {ModuleAddress} /\ j[1] \in Contract /\ j[2] \in Denom
      BY IdFacts, AddrFacts
    <2>2. (j[1] = id[1] <=> j = id) /\ (j[2] = id[2] <=> j = id)
      BY PairUnique DEF IndInv
    <2> DEFINE p == coins[v][j[2]]
               q == tokens[j[1]][v]
    <2>3. p \in Nat /\ q \in Nat
      BY ZenonT(90), <2>1, LedgersTyped DEF IndInv, Balances, Holdings
    <2>4. Holding(j, v) = p + q /\ Holding(j, v)' = coins'[v][j[2]] + tokens'[j[1]][v]
      BY ZenonT(90) DEF Holding
    <2>5. CASE CoinsForTokens(id, u, r, a)
      <3>1. /\ coins'[v][j[2]] = p - (IF v = u /\ j = id THEN a ELSE 0)
            /\ tokens'[j[1]][v] = q + (IF v = r /\ j = id THEN a ELSE 0)
        BY ZenonT(90), <2>1, <2>2, <2>5 DEF CoinsForTokens
      <3> HIDE DEF p, q
      <3> QED
        BY <2>3, <2>4, <3>1
    <2>6. CASE TokensForCoins(id, u, r, a)
      <3>1. /\ coins'[v][j[2]] = p + (IF v = r /\ j = id THEN a ELSE 0)
            /\ tokens'[j[1]][v] = q - (IF v = u /\ j = id THEN a ELSE 0)
        BY <2>1, <2>2, <2>6 DEF TokensForCoins
      <3> HIDE DEF p, q
      <3> QED
        BY <2>3, <2>4, <3>1
    <2> QED
      BY <2>5, <2>6
  \* The removal of a pair conveys nothing.
  <1>RemovalConveys.
      ASSUME IndInv, NEW id \in Id, RemovePair(id), NEW u \in User, NEW r \in Addr, NEW a \in Nat
      PROVE  Conveys(id, u, r, a)
    <2> USE <1>RemovalConveys
    <2> SUFFICES ASSUME NEW j \in Id, NEW v \in User \cup {r}, Registered(j)
                 PROVE  Holding(j, v)' + 0 = Holding(j, v) + 0
      BY ZenonT(90) DEF Conveys, RemovePair
    <2>1. Holding(j, v)' = Holding(j, v)
      BY ZenonT(90) DEF Holding, RemovePair, bankVars, evmVars
    <2> QED
      BY <2>1
  \* ConvertCoin conveys its amount.
  <1>ConvertCoinConveys.
      ASSUME IndInv, NEW u \in User, NEW r \in Addr, NEW d \in Denom, NEW a \in Amount,
             ConvertCoin(u, r, d, a)
      PROVE  Conveys(denomIndex[d], u, r, a)
    <2> USE <1>ConvertCoinConveys
    <2> DEFINE id == denomIndex[d]
    <2>1. TypeOK /\ a \in Nat /\ id \in Id \cup {NoId} /\ MintingEnabled(u, r, id)
      BY ConstantsAssumption DEF ConvertCoin, IndInv, TypeOK
    <2>2. id \in Id /\ Registered(id) /\ r # ModuleAddress
      BY ZenonT(90), <2>1, MintingEnabledFacts
    <2>3. id[2] = d
      BY <2>2, ConstantsAssumption DEF IndInv, PairsIndexed, IsDenomRegistered
    <2>4. \/ RemovePair(id)
          \/ /\ id[1] \in code
             /\ \/ convertCoinNativeCoin(id, u, r, id[2], a)
                \/ convertCoinNativeERC20(id, u, r, id[2], a)
      BY ZenonT(90), <2>3 DEF ConvertCoin
    <2> SUFFICES Conveys(id, u, r, a)
      OBVIOUS
    <2> HIDE DEF id
    <2>5. CASE RemovePair(id)
      BY ZenonT(90), <2>1, <2>2, <2>5, <1>RemovalConveys
    <2>6. CASE id[1] \in code /\ convertCoinNativeCoin(id, u, r, id[2], a)
      BY ZenonT(90), <2>1, <2>2, <2>6, <1>CoinToTokenFair, <1>ExchangeConveys
    <2>7. CASE id[1] \in code /\ convertCoinNativeERC20(id, u, r, id[2], a)
      BY ZenonT(90), <2>1, <2>2, <2>7, <1>TokenOutFair, <1>ExchangeConveys
    <2> QED
      BY ZenonT(90), <2>4, <2>5, <2>6, <2>7
  \* ConvertERC20 conveys its amount.
  <1>ConvertERC20Conveys.
      ASSUME IndInv, NEW u \in User, NEW r \in Addr, NEW c \in Contract, NEW a \in Amount,
             ConvertERC20(u, r, c, a)
      PROVE  Conveys(erc20Index[c], u, r, a)
    <2> USE <1>ConvertERC20Conveys
    <2> DEFINE id == erc20Index[c]
    <2>1. TypeOK /\ a \in Nat /\ id \in Id \cup {NoId} /\ MintingEnabled(u, r, id)
      BY ZenonT(90), ConstantsAssumption DEF ConvertERC20, IndInv, TypeOK
    <2>2. id \in Id /\ Registered(id) /\ r # ModuleAddress
      BY <2>1, MintingEnabledFacts
    <2>3. \/ RemovePair(id)
          \/ /\ id[1] \in code
             /\ \/ convertERC20NativeCoin(id, u, r, a)
                \/ convertERC20NativeToken(id, u, r, a)
      BY ZenonT(90) DEF ConvertERC20
    <2> SUFFICES Conveys(id, u, r, a)
      OBVIOUS
    <2> HIDE DEF id
    <2>4. CASE RemovePair(id)
      BY <2>1, <2>2, <2>4, <1>RemovalConveys
    <2>5. CASE id[1] \in code /\ convertERC20NativeCoin(id, u, r, a)
      BY ZenonT(90), <2>1, <2>2, <2>5, <1>TokenToCoinFair, <1>ExchangeConveys
    <2>6. CASE id[1] \in code /\ convertERC20NativeToken(id, u, r, a)
      BY <2>1, <2>2, <2>6, <1>TokenInFair, <1>ExchangeConveys
    <2> QED
      BY ZenonT(90), <2>3, <2>4, <2>5, <2>6
  <1>1. IndInv /\ [Next]_vars =>
          [\A u \in User, to \in Addr, a \in Amount :
             /\ \A d \in Denom : ConvertCoin(u, to, d, a) => Conveys(denomIndex[d], u, to, a)
             /\ \A c \in Contract :
                  ConvertERC20(u, to, c, a) => Conveys(erc20Index[c], u, to, a)]_vars
    BY <1>ConvertCoinConveys, <1>ConvertERC20Conveys, ZenonT(90)
  <1> QED
    BY <1>1, Invariance, PTL DEF Spec, ConversionIsFair

-----------------------------------------------------------------------------
(* The vaults of the pairs: Erc20 implements Vault.                       *)

\* The vault of a pair is open while its contract is live, and its assets and claims are
\* what the pair holds in escrow and has issued.
PairValues ==
  \A id \in Id : Registered(id) =>
    /\ id[1] \in VaultOpen <=> id[1] \in code
    /\ id[1] \in code /\ tokenPairs[id].contractOwner = "module" =>
         /\ Locked(id[1]) = coins[ModuleAddress][id[2]]
         /\ Issued(id[1]) = totalSupply[id[1]]
    /\ id[1] \in code /\ tokenPairs[id].contractOwner = "external" =>
         /\ Locked(id[1]) = tokens[id[1]][ModuleAddress]
         /\ Issued(id[1]) = supply[id[2]]

\* Every open vault has a pair.
VaultPairs ==
  \A c \in VaultOpen : c \in code /\ c \in Contract /\ \E id \in Id : Registered(id) /\ id[1] = c

\* What the vaults of a state are, from the invariant.
LEMMA PairValuesHold == IndInv => PairValues
  <1> SUFFICES ASSUME IndInv, NEW id \in Id, Registered(id)
               PROVE  /\ id[1] \in VaultOpen <=> id[1] \in code
                      /\ id[1] \in code /\ tokenPairs[id].contractOwner = "module" =>
                           /\ Locked(id[1]) = coins[ModuleAddress][id[2]]
                           /\ Issued(id[1]) = totalSupply[id[1]]
                      /\ id[1] \in code /\ tokenPairs[id].contractOwner = "external" =>
                           /\ Locked(id[1]) = tokens[id[1]][ModuleAddress]
                           /\ Issued(id[1]) = supply[id[2]]
    BY DEF PairValues
  <1>1. erc20Index[id[1]] = id /\ id # NoId
    BY ZenonT(90), ConstantsAssumption DEF IndInv, PairsIndexed
  <1> QED
    BY ZenonT(90), <1>1 DEF VaultOpen, IsERC20Registered, Locked, Issued

\* An open vault leads to its pair through the index.
LEMMA VaultPairsHold == IndInv => VaultPairs
  <1> SUFFICES ASSUME IndInv, NEW c \in VaultOpen
               PROVE  c \in code /\ c \in Contract /\ \E id \in Id : Registered(id) /\ id[1] = c
    BY DEF VaultPairs
  <1>1. c \in code /\ c \in Contract /\ IsERC20Registered(c)
    BY DEF VaultOpen, TypeOK, IndInv
  <1>2. erc20Index[c] \in Id /\ erc20Index[c][1] = c /\ Registered(erc20Index[c])
    BY <1>1 DEF IndInv, PairsIndexed, TypeOK, IsERC20Registered
  <1> QED
    BY ZenonT(90), <1>1, <1>2

\* Assets and claims are natural numbers, and a closed vault has none.
VaultTyped ==
  /\ VaultOpen \subseteq Contract
  /\ \A c \in Contract : Locked(c) \in Nat /\ Issued(c) \in Nat
  /\ \A c \in Contract : c \notin VaultOpen => Locked(c) = 0 /\ Issued(c) = 0

\* The invariant gives these types.
LEMMA VaultTypes == IndInv => VaultTyped
  <1> SUFFICES ASSUME IndInv PROVE VaultTyped
    OBVIOUS
  <1>0. TypeOK /\ PairsIndexed /\ OwnersKnown
    BY DEF IndInv
  <1>1. VaultOpen \subseteq Contract
    BY <1>0 DEF VaultOpen, TypeOK
  <1>2. \A c \in Contract : c \notin VaultOpen => Locked(c) = 0 /\ Issued(c) = 0
    BY DEF Locked, Issued
  <1>3. ASSUME NEW c \in VaultOpen
        PROVE  Locked(c) \in Nat /\ Issued(c) \in Nat
    <2>1. PICK id \in Id : Registered(id) /\ id[1] = c /\ c \in code /\ c \in Contract
      BY <1>3, VaultPairsHold DEF VaultPairs
    <2>2. /\ coins[ModuleAddress][id[2]] \in Nat /\ totalSupply[c] \in Nat
          /\ tokens[c][ModuleAddress] \in Nat /\ supply[id[2]] \in Nat
      BY <1>0, <2>1, IdFacts, AddrFacts DEF TypeOK
    <2>3. tokenPairs[id].contractOwner \in {"module", "external"}
      BY <1>0, <2>1, OwnerSplit
    <2> QED
      BY <2>1, <2>2, <2>3, PairValuesHold DEF PairValues
  <1> QED
    BY <1>1, <1>2, <1>3 DEF VaultTyped

\* No vault has more claims than assets.
Covered == \A c \in Contract : Issued(c) <= Locked(c)

\* The backing of the pairs is the solvency of the vaults.
LEMMA CoveredHolds == IndInv => Covered
  <1> SUFFICES ASSUME IndInv, NEW c \in Contract PROVE Issued(c) <= Locked(c)
    BY DEF Covered
  <1>0. OwnersKnown /\ NativeCoinBacked /\ NativeTokenBacked /\ PairValues
    BY PendingImpliesBacked, PairValuesHold DEF IndInv
  <1>1. CASE c \notin VaultOpen
    BY <1>1 DEF Locked, Issued
  <1>2. CASE c \in VaultOpen
    <2>1. PICK id \in Id : Registered(id) /\ id[1] = c /\ c \in code
      BY <1>2, VaultPairsHold DEF VaultPairs
    <2>2. CASE tokenPairs[id].contractOwner = "module"
      BY <1>0, <2>1, <2>2 DEF NativeCoinBacked, PairValues
    <2>3. CASE tokenPairs[id].contractOwner = "external"
      BY <1>0, <2>1, <2>3 DEF NativeTokenBacked, PairValues
    <2> QED
      BY <1>0, <2>1, <2>2, <2>3, OwnerSplit
  <1> QED
    BY <1>1, <1>2

\* A vault other than c keeps its assets and claims.
Others(c) == \A k \in Contract \ {c} : Locked(k)' = Locked(k) /\ Issued(k)' = Issued(k)

\* What Vault allows the vault of c, in the terms of Erc20.
VaultMove(c) ==
  \/ c \notin VaultOpen /\ VaultOpen' = VaultOpen \cup {c} /\ Issued(c)' <= Locked(c)'
  \/ c \in VaultOpen /\ VaultOpen' = VaultOpen \ {c} /\ Locked(c)' = 0 /\ Issued(c)' = 0
  \/ c \in VaultOpen /\ VaultOpen' = VaultOpen /\ Locked(c)' + Issued(c) = Locked(c) + Issued(c)'
  \/ c \in VaultOpen /\ VaultOpen' = VaultOpen /\ Locked(c)' >= Locked(c) /\ Issued(c)' <= Issued(c)
  \/ c \in VaultOpen /\ VaultOpen' = VaultOpen /\ Locked(c)' = Locked(c) /\ Issued(c)' <= Locked(c)

\* The vaults before and after a step, as the cases below use them.
Vaults == PairValues /\ VaultPairs /\ VaultTyped /\ Covered

\* The invariant gives all of it.
LEMMA VaultsHold == IndInv => Vaults
  BY PairValuesHold, VaultPairsHold, VaultTypes, CoveredHolds DEF Vaults

AllKept ==
  VaultOpen' = VaultOpen /\ \A k \in Contract : Locked(k)' = Locked(k) /\ Issued(k)' = Issued(k)

\* Every step of Erc20 is a step of Vault or leaves the vaults alone.
LEMMA StepRefines == IndInv /\ IndInv' /\ [Next]_vars => [V!Next]_(V!vars)
  \* A move of one vault is a step of Vault.
  <1>MoveIsStep.
      ASSUME IndInv, IndInv', NEW c \in Contract, Others(c), VaultMove(c)
      PROVE  V!Next
    <2> USE <1>MoveIsStep
    <2> DEFINE L == [k \in Contract |-> Locked(k)]
               I == [k \in Contract |-> Issued(k)]
               M == [k \in Contract |-> Locked(k)']
               J == [k \in Contract |-> Issued(k)']
    <2>1. \A k \in Contract : L[k] = Locked(k) /\ I[k] = Issued(k) /\ M[k] = Locked(k)' /\ J[k] = Issued(k)'
      OBVIOUS
    <2>2. M \in [Contract -> Nat] /\ J \in [Contract -> Nat]
      <3>1. VaultTyped'
        BY VaultTypes, PTL
      <3> QED
        BY <3>1 DEF VaultTyped
    <2>3. L' = M /\ I' = J
      OBVIOUS
    <2>4. \A k \in Contract \ {c} : M[k] = L[k] /\ J[k] = I[k]
      BY <2>1 DEF Others
    <2>5. V!Open(c) \/ V!Close(c) \/ V!Exchange(c) \/ V!Donate(c) \/ V!Claim(c)
      BY <2>1, <2>3 DEF VaultMove, V!Open, V!Close, V!Exchange, V!Donate, V!Claim
    <2> QED
      BY <2>2, <2>3, <2>4, <2>5 DEF V!Next
  \* A vault stays as it is when its pair and what the pair holds do.
  <1>VaultKept.
      ASSUME Vaults, Vaults', IndInv, NEW k \in Contract, k \in VaultOpen <=> k \in VaultOpen',
             \A id \in Id : Registered(id) /\ id[1] = k /\ k \in code =>
               /\ Registered(id)' /\ k \in code'
               /\ tokenPairs'[id].contractOwner = tokenPairs[id].contractOwner
               /\ tokenPairs[id].contractOwner = "module" =>
                    /\ coins'[ModuleAddress][id[2]] = coins[ModuleAddress][id[2]]
                    /\ totalSupply'[k] = totalSupply[k]
               /\ tokenPairs[id].contractOwner = "external" =>
                    /\ tokens'[k][ModuleAddress] = tokens[k][ModuleAddress]
                    /\ supply'[id[2]] = supply[id[2]]
      PROVE  Locked(k)' = Locked(k) /\ Issued(k)' = Issued(k)
    <2> USE <1>VaultKept
    <2>1. CASE k \notin VaultOpen
      BY ZenonT(90), <2>1 DEF Vaults, VaultTyped
    <2>2. CASE k \in VaultOpen
      <3>1. PICK id \in Id : Registered(id) /\ id[1] = k /\ k \in code
        BY ZenonT(90), <2>2 DEF Vaults, VaultPairs
      <3>2. tokenPairs[id].contractOwner \in {"module", "external"}
        BY <3>1, OwnerSplit DEF IndInv
      <3>3. CASE tokenPairs[id].contractOwner = "module"
        <4>1. Locked(k) = coins[ModuleAddress][id[2]] /\ Issued(k) = totalSupply[k]
          BY ZenonT(90), <3>1, <3>3 DEF Vaults, PairValues
        <4>2. Registered(id)' /\ k \in code' /\ tokenPairs'[id].contractOwner = "module"
          BY ZenonT(90), <3>1, <3>3
        <4>3. Locked(k)' = coins'[ModuleAddress][id[2]] /\ Issued(k)' = totalSupply'[k]
          BY ZenonT(90), <3>1, <4>2 DEF Vaults, PairValues
        <4> QED
          BY ZenonT(90), <3>1, <3>3, <4>1, <4>3
      <3>4. CASE tokenPairs[id].contractOwner = "external"
        <4>1. Locked(k) = tokens[k][ModuleAddress] /\ Issued(k) = supply[id[2]]
          BY ZenonT(90), <3>1, <3>4 DEF Vaults, PairValues
        <4>2. Registered(id)' /\ k \in code' /\ tokenPairs'[id].contractOwner = "external"
          BY ZenonT(90), <3>1, <3>4
        <4>3. Locked(k)' = tokens'[k][ModuleAddress] /\ Issued(k)' = supply'[id[2]]
          BY ZenonT(90), <3>1, <4>2 DEF Vaults, PairValues
        <4> QED
          BY ZenonT(90), <3>1, <3>4, <4>1, <4>3
      <3> QED
        BY ZenonT(90), <3>2, <3>3, <3>4
    <2> QED
      BY <2>1, <2>2
  \* When no vault changes, the step stutters.
  <1>KeptIsStutter.
      ASSUME AllKept
      PROVE  UNCHANGED V!vars
    <2> USE <1>KeptIsStutter
    <2>1. [k \in Contract |-> Locked(k)'] = [k \in Contract |-> Locked(k)]
      BY DEF AllKept
    <2>2. [k \in Contract |-> Issued(k)'] = [k \in Contract |-> Issued(k)]
      BY DEF AllKept
    <2>3. VaultOpen' = VaultOpen
      BY DEF AllKept
    <2> QED
      BY <2>1, <2>2, <2>3 DEF V!vars
  \* Registering a pair opens one vault.
  <1>AddOpens.
      ASSUME IndInv, Vaults, Vaults', NEW c \in Contract, NEW d \in Denom,
             NEW owner \in {"module", "external"},
             ~IsERC20Registered(c), ~IsDenomRegistered(d), SetPairAndIndexes(c, d, owner),
             code' = code \cup {c}, UNCHANGED <<coins, supply, tokens, totalSupply>>
      PROVE  Others(c) /\ VaultMove(c)
    <2> USE <1>AddOpens
    <2> DEFINE id == <<c, d>>
    <2>0. TypeOK /\ PairsIndexed
      BY DEF IndInv
    <2>i. id = <<c, d>>
      OBVIOUS
    <2> HIDE DEF id
    <2>1. /\ \A i \in Id \ {id} : tokenPairs'[i] = tokenPairs[i]
          /\ \A i \in Id : Registered(i)' <=> Registered(i) \/ i = id
          /\ \A i \in Id : Registered(i) => i[1] # c /\ i[2] # d
          /\ erc20Index'[c] = id /\ \A k \in Contract \ {c} : erc20Index'[k] = erc20Index[k]
      BY <2>0, <2>i, AddPairEffect
    <2>2. id \in Id /\ id # NoId /\ id[1] = c
      BY <2>i, IdFacts, ConstantsAssumption
    <2>3. c \notin VaultOpen
      BY DEF VaultOpen
    <2>4. VaultOpen \subseteq Contract /\ VaultOpen' \subseteq Contract
      BY DEF Vaults, VaultTyped
    <2>5. c \in VaultOpen'
      BY <2>1, <2>2 DEF VaultOpen, IsERC20Registered
    <2>6. \A k \in Contract \ {c} : k \in VaultOpen' <=> k \in VaultOpen
      BY <2>1 DEF VaultOpen, IsERC20Registered
    <2>7. VaultOpen' = VaultOpen \cup {c}
      BY ZenonT(90), <2>3, <2>4, <2>5, <2>6
    <2>8. Others(c)
      <3> SUFFICES ASSUME NEW k \in Contract \ {c}
                   PROVE  Locked(k)' = Locked(k) /\ Issued(k)' = Issued(k)
        BY DEF Others
      <3>1. ASSUME NEW i \in Id, Registered(i), i[1] = k
            PROVE  Registered(i)' /\ tokenPairs'[i] = tokenPairs[i]
        BY ZenonT(90), <2>1, <2>2, <3>1
      <3>2. k \in code => k \in code'
        OBVIOUS
      <3> QED
        BY ZenonT(90), <2>6, <3>1, <3>2, <1>VaultKept
    <2>9. Issued(c)' <= Locked(c)'
      BY DEF Vaults, Covered
    <2> QED
      BY <2>3, <2>7, <2>8, <2>9 DEF VaultMove
  \* An exchange moves as many assets as claims.
  <1>ExchangeMoves.
      ASSUME IndInv, Vaults, Vaults', NEW id \in Id, Exchanged(id)
      PROVE  id[1] \in Contract /\ Others(id[1]) /\ VaultMove(id[1])
    <2> USE <1>ExchangeMoves
    <2>0. /\ Registered(id) /\ id[1] \in code /\ id[1] \in Contract /\ PairsIndexed /\ OwnersKnown
          /\ UNCHANGED <<tokenPairs, erc20Index, code>>
      BY IdFacts DEF Exchanged, IndInv, pairVars
    <2>1. VaultOpen' = VaultOpen
      BY <2>0 DEF VaultOpen, IsERC20Registered
    <2>2. id[1] \in VaultOpen
      BY ZenonT(90), <2>0 DEF Vaults, PairValues
    <2>3. \A i \in Id : Registered(i)' <=> Registered(i)
      BY ZenonT(90), <2>0 DEF Registered
    <2>4. Others(id[1])
      <3> SUFFICES ASSUME NEW k \in Contract \ {id[1]}
                   PROVE  Locked(k)' = Locked(k) /\ Issued(k)' = Issued(k)
        BY DEF Others
      <3>1. ASSUME NEW i \in Id, Registered(i), i[1] = k
            PROVE  /\ coins'[ModuleAddress][i[2]] = coins[ModuleAddress][i[2]]
                   /\ totalSupply'[k] = totalSupply[k]
                   /\ tokens'[k][ModuleAddress] = tokens[k][ModuleAddress]
                   /\ supply'[i[2]] = supply[i[2]]
        <4>1. i[2] # id[2] /\ i[2] \in Denom
          BY <2>0, <3>1, PairUnique, IdFacts
        <4> QED
          BY ZenonT(90), <4>1 DEF Exchanged, NativeExchange, ExternalExchange
      <3> QED
        BY ZenonT(90), <2>0, <2>1, <2>3, <3>1, <1>VaultKept
    <2>5. Locked(id[1])' + Issued(id[1]) = Locked(id[1]) + Issued(id[1])'
      <3>1. CASE tokenPairs[id].contractOwner = "module" /\ NativeExchange(id)
        <4>1. Locked(id[1]) = coins[ModuleAddress][id[2]] /\ Issued(id[1]) = totalSupply[id[1]]
          BY ZenonT(90), <2>0, <3>1 DEF Vaults, PairValues
        <4>2. Registered(id)' /\ id[1] \in code' /\ tokenPairs'[id].contractOwner = "module"
          BY <2>0, <2>3, <3>1
        <4>3. Locked(id[1])' = coins'[ModuleAddress][id[2]] /\ Issued(id[1])' = totalSupply'[id[1]]
          BY ZenonT(90), <4>2 DEF Vaults, PairValues
        <4>4. totalSupply'[id[1]] + coins[ModuleAddress][id[2]]
                = totalSupply[id[1]] + coins'[ModuleAddress][id[2]]
          BY <3>1 DEF NativeExchange
        <4>5. Locked(id[1]) \in Nat /\ Issued(id[1]) \in Nat /\ Locked(id[1])' \in Nat /\ Issued(id[1])' \in Nat
          BY <2>0 DEF Vaults, VaultTyped
        <4> QED
          BY <4>1, <4>3, <4>4, <4>5
      <3>2. CASE tokenPairs[id].contractOwner = "external" /\ ExternalExchange(id)
        <4>1. Locked(id[1]) = tokens[id[1]][ModuleAddress] /\ Issued(id[1]) = supply[id[2]]
          BY ZenonT(90), <2>0, <3>2 DEF Vaults, PairValues
        <4>2. Registered(id)' /\ id[1] \in code' /\ tokenPairs'[id].contractOwner = "external"
          BY ZenonT(90), <2>0, <2>3, <3>2
        <4>3. Locked(id[1])' = tokens'[id[1]][ModuleAddress] /\ Issued(id[1])' = supply'[id[2]]
          BY ZenonT(90), <4>2 DEF Vaults, PairValues
        <4>4. supply'[id[2]] + tokens[id[1]][ModuleAddress]
                = supply[id[2]] + tokens'[id[1]][ModuleAddress]
          BY ZenonT(90), <3>2 DEF ExternalExchange
        <4>5. Locked(id[1]) \in Nat /\ Issued(id[1]) \in Nat /\ Locked(id[1])' \in Nat /\ Issued(id[1])' \in Nat
          BY <2>0 DEF Vaults, VaultTyped
        <4> QED
          BY <4>1, <4>3, <4>4, <4>5
      <3> QED
        BY <3>1, <3>2 DEF Exchanged
    <2> QED
      BY ZenonT(90), <2>0, <2>1, <2>2, <2>4, <2>5 DEF VaultMove
  \* A step that keeps pairs, contracts and ledgers keeps all vaults.
  <1>QuietKeeps.
      ASSUME IndInv, Vaults, Vaults', UNCHANGED <<erc20Index, code, coins, supply, tokens, totalSupply>>,
             \A i \in Id : Registered(i)' <=> Registered(i),
             \A i \in Id : Registered(i) => tokenPairs'[i].contractOwner = tokenPairs[i].contractOwner
      PROVE  AllKept
    <2> USE <1>QuietKeeps
    <2>1. VaultOpen' = VaultOpen
      BY DEF VaultOpen, IsERC20Registered
    <2>2. ASSUME NEW k \in Contract
          PROVE  Locked(k)' = Locked(k) /\ Issued(k)' = Issued(k)
      BY ZenonT(90), <2>1, <1>VaultKept
    <2> QED
      BY ZenonT(90), <2>1, <2>2 DEF AllKept
  \* The pair that is removed has no open vault.
  <1>RemoveKeeps.
      ASSUME IndInv, Vaults, Vaults', NEW id \in Id, Removed(id)
      PROVE  AllKept
    <2> USE <1>RemoveKeeps
    <2>0. /\ Registered(id) /\ id[1] \notin code /\ id[1] \in Contract /\ id[2] \in Denom /\ TypeOK
          /\ tokenPairs' = [tokenPairs EXCEPT ![id] = NoPair]
          /\ erc20Index' = [erc20Index EXCEPT ![id[1]] = NoId]
          /\ UNCHANGED <<coins, supply, code, tokens, totalSupply>>
      BY IdFacts DEF Removed, DeleteTokenPair, bankVars, evmVars, IndInv
    <2>1. \A k \in Contract \ {id[1]} : erc20Index'[k] = erc20Index[k]
      BY <2>0 DEF TypeOK
    <2>2. \A i \in Id \ {id} : tokenPairs'[i] = tokenPairs[i]
      BY <2>0 DEF TypeOK
    <2>3. VaultOpen' = VaultOpen
      <3>1. code \subseteq Contract
        BY ZenonT(90), <2>0 DEF TypeOK
      <3> QED
        BY <2>0, <2>1, <3>1 DEF VaultOpen, IsERC20Registered
    <2>4. ASSUME NEW k \in Contract
          PROVE  Locked(k)' = Locked(k) /\ Issued(k)' = Issued(k)
      <3>1. ASSUME NEW i \in Id, Registered(i), i[1] = k, k \in code
            PROVE  Registered(i)' /\ tokenPairs'[i] = tokenPairs[i] /\ k \in code'
        BY <2>0, <2>2, <3>1 DEF Registered
      <3> QED
        BY ZenonT(90), <2>0, <2>3, <3>1, <1>VaultKept
    <2> QED
      BY <2>3, <2>4 DEF AllKept
  \* A call of a contract moves at most its own vault, and only in its favour.
  <1>EvmMoves.
      ASSUME IndInv, Vaults, Vaults', NEW c \in Contract, NEW log \in Log, EvmMoved(c, log)
      PROVE  Others(c) /\ (VaultMove(c) \/ AllKept)
    <2> USE <1>EvmMoves
    <2>0. /\ UNCHANGED <<tokenPairs, erc20Index, code, coins, supply>> /\ OwnersKnown /\ TypeOK
      BY DEF EvmMoved, IndInv, pairVars, bankVars
    <2>1. VaultOpen' = VaultOpen
      BY <2>0 DEF VaultOpen, IsERC20Registered
    <2>2. \A i \in Id : Registered(i)' <=> Registered(i)
      BY ZenonT(90), <2>0 DEF Registered
    <2>3. Others(c)
      <3> SUFFICES ASSUME NEW k \in Contract \ {c}
                   PROVE  Locked(k)' = Locked(k) /\ Issued(k)' = Issued(k)
        BY DEF Others
      <3>1. tokens'[k][ModuleAddress] = tokens[k][ModuleAddress] /\ totalSupply'[k] = totalSupply[k]
        BY ZenonT(90) DEF EvmMoved
      <3> QED
        BY ZenonT(90), <2>0, <2>1, <2>2, <3>1, <1>VaultKept
    <2>4. CASE c \notin VaultOpen
      <3>1. Locked(c)' = Locked(c) /\ Issued(c)' = Issued(c)
        BY ZenonT(90), <2>1, <2>4 DEF Vaults, VaultTyped
      <3> QED
        BY <2>1, <2>3, <3>1 DEF Others, AllKept
    <2>5. CASE c \in VaultOpen
      <3>1. PICK id \in Id : Registered(id) /\ id[1] = c /\ c \in code
        BY <2>5 DEF Vaults, VaultPairs
      <3>2. CASE tokenPairs[id].contractOwner = "module"
        <4>1. Locked(c) = coins[ModuleAddress][id[2]] /\ Issued(c) = totalSupply[c]
          BY ZenonT(90), <3>1, <3>2 DEF Vaults, PairValues
        <4>2. Registered(id)' /\ c \in code' /\ tokenPairs'[id].contractOwner = "module"
          BY ZenonT(90), <2>0, <2>2, <3>1, <3>2
        <4>3. Locked(c)' = coins'[ModuleAddress][id[2]] /\ Issued(c)' = totalSupply'[c]
          BY ZenonT(90), <3>1, <4>2 DEF Vaults, PairValues
        <4>4. totalSupply'[c] <= totalSupply[c]
          BY ZenonT(90), <2>0, <3>1, <3>2, OwnerSplit DEF EvmMoved
        <4>5. Locked(c) \in Nat
          BY DEF Vaults, VaultTyped
        <4>6. Locked(c)' >= Locked(c) /\ Issued(c)' <= Issued(c)
          BY <2>0, <4>1, <4>3, <4>4, <4>5
        <4> QED
          BY ZenonT(90), <2>1, <2>3, <2>5, <4>6 DEF VaultMove
      <3>3. CASE tokenPairs[id].contractOwner = "external"
        <4>1. Locked(c) = tokens[c][ModuleAddress] /\ Issued(c) = supply[id[2]]
          BY ZenonT(90), <3>1, <3>3 DEF Vaults, PairValues
        <4>2. Registered(id)' /\ c \in code' /\ tokenPairs'[id].contractOwner = "external"
          BY ZenonT(90), <2>0, <2>2, <3>1, <3>3
        <4>3. Locked(c)' = tokens'[c][ModuleAddress] /\ Issued(c)' = supply'[id[2]]
          BY ZenonT(90), <3>1, <4>2 DEF Vaults, PairValues
        <4>4. tokens'[c][ModuleAddress] = tokens[c][ModuleAddress] + Deposit(log, c)
          BY ZenonT(90) DEF EvmMoved
        <4>5. Locked(c) \in Nat /\ Issued(c) \in Nat /\ Deposit(log, c) \in Nat
          BY DepositIsNat DEF Vaults, VaultTyped
        <4>6. Locked(c)' >= Locked(c) /\ Issued(c)' <= Issued(c)
          BY <2>0, <4>1, <4>3, <4>4, <4>5
        <4> QED
          BY <2>1, <2>3, <2>5, <4>6 DEF VaultMove
      <3> QED
        BY ZenonT(90), <2>0, <3>1, <3>2, <3>3, OwnerSplit
    <2> QED
      BY ZenonT(90), <2>3, <2>4, <2>5
  \* The end of a contract closes its vault.
  <1>SelfDestructMoves.
      ASSUME IndInv, Vaults, Vaults', NEW c \in External, EvmSelfDestruct(c)
      PROVE  c \in Contract /\ Others(c) /\ (VaultMove(c) \/ AllKept)
    <2> USE <1>SelfDestructMoves
    <2>0. /\ c \in Contract /\ code' = code \ {c} /\ TypeOK
          /\ UNCHANGED <<tokenPairs, erc20Index, coins, supply>>
          /\ tokens' = [tokens EXCEPT ![c] = [a \in Addr |-> 0]]
          /\ totalSupply' = [totalSupply EXCEPT ![c] = 0]
      BY AddrFacts DEF EvmSelfDestruct, pairVars, bankVars, IndInv
    <2>1. VaultOpen' = VaultOpen \ {c}
      BY <2>0 DEF VaultOpen, IsERC20Registered
    <2>2. \A k \in Contract \ {c} : tokens'[k] = tokens[k] /\ totalSupply'[k] = totalSupply[k]
      BY ZenonT(90), <2>0 DEF TypeOK
    <2>3. Others(c)
      <3> SUFFICES ASSUME NEW k \in Contract \ {c}
                   PROVE  Locked(k)' = Locked(k) /\ Issued(k)' = Issued(k)
        BY DEF Others
      <3>1. \A i \in Id : Registered(i)' <=> Registered(i)
        BY <2>0 DEF Registered
      <3>2. k \in VaultOpen <=> k \in VaultOpen'
        BY <2>1
      <3>3. k \in code => k \in code'
        BY <2>0
      <3> QED
        BY ZenonT(90), <2>0, <2>2, <3>1, <3>2, <3>3, <1>VaultKept
    <2>4. Locked(c)' = 0 /\ Issued(c)' = 0
      BY ZenonT(90), <2>0, <2>1 DEF Vaults, VaultTyped
    <2>5. CASE c \in VaultOpen
      BY ZenonT(90), <2>0, <2>1, <2>3, <2>4, <2>5 DEF VaultMove
    <2>6. CASE c \notin VaultOpen
      <3>1. Locked(c) = 0 /\ Issued(c) = 0
        BY <2>0, <2>6 DEF Vaults, VaultTyped
      <3>2. AllKept
        BY ZenonT(90), <2>0, <2>1, <2>3, <2>4, <2>6, <3>1 DEF AllKept, Others
      <3> QED
        BY <2>0, <2>3, <3>2
    <2> QED
      BY <2>5, <2>6
  \* A burn by the hook gives up claims, with or without the assets.
  <1>HookBurntMoves.
      ASSUME IndInv, Vaults, Vaults', NEW id \in Id, NEW a \in Nat, HookBurnt(id, a),
             UNCHANGED <<pairVars, code>>
      PROVE  id[1] \in Contract /\ Others(id[1]) /\ VaultMove(id[1])
    <2> USE <1>HookBurntMoves
    <2>0. /\ Registered(id) /\ id[1] \in Contract /\ PairsIndexed /\ OwnersKnown /\ supply' = supply
          /\ UNCHANGED <<tokenPairs, erc20Index, code>> /\ tokenPairs[id].contractOwner = "module"
      BY ZenonT(90), IdFacts DEF HookBurnt, IndInv, pairVars
    <2>a. id[1] \in code
      <3>1. id[1] \in Deployed
        BY ZenonT(90), <2>0, OwnerSplit
      <3>2. erc20Index[id[1]] = id /\ id # NoId
        <4>1. id # NoId
          BY ZenonT(90), ConstantsAssumption
        <4> QED
          BY ZenonT(90), <2>0, <4>1 DEF PairsIndexed
      <3>3. IsERC20Registered(id[1])
        BY ZenonT(90), <3>2 DEF IsERC20Registered
      <3> QED
        BY ZenonT(90), <2>0, <3>1, <3>3 DEF OwnersKnown
    <2>1. VaultOpen' = VaultOpen
      BY ZenonT(90), <2>0 DEF VaultOpen, IsERC20Registered
    <2>2. id[1] \in VaultOpen
      BY ZenonT(90), <2>0, <2>a DEF Vaults, PairValues
    <2>3. \A i \in Id : Registered(i)' <=> Registered(i)
      BY ZenonT(90), <2>0 DEF Registered
    <2>4. Others(id[1])
      <3> SUFFICES ASSUME NEW k \in Contract \ {id[1]}
                   PROVE  Locked(k)' = Locked(k) /\ Issued(k)' = Issued(k)
        BY ZenonT(90) DEF Others
      <3>1. ASSUME NEW i \in Id, Registered(i), i[1] = k
            PROVE  /\ coins'[ModuleAddress][i[2]] = coins[ModuleAddress][i[2]]
                   /\ totalSupply'[k] = totalSupply[k]
                   /\ tokens'[k][ModuleAddress] = tokens[k][ModuleAddress]
                   /\ supply'[i[2]] = supply[i[2]]
        <4>1. i[2] # id[2] /\ i[2] \in Denom
          BY ZenonT(90), <2>0, <3>1, PairUnique, IdFacts
        <4> QED
          BY ZenonT(90), <4>1 DEF HookBurnt
      <3> QED
        BY ZenonT(90), <2>0, <2>1, <2>3, <3>1, <1>VaultKept
    <2>5. Locked(id[1]) = coins[ModuleAddress][id[2]] /\ Issued(id[1]) = totalSupply[id[1]]
      BY ZenonT(90), <2>0, <2>a DEF Vaults, PairValues
    <2>6. Registered(id)' /\ id[1] \in code' /\ tokenPairs'[id].contractOwner = "module"
      BY ZenonT(90), <2>0, <2>3, <2>a
    <2>7. Locked(id[1])' = coins'[ModuleAddress][id[2]] /\ Issued(id[1])' = totalSupply'[id[1]]
      BY ZenonT(90), <2>6 DEF Vaults, PairValues
    <2>8. /\ totalSupply'[id[1]] = totalSupply[id[1]] - a
          /\ \/ coins'[ModuleAddress][id[2]] = coins[ModuleAddress][id[2]]
             \/ coins'[ModuleAddress][id[2]] = coins[ModuleAddress][id[2]] - a
      BY ZenonT(90) DEF HookBurnt
    <2>9. Locked(id[1]) \in Nat /\ Issued(id[1]) \in Nat
      BY ZenonT(90), <2>0 DEF Vaults, VaultTyped
    <2>10. \/ Locked(id[1])' + Issued(id[1]) = Locked(id[1]) + Issued(id[1])'
           \/ Locked(id[1])' >= Locked(id[1]) /\ Issued(id[1])' <= Issued(id[1])
      BY <2>5, <2>7, <2>8, <2>9
    <2> QED
      BY ZenonT(90), <2>0, <2>1, <2>2, <2>4, <2>10 DEF VaultMove
  \* A mint by the hook issues claims on assets that are there already.
  <1>HookMintedMoves.
      ASSUME IndInv, Vaults, Vaults', NEW id \in Id, NEW a \in Nat, HookMinted(id, a),
             UNCHANGED pairVars
      PROVE  id[1] \in Contract /\ Others(id[1]) /\ (VaultMove(id[1]) \/ AllKept)
    <2> USE <1>HookMintedMoves
    <2>0. /\ Registered(id) /\ id[1] \in Contract /\ PairsIndexed /\ OwnersKnown
          /\ UNCHANGED <<tokenPairs, erc20Index, code, tokens, totalSupply>>
          /\ tokenPairs[id].contractOwner = "external"
      BY IdFacts DEF HookMinted, IndInv, pairVars
    <2>1. VaultOpen' = VaultOpen
      BY <2>0 DEF VaultOpen, IsERC20Registered
    <2>3. \A i \in Id : Registered(i)' <=> Registered(i)
      BY ZenonT(90), <2>0 DEF Registered
    <2>4. Others(id[1])
      <3> SUFFICES ASSUME NEW k \in Contract \ {id[1]}
                   PROVE  Locked(k)' = Locked(k) /\ Issued(k)' = Issued(k)
        BY DEF Others
      <3>1. ASSUME NEW i \in Id, Registered(i), i[1] = k
            PROVE  /\ coins'[ModuleAddress][i[2]] = coins[ModuleAddress][i[2]]
                   /\ supply'[i[2]] = supply[i[2]]
        <4>1. i[2] # id[2] /\ i[2] \in Denom
          BY ZenonT(90), <2>0, <3>1, PairUnique, IdFacts
        <4> QED
          BY ZenonT(90), <4>1 DEF HookMinted
      <3> QED
        BY ZenonT(90), <2>0, <2>1, <2>3, <3>1, <1>VaultKept
    <2>5. CASE id[1] \in code
      <3>1. id[1] \in VaultOpen /\ Locked(id[1]) = tokens[id[1]][ModuleAddress]
        BY ZenonT(90), <2>0, <2>5 DEF Vaults, PairValues
      <3>2. Registered(id)' /\ id[1] \in code' /\ tokenPairs'[id].contractOwner = "external"
        BY ZenonT(90), <2>0, <2>3, <2>5
      <3>3. Locked(id[1])' = tokens'[id[1]][ModuleAddress]
        BY ZenonT(90), <3>2 DEF Vaults, PairValues
      <3>4. Issued(id[1])' <= Locked(id[1])'
        BY ZenonT(90), <2>0 DEF Vaults, Covered
      <3>5. Locked(id[1])' = Locked(id[1]) /\ Issued(id[1])' <= Locked(id[1])
        BY ZenonT(90), <2>0, <3>1, <3>3, <3>4
      <3> QED
        BY ZenonT(90), <2>0, <2>1, <2>4, <3>1, <3>5 DEF VaultMove
    <2>6. CASE id[1] \notin code
      <3>1. id[1] \notin VaultOpen
        BY ZenonT(90), <2>6 DEF VaultOpen
      <3>2. Locked(id[1])' = Locked(id[1]) /\ Issued(id[1])' = Issued(id[1])
        BY ZenonT(90), <2>0, <2>1, <3>1 DEF Vaults, VaultTyped
      <3> QED
        BY ZenonT(90), <2>0, <2>1, <2>4, <3>2 DEF AllKept, Others
    <2> QED
      BY <2>5, <2>6
  <1> SUFFICES ASSUME IndInv, IndInv', [Next]_vars
               PROVE  V!Next \/ UNCHANGED V!vars
    OBVIOUS
  <1>v. Vaults /\ Vaults'
    BY VaultsHold, PTL
  <1>a. ASSUME NEW c \in Contract, Others(c), VaultMove(c) \/ AllKept
        PROVE  V!Next \/ UNCHANGED V!vars
    BY <1>a, <1>MoveIsStep, <1>KeptIsStutter
  <1>b. ASSUME UNCHANGED <<tokenPairs, erc20Index, code, coins, supply, tokens, totalSupply>>
        PROVE  V!Next \/ UNCHANGED V!vars
    <2>1. \A i \in Id : Registered(i)' <=> Registered(i)
      BY <1>b DEF Registered
    <2>2. AllKept
      BY ZenonT(90), <1>b, <1>v, <2>1, <1>QuietKeeps
    <2> QED
      BY <2>2, <1>KeptIsStutter
  <1>1. CASE UNCHANGED vars
    <2>1. UNCHANGED <<tokenPairs, erc20Index, code, coins, supply, tokens, totalSupply>>
      BY <1>1 DEF vars, pairVars, bankVars, evmVars
    <2> QED
      BY <1>b, <2>1
  <1>2. CASE \E d \in Denom, m \in Metadata : RegisterCoin(d, m)
    <2>1. PICK d \in Denom, m \in Metadata : RegisterCoin(d, m)
      BY ZenonT(90), <1>2
    <2>2. /\ nonce \in Deployed /\ nonce \in Contract /\ nonce \in Nat /\ ~IsDenomRegistered(d)
          /\ code' = code \cup {nonce} /\ SetPairAndIndexes(nonce, d, "module")
          /\ UNCHANGED <<coins, supply, tokens, totalSupply>>
      BY ZenonT(90), <2>1, AddrFacts DEF RegisterCoin, bankVars, IndInv, TypeOK
    <2>3. ~IsERC20Registered(nonce)
      BY <2>2 DEF IndInv, OwnersKnown
    <2>4. Others(nonce) /\ VaultMove(nonce)
      BY <1>v, <2>2, <2>3, <1>AddOpens
    <2> QED
      BY <1>a, <2>2, <2>4
  <1>3. CASE \E c \in External, m \in Metadata : RegisterERC20(c, m)
    <2>1. PICK c \in External, m \in Metadata : RegisterERC20(c, m)
      BY ZenonT(90), <1>3
    <2>2. /\ c \in Contract /\ CreateDenom(c) \in Denom /\ ~IsERC20Registered(c)
          /\ ~IsDenomRegistered(CreateDenom(c)) /\ c \in code /\ code' = code
          /\ SetPairAndIndexes(c, CreateDenom(c), "external")
          /\ UNCHANGED <<coins, supply, tokens, totalSupply>>
      BY <2>1, AddrFacts DEF RegisterERC20, bankVars, evmVars
    <2>3. code' = code \cup {c}
      BY <2>2
    <2>4. Others(c) /\ VaultMove(c)
      BY <1>v, <2>2, <2>3, <1>AddOpens
    <2> QED
      BY <1>a, <2>2, <2>4
  <1>4. CASE \E id \in Id \cup {NoId} : ToggleConversion(id)
    <2>1. PICK id \in Id \cup {NoId} : ToggleConversion(id)
      BY ZenonT(90), <1>4
    <2>2. /\ UNCHANGED <<erc20Index, code, coins, supply, tokens, totalSupply>>
          /\ \A i \in Id : Registered(i)' <=> Registered(i)
          /\ \A i \in Id : Registered(i) => tokenPairs'[i].contractOwner = tokenPairs[i].contractOwner
      BY ZenonT(90), <2>1, ToggleEffect DEF IndInv
    <2>3. AllKept
      BY ZenonT(90), <1>v, <2>2, <1>QuietKeeps
    <2> QED
      BY <2>3, <1>KeptIsStutter
  <1>5. CASE \E e, h \in BOOLEAN : UpdateParams([enableErc20 |-> e, enableEVMHook |-> h])
    <2>1. UNCHANGED <<tokenPairs, erc20Index, code, coins, supply, tokens, totalSupply>>
      BY <1>5 DEF UpdateParams, pairVars, bankVars, evmVars
    <2> QED
      BY <1>b, <2>1
  <1>6. CASE \E id \in Id : Exchanged(id)
    BY <1>6, <1>a, <1>v, <1>ExchangeMoves
  <1>7. CASE \E id \in Id : Removed(id)
    BY <1>7, <1>v, <1>RemoveKeeps, <1>KeptIsStutter
  <1>8. CASE \E c \in Contract, log \in Log : EvmMoved(c, log)
    BY ZenonT(90), <1>8, <1>a, <1>v, <1>EvmMoves
  <1>9. CASE \E c \in External : EvmSelfDestruct(c)
    BY ZenonT(90), <1>9, <1>a, <1>v, <1>SelfDestructMoves
  <1>10. CASE PostTxProcessing \/ SkipLog
    <2>1. UNCHANGED <<tokenPairs, erc20Index, code, coins, supply, tokens, totalSupply>>
      BY <1>10 DEF PostTxProcessing, SkipLog, pairVars, bankVars, evmVars
    <2> QED
      BY <1>b, <2>1
  <1>11. CASE HookNativeCoin
    <2>1. UNCHANGED <<pairVars, tokenPairs, erc20Index, code>>
      BY <1>11, HookNativeCoinCases DEF pairVars
    <2>2. CASE UNCHANGED <<coins, supply, tokens, totalSupply>>
      BY <1>b, <2>1, <2>2
    <2>3. CASE \E id \in Id, a \in Nat : HookBurnt(id, a)
      BY ZenonT(90), <1>a, <1>v, <2>1, <2>3, <1>HookBurntMoves
    <2> QED
      BY <1>11, <2>2, <2>3, HookNativeCoinCases
  <1>12. CASE HookNativeToken
    <2>1. PICK id \in Id, a \in Nat : HookMinted(id, a)
      BY <1>12, HookNativeTokenEffect
    <2>2. UNCHANGED pairVars
      BY <1>12, HookNativeTokenEffect
    <2> QED
      BY <1>a, <1>v, <2>1, <2>2, <1>HookMintedMoves
  <1> QED
    BY ZenonT(90), <1>1, <1>2, <1>3, <1>4, <1>5, <1>6, <1>7, <1>8, <1>9, <1>10, <1>11, <1>12,
       StepCases DEF StepKind

\* There are no vaults at genesis.
LEMMA InitRefines == Init => V!Init
  <1> SUFFICES ASSUME Init PROVE V!Init
    OBVIOUS
  <1>1. VaultOpen = {}
    BY ZenonT(90), AddrFacts DEF Init, VaultOpen, IsERC20Registered
  <1>2. \A c \in Contract : Locked(c) = 0 /\ Issued(c) = 0
    BY <1>1 DEF Locked, Issued
  <1> QED
    BY ZenonT(90), <1>1, <1>2 DEF V!Init

\* The erc20 module implements Vault: messages, transactions and hooks issue claims only
\* against assets and release assets only against claims, one pair at a time.
THEOREM Refinement == Spec => ImplementsVault
  <1>1. Init => V!Init
    BY InitRefines
  <1>2. IndInv /\ IndInv' /\ [Next]_vars => [V!Next]_(V!vars)
    BY StepRefines
  <1> QED
    BY <1>1, <1>2, Invariance, PTL DEF Spec, V!Spec, ImplementsVault

\* What a vault promises holds of the pairs: while its contract is live, a pair has issued
\* no more than it holds, in whichever direction it converts.
THEOREM VaultsSolvent == Spec => []V!Solvent
  <1>1. IndInv => V!Solvent
    BY CoveredHolds DEF Covered, V!Solvent
  <1> QED
    BY <1>1, Invariance, PTL

=============================================================================
