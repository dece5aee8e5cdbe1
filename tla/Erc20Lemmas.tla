---------------------------- MODULE Erc20Lemmas -----------------------------
(***************************************************************************)
(* What the operations of the erc20 module do to the ledgers of coins and  *)
(* tokens, and that every kind of step preserves the inductive invariant   *)
(* IndInv.                                                                 *)
(***************************************************************************)
EXTENDS Erc20, TLAPS

\* The provers that try a leaf, one after the other, and the seconds each of them has.
USE SMTT(60), ZenonT(60), Z3T(60)

-----------------------------------------------------------------------------
(* Identifiers of pairs.                                                   *)

\* A receipt that has a log has a first one and the rest.
LEMMA LogsHead ==
  ASSUME NEW S, NEW s \in Seq(S), s # <<>>
  PROVE  /\ Len(s) \in Nat \ {0} /\ Head(s) \in S /\ Head(s) = s[1]
         /\ Tail(s) \in Seq(S) /\ Len(Tail(s)) = Len(s) - 1
         /\ \A i \in 1..Len(s) - 1 : Tail(s)[i] = s[i + 1]
         /\ Tail(s) = <<>> <=> Len(s) = 1
<1>1. Len(s) \in Nat \ {0} /\ Head(s) \in S /\ Head(s) = s[1]
  OBVIOUS
<1>2. Tail(s) \in Seq(S) /\ Len(Tail(s)) = Len(s) - 1
      /\ \A i \in 1..Len(s) - 1 : Tail(s)[i] = s[i + 1]
  OBVIOUS
<1>3. Tail(s) = <<>> <=> Len(Tail(s)) = 0
  BY <1>2
<1> QED
  BY <1>1, <1>2, <1>3

\* A receipt without logs, and one that gets logs.
LEMMA LogsAdded ==
  ASSUME NEW S
  PROVE  /\ <<>> \in Seq(S)
         /\ \A s, t \in Seq(S) : s \o t \in Seq(S)
         /\ \A s \in Seq(S) : s \o <<>> = s
OBVIOUS

\* A receipt that gets one log more.
LEMMA LogsAppended ==
  ASSUME NEW S, NEW s \in Seq(S), NEW e \in S
  PROVE  /\ Len(s \o <<e>>) = Len(s) + 1
         /\ \A i \in 1..Len(s) : (s \o <<e>>)[i] = s[i]
         /\ (s \o <<e>>)[Len(s) + 1] = e
OBVIOUS

\* Claims and escrow that change by the same amount stay in order.
LEMMA StaysBacked ==
  ASSUME NEW s \in Nat, NEW e \in Nat, NEW s2 \in Nat, NEW e2 \in Nat,
         s <= e, s2 + e = s + e2
  PROVE  s2 <= e2
OBVIOUS

\* Claims that grow by a deposit are within what they were and the deposit.
LEMMA GrowsByDeposit ==
  ASSUME NEW s \in Nat, NEW d \in Nat, NEW s2, s2 = s + d
  PROVE  s2 <= s + d
OBVIOUS

\* An identifier is a contract and a denom.
LEMMA IdFacts ==
  /\ \A id \in Id : id[1] \in Contract /\ id[2] \in Denom /\ id = <<id[1], id[2]>>
  /\ \A c \in Contract, d \in Denom :
       <<c, d>> \in Id /\ <<c, d>>[1] = c /\ <<c, d>>[2] = d
  BY DEF Id

\* The accounts and contracts that the model names.
LEMMA AddrFacts ==
  /\ ModuleAddress \in Addr /\ ZeroAddress \in Addr /\ User \subseteq Addr
  /\ ModuleAddress # ZeroAddress /\ \A u \in User : u # ModuleAddress /\ u # ZeroAddress
  /\ Deployed \subseteq Contract /\ External \subseteq Contract
  /\ Coin \subseteq Denom /\ \A c \in Contract : CreateDenom(c) \in Denom
  BY ConstantsAssumption DEF Addr, Contract, Denom

\* Two pairs differ in both the contract and the denom.
LEMMA PairUnique ==
  ASSUME PairsIndexed, NEW i \in Id, NEW j \in Id, Registered(i), Registered(j),
         i[1] = j[1] \/ i[2] = j[2]
  PROVE  i = j
  BY DEF PairsIndexed

\* A pair is the module's or external, never both.
LEMMA OwnerSplit ==
  ASSUME OwnersKnown, NEW id \in Id, Registered(id)
  PROVE  /\ metadata[id[2]] # NoMetadata
         /\ tokenPairs[id].contractOwner = "module" =>
              id[1] \in Deployed /\ id[1] \notin External
         /\ tokenPairs[id].contractOwner = "external" =>
              id[1] \in External /\ id[1] \notin Deployed /\ id[2] = CreateDenom(id[1])
         /\ tokenPairs[id].contractOwner \in {"module", "external"}
  BY ConstantsAssumption DEF OwnersKnown

-----------------------------------------------------------------------------
(* The two ledgers.                                                        *)

Balances == [Addr -> [Denom -> Nat]]
Holdings == [Contract -> [Addr -> Nat]]

CreditCoin(b, a, d, amt) == [b EXCEPT ![a][d] = @ + amt]
DebitCoin(b, a, d, amt) == [b EXCEPT ![a][d] = @ - amt]

\* Adding to one balance changes no other.
LEMMA CreditCoins ==
  ASSUME NEW b \in Balances, NEW a \in Addr, NEW d \in Denom, NEW amt \in Nat
  PROVE  /\ CreditCoin(b, a, d, amt) \in Balances
         /\ \A x \in Addr, e \in Denom :
              CreditCoin(b, a, d, amt)[x][e] = b[x][e] + (IF x = a /\ e = d THEN amt ELSE 0)
  BY DEF Balances, CreditCoin

\* Taking what is there from one balance changes no other.
LEMMA DebitCoins ==
  ASSUME NEW b \in Balances, NEW a \in Addr, NEW d \in Denom, NEW amt \in Nat,
         b[a][d] >= amt
  PROVE  /\ DebitCoin(b, a, d, amt) \in Balances
         /\ \A x \in Addr, e \in Denom :
              DebitCoin(b, a, d, amt)[x][e] = b[x][e] - (IF x = a /\ e = d THEN amt ELSE 0)
  BY DEF Balances, DebitCoin

\* A funded transfer of coins moves its amount and nothing else.
LEMMA SendEffect ==
  ASSUME NEW b \in Balances, NEW from \in Addr, NEW to \in Addr, NEW d \in Denom,
         NEW amt \in Nat, b[from][d] >= amt
  PROVE  LET r == SendCoins(b, from, to, d, amt)
         IN  /\ r \in Balances
             /\ \A x \in Addr, e \in Denom :
                  r[x][e] = b[x][e] - (IF x = from /\ e = d THEN amt ELSE 0)
                                    + (IF x = to /\ e = d THEN amt ELSE 0)
  <1> DEFINE m == DebitCoin(b, from, d, amt)
             r == CreditCoin(m, to, d, amt)
  <1>1. /\ m \in Balances
        /\ \A x \in Addr, e \in Denom :
             m[x][e] = b[x][e] - (IF x = from /\ e = d THEN amt ELSE 0)
    BY DebitCoins
  <1>2. r = SendCoins(b, from, to, d, amt)
    BY DEF SendCoins, CreditCoin, DebitCoin
  <1> HIDE DEF m
  <1>3. /\ r \in Balances
        /\ \A x \in Addr, e \in Denom :
             r[x][e] = m[x][e] + (IF x = to /\ e = d THEN amt ELSE 0)
    BY <1>1, CreditCoins
  <1> HIDE DEF r
  <1> QED
    BY <1>1, <1>2, <1>3 DEF Balances

\* Tokens are credited to one account of one contract.
LEMMA CreditTokens ==
  ASSUME NEW b \in Holdings, NEW c \in Contract, NEW a \in Addr, NEW amt \in Nat
  PROVE  LET r == [b EXCEPT ![c][a] = @ + amt]
         IN  /\ r \in Holdings
             /\ \A k \in Contract, x \in Addr :
                  r[k][x] = b[k][x] + (IF k = c /\ x = a THEN amt ELSE 0)
  BY DEF Holdings

\* Tokens are debited from one account of one contract.
LEMMA DebitTokens ==
  ASSUME NEW b \in Holdings, NEW c \in Contract, NEW a \in Addr, NEW amt \in Nat,
         b[c][a] >= amt
  PROVE  LET r == [b EXCEPT ![c][a] = @ - amt]
         IN  /\ r \in Holdings
             /\ \A k \in Contract, x \in Addr :
                  r[k][x] = b[k][x] - (IF k = c /\ x = a THEN amt ELSE 0)
  BY DEF Holdings

\* What a transfer moves between the balances of c and takes from its supply.
Moved(c, from, to, amt) ==
  /\ Fee[c] \in Nat /\ Received(c, amt) \in Nat /\ Received(c, amt) = amt - Fee[c]
  /\ tokens' \in Holdings /\ totalSupply' \in [Contract -> Nat]
  /\ \A k \in Contract : totalSupply'[k] = totalSupply[k] - (IF k = c THEN Fee[c] ELSE 0)
  /\ \A k \in Contract, x \in Addr :
       tokens'[k][x] = tokens[k][x] - (IF k = c /\ x = from THEN amt ELSE 0)
                         + (IF k = c /\ x = to THEN amt - Fee[c] ELSE 0)

\* What a transfer of tokens does, with the fee of the contract.
LEMMA TransferEffect ==
  ASSUME TypeOK, NEW c \in Contract, NEW from \in Addr, NEW to \in Addr, NEW amt \in Nat,
         CanTransfer(c, from, to, amt), Transfer(c, from, to, amt)
  PROVE  Moved(c, from, to, amt)
  <1> DEFINE m == [tokens EXCEPT ![c][from] = @ - amt]
             r == [m EXCEPT ![c][to] = @ + Received(c, amt)]
  <1>1. /\ Fee[c] \in Nat /\ Received(c, amt) \in Nat /\ Received(c, amt) = amt - Fee[c]
        /\ tokens[c][from] >= amt /\ totalSupply[c] >= Fee[c]
    BY ConstantsAssumption DEF CanTransfer, Received, Contract, Deployed
  <1>2. tokens \in Holdings /\ totalSupply \in [Contract -> Nat]
    BY DEF TypeOK, Holdings
  <1>3. tokens' = r /\ totalSupply' = [totalSupply EXCEPT ![c] = @ - Fee[c]]
    BY DEF Transfer
  <1>4. /\ m \in Holdings
        /\ \A k \in Contract, x \in Addr :
             m[k][x] = tokens[k][x] - (IF k = c /\ x = from THEN amt ELSE 0)
    BY <1>1, <1>2, DebitTokens
  <1> HIDE DEF m
  <1>5. /\ r \in Holdings
        /\ \A k \in Contract, x \in Addr :
             r[k][x] = m[k][x] + (IF k = c /\ x = to THEN Received(c, amt) ELSE 0)
    BY <1>1, <1>4, CreditTokens
  <1> HIDE DEF r
  <1>6. /\ totalSupply' \in [Contract -> Nat]
        /\ \A k \in Contract : totalSupply'[k] = totalSupply[k] - (IF k = c THEN Fee[c] ELSE 0)
    BY <1>1, <1>2, <1>3
  <1> QED
    BY <1>1, <1>2, <1>3, <1>4, <1>5, <1>6 DEF Moved, Holdings

\* What a burn of tokens does.
LEMMA BurnEffect ==
  ASSUME TypeOK, NEW c \in Contract, NEW from \in Addr, NEW amt \in Nat,
         CanBurn(c, from, amt), Burn(c, from, amt)
  PROVE  /\ tokens' \in Holdings /\ totalSupply' \in [Contract -> Nat]
         /\ \A k \in Contract : totalSupply'[k] = totalSupply[k] - (IF k = c THEN amt ELSE 0)
         /\ \A k \in Contract, x \in Addr :
              tokens'[k][x] = tokens[k][x] - (IF k = c /\ x = from THEN amt ELSE 0)
  <1>1. tokens \in Holdings /\ totalSupply \in [Contract -> Nat]
    BY DEF TypeOK, Holdings
  <1> DEFINE r == [tokens EXCEPT ![c][from] = @ - amt]
  <1>0. tokens[c][from] >= amt
    BY DEF CanBurn
  <1>a. tokens' = r
    BY DEF Burn
  <1>b. /\ r \in Holdings
        /\ \A k \in Contract, x \in Addr :
              r[k][x] = tokens[k][x] - (IF k = c /\ x = from THEN amt ELSE 0)
    BY <1>0, <1>1, DebitTokens
  <1> HIDE DEF r
  <1>2. /\ tokens' \in Holdings
        /\ \A k \in Contract, x \in Addr :
              tokens'[k][x] = tokens[k][x] - (IF k = c /\ x = from THEN amt ELSE 0)
    BY <1>a, <1>b
  <1>3. totalSupply' = [totalSupply EXCEPT ![c] = @ - amt] /\ totalSupply[c] >= amt
    BY DEF Burn, CanBurn
  <1>4. /\ totalSupply' \in [Contract -> Nat]
        /\ \A k \in Contract : totalSupply'[k] = totalSupply[k] - (IF k = c THEN amt ELSE 0)
    BY <1>1, <1>3
  <1> QED
    BY <1>2, <1>4

\* What a mint of tokens does.
LEMMA MintEffect ==
  ASSUME TypeOK, NEW c \in Contract, NEW to \in Addr, NEW amt \in Nat, Mint(c, to, amt)
  PROVE  /\ tokens' \in Holdings /\ totalSupply' \in [Contract -> Nat]
         /\ \A k \in Contract : totalSupply'[k] = totalSupply[k] + (IF k = c THEN amt ELSE 0)
         /\ \A k \in Contract, x \in Addr :
              tokens'[k][x] = tokens[k][x] + (IF k = c /\ x = to THEN amt ELSE 0)
  <1>1. tokens \in Holdings /\ totalSupply \in [Contract -> Nat]
    BY DEF TypeOK, Holdings
  <1> DEFINE r == [tokens EXCEPT ![c][to] = @ + amt]
  <1>a. tokens' = r
    BY DEF Mint
  <1>b. /\ r \in Holdings
        /\ \A k \in Contract, x \in Addr :
              r[k][x] = tokens[k][x] + (IF k = c /\ x = to THEN amt ELSE 0)
    BY <1>1, CreditTokens
  <1> HIDE DEF r
  <1>2. /\ tokens' \in Holdings
        /\ \A k \in Contract, x \in Addr :
              tokens'[k][x] = tokens[k][x] + (IF k = c /\ x = to THEN amt ELSE 0)
    BY <1>a, <1>b
  <1>3. totalSupply' = [totalSupply EXCEPT ![c] = @ + amt]
    BY DEF Mint
  <1>4. /\ totalSupply' \in [Contract -> Nat]
        /\ \A k \in Contract : totalSupply'[k] = totalSupply[k] + (IF k = c THEN amt ELSE 0)
    BY <1>1, <1>3
  <1> QED
    BY <1>2, <1>4

\* The transfer of converted coins leaves the module's account with at least what it
\* had less the amount, and changes no other denom.
LEMMA SendConvertedEffect ==
  ASSUME NEW b \in Balances, NEW d \in Denom, NEW to \in Addr, NEW amt \in Nat
  PROVE  LET r == SendConverted(b, d, to, amt)
         IN  /\ r \in Balances
             /\ r[ModuleAddress][d] = b[ModuleAddress][d]
                  \/ r[ModuleAddress][d] = b[ModuleAddress][d] - amt
             /\ \A e \in Denom : e # d => r[ModuleAddress][e] = b[ModuleAddress][e]
  <1>0. b[ModuleAddress][d] \in Nat
    BY AddrFacts DEF Balances
  <1>1. CASE BlockedAddr(to) \/ b[ModuleAddress][d] < amt
    BY <1>1 DEF SendConverted
  <1>2. CASE ~(BlockedAddr(to) \/ b[ModuleAddress][d] < amt)
    <2>1. b[ModuleAddress][d] >= amt /\ to # ModuleAddress
      BY <1>0, <1>2 DEF BlockedAddr
    <2>2. SendConverted(b, d, to, amt) = SendCoins(b, ModuleAddress, to, d, amt)
      BY <1>2 DEF SendConverted
    <2> QED
      BY <2>1, <2>2, SendEffect, AddrFacts DEF Balances
  <1> QED
    BY <1>1, <1>2

-----------------------------------------------------------------------------
(* The logs still to be processed.                                         *)

\* A deposit is a number of tokens.
LEMMA DepositIsNat ==
  ASSUME NEW log \in Log, NEW c
  PROVE  Deposit(log, c) \in Nat
  BY DEF Deposit, Log

\* The pairs that PendingBacked is about.
Escrowing(id) ==
  Registered(id) /\ tokenPairs[id].contractOwner = "external" /\ id[1] \in code

\* Between transactions PendingBacked is NativeTokenBacked.
LEMMA PendingEmpty ==
  receipt = <<>> /\ TypeOK /\ NativeTokenBacked => PendingBacked
  <1> SUFFICES ASSUME receipt = <<>>, TypeOK, NativeTokenBacked, NEW id \in Id, Escrowing(id)
               PROVE  \E due \in [1..Len(receipt) + 1 -> 0..tokens[id[1]][ModuleAddress]] :
                        /\ supply[id[2]] <= due[1]
                        /\ \A i \in 1..Len(receipt) :
                             due[i] + Deposit(receipt[i], id[1]) <= due[i + 1]
    BY DEF PendingBacked, Escrowing
  <1> DEFINE n == tokens[id[1]][ModuleAddress]
             due == [i \in 1..Len(receipt) + 1 |-> supply[id[2]]]
  <1>1. Len(receipt) = 0
    OBVIOUS
  <1>2. n \in Nat /\ supply[id[2]] \in Nat /\ supply[id[2]] <= n
    BY IdFacts, AddrFacts DEF TypeOK, NativeTokenBacked, Escrowing
  <1>3. due \in [1..Len(receipt) + 1 -> 0..n] /\ due[1] = supply[id[2]]
    BY <1>1, <1>2
  <1> HIDE DEF due
  <1> QED
    BY <1>1, <1>2, <1>3

\* PendingBacked covers the coins that exist already.
LEMMA PendingImpliesBacked ==
  ASSUME TypeOK, PendingBacked
  PROVE  NativeTokenBacked
  <1> SUFFICES ASSUME NEW id \in Id, Escrowing(id)
               PROVE  supply[id[2]] <= tokens[id[1]][ModuleAddress]
    BY DEF NativeTokenBacked, Escrowing
  <1>1. PICK due \in [1..Len(receipt) + 1 -> 0..tokens[id[1]][ModuleAddress]] :
          supply[id[2]] <= due[1]
    BY DEF PendingBacked, Escrowing
  <1>2. Len(receipt) \in Nat
    BY DEF TypeOK
  <1>3. tokens[id[1]][ModuleAddress] \in Nat /\ supply[id[2]] \in Nat
    BY IdFacts, AddrFacts DEF TypeOK
  <1> QED
    BY <1>1, <1>2, <1>3

-----------------------------------------------------------------------------
(* Conversions by message.                                                 *)

\* The tokens of a native coin and its escrowed coins grow or shrink together, and
\* nothing of any other pair changes.
NativeExchange(id) ==
  /\ supply' = supply
  /\ \A k \in Contract : tokens'[k][ModuleAddress] = tokens[k][ModuleAddress]
  /\ \A k \in Contract \ {id[1]} : totalSupply'[k] = totalSupply[k]
  /\ \A e \in Denom \ {id[2]} : coins'[ModuleAddress][e] = coins[ModuleAddress][e]
  /\ totalSupply'[id[1]] + coins[ModuleAddress][id[2]]
       = totalSupply[id[1]] + coins'[ModuleAddress][id[2]]

\* The coins of an external contract and the tokens in escrow grow or shrink together.
ExternalExchange(id) ==
  /\ \A e \in Denom \ {id[2]} : supply'[e] = supply[e]
  /\ \A k \in Contract \ {id[1]} : tokens'[k][ModuleAddress] = tokens[k][ModuleAddress]
  /\ \A k \in Contract \ {id[1]} : totalSupply'[k] = totalSupply[k]
  /\ \A e \in Denom : coins'[ModuleAddress][e] = coins[ModuleAddress][e]
  /\ supply'[id[2]] + tokens[id[1]][ModuleAddress]
       = supply[id[2]] + tokens'[id[1]][ModuleAddress]

LedgerTypes ==
  /\ coins' \in Balances /\ supply' \in [Denom -> Nat]
  /\ tokens' \in Holdings /\ totalSupply' \in [Contract -> Nat]

\* The state as the lemmas about the ledgers want it.
LEMMA LedgersTyped ==
  ASSUME TypeOK
  PROVE  /\ coins \in Balances /\ supply \in [Denom -> Nat]
         /\ tokens \in Holdings /\ totalSupply \in [Contract -> Nat]
  BY DEF TypeOK, Balances, Holdings

\* What the branches of ConvertCoin and ConvertERC20 other than RemovePair do.
Exchanged(id) ==
  /\ id \in Id /\ Registered(id) /\ id[1] \in code /\ phase = "idle"
  /\ UNCHANGED <<params, pairVars, code, nonce, txVars>>
  /\ LedgerTypes
  /\ \/ tokenPairs[id].contractOwner = "module" /\ NativeExchange(id)
     \/ tokenPairs[id].contractOwner = "external" /\ ExternalExchange(id)

\* What RemovePair does, as a whole step.
Removed(id) ==
  /\ id \in Id /\ Registered(id) /\ id[1] \notin code
  /\ DeleteTokenPair(id)
  /\ UNCHANGED <<params, metadata, bankVars, evmVars, txVars>>

\* A conversion is made for a pair and for a receiver that is not the module.
LEMMA MintingEnabledFacts ==
  ASSUME NEW u, NEW r, NEW id \in Id \cup {NoId}, MintingEnabled(u, r, id)
  PROVE  id \in Id /\ Registered(id) /\ r # ModuleAddress
  BY DEF MintingEnabled, Registered, BlockedAddr

-----------------------------------------------------------------------------
(* Governance.                                                             *)

\* What SetPairAndIndexes does to the three stores.
LEMMA AddPairEffect ==
  ASSUME TypeOK, PairsIndexed, NEW c \in Contract, NEW d \in Denom,
         NEW owner \in {"module", "external"},
         ~IsERC20Registered(c), ~IsDenomRegistered(d), SetPairAndIndexes(c, d, owner)
  PROVE  /\ tokenPairs' \in [Id -> Pair \cup {NoPair}]
         /\ denomIndex' \in [Denom -> Id \cup {NoId}]
         /\ erc20Index' \in [Contract -> Id \cup {NoId}]
         /\ tokenPairs'[<<c, d>>].contractOwner = owner
         /\ \A i \in Id \ {<<c, d>>} : tokenPairs'[i] = tokenPairs[i]
         /\ \A i \in Id : Registered(i)' <=> Registered(i) \/ i = <<c, d>>
         /\ \A i \in Id : Registered(i) => i[1] # c /\ i[2] # d
         /\ erc20Index'[c] = <<c, d>> /\ \A k \in Contract \ {c} : erc20Index'[k] = erc20Index[k]
         /\ denomIndex'[d] = <<c, d>> /\ \A e \in Denom \ {d} : denomIndex'[e] = denomIndex[e]
         /\ PairsIndexed'
  <1> DEFINE id == <<c, d>>
             p == [enabled |-> TRUE, contractOwner |-> owner]
  <1>1. id \in Id /\ id[1] = c /\ id[2] = d /\ id # NoId
    BY IdFacts, ConstantsAssumption
  <1>a. p \in Pair /\ p.contractOwner = owner
    BY ZenonT(90) DEF Pair
  <1>2. p \in Pair /\ p # NoPair /\ p.contractOwner = owner
    BY ZenonT(90), <1>a, ConstantsAssumption
  <1>3. /\ tokenPairs' = [tokenPairs EXCEPT ![id] = p]
        /\ denomIndex' = [denomIndex EXCEPT ![d] = id]
        /\ erc20Index' = [erc20Index EXCEPT ![c] = id]
    BY DEF SetPairAndIndexes
  <1> HIDE DEF id, p
  <1>4. /\ tokenPairs' \in [Id -> Pair \cup {NoPair}] /\ tokenPairs'[id] = p
        /\ \A i \in Id \ {id} : tokenPairs'[i] = tokenPairs[i]
    BY <1>1, <1>2, <1>3 DEF TypeOK
  <1>5. /\ denomIndex' \in [Denom -> Id \cup {NoId}] /\ denomIndex'[d] = id
        /\ \A e \in Denom \ {d} : denomIndex'[e] = denomIndex[e]
    BY <1>1, <1>3 DEF TypeOK
  <1>6. /\ erc20Index' \in [Contract -> Id \cup {NoId}] /\ erc20Index'[c] = id
        /\ \A k \in Contract \ {c} : erc20Index'[k] = erc20Index[k]
    BY ZenonT(90), <1>1, <1>3 DEF TypeOK
  <1>7. \A i \in Id : Registered(i)' <=> Registered(i) \/ i = id
    BY ZenonT(90), <1>2, <1>4 DEF Registered
  <1>8. \A i \in Id : Registered(i) => i[1] # c /\ i[2] # d
    <2>1. \A i \in Id : i # NoId
      BY ZenonT(90), ConstantsAssumption
    <2> QED
      BY ZenonT(90), <2>1 DEF PairsIndexed, IsERC20Registered, IsDenomRegistered
  <1>9. PairsIndexed'
    <2>1. ASSUME NEW i \in Id, Registered(i)'
          PROVE  erc20Index'[i[1]] = i /\ denomIndex'[i[2]] = i
      <3>1. CASE i = id
        BY ZenonT(90), <3>1, <1>1, <1>5, <1>6
      <3>2. CASE i # id
        <4>1. Registered(i) /\ i[1] # c /\ i[2] # d /\ i[1] \in Contract /\ i[2] \in Denom
          BY <2>1, <3>2, <1>7, <1>8, IdFacts
        <4> QED
          BY ZenonT(90), <4>1, <1>5, <1>6 DEF PairsIndexed
      <3> QED
        BY ZenonT(90), <3>1, <3>2
    <2>2. ASSUME NEW k \in Contract, erc20Index'[k] # NoId
          PROVE  erc20Index'[k][1] = k /\ tokenPairs'[erc20Index'[k]] # NoPair
      <3>1. CASE k = c
        BY ZenonT(90), <3>1, <1>1, <1>2, <1>4, <1>6
      <3>2. CASE k # c
        <4>1. erc20Index'[k] = erc20Index[k] /\ erc20Index[k] \in Id
          BY <3>2, <2>2, <1>6
        <4>2. erc20Index[k][1] = k /\ Registered(erc20Index[k])
          BY ZenonT(90), <4>1, <2>2 DEF PairsIndexed, IsERC20Registered
        <4> QED
          BY <4>1, <4>2, <1>7 DEF Registered
      <3> QED
        BY <3>1, <3>2
    <2>3. ASSUME NEW e \in Denom, denomIndex'[e] # NoId
          PROVE  denomIndex'[e][2] = e /\ tokenPairs'[denomIndex'[e]] # NoPair
      <3>1. CASE e = d
        BY <3>1, <1>1, <1>2, <1>4, <1>5
      <3>2. CASE e # d
        <4>1. denomIndex'[e] = denomIndex[e] /\ denomIndex[e] \in Id
          BY ZenonT(90), <3>2, <2>3, <1>5
        <4>2. denomIndex[e][2] = e /\ Registered(denomIndex[e])
          BY <4>1, <2>3 DEF PairsIndexed, IsDenomRegistered
        <4> QED
          BY <4>1, <4>2, <1>7 DEF Registered
      <3> QED
        BY ZenonT(90), <3>1, <3>2
    <2> QED
      BY ZenonT(90), <2>1, <2>2, <2>3 DEF PairsIndexed, IsERC20Registered, IsDenomRegistered,
         Registered
  <1> QED
    BY ZenonT(90), <1>1, <1>2, <1>4, <1>5, <1>6, <1>7, <1>8, <1>9 DEF id

\* ToggleConversion changes only whether a pair is enabled.
LEMMA ToggleEffect ==
  ASSUME TypeOK, NEW id \in Id \cup {NoId}, ToggleConversion(id)
  PROVE  /\ UNCHANGED <<params, denomIndex, erc20Index, metadata, coins, supply, code, tokens,
                        totalSupply, nonce, phase, receipt>>
         /\ tokenPairs' \in [Id -> Pair \cup {NoPair}]
         /\ \A i \in Id : Registered(i)' <=> Registered(i)
         /\ \A i \in Id : Registered(i) => tokenPairs'[i].contractOwner = tokenPairs[i].contractOwner
  <1> DEFINE q == tokenPairs[id]
             p == [enabled |-> ~q.enabled, contractOwner |-> q.contractOwner]
  <1>1. id \in Id /\ q \in Pair
    BY DEF ToggleConversion, TypeOK
  <1>2. tokenPairs' = [tokenPairs EXCEPT ![id] = p] /\ Registered(id)
    BY DEF ToggleConversion, Registered
  <1> HIDE DEF q
  <1>3. p \in Pair /\ p.contractOwner = q.contractOwner
    BY <1>1 DEF Pair
  <1> HIDE DEF p
  <1>4. p # NoPair
    BY <1>3, ConstantsAssumption
  <1>5. /\ tokenPairs' \in [Id -> Pair \cup {NoPair}] /\ tokenPairs'[id] = p
        /\ \A i \in Id \ {id} : tokenPairs'[i] = tokenPairs[i]
    BY <1>1, <1>2, <1>3 DEF TypeOK
  <1>6. \A i \in Id : Registered(i)' <=> Registered(i)
    BY <1>2, <1>4, <1>5 DEF Registered
  <1>7. \A i \in Id : Registered(i) => tokenPairs'[i].contractOwner = tokenPairs[i].contractOwner
    BY <1>3, <1>5 DEF q
  <1>8. UNCHANGED <<params, denomIndex, erc20Index, metadata, coins, supply, code, tokens,
                    totalSupply, nonce, phase, receipt>>
    BY DEF ToggleConversion, bankVars, evmVars, txVars
  <1> QED
    BY <1>5, <1>6, <1>7, <1>8

-----------------------------------------------------------------------------
(* Ethereum transactions.                                                  *)

\* What a call of a contract does, as far as the module can tell: it logs no more than
\* the module's address receives, and makes no tokens of a contract of the module.
EvmMoved(c, log) ==
  /\ c \in Contract /\ c \in code /\ log \in Log /\ log.contract = c
  /\ UNCHANGED <<params, pairVars, bankVars, code, nonce>>
  /\ phase' = "evm" /\ receipt' = receipt \o <<log>>
  /\ tokens' \in Holdings /\ totalSupply' \in [Contract -> Nat]
  /\ \A k \in Contract \ {c} : tokens'[k][ModuleAddress] = tokens[k][ModuleAddress]
  /\ \A k \in Contract \ {c} : totalSupply'[k] = totalSupply[k]
  /\ tokens'[c][ModuleAddress] = tokens[c][ModuleAddress] + Deposit(log, c)
  /\ c \in Deployed => totalSupply'[c] <= totalSupply[c]

\* A log of the model is a log.
LEMMA TransferLogFacts ==
  ASSUME NEW c \in Contract, NEW from \in Addr, NEW to \in Addr, NEW a \in Nat
  PROVE  LET log == TransferLog(c, from, to, a)
         IN  log \in Log /\ log.contract = c /\ Deposit(log, c) = IF to = ModuleAddress THEN a ELSE 0
  BY DEF TransferLog, Log, Deposit

-----------------------------------------------------------------------------
(* The hook.                                                               *)

\* The log under the hook's hands and the phase that follows it.
LEMMA HookFacts ==
  ASSUME IndInv, phase = "hook", NextLog
  PROVE  /\ receipt # <<>> /\ Head(receipt) \in Log
         /\ Head(receipt).contract \in Contract /\ Head(receipt).from \in Addr
         /\ Head(receipt).amount \in Nat
         /\ receipt' = Tail(receipt) /\ receipt' \in Seq(Log)
         /\ phase' \in {"idle", "evm", "hook"}
         /\ phase' = "hook" => receipt' # <<>>
         /\ phase' = "idle" => receipt' = <<>>
  <1>1. receipt \in Seq(Log) /\ receipt # <<>>
    BY DEF IndInv, TypeOK
  <1>2. Head(receipt) \in Log /\ Tail(receipt) \in Seq(Log) /\ Len(Tail(receipt)) = Len(receipt) - 1
    BY <1>1, LogsHead
  <1>3. receipt' = Tail(receipt) /\ phase' = IF Len(receipt) = 1 THEN "idle" ELSE "hook"
    BY DEF NextLog
  <1>4. Len(receipt) \in Nat \ {0}
    BY <1>1, LogsHead
  <1>5. Tail(receipt) = <<>> <=> Len(receipt) = 1
    BY <1>2, <1>4
  <1> QED
    BY ZenonT(90), <1>1, <1>2, <1>3, <1>5 DEF Log

\* A log that is converted has a pair, and brings its amount to the module.
LEMMA ConvertibleFacts ==
  ASSUME TypeOK, PairsIndexed, NEW log \in Log, Convertible(log)
  PROVE  LET id == erc20Index[log.contract]
         IN  /\ id \in Id /\ Registered(id) /\ id[1] = log.contract /\ id[2] \in Denom
             /\ Deposit(log, id[1]) = log.amount
  <1>1. log.contract \in Contract
    BY ZenonT(90) DEF Log
  <1>2. /\ erc20Index[log.contract] \in Id /\ Registered(erc20Index[log.contract])
        /\ log.to = ModuleAddress
    BY ZenonT(90), <1>1 DEF Convertible, TypeOK, Registered
  <1>3. erc20Index[log.contract][1] = log.contract
    BY ZenonT(90), <1>1, <1>2, ConstantsAssumption DEF PairsIndexed, IsERC20Registered
  <1> QED
    BY <1>2, <1>3, IdFacts DEF Deposit

\* What HookNativeCoin does to the ledgers when the burn succeeds: the transfer of
\* the coins may have failed after it.
HookBurnt(id, a) ==
  /\ id \in Id /\ Registered(id) /\ tokenPairs[id].contractOwner = "module" /\ a \in Nat
  /\ supply' = supply
  /\ LedgerTypes
  /\ \A k \in Contract \ {id[1]} : tokens'[k][ModuleAddress] = tokens[k][ModuleAddress]
  /\ \A k \in Contract \ {id[1]} : totalSupply'[k] = totalSupply[k]
  /\ \A e \in Denom \ {id[2]} : coins'[ModuleAddress][e] = coins[ModuleAddress][e]
  /\ totalSupply'[id[1]] = totalSupply[id[1]] - a
  /\ \/ coins'[ModuleAddress][id[2]] = coins[ModuleAddress][id[2]]
     \/ coins'[ModuleAddress][id[2]] = coins[ModuleAddress][id[2]] - a

\* HookNativeCoin burns, or leaves the ledgers alone.
LEMMA HookNativeCoinCases ==
  ASSUME IndInv, HookNativeCoin
  PROVE  /\ phase = "hook" /\ NextLog
         /\ UNCHANGED <<params, pairVars, code, nonce>>
         /\ \/ UNCHANGED <<coins, supply, tokens, totalSupply>>
            \/ \E id \in Id, a \in Nat : HookBurnt(id, a)
  <1> DEFINE log == Head(receipt)
             id == erc20Index[log.contract]
  <1>0. TypeOK /\ PairsIndexed
    BY ZenonT(90) DEF IndInv
  <1>1. /\ phase = "hook" /\ NextLog /\ UNCHANGED <<params, pairVars, code, nonce>>
        /\ supply' = supply /\ Convertible(log) /\ tokenPairs[id].contractOwner = "module"
    BY ZenonT(90) DEF HookNativeCoin
  <1>2. log \in Log /\ log.contract \in Contract /\ log.from \in Addr /\ log.amount \in Nat
    <2>1. phase = "hook" /\ NextLog
      BY ZenonT(90), <1>1
    <2> QED
      BY ZenonT(90), <2>1, HookFacts
  <1>3. id \in Id /\ Registered(id) /\ id[1] = log.contract /\ id[2] \in Denom
    BY ZenonT(90), <1>0, <1>1, <1>2, ConvertibleFacts
  <1>4. CASE ~CanBurn(log.contract, ModuleAddress, log.amount)
    <2>1. UNCHANGED <<tokens, totalSupply, coins>>
      BY ZenonT(90), <1>4 DEF HookNativeCoin
    <2> QED
      BY <1>1, <2>1
  <1>5. CASE CanBurn(log.contract, ModuleAddress, log.amount)
    <2>1. /\ Burn(log.contract, ModuleAddress, log.amount)
          /\ coins' = SendConverted(coins, id[2], log.from, log.amount)
      BY ZenonT(90), <1>5 DEF HookNativeCoin
    <2> DEFINE c == log.contract
               a == log.amount
               to == log.from
    <2>2. c \in Contract /\ a \in Nat /\ to \in Addr /\ CanBurn(c, ModuleAddress, a) /\ id[1] = c
          /\ Burn(c, ModuleAddress, a) /\ coins' = SendConverted(coins, id[2], to, a)
      BY ZenonT(90), <1>2, <1>3, <1>5, <2>1
    <2> HIDE DEF c, a, to, id, log
    <2>3. /\ tokens' \in Holdings /\ totalSupply' \in [Contract -> Nat]
          /\ \A k \in Contract : totalSupply'[k] = totalSupply[k] - (IF k = c THEN a ELSE 0)
          /\ \A k \in Contract, x \in Addr :
               tokens'[k][x] = tokens[k][x] - (IF k = c /\ x = ModuleAddress THEN a ELSE 0)
      BY <1>0, <2>2, BurnEffect, AddrFacts
    <2>4. /\ coins' \in Balances
          /\ \/ coins'[ModuleAddress][id[2]] = coins[ModuleAddress][id[2]]
             \/ coins'[ModuleAddress][id[2]] = coins[ModuleAddress][id[2]] - a
          /\ \A e \in Denom \ {id[2]} : coins'[ModuleAddress][e] = coins[ModuleAddress][e]
      <3>1. coins \in Balances
        BY <1>0, LedgersTyped
      <3> QED
        BY ZenonT(90), <1>3, <2>2, <3>1, SendConvertedEffect
    <2>5. /\ \A k \in Contract \ {c} : tokens'[k][ModuleAddress] = tokens[k][ModuleAddress]
          /\ \A k \in Contract \ {c} : totalSupply'[k] = totalSupply[k]
          /\ totalSupply'[c] = totalSupply[c] - a
      BY <1>0, <2>2, <2>3, LedgersTyped, AddrFacts DEF Holdings
    <2>6. LedgerTypes
      BY ZenonT(90), <1>0, <1>1, <2>3, <2>4, LedgersTyped DEF LedgerTypes
    <2>7. HookBurnt(id, a)
      BY ZenonT(90), <1>1, <1>3, <2>2, <2>4, <2>5, <2>6 DEF HookBurnt
    <2> QED
      BY ZenonT(90), <1>1, <1>3, <2>2, <2>7
  <1> QED
    BY <1>4, <1>5

\* What HookNativeToken does to the ledgers.
HookMinted(id, a) ==
  /\ id \in Id /\ Registered(id) /\ tokenPairs[id].contractOwner = "external" /\ a \in Nat
  /\ Deposit(Head(receipt), id[1]) = a
  /\ UNCHANGED <<code, tokens, totalSupply>>
  /\ coins' \in Balances /\ supply' \in [Denom -> Nat]
  /\ \A e \in Denom \ {id[2]} : coins'[ModuleAddress][e] = coins[ModuleAddress][e]
  /\ \A e \in Denom \ {id[2]} : supply'[e] = supply[e]
  /\ supply'[id[2]] = supply[id[2]] + a

\* HookNativeToken mints what the log brought.
LEMMA HookNativeTokenEffect ==
  ASSUME IndInv, HookNativeToken
  PROVE  /\ phase = "hook" /\ NextLog
         /\ UNCHANGED <<params, pairVars, nonce>>
         /\ \E id \in Id, a \in Nat : HookMinted(id, a)
  <1> DEFINE log == Head(receipt)
             id == erc20Index[log.contract]
             c == log.contract
             a == log.amount
             to == log.from
             minted == CreditCoin(coins, ModuleAddress, id[2], a)
  <1>0. TypeOK /\ PairsIndexed
    BY DEF IndInv
  <1>1. /\ phase = "hook" /\ NextLog /\ UNCHANGED <<params, pairVars, nonce, code, tokens, totalSupply>>
        /\ Convertible(log) /\ tokenPairs[id].contractOwner = "external"
        /\ supply' = [supply EXCEPT ![id[2]] = @ + a]
    BY ZenonT(90) DEF HookNativeToken, evmVars
  <1>2. coins' = SendConverted(minted, id[2], to, a)
    BY ZenonT(90) DEF HookNativeToken, CreditCoin
  <1>3. log \in Log /\ c \in Contract /\ to \in Addr /\ a \in Nat
    <2>1. phase = "hook" /\ NextLog
      BY ZenonT(90), <1>1
    <2> QED
      BY ZenonT(90), <2>1, HookFacts
  <1>4. id \in Id /\ Registered(id) /\ id[1] = c /\ id[2] \in Denom /\ Deposit(log, id[1]) = a
    BY ZenonT(90), <1>0, <1>1, <1>3, ConvertibleFacts
  <1>5. log = Head(receipt)
    OBVIOUS
  <1>6. coins \in Balances /\ supply \in [Denom -> Nat]
    BY ZenonT(90), <1>0, LedgersTyped
  <1> DEFINE d == id[2]
  <1> HIDE DEF log, id, c, a, to
  <1>7. supply' = [supply EXCEPT ![d] = @ + a] /\ d \in Denom
    BY <1>1, <1>4
  <1>8. minted = CreditCoin(coins, ModuleAddress, d, a) /\ coins' = SendConverted(minted, d, to, a)
    BY <1>2
  <1>9. d = id[2]
    OBVIOUS
  <1> HIDE DEF minted, d
  <1>10. /\ supply' \in [Denom -> Nat] /\ supply'[d] = supply[d] + a
         /\ \A e \in Denom \ {d} : supply'[e] = supply[e]
    BY <1>3, <1>6, <1>7
  <1>11. /\ minted \in Balances
         /\ \A e \in Denom \ {d} : minted[ModuleAddress][e] = coins[ModuleAddress][e]
    <2>a. ModuleAddress \in Addr /\ coins \in Balances /\ d \in Denom /\ a \in Nat
      BY ZenonT(90), <1>3, <1>6, <1>7, AddrFacts
    <2>b. /\ CreditCoin(coins, ModuleAddress, d, a) \in Balances
          /\ \A x \in Addr, e \in Denom :
               CreditCoin(coins, ModuleAddress, d, a)[x][e]
                 = coins[x][e] + (IF x = ModuleAddress /\ e = d THEN a ELSE 0)
      BY <2>a, CreditCoins
    <2>1. /\ minted \in Balances
          /\ \A x \in Addr, e \in Denom :
               minted[x][e] = coins[x][e] + (IF x = ModuleAddress /\ e = d THEN a ELSE 0)
      BY ZenonT(90), <1>8, <2>b
    <2> QED
      BY <1>6, <2>1, AddrFacts DEF Balances
  <1>12. /\ coins' \in Balances
         /\ \A e \in Denom \ {d} : coins'[ModuleAddress][e] = coins[ModuleAddress][e]
    <2>1. /\ SendConverted(minted, d, to, a) \in Balances
          /\ \A e \in Denom : e # d =>
               SendConverted(minted, d, to, a)[ModuleAddress][e] = minted[ModuleAddress][e]
      BY <1>3, <1>7, <1>11, SendConvertedEffect
    <2> QED
      BY ZenonT(90), <1>8, <1>11, <2>1
  <1>13. HookMinted(id, a)
    BY ZenonT(90), <1>1, <1>3, <1>4, <1>5, <1>9, <1>10, <1>12 DEF HookMinted
  <1> QED
    BY ZenonT(90), <1>1, <1>3, <1>4, <1>13

-----------------------------------------------------------------------------
(* The steps, by kind.                                                     *)

\* What a step of Next is, for the arguments that follow.
StepKind ==
  \/ \E d \in Denom, m \in Metadata : RegisterCoin(d, m)
  \/ \E c \in External, m \in Metadata : RegisterERC20(c, m)
  \/ \E id \in Id \cup {NoId} : ToggleConversion(id)
  \/ \E e, h \in BOOLEAN : UpdateParams([enableErc20 |-> e, enableEVMHook |-> h])
  \/ \E id \in Id : Exchanged(id)
  \/ \E id \in Id : Removed(id)
  \/ \E c \in Contract, log \in Log : EvmMoved(c, log)
  \/ \E c \in External : EvmSelfDestruct(c)
  \/ PostTxProcessing \/ SkipLog \/ HookNativeCoin \/ HookNativeToken

\* Every kind of step preserves the invariant, and so does a step that changes nothing.
LEMMA KindHolds == IndInv /\ (StepKind \/ UNCHANGED vars) => IndInv'
  \* The first log of the receipt may mint what it brought.
  <1>PendingTail.
      ASSUME TypeOK, TypeOK', PendingBacked, UNCHANGED <<tokenPairs, code>>, OwnersKnown,
             receipt # <<>>, receipt' = Tail(receipt),
             \A c \in External : tokens'[c][ModuleAddress] = tokens[c][ModuleAddress],
             \A id \in Id : Escrowing(id) =>
                supply'[id[2]] <= supply[id[2]] + Deposit(Head(receipt), id[1])
      PROVE  PendingBacked'
    <2> USE <1>PendingTail
    <2> SUFFICES ASSUME NEW id \in Id, Escrowing(id)
                 PROVE  \E due \in [1..Len(receipt') + 1 -> 0..tokens'[id[1]][ModuleAddress]] :
                          /\ supply'[id[2]] <= due[1]
                          /\ \A i \in 1..Len(receipt') :
                               due[i] + Deposit(receipt'[i], id[1]) <= due[i + 1]
      BY ZenonT(90) DEF PendingBacked, Escrowing, Registered, Deposit
    <2> DEFINE n == tokens[id[1]][ModuleAddress]
               len == Len(receipt)
               dep == Deposit(Head(receipt), id[1])
    <2>1. PICK due \in [1..len + 1 -> 0..n] :
            /\ supply[id[2]] <= due[1]
            /\ \A i \in 1..len : due[i] + Deposit(receipt[i], id[1]) <= due[i + 1]
      BY DEF PendingBacked, Escrowing
    <2>2. Head(receipt) \in Log /\ Head(receipt) = receipt[1] /\ len \in Nat \ {0}
      BY ZenonT(90), LogsHead DEF TypeOK
    <2>a. n \in Nat /\ supply[id[2]] \in Nat /\ supply'[id[2]] \in Nat
      BY IdFacts, AddrFacts DEF TypeOK
    <2>b. dep \in Nat
      BY <2>2, DepositIsNat
    <2>3. n \in Nat /\ dep \in Nat /\ supply[id[2]] \in Nat /\ supply'[id[2]] \in Nat
      BY ZenonT(90), <2>a, <2>b
    <2>4. tokens'[id[1]][ModuleAddress] = n
      BY OwnerSplit DEF Escrowing
    <2>5. Len(receipt') = len - 1 /\ \A i \in 1..len - 1 : receipt'[i] = receipt[i + 1]
      BY <2>2, LogsHead DEF TypeOK
    <2>6. supply'[id[2]] <= supply[id[2]] + dep
      OBVIOUS
    <2>c. dep = Deposit(receipt[1], id[1])
      BY <2>2
    <2> HIDE DEF n, dep, len
    <2> DEFINE rest == [i \in 1..len |-> due[i + 1]]
    <2>7. due[1] + dep <= due[2] /\ due[1] \in Nat /\ due[2] \in Nat
      <3>1. 1 \in 1..len /\ 1 \in 1..len + 1 /\ 2 \in 1..len + 1 /\ 1 + 1 = 2
        BY <2>2
      <3>2. due[1] \in Nat /\ due[2] \in Nat
        BY <3>1, <2>1, <2>3
      <3>3. due[1] + Deposit(receipt[1], id[1]) <= due[2]
        BY ZenonT(90), <3>1, <2>1
      <3> QED
        BY <3>2, <3>3, <2>c
    <2>8. rest \in [1..len -> 0..n] /\ \A i \in 1..len : rest[i] = due[i + 1]
      BY <2>1, <2>2, <2>3
    <2> HIDE DEF rest
    <2>9. \A i \in 1..len - 1 : rest[i] + Deposit(receipt'[i], id[1]) <= rest[i + 1]
      <3> TAKE i \in 1..len - 1
      <3>1. i \in 1..len /\ i + 1 \in 1..len
        BY <2>2
      <3> QED
        BY <3>1, <2>1, <2>5, <2>8
    <2>10. rest[1] = due[2] /\ Len(receipt') + 1 = len
      BY <2>2, <2>5, <2>8
    <2>11. supply'[id[2]] <= rest[1]
      BY <2>1, <2>3, <2>6, <2>7, <2>10
    <2> QED
      BY ZenonT(90), <2>4, <2>5, <2>8, <2>9, <2>10, <2>11
  \* Types, when only the ledgers and the receipt change.
  <1>TypeFrame.
      ASSUME TypeOK, UNCHANGED <<params, pairVars, nonce>>, code' \subseteq code,
             coins' \in Balances, supply' \in [Denom -> Nat], tokens' \in Holdings,
             totalSupply' \in [Contract -> Nat], phase' \in {"idle", "evm", "hook"},
             receipt' \in Seq(Log)
      PROVE  TypeOK'
    BY <1>TypeFrame DEF TypeOK, pairVars, Balances, Holdings
  \* The invariant, when only the ledgers and the receipt change: what is left to show is
  \* the backing of the pairs.
  <1>LedgerFrame.
      ASSUME IndInv, TypeOK', UNCHANGED <<pairVars, nonce>>,
             code' \subseteq code, \A c \in Deployed : c \in code => c \in code',
             phase' = "hook" => receipt' # <<>>, phase' = "idle" => receipt' = <<>>,
             \A c \in Deployed : c \notin code => totalSupply'[c] = totalSupply[c],
             \A c \in Contract : metadata[CreateDenom(c)] = NoMetadata =>
                supply'[CreateDenom(c)] = supply[CreateDenom(c)],
             NativeCoinBacked', PendingBacked'
      PROVE  IndInv'
    <2> USE <1>LedgerFrame
    <2>1. PairsIndexed'
      BY ZenonT(90) DEF IndInv, PairsIndexed, pairVars, Registered, IsERC20Registered, IsDenomRegistered
    <2>2. OwnersKnown'
      BY ZenonT(90) DEF IndInv, OwnersKnown, pairVars, Registered, IsERC20Registered
    <2> QED
      BY ZenonT(90), <2>1, <2>2 DEF IndInv
  \* An exchange preserves the invariant.
  <1>ExchangeStep.
      ASSUME IndInv, NEW id, Exchanged(id)
      PROVE  IndInv'
    <2> USE <1>ExchangeStep
    <2>0. /\ id \in Id /\ Registered(id) /\ id[1] \in code /\ phase = "idle"
          /\ UNCHANGED <<params, pairVars, code, nonce, phase, receipt, tokenPairs, metadata>>
          /\ TypeOK /\ PairsIndexed /\ OwnersKnown /\ PendingBacked /\ NativeCoinBacked
          /\ id[1] \in Contract /\ id[2] \in Denom
      BY ZenonT(90), IdFacts DEF Exchanged, IndInv, txVars, pairVars
    <2>1. TypeOK'
      <3>1. LedgerTypes
        BY DEF Exchanged
      <3> QED
        BY ZenonT(90), <2>0, <3>1, <1>TypeFrame DEF LedgerTypes, TypeOK
    <2>2. NativeTokenBacked
      BY <2>0, PendingImpliesBacked
    <2>3. NativeCoinBacked'
      <3> SUFFICES ASSUME NEW i \in Id, Registered(i), tokenPairs[i].contractOwner = "module"
                   PROVE  totalSupply'[i[1]] <= coins'[ModuleAddress][i[2]]
        BY ZenonT(90), <2>0 DEF NativeCoinBacked, Registered
      <3>1. totalSupply[i[1]] <= coins[ModuleAddress][i[2]]
        BY ZenonT(90), <2>0 DEF NativeCoinBacked
      <3>2. CASE i = id
        <4>1. NativeExchange(id)
          BY ZenonT(90), <3>2 DEF Exchanged
        <4>a. totalSupply \in [Contract -> Nat] /\ totalSupply' \in [Contract -> Nat]
          BY ZenonT(90), <2>0, <2>1 DEF TypeOK
        <4>b. coins[ModuleAddress][id[2]] \in Nat /\ coins'[ModuleAddress][id[2]] \in Nat
          <5>1. coins \in Balances /\ coins' \in Balances
            BY ZenonT(90), <2>0, LedgersTyped DEF Exchanged, LedgerTypes
          <5> QED
            BY ZenonT(90), <2>0, <5>1, AddrFacts DEF Balances
        <4>2. /\ totalSupply[id[1]] \in Nat /\ coins[ModuleAddress][id[2]] \in Nat
              /\ totalSupply'[id[1]] \in Nat /\ coins'[ModuleAddress][id[2]] \in Nat
          BY ZenonT(90), <2>0, <4>a, <4>b
        <4>3. totalSupply'[id[1]] + coins[ModuleAddress][id[2]]
                = totalSupply[id[1]] + coins'[ModuleAddress][id[2]]
          BY <4>1 DEF NativeExchange
        <4>4. totalSupply[id[1]] <= coins[ModuleAddress][id[2]]
          BY ZenonT(90), <3>1, <3>2
        <4>5. totalSupply'[id[1]] <= coins'[ModuleAddress][id[2]]
          BY ZenonT(90), <4>2, <4>3, <4>4, StaysBacked
        <4> QED
          BY ZenonT(90), <3>2, <4>5
      <3>3. CASE i # id
        <4>1. i[1] # id[1] /\ i[2] # id[2]
          BY ZenonT(90), <2>0, <3>3, PairUnique
        <4>2. totalSupply'[i[1]] = totalSupply[i[1]] /\ coins'[ModuleAddress][i[2]] = coins[ModuleAddress][i[2]]
          BY ZenonT(90), <4>1, IdFacts DEF Exchanged, NativeExchange, ExternalExchange
        <4> QED
          BY <3>1, <4>2
      <3> QED
        BY <3>2, <3>3
    <2>4. NativeTokenBacked'
      <3> SUFFICES ASSUME NEW i \in Id, Registered(i), tokenPairs[i].contractOwner = "external",
                          i[1] \in code
                   PROVE  supply'[i[2]] <= tokens'[i[1]][ModuleAddress]
        BY <2>0 DEF NativeTokenBacked, Registered
      <3>1. supply[i[2]] <= tokens[i[1]][ModuleAddress]
        BY <2>2 DEF NativeTokenBacked
      <3>2. CASE i = id
        <4>1. ExternalExchange(id)
          BY ZenonT(90), <3>2 DEF Exchanged
        <4>2. /\ supply[id[2]] \in Nat /\ tokens[id[1]][ModuleAddress] \in Nat
              /\ supply'[id[2]] \in Nat /\ tokens'[id[1]][ModuleAddress] \in Nat
          BY <2>0, <2>1, AddrFacts DEF TypeOK
        <4>3. supply'[id[2]] + tokens[id[1]][ModuleAddress]
                = supply[id[2]] + tokens'[id[1]][ModuleAddress]
          BY ZenonT(90), <4>1 DEF ExternalExchange
        <4>4. supply[id[2]] <= tokens[id[1]][ModuleAddress]
          BY ZenonT(90), <3>1, <3>2
        <4>5. supply'[id[2]] <= tokens'[id[1]][ModuleAddress]
          BY SMTT(60), <4>2, <4>3, <4>4
        <4> QED
          BY ZenonT(90), <3>2, <4>5
      <3>3. CASE i # id
        <4>1. i[1] # id[1] /\ i[2] # id[2]
          BY ZenonT(90), <2>0, <3>3, PairUnique
        <4>2. supply'[i[2]] = supply[i[2]] /\ tokens'[i[1]][ModuleAddress] = tokens[i[1]][ModuleAddress]
          BY <4>1, IdFacts DEF Exchanged, NativeExchange, ExternalExchange
        <4> QED
          BY ZenonT(90), <3>1, <4>2
      <3> QED
        BY ZenonT(90), <3>2, <3>3
    <2>5. (receipt = <<>>)'
      BY <2>0 DEF IndInv
    <2>6. PendingBacked'
      BY <2>1, <2>4, <2>5, PendingEmpty, PTL
    <2>7. \A c \in Deployed : c \notin code => totalSupply'[c] = totalSupply[c]
      BY ZenonT(90), <2>0, AddrFacts DEF Exchanged, NativeExchange, ExternalExchange
    <2>8. \A c \in Contract : metadata[CreateDenom(c)] = NoMetadata =>
              supply'[CreateDenom(c)] = supply[CreateDenom(c)]
      <3> SUFFICES ASSUME NEW c \in Contract, metadata[CreateDenom(c)] = NoMetadata
                   PROVE  supply'[CreateDenom(c)] = supply[CreateDenom(c)]
        BY ZenonT(90)
      <3>1. CreateDenom(c) # id[2] /\ CreateDenom(c) \in Denom
        BY <2>0, OwnerSplit, AddrFacts
      <3> QED
        BY <3>1 DEF Exchanged, NativeExchange, ExternalExchange
    <2> QED
      BY ZenonT(90), <2>0, <2>1, <2>3, <2>5, <2>6, <2>7, <2>8, <1>LedgerFrame
  \* Removing a pair preserves the invariant.
  <1>RemoveStep.
      ASSUME IndInv, NEW id, Removed(id)
      PROVE  IndInv'
    <2> USE <1>RemoveStep
    <2>0. /\ id \in Id /\ Registered(id) /\ id[1] \notin code /\ id[1] \in Contract /\ id[2] \in Denom
          /\ TypeOK /\ PairsIndexed /\ OwnersKnown /\ NativeCoinBacked /\ PendingBacked
      BY IdFacts DEF Removed, IndInv
    <2>1. UNCHANGED <<params, metadata, coins, supply, code, tokens, totalSupply, nonce, phase, receipt>>
      BY DEF Removed, bankVars, evmVars, txVars
    <2>2. /\ tokenPairs' = [tokenPairs EXCEPT ![id] = NoPair]
          /\ erc20Index' = [erc20Index EXCEPT ![id[1]] = NoId]
          /\ denomIndex' = [denomIndex EXCEPT ![id[2]] = NoId]
      BY DEF Removed, DeleteTokenPair
    <2>3. tokenPairs'[id] = NoPair /\ \A i \in Id \ {id} : tokenPairs'[i] = tokenPairs[i]
      BY <2>0, <2>2 DEF TypeOK
    <2>4. erc20Index'[id[1]] = NoId /\ \A c \in Contract \ {id[1]} : erc20Index'[c] = erc20Index[c]
      BY <2>0, <2>2 DEF TypeOK
    <2>5. denomIndex'[id[2]] = NoId /\ \A d \in Denom \ {id[2]} : denomIndex'[d] = denomIndex[d]
      BY ZenonT(90), <2>0, <2>2 DEF TypeOK
    <2>6. TypeOK'
      BY <2>0, <2>1, <2>2 DEF TypeOK
    <2>7. \A i \in Id : Registered(i)' <=> Registered(i) /\ i # id
      BY <2>3 DEF Registered
    <2>8. PairsIndexed'
      <3>1. ASSUME NEW i \in Id, Registered(i), i # id
            PROVE  erc20Index'[i[1]] = i /\ denomIndex'[i[2]] = i
        <4>1. i[1] # id[1] /\ i[2] # id[2] /\ i[1] \in Contract /\ i[2] \in Denom
          BY ZenonT(90), <2>0, <3>1, PairUnique, IdFacts
        <4> QED
          BY <2>0, <2>4, <2>5, <3>1, <4>1 DEF PairsIndexed
      <3>2. ASSUME NEW c \in Contract, erc20Index'[c] # NoId
            PROVE  erc20Index'[c][1] = c /\ Registered(erc20Index'[c]) /\ erc20Index'[c] # id
                   /\ erc20Index'[c] \in Id
        <4>1. c # id[1] /\ erc20Index'[c] = erc20Index[c]
          BY ZenonT(90), <2>4, <3>2
        <4> QED
          BY <2>0, <3>2, <4>1 DEF PairsIndexed, TypeOK, IsERC20Registered
      <3>3. ASSUME NEW d \in Denom, denomIndex'[d] # NoId
            PROVE  denomIndex'[d][2] = d /\ Registered(denomIndex'[d]) /\ denomIndex'[d] # id
                   /\ denomIndex'[d] \in Id
        <4>1. d # id[2] /\ denomIndex'[d] = denomIndex[d]
          BY <2>5, <3>3
        <4> QED
          BY <2>0, <3>3, <4>1 DEF PairsIndexed, TypeOK, IsDenomRegistered
      <3>4. \A i \in Id : Registered(i)' => erc20Index'[i[1]] = i /\ denomIndex'[i[2]] = i
        BY <2>7, <3>1
      <3>5. \A c \in Contract : erc20Index'[c] # NoId => erc20Index'[c][1] = c /\ tokenPairs'[erc20Index'[c]] # NoPair
        BY <2>7, <3>2 DEF Registered
      <3>6. \A d \in Denom : denomIndex'[d] # NoId => denomIndex'[d][2] = d /\ tokenPairs'[denomIndex'[d]] # NoPair
        BY ZenonT(90), <2>7, <3>3 DEF Registered
      <3> QED
        BY ZenonT(90), <3>4, <3>5, <3>6 DEF PairsIndexed, Registered, IsERC20Registered, IsDenomRegistered
    <2>9. id[1] \notin Deployed
      <3>1. IsERC20Registered(id[1])
        BY <2>0, ConstantsAssumption DEF PairsIndexed, IsERC20Registered
      <3> QED
        BY ZenonT(90), <2>0, <3>1 DEF OwnersKnown
    <2>10. OwnersKnown'
      <3>1. \A c \in Deployed : IsERC20Registered(c)' <=> IsERC20Registered(c)
        BY ZenonT(90), <2>4, <2>9, AddrFacts DEF IsERC20Registered
      <3>2. ASSUME NEW i \in Id, Registered(i)'
            PROVE  Registered(i) /\ tokenPairs'[i] = tokenPairs[i]
        BY ZenonT(90), <2>3, <2>7, <3>2
      <3> QED
        BY ZenonT(90), <2>0, <2>1, <3>1, <3>2 DEF OwnersKnown
    <2>11. NativeCoinBacked'
      BY ZenonT(90), <2>0, <2>1, <2>3, <2>7 DEF NativeCoinBacked
    <2>12. PendingBacked'
      <3>1. ASSUME NEW i \in Id, Registered(i)', tokenPairs'[i].contractOwner = "external", i[1] \in code
            PROVE  Registered(i) /\ tokenPairs[i].contractOwner = "external"
        BY ZenonT(90), <2>3, <2>7, <3>1
      <3> QED
        BY ZenonT(90), <2>0, <2>1, <3>1 DEF PendingBacked, Deposit
    <2> QED
      BY ZenonT(90), <2>1, <2>6, <2>8, <2>10, <2>11, <2>12 DEF IndInv
  \* RegisterCoin preserves the invariant: the contract it deploys is a new one and has no
  \* tokens yet.
  <1>RegisterCoinStep.
      ASSUME IndInv, NEW d \in Denom, NEW m \in Metadata, RegisterCoin(d, m)
      PROVE  IndInv'
    <2> USE <1>RegisterCoinStep
    <2> DEFINE id == <<nonce, d>>
    <2>0. TypeOK /\ PairsIndexed /\ OwnersKnown /\ NativeCoinBacked /\ PendingBacked
      BY ZenonT(90) DEF IndInv
    <2>1. /\ nonce \in Deployed /\ nonce \in Contract /\ nonce \notin External
          /\ nonce \in Nat /\ ~IsDenomRegistered(d)
          /\ phase = "idle" /\ metadata' = [metadata EXCEPT ![d] = m] /\ m # NoMetadata
          /\ code' = code \cup {nonce} /\ nonce' = nonce + 1
          /\ SetPairAndIndexes(nonce, d, "module")
          /\ UNCHANGED <<params, coins, supply, tokens, totalSupply, phase, receipt>>
      BY AddrFacts, ConstantsAssumption DEF RegisterCoin, bankVars, txVars, Deployed
    <2>2. nonce \notin code /\ ~IsERC20Registered(nonce) /\ totalSupply[nonce] = 0
      <3>1. nonce \in Nat
        BY ZenonT(90), <2>1
      <3>2. ~(nonce < nonce)
        BY <3>1
      <3> QED
        BY ZenonT(90), <2>0, <2>1, <3>2 DEF OwnersKnown
    <2>3. /\ tokenPairs' \in [Id -> Pair \cup {NoPair}]
          /\ denomIndex' \in [Denom -> Id \cup {NoId}]
          /\ erc20Index' \in [Contract -> Id \cup {NoId}]
          /\ tokenPairs'[id].contractOwner = "module"
          /\ \A i \in Id \ {id} : tokenPairs'[i] = tokenPairs[i]
          /\ \A i \in Id : Registered(i)' <=> Registered(i) \/ i = id
          /\ \A i \in Id : Registered(i) => i[1] # nonce /\ i[2] # d
          /\ erc20Index'[nonce] = id /\ \A k \in Contract \ {nonce} : erc20Index'[k] = erc20Index[k]
          /\ PairsIndexed'
      BY ZenonT(90), <2>0, <2>1, <2>2, AddPairEffect
    <2>4. id \in Id /\ id[1] = nonce /\ id[2] = d /\ id # NoId
      BY <2>1, IdFacts, ConstantsAssumption
    <2> HIDE DEF id
    <2>a. metadata' \in [Denom -> Metadata \cup {NoMetadata}]
      BY ZenonT(90), <2>0, <2>1 DEF TypeOK
    <2>b. nonce' \in Nat /\ code' \in SUBSET Contract
      BY <2>0, <2>1 DEF TypeOK
    <2>c. /\ tokenPairs' \in [Id -> Pair \cup {NoPair}]
          /\ denomIndex' \in [Denom -> Id \cup {NoId}]
          /\ erc20Index' \in [Contract -> Id \cup {NoId}]
      BY <2>3
    <2>d. UNCHANGED <<params, coins, supply, tokens, totalSupply, phase, receipt>>
      BY ZenonT(90), <2>1
    <2>5. TypeOK'
      BY ZenonT(90), <2>0, <2>a, <2>b, <2>c, <2>d DEF TypeOK
    <2>6. metadata'[d] # NoMetadata /\ \A e \in Denom : metadata'[e] = metadata[e] \/ e = d
      BY ZenonT(90), <2>0, <2>1 DEF TypeOK
    <2>7. OwnersKnown'
      <3>1. ASSUME NEW i \in Id, Registered(i)'
            PROVE  /\ metadata'[i[2]] # NoMetadata
                   /\ \/ tokenPairs'[i].contractOwner = "module" /\ i[1] \in Deployed
                      \/ tokenPairs'[i].contractOwner = "external" /\ i[1] \in External
                         /\ i[2] = CreateDenom(i[1])
        <4>1. CASE i = id
          BY ZenonT(90), <4>1, <2>1, <2>3, <2>4, <2>6
        <4>2. CASE i # id
          <5>1. Registered(i) /\ tokenPairs'[i] = tokenPairs[i] /\ i[2] \in Denom
            BY ZenonT(90), <3>1, <4>2, <2>3, IdFacts
          <5> QED
            BY ZenonT(90), <5>1, <2>0, <2>6 DEF OwnersKnown
        <4> QED
          BY ZenonT(90), <4>1, <4>2
      <3>2. ASSUME NEW c \in Deployed
            PROVE  \/ c < nonce' /\ c \in code' /\ IsERC20Registered(c)'
                   \/ c >= nonce' /\ c \notin code' /\ ~IsERC20Registered(c)' /\ totalSupply'[c] = 0
        <4>1. c \in Contract /\ c \in Nat
          BY AddrFacts DEF Deployed
        <4>2. CASE c = nonce
          BY <4>1, <4>2, <2>1, <2>3, <2>4 DEF IsERC20Registered
        <4>3. CASE c # nonce
          <5>1. IsERC20Registered(c)' <=> IsERC20Registered(c)
            BY ZenonT(90), <4>1, <4>3, <2>3 DEF IsERC20Registered
          <5>2. \/ c < nonce /\ c \in code /\ IsERC20Registered(c)
                \/ c >= nonce /\ c \notin code /\ ~IsERC20Registered(c) /\ totalSupply[c] = 0
            BY ZenonT(90), <2>0 DEF OwnersKnown
          <5> QED
            BY <5>1, <5>2, <4>1, <4>3, <2>1
        <4> QED
          BY <4>2, <4>3
      <3>3. \A c \in Contract : metadata'[CreateDenom(c)] = NoMetadata => supply'[CreateDenom(c)] = 0
        BY ZenonT(90), <2>0, <2>1, <2>6, AddrFacts DEF OwnersKnown
      <3> QED
        BY <3>1, <3>2, <3>3 DEF OwnersKnown
    <2>8. NativeCoinBacked'
      <3> SUFFICES ASSUME NEW i \in Id, Registered(i)', tokenPairs'[i].contractOwner = "module"
                   PROVE  totalSupply[i[1]] <= coins[ModuleAddress][i[2]]
        BY <2>1 DEF NativeCoinBacked
      <3>1. CASE i = id
        <4>1. coins[ModuleAddress][d] \in Nat
          BY <2>0, AddrFacts DEF TypeOK
        <4> QED
          BY <3>1, <4>1, <2>2, <2>4
      <3>2. CASE i # id
        BY <3>2, <2>0, <2>3 DEF NativeCoinBacked
      <3> QED
        BY ZenonT(90), <3>1, <3>2
    <2>9. (receipt = <<>>)'
      BY <2>1 DEF IndInv
    <2>10. NativeTokenBacked'
      <3> SUFFICES ASSUME NEW i \in Id, Registered(i)', tokenPairs'[i].contractOwner = "external",
                          i[1] \in code'
                   PROVE  supply[i[2]] <= tokens[i[1]][ModuleAddress]
        BY ZenonT(90), <2>1 DEF NativeTokenBacked
      <3>1. i # id
        BY ZenonT(90), <2>3
      <3>2. Registered(i) /\ tokenPairs[i].contractOwner = "external" /\ i[1] \in code
        BY ZenonT(90), <3>1, <2>1, <2>3
      <3> QED
        BY <3>2, <2>0, PendingImpliesBacked DEF NativeTokenBacked
    <2>11. PendingBacked'
      BY <2>5, <2>9, <2>10, PendingEmpty, PTL
    <2> QED
      BY ZenonT(90), <2>1, <2>3, <2>5, <2>7, <2>8, <2>9, <2>11 DEF IndInv
  \* RegisterERC20 preserves the invariant: no coin of the new denom exists yet.
  <1>RegisterERC20Step.
      ASSUME IndInv, NEW c \in External, NEW m \in Metadata, RegisterERC20(c, m)
      PROVE  IndInv'
    <2> USE <1>RegisterERC20Step
    <2> DEFINE d == CreateDenom(c)
               id == <<c, d>>
    <2>0. /\ TypeOK /\ PairsIndexed /\ OwnersKnown /\ NativeCoinBacked /\ PendingBacked
          /\ c \in Contract /\ d \in Denom /\ c \notin Deployed
      BY ZenonT(90), AddrFacts, ConstantsAssumption DEF IndInv
    <2>1. /\ ~IsERC20Registered(c) /\ ~IsDenomRegistered(d) /\ phase = "idle"
          /\ metadata[d] = NoMetadata
          /\ metadata' = [metadata EXCEPT ![d] = m] /\ m # NoMetadata
          /\ SetPairAndIndexes(c, d, "external")
          /\ UNCHANGED <<params, coins, supply, code, tokens, totalSupply, nonce, phase, receipt>>
      BY ZenonT(90), ConstantsAssumption DEF RegisterERC20, bankVars, evmVars, txVars
    <2>2. supply[d] = 0
      BY ZenonT(90), <2>0, <2>1 DEF OwnersKnown
    <2>i. id = <<c, d>> /\ d = CreateDenom(c)
      OBVIOUS
    <2> HIDE DEF d, id
    <2>3. /\ tokenPairs' \in [Id -> Pair \cup {NoPair}]
          /\ denomIndex' \in [Denom -> Id \cup {NoId}]
          /\ erc20Index' \in [Contract -> Id \cup {NoId}]
          /\ tokenPairs'[id].contractOwner = "external"
          /\ \A i \in Id \ {id} : tokenPairs'[i] = tokenPairs[i]
          /\ \A i \in Id : Registered(i)' <=> Registered(i) \/ i = id
          /\ erc20Index'[c] = id /\ \A k \in Contract \ {c} : erc20Index'[k] = erc20Index[k]
          /\ PairsIndexed'
      BY ZenonT(90), <2>0, <2>1, <2>i, AddPairEffect
    <2>4. id \in Id /\ id[1] = c /\ id[2] = d /\ id # NoId
      BY <2>0, <2>i, IdFacts, ConstantsAssumption
    <2>a. metadata' \in [Denom -> Metadata \cup {NoMetadata}]
      BY <2>0, <2>1 DEF TypeOK
    <2>b. /\ tokenPairs' \in [Id -> Pair \cup {NoPair}]
          /\ denomIndex' \in [Denom -> Id \cup {NoId}]
          /\ erc20Index' \in [Contract -> Id \cup {NoId}]
      BY <2>3
    <2>c. UNCHANGED <<params, coins, supply, code, tokens, totalSupply, nonce, phase, receipt>>
      BY ZenonT(90), <2>1
    <2>5. TypeOK'
      BY <2>0, <2>a, <2>b, <2>c DEF TypeOK
    <2>6. metadata'[d] # NoMetadata /\ \A e \in Denom : metadata'[e] = metadata[e] \/ e = d
      BY ZenonT(90), <2>0, <2>1 DEF TypeOK
    <2>7. OwnersKnown'
      <3>1. ASSUME NEW i \in Id, Registered(i)'
            PROVE  /\ metadata'[i[2]] # NoMetadata
                   /\ \/ tokenPairs'[i].contractOwner = "module" /\ i[1] \in Deployed
                      \/ tokenPairs'[i].contractOwner = "external" /\ i[1] \in External
                         /\ i[2] = CreateDenom(i[1])
        <4>1. CASE i = id
          BY ZenonT(90), <4>1, <2>3, <2>4, <2>6, <2>i
        <4>2. CASE i # id
          <5>1. Registered(i) /\ tokenPairs'[i] = tokenPairs[i] /\ i[2] \in Denom
            BY ZenonT(90), <3>1, <4>2, <2>3, IdFacts
          <5> QED
            BY ZenonT(90), <5>1, <2>0, <2>6 DEF OwnersKnown
        <4> QED
          BY ZenonT(90), <4>1, <4>2
      <3>2. \A k \in Deployed : IsERC20Registered(k)' <=> IsERC20Registered(k)
        BY ZenonT(90), <2>0, <2>3, AddrFacts DEF IsERC20Registered
      <3>3. \A k \in Deployed :
              \/ k < nonce' /\ k \in code' /\ IsERC20Registered(k)'
              \/ k >= nonce' /\ k \notin code' /\ ~IsERC20Registered(k)' /\ totalSupply'[k] = 0
        BY ZenonT(90), <2>0, <2>c, <3>2 DEF OwnersKnown
      <3>4. \A k \in Contract : metadata'[CreateDenom(k)] = NoMetadata => supply'[CreateDenom(k)] = 0
        BY ZenonT(90), <2>0, <2>1, <2>6, AddrFacts DEF OwnersKnown
      <3> QED
        BY ZenonT(90), <3>1, <3>3, <3>4 DEF OwnersKnown
    <2>8. NativeCoinBacked'
      <3> SUFFICES ASSUME NEW i \in Id, Registered(i)', tokenPairs'[i].contractOwner = "module"
                   PROVE  totalSupply[i[1]] <= coins[ModuleAddress][i[2]]
        BY ZenonT(90), <2>1 DEF NativeCoinBacked
      <3>1. i # id
        BY ZenonT(90), <2>3
      <3> QED
        BY ZenonT(90), <3>1, <2>0, <2>3 DEF NativeCoinBacked
    <2>9. (receipt = <<>>)'
      BY ZenonT(90), <2>1 DEF IndInv
    <2>10. NativeTokenBacked'
      <3> SUFFICES ASSUME NEW i \in Id, Registered(i)', tokenPairs'[i].contractOwner = "external",
                          i[1] \in code
                   PROVE  supply[i[2]] <= tokens[i[1]][ModuleAddress]
        BY ZenonT(90), <2>1 DEF NativeTokenBacked
      <3>1. CASE i = id
        <4>1. tokens[c][ModuleAddress] \in Nat
          BY <2>0, AddrFacts DEF TypeOK
        <4> QED
          BY <3>1, <4>1, <2>2, <2>4
      <3>2. CASE i # id
        <4>1. Registered(i) /\ tokenPairs[i].contractOwner = "external"
          BY <3>2, <2>3
        <4> QED
          BY ZenonT(90), <4>1, <2>0, PendingImpliesBacked DEF NativeTokenBacked
      <3> QED
        BY ZenonT(90), <3>1, <3>2
    <2>11. PendingBacked'
      BY <2>5, <2>9, <2>10, PendingEmpty, PTL
    <2> QED
      BY ZenonT(90), <2>1, <2>3, <2>5, <2>7, <2>8, <2>9, <2>11 DEF IndInv
  \* ToggleConversion preserves the invariant.
  <1>ToggleStep.
      ASSUME IndInv, NEW id \in Id \cup {NoId}, ToggleConversion(id)
      PROVE  IndInv'
    <2> USE <1>ToggleStep
    <2>0. TypeOK /\ PairsIndexed /\ OwnersKnown /\ NativeCoinBacked /\ PendingBacked
      BY ZenonT(90) DEF IndInv
    <2>1. /\ UNCHANGED <<params, denomIndex, erc20Index, metadata, coins, supply, code, tokens,
                         totalSupply, nonce, phase, receipt>>
          /\ tokenPairs' \in [Id -> Pair \cup {NoPair}]
          /\ \A i \in Id : Registered(i)' <=> Registered(i)
          /\ \A i \in Id : Registered(i) => tokenPairs'[i].contractOwner = tokenPairs[i].contractOwner
      BY ZenonT(90), <2>0, ToggleEffect
    <2>2. TypeOK'
      BY <2>0, <2>1 DEF TypeOK
    <2>a. /\ \A k \in Contract : erc20Index[k] # NoId => erc20Index[k] \in Id
          /\ \A e \in Denom : denomIndex[e] # NoId => denomIndex[e] \in Id
      BY ZenonT(90), <2>0 DEF TypeOK
    <2>3. PairsIndexed'
      BY ZenonT(90), <2>0, <2>1, <2>a DEF PairsIndexed, Registered, IsERC20Registered,
         IsDenomRegistered
    <2>4. OwnersKnown'
      BY ZenonT(90), <2>0, <2>1 DEF OwnersKnown, IsERC20Registered
    <2>5. NativeCoinBacked'
      BY ZenonT(90), <2>0, <2>1 DEF NativeCoinBacked
    <2>6. PendingBacked'
      BY ZenonT(90), <2>0, <2>1 DEF PendingBacked, Deposit
    <2> QED
      BY <2>1, <2>2, <2>3, <2>4, <2>5, <2>6 DEF IndInv
  \* UpdateParams preserves the invariant.
  <1>ParamsStep.
      ASSUME IndInv, NEW e \in BOOLEAN, NEW h \in BOOLEAN,
             UpdateParams([enableErc20 |-> e, enableEVMHook |-> h])
      PROVE  IndInv'
    <2> USE <1>ParamsStep
    <2>1. UNCHANGED <<pairVars, tokenPairs, denomIndex, erc20Index, metadata, coins, supply, code, tokens,
                      totalSupply, nonce, phase, receipt>>
      BY DEF UpdateParams, bankVars, evmVars, txVars, pairVars
    <2>2. params' \in [enableErc20 : BOOLEAN, enableEVMHook : BOOLEAN]
      BY ZenonT(90) DEF UpdateParams
    <2>3. TypeOK'
      BY ZenonT(90), <2>1, <2>2 DEF IndInv, TypeOK
    <2>4. NativeCoinBacked'
      BY ZenonT(90), <2>1 DEF IndInv, NativeCoinBacked, Registered
    <2>5. PendingBacked'
      BY ZenonT(90), <2>1 DEF IndInv, PendingBacked, Registered, Deposit
    <2>6. (phase = "hook" => receipt # <<>>) /\ (phase = "idle" => receipt = <<>>)
      BY ZenonT(90) DEF IndInv
    <2> QED
      BY ZenonT(90), <2>1, <2>3, <2>4, <2>5, <2>6, <1>LedgerFrame
  \* A call preserves the invariant.
  <1>EvmStep.
      ASSUME IndInv, NEW c, NEW log \in Log, EvmMoved(c, log)
      PROVE  IndInv'
    <2> USE <1>EvmStep
    \* A log that is appended may bring what the module's address has received.
    <2>PendingAppend.
        ASSUME TypeOK, TypeOK', PendingBacked, UNCHANGED <<tokenPairs, supply, code>>,
               NEW entry \in Log, receipt' = receipt \o <<entry>>,
               \A k \in External :
                 tokens'[k][ModuleAddress] >= tokens[k][ModuleAddress] + Deposit(entry, k),
               OwnersKnown
        PROVE  PendingBacked'
      <3> USE <2>PendingAppend
      <3> SUFFICES ASSUME NEW id \in Id, Escrowing(id)
                   PROVE  \E due \in [1..Len(receipt') + 1 -> 0..tokens'[id[1]][ModuleAddress]] :
                            /\ supply'[id[2]] <= due[1]
                            /\ \A i \in 1..Len(receipt') :
                                 due[i] + Deposit(receipt'[i], id[1]) <= due[i + 1]
        BY ZenonT(90) DEF PendingBacked, Escrowing, Registered, Deposit
      <3> DEFINE n == tokens[id[1]][ModuleAddress]
                 m == tokens'[id[1]][ModuleAddress]
                 len == Len(receipt)
                 dep == Deposit(entry, id[1])
      <3>1. PICK due \in [1..len + 1 -> 0..n] :
              /\ supply[id[2]] <= due[1]
              /\ \A i \in 1..len : due[i] + Deposit(receipt[i], id[1]) <= due[i + 1]
        BY ZenonT(90) DEF PendingBacked, Escrowing
      <3>a. n \in Nat /\ m \in Nat
        BY IdFacts, AddrFacts DEF TypeOK
      <3>b. len \in Nat
        BY DEF TypeOK
      <3>c. dep \in Nat
        BY ZenonT(90), DepositIsNat
      <3> HIDE DEF n, m, dep
      <3>2. n \in Nat /\ m \in Nat /\ len \in Nat /\ dep \in Nat
        BY ZenonT(90), <3>a, <3>b, <3>c
      <3>3. m >= n + dep
        BY OwnerSplit DEF Escrowing, n, m, dep
      <3>4. /\ Len(receipt') = len + 1
            /\ \A i \in 1..len : receipt'[i] = receipt[i]
            /\ receipt'[len + 1] = entry
        <4>1. receipt \in Seq(Log)
          BY ZenonT(90) DEF TypeOK
        <4> QED
          BY ZenonT(90), <4>1, LogsAppended
      <3> DEFINE more == [i \in 1..len + 2 |-> IF i <= len + 1 THEN due[i] ELSE due[len + 1] + dep]
      <3> HIDE DEF len
      <3>5. /\ more \in [1..len + 2 -> 0..m]
            /\ \A i \in 1..len + 1 : more[i] = due[i]
            /\ more[len + 2] = due[len + 1] + dep
        BY <3>1, <3>2, <3>3
      <3> HIDE DEF more
      <3> DEFINE brought(i) == Deposit(receipt'[i], id[1])
      <3>d. brought(len + 1) = dep /\ \A i \in 1..len : brought(i) = Deposit(receipt[i], id[1])
        BY ZenonT(90), <3>4 DEF dep
      <3> HIDE DEF brought
      <3>6. \A i \in 1..len + 1 : more[i] + brought(i) <= more[i + 1]
        <4> TAKE i \in 1..len + 1
        <4>1. CASE i = len + 1
          <5>1. more[i] = due[len + 1] /\ more[i + 1] = due[len + 1] + dep
            BY <4>1, <3>2, <3>5
          <5>2. brought(i) = dep
            BY ZenonT(90), <4>1, <3>d
          <5>3. due[len + 1] \in Nat
            BY <3>1, <3>2
          <5> QED
            BY <5>1, <5>2, <5>3, <3>2
        <4>2. CASE i # len + 1
          <5>1. i \in 1..len /\ i + 1 \in 1..len + 1
            BY <4>2, <3>2
          <5> QED
            BY ZenonT(90), <5>1, <3>1, <3>d, <3>5
        <4> QED
          BY <4>1, <4>2
      <3>7. more[1] = due[1] /\ Len(receipt') + 1 = len + 2
        BY <3>2, <3>4, <3>5
      <3>8. supply'[id[2]] <= more[1]
        BY <3>1, <3>7
      <3> QED
        BY ZenonT(90), <3>4, <3>5, <3>6, <3>7, <3>8 DEF m, brought
    \* A balance that grew by a deposit holds it.
    <2>SameIsEnough.
        ASSUME NEW x \in Nat, NEW d \in Nat, NEW y, y = x + d
        PROVE  y >= x + d
      BY <2>SameIsEnough
    \* A balance that did not change holds a deposit of nothing.
    <2>NothingAdded.
        ASSUME NEW x \in Nat, NEW d, d = 0, NEW y, y = x
        PROVE  y >= x + d
      BY <2>NothingAdded
    <2>0. TypeOK /\ PairsIndexed /\ OwnersKnown /\ NativeCoinBacked /\ PendingBacked
      BY ZenonT(90) DEF IndInv
    <2>1. /\ c \in Contract /\ c \in code /\ log.contract = c
          /\ UNCHANGED <<params, pairVars, tokenPairs, coins, supply, code, nonce>>
          /\ phase' = "evm" /\ receipt' = receipt \o <<log>>
          /\ tokens' \in Holdings /\ totalSupply' \in [Contract -> Nat]
      BY ZenonT(90) DEF EvmMoved, pairVars, bankVars
    <2>2. receipt' \in Seq(Log)
      <3>1. receipt \in Seq(Log) /\ <<log>> \in Seq(Log)
        BY <2>0 DEF TypeOK
      <3> QED
        BY ZenonT(90), <2>1, <3>1, LogsAdded
    <2>3. TypeOK'
      <3>1. coins' \in Balances /\ supply' \in [Denom -> Nat]
        BY ZenonT(90), <2>0, <2>1, LedgersTyped
      <3>2. code' \subseteq code /\ phase' \in {"idle", "evm", "hook"}
        BY <2>1
      <3>3. UNCHANGED <<params, pairVars, nonce>>
        BY <2>1
      <3>4. tokens' \in Holdings /\ totalSupply' \in [Contract -> Nat]
        BY ZenonT(90), <2>1
      <3> QED
        BY ZenonT(90), <2>0, <2>2, <3>1, <3>2, <3>3, <3>4, <1>TypeFrame
    <2>4. \A k \in Deployed : totalSupply'[k] <= totalSupply[k]
      <3> SUFFICES ASSUME NEW k \in Deployed PROVE totalSupply'[k] <= totalSupply[k]
        OBVIOUS
      <3>1. k \in Contract /\ totalSupply[k] \in Nat
        BY ZenonT(90), <2>0, AddrFacts DEF TypeOK
      <3>2. (k = c /\ totalSupply'[k] <= totalSupply[k]) \/ totalSupply'[k] = totalSupply[k]
        BY ZenonT(90), <3>1 DEF EvmMoved
      <3> QED
        BY <3>1, <3>2
    <2>5. NativeCoinBacked'
      <3> SUFFICES ASSUME NEW i \in Id, Registered(i), tokenPairs[i].contractOwner = "module"
                   PROVE  totalSupply'[i[1]] <= coins[ModuleAddress][i[2]]
        BY ZenonT(90), <2>1 DEF NativeCoinBacked, Registered
      <3>1. totalSupply[i[1]] <= coins[ModuleAddress][i[2]] /\ i[1] \in Deployed
        BY ZenonT(90), <2>0, OwnerSplit DEF NativeCoinBacked
      <3>2. /\ totalSupply[i[1]] \in Nat /\ totalSupply'[i[1]] \in Nat
            /\ coins[ModuleAddress][i[2]] \in Nat
        BY <2>0, <2>1, IdFacts, AddrFacts DEF TypeOK
      <3> QED
        BY <2>4, <3>1, <3>2
    <2>6. \A k \in External :
             tokens'[k][ModuleAddress] >= tokens[k][ModuleAddress] + Deposit(log, k)
      <3> SUFFICES ASSUME NEW k \in External
                   PROVE  tokens'[k][ModuleAddress] >= tokens[k][ModuleAddress] + Deposit(log, k)
        BY ZenonT(90)
      <3>1. tokens[k][ModuleAddress] \in Nat /\ k \in Contract
        BY ZenonT(90), <2>0, AddrFacts DEF TypeOK
      <3>2. CASE k = c
        <4>1. tokens'[k][ModuleAddress] = tokens[k][ModuleAddress] + Deposit(log, k)
          BY ZenonT(90), <3>2 DEF EvmMoved
        <4>2. Deposit(log, k) \in Nat
          BY ZenonT(90), DepositIsNat DEF EvmMoved
        <4> QED
          BY ZenonT(90), <3>1, <4>1, <4>2, <2>SameIsEnough
      <3>3. CASE k # c
        <4>1. Deposit(log, k) = 0
          BY ZenonT(90), <3>3, <2>1 DEF Deposit
        <4>2. tokens'[k][ModuleAddress] = tokens[k][ModuleAddress]
          BY ZenonT(90), <3>1, <3>3 DEF EvmMoved
        <4> QED
          BY ZenonT(90), <3>1, <4>1, <4>2, <2>NothingAdded
      <3> QED
        BY ZenonT(90), <3>2, <3>3
    <2>7. PendingBacked'
      BY ZenonT(90), <2>0, <2>1, <2>3, <2>6, <2>PendingAppend
    <2>8. \A k \in Deployed : k \notin code => totalSupply'[k] = totalSupply[k]
      BY ZenonT(90), <2>1, AddrFacts DEF EvmMoved
    <2> QED
      BY ZenonT(90), <2>1, <2>3, <2>5, <2>7, <2>8, <1>LedgerFrame
  \* The end of an external contract preserves the invariant.
  <1>SelfDestructStep.
      ASSUME IndInv, NEW c \in External, EvmSelfDestruct(c)
      PROVE  IndInv'
    <2> USE <1>SelfDestructStep
    <2>0. TypeOK /\ PairsIndexed /\ OwnersKnown /\ NativeCoinBacked /\ PendingBacked
          /\ c \in Contract /\ c \notin Deployed
      BY AddrFacts, ConstantsAssumption DEF IndInv
    <2>1. /\ UNCHANGED <<params, pairVars, tokenPairs, coins, supply, nonce>>
          /\ code' = code \ {c}
          /\ tokens' = [tokens EXCEPT ![c] = [a \in Addr |-> 0]]
          /\ totalSupply' = [totalSupply EXCEPT ![c] = 0]
          /\ phase' = "evm" /\ receipt' = receipt \o <<>>
      BY ZenonT(90) DEF EvmSelfDestruct, pairVars, bankVars, Call
    <2>2. receipt' = receipt
      BY <2>0, <2>1, LogsAdded DEF TypeOK
    <2>3. /\ tokens' \in Holdings /\ totalSupply' \in [Contract -> Nat]
          /\ \A k \in Contract \ {c} : tokens'[k] = tokens[k] /\ totalSupply'[k] = totalSupply[k]
      BY ZenonT(90), <2>0, <2>1, LedgersTyped DEF Holdings
    <2>4. TypeOK'
      <3>1. receipt \in Seq(Log) /\ coins \in Balances /\ supply \in [Denom -> Nat]
        BY ZenonT(90), <2>0, LedgersTyped DEF TypeOK
      <3> QED
        BY ZenonT(90), <2>0, <2>1, <2>2, <2>3, <3>1, <1>TypeFrame
    <2>5. NativeCoinBacked'
      <3> SUFFICES ASSUME NEW i \in Id, Registered(i), tokenPairs[i].contractOwner = "module"
                   PROVE  totalSupply'[i[1]] <= coins[ModuleAddress][i[2]]
        BY <2>1 DEF NativeCoinBacked, Registered
      <3>1. i[1] \in Contract \ {c}
        BY <2>0, OwnerSplit, IdFacts
      <3> QED
        BY ZenonT(90), <2>0, <2>3, <3>1 DEF NativeCoinBacked
    <2>6. PendingBacked'
      <3>1. ASSUME NEW i \in Id, Registered(i), i[1] \in code'
            PROVE  i[1] \in code /\ tokens'[i[1]] = tokens[i[1]]
        BY <2>1, <2>3, <3>1, IdFacts
      <3>2. \A i \in Id : Registered(i)' <=> Registered(i)
        BY ZenonT(90), <2>1 DEF Registered
      <3> QED
        BY ZenonT(90), <2>0, <2>1, <2>2, <3>1, <3>2 DEF PendingBacked, Deposit
    <2>7. \A k \in Deployed : k \notin code => totalSupply'[k] = totalSupply[k]
      BY ZenonT(90), <2>0, <2>3, AddrFacts
    <2> QED
      BY ZenonT(90), <2>0, <2>1, <2>4, <2>5, <2>6, <2>7, <1>LedgerFrame
  \* The end of a transaction preserves the invariant.
  <1>PostTxStep.
      ASSUME IndInv, PostTxProcessing
      PROVE  IndInv'
    <2> USE <1>PostTxStep
    <2>0. TypeOK /\ PairsIndexed /\ OwnersKnown /\ NativeCoinBacked /\ PendingBacked
      BY ZenonT(90) DEF IndInv
    <2>1. UNCHANGED <<params, pairVars, tokenPairs, coins, supply, code, tokens, totalSupply, nonce>>
      BY DEF PostTxProcessing, pairVars, bankVars, evmVars
    <2>2. \/ phase' = "hook" /\ receipt' = receipt /\ receipt # <<>>
          \/ phase' = "idle" /\ receipt' = <<>>
      BY ZenonT(90) DEF PostTxProcessing
    <2>3. TypeOK'
      <3>1. receipt' \in Seq(Log) /\ phase' \in {"idle", "evm", "hook"}
        BY ZenonT(90), <2>0, <2>2, LogsAdded DEF TypeOK
      <3> QED
        BY ZenonT(90), <2>0, <2>1, <3>1 DEF TypeOK, pairVars
    <2>4. NativeCoinBacked'
      BY <2>0, <2>1 DEF NativeCoinBacked, Registered
    <2>5. PendingBacked'
      <3>1. CASE receipt' = receipt
        BY ZenonT(90), <2>0, <2>1, <3>1 DEF PendingBacked, Registered, Deposit
      <3>2. CASE receipt' = <<>>
        <4>1. NativeTokenBacked'
          BY <2>0, <2>1, PendingImpliesBacked DEF NativeTokenBacked, Registered
        <4>2. (receipt = <<>>)'
          BY ZenonT(90), <3>2
        <4> QED
          BY <2>3, <4>1, <4>2, PendingEmpty, PTL
      <3> QED
        BY <2>2, <3>1, <3>2
    <2> QED
      BY <2>1, <2>2, <2>3, <2>4, <2>5, <1>LedgerFrame
  \* A log that is not converted preserves the invariant.
  <1>SkipStep.
      ASSUME IndInv, SkipLog
      PROVE  IndInv'
    <2> USE <1>SkipStep
    <2>0. /\ TypeOK /\ PairsIndexed /\ OwnersKnown /\ NativeCoinBacked /\ PendingBacked
          /\ phase = "hook" /\ NextLog
      BY DEF IndInv, SkipLog
    <2>1. UNCHANGED <<params, pairVars, tokenPairs, coins, supply, code, tokens, totalSupply, nonce>>
      BY DEF SkipLog, pairVars, bankVars, evmVars
    <2>2. /\ receipt # <<>> /\ Head(receipt) \in Log
          /\ receipt' = Tail(receipt) /\ receipt' \in Seq(Log)
          /\ phase' \in {"idle", "evm", "hook"}
          /\ phase' = "hook" => receipt' # <<>>
          /\ phase' = "idle" => receipt' = <<>>
      BY ZenonT(90), <2>0, HookFacts
    <2>3. TypeOK'
      BY ZenonT(90), <2>0, <2>1, <2>2 DEF TypeOK, pairVars
    <2>4. NativeCoinBacked'
      BY ZenonT(90), <2>0, <2>1 DEF NativeCoinBacked, Registered
    <2>5. \A id \in Id : supply'[id[2]] <= supply[id[2]] + Deposit(Head(receipt), id[1])
      <3> SUFFICES ASSUME NEW id \in Id
                   PROVE  supply'[id[2]] <= supply[id[2]] + Deposit(Head(receipt), id[1])
        BY ZenonT(90)
      <3>1. supply[id[2]] \in Nat
        BY <2>0, IdFacts DEF TypeOK
      <3>2. Deposit(Head(receipt), id[1]) \in Nat
        BY ZenonT(90), <2>2, DepositIsNat
      <3>3. supply' = supply
        BY ZenonT(90), <2>1
      <3> QED
        BY <3>1, <3>2, <3>3
    <2>6. PendingBacked'
      BY ZenonT(90), <2>0, <2>1, <2>2, <2>3, <2>5, <1>PendingTail
    <2> QED
      BY ZenonT(90), <2>1, <2>2, <2>3, <2>4, <2>6, <1>LedgerFrame
  \* HookNativeCoin preserves the invariant.
  <1>HookNativeCoinStep.
      ASSUME IndInv, HookNativeCoin
      PROVE  IndInv'
    <2> USE <1>HookNativeCoinStep
    <2>0. /\ TypeOK /\ PairsIndexed /\ OwnersKnown /\ NativeCoinBacked /\ PendingBacked
          /\ phase = "hook" /\ NextLog
      BY HookNativeCoinCases DEF IndInv
    <2>1. UNCHANGED <<params, pairVars, tokenPairs, code, nonce>>
      BY HookNativeCoinCases DEF pairVars
    <2>2. /\ receipt # <<>> /\ Head(receipt) \in Log
          /\ receipt' = Tail(receipt) /\ receipt' \in Seq(Log)
          /\ phase' \in {"idle", "evm", "hook"}
          /\ phase' = "hook" => receipt' # <<>>
          /\ phase' = "idle" => receipt' = <<>>
      BY <2>0, HookFacts
    <2>3. CASE UNCHANGED <<coins, supply, tokens, totalSupply>>
      <3>1. TypeOK'
        BY ZenonT(90), <2>0, <2>1, <2>2, <2>3 DEF TypeOK, pairVars
      <3>2. NativeCoinBacked'
        BY ZenonT(90), <2>0, <2>1, <2>3 DEF NativeCoinBacked, Registered
      <3>3. \A i \in Id : supply'[i[2]] <= supply[i[2]] + Deposit(Head(receipt), i[1])
        <4> SUFFICES ASSUME NEW i \in Id
                     PROVE  supply'[i[2]] <= supply[i[2]] + Deposit(Head(receipt), i[1])
          OBVIOUS
        <4>1. supply[i[2]] \in Nat
          BY <2>0, IdFacts DEF TypeOK
        <4>2. Deposit(Head(receipt), i[1]) \in Nat
          BY <2>2, DepositIsNat
        <4>3. supply' = supply
          BY ZenonT(90), <2>3
        <4> QED
          BY <4>1, <4>2, <4>3
      <3>4. PendingBacked'
        BY ZenonT(90), <2>0, <2>1, <2>2, <2>3, <3>1, <3>3, <1>PendingTail
      <3> QED
        BY ZenonT(90), <2>1, <2>2, <2>3, <3>1, <3>2, <3>4, <1>LedgerFrame
    <2>4. CASE \E id \in Id, a \in Nat : HookBurnt(id, a)
      <3>0. PICK id \in Id, a \in Nat : HookBurnt(id, a)
        BY ZenonT(90), <2>4
      <3>1. /\ Registered(id) /\ tokenPairs[id].contractOwner = "module" /\ supply' = supply
            /\ id[1] \in Contract /\ id[2] \in Denom /\ LedgerTypes
            /\ id[1] \in Deployed /\ id[1] \notin External
        BY ZenonT(90), <2>0, <3>0, IdFacts, OwnerSplit DEF HookBurnt
      <3>2. TypeOK'
        <4>1. code' \subseteq code /\ UNCHANGED <<params, pairVars, nonce>>
          BY ZenonT(90), <2>1
        <4>2. coins' \in Balances /\ supply' \in [Denom -> Nat] /\ tokens' \in Holdings
              /\ totalSupply' \in [Contract -> Nat]
          BY <3>1 DEF LedgerTypes
        <4> QED
          BY ZenonT(90), <2>0, <2>2, <4>1, <4>2, <1>TypeFrame
      <3>3. NativeCoinBacked'
        <4> SUFFICES ASSUME NEW i \in Id, Registered(i), tokenPairs[i].contractOwner = "module"
                     PROVE  totalSupply'[i[1]] <= coins'[ModuleAddress][i[2]]
          BY ZenonT(90), <2>1 DEF NativeCoinBacked, Registered
        <4>1. totalSupply[i[1]] <= coins[ModuleAddress][i[2]]
          BY ZenonT(90), <2>0 DEF NativeCoinBacked
        <4>2. CASE i = id
          <5>1. totalSupply[id[1]] \in Nat
            BY ZenonT(90), <2>0, <3>1 DEF TypeOK
          <5>2. coins[ModuleAddress][id[2]] \in Nat
            BY <2>0, <3>1, AddrFacts DEF TypeOK
          <5>3. /\ totalSupply'[id[1]] = totalSupply[id[1]] - a
                /\ \/ coins'[ModuleAddress][id[2]] = coins[ModuleAddress][id[2]]
                   \/ coins'[ModuleAddress][id[2]] = coins[ModuleAddress][id[2]] - a
            BY ZenonT(90), <3>0 DEF HookBurnt
          <5> QED
            BY <4>1, <4>2, <5>1, <5>2, <5>3
        <4>3. CASE i # id
          <5>1. i[1] # id[1] /\ i[2] # id[2] /\ i[1] \in Contract /\ i[2] \in Denom
            BY ZenonT(90), <2>0, <3>1, <4>3, PairUnique, IdFacts
          <5> QED
            BY ZenonT(90), <3>0, <4>1, <5>1 DEF HookBurnt
        <4> QED
          BY ZenonT(90), <4>2, <4>3
      <3>4. \A i \in Id : supply'[i[2]] <= supply[i[2]] + Deposit(Head(receipt), i[1])
        <4> SUFFICES ASSUME NEW i \in Id
                     PROVE  supply[i[2]] <= supply[i[2]] + Deposit(Head(receipt), i[1])
          BY ZenonT(90), <3>1
        <4>1. supply[i[2]] \in Nat
          BY <2>0, IdFacts DEF TypeOK
        <4>2. Deposit(Head(receipt), i[1]) \in Nat
          BY <2>2, DepositIsNat
        <4> QED
          BY <4>1, <4>2
      <3>5. \A k \in External : tokens'[k][ModuleAddress] = tokens[k][ModuleAddress]
        BY ZenonT(90), <3>0, <3>1, AddrFacts DEF HookBurnt
      <3>6. PendingBacked'
        BY ZenonT(90), <2>0, <2>1, <2>2, <3>2, <3>4, <3>5, <1>PendingTail
      <3>7. \A k \in Deployed : k \notin code => totalSupply'[k] = totalSupply[k]
        <4>1. id[1] \in code
          BY ZenonT(90), <2>0, <3>1, ConstantsAssumption DEF OwnersKnown, PairsIndexed,
             IsERC20Registered
        <4> QED
          BY ZenonT(90), <3>0, <4>1, AddrFacts DEF HookBurnt
      <3> QED
        BY ZenonT(90), <2>1, <2>2, <3>1, <3>2, <3>3, <3>6, <3>7, <1>LedgerFrame
    <2> QED
      BY <2>3, <2>4, HookNativeCoinCases
  \* HookNativeToken preserves the invariant.
  <1>HookNativeTokenStep.
      ASSUME IndInv, HookNativeToken
      PROVE  IndInv'
    <2> USE <1>HookNativeTokenStep
    <2>0. /\ TypeOK /\ PairsIndexed /\ OwnersKnown /\ NativeCoinBacked /\ PendingBacked
          /\ phase = "hook" /\ NextLog
      BY HookNativeTokenEffect DEF IndInv
    <2>1. PICK id \in Id, a \in Nat : HookMinted(id, a)
      BY ZenonT(90), HookNativeTokenEffect
    <2>2. UNCHANGED <<params, pairVars, tokenPairs, code, nonce, tokens, totalSupply>>
      BY ZenonT(90), <2>1, HookNativeTokenEffect DEF pairVars, HookMinted
    <2>3. /\ receipt # <<>> /\ Head(receipt) \in Log
          /\ receipt' = Tail(receipt) /\ receipt' \in Seq(Log)
          /\ phase' \in {"idle", "evm", "hook"}
          /\ phase' = "hook" => receipt' # <<>>
          /\ phase' = "idle" => receipt' = <<>>
      BY ZenonT(90), <2>0, HookFacts
    <2>4. /\ Registered(id) /\ tokenPairs[id].contractOwner = "external"
          /\ id[1] \in Contract /\ id[2] \in Denom /\ metadata[id[2]] # NoMetadata
          /\ coins' \in Balances /\ supply' \in [Denom -> Nat]
      BY ZenonT(90), <2>0, <2>1, IdFacts, OwnerSplit DEF HookMinted
    <2>5. TypeOK'
      <3>1. code' \subseteq code /\ UNCHANGED <<params, pairVars, nonce>>
        BY <2>2
      <3>2. tokens' \in Holdings /\ totalSupply' \in [Contract -> Nat]
        BY ZenonT(90), <2>0, <2>2, LedgersTyped
      <3> QED
        BY ZenonT(90), <2>0, <2>3, <2>4, <3>1, <3>2, <1>TypeFrame
    <2>6. NativeCoinBacked'
      <3> SUFFICES ASSUME NEW i \in Id, Registered(i), tokenPairs[i].contractOwner = "module"
                   PROVE  totalSupply[i[1]] <= coins'[ModuleAddress][i[2]]
        BY ZenonT(90), <2>2 DEF NativeCoinBacked, Registered
      <3>1. totalSupply[i[1]] <= coins[ModuleAddress][i[2]]
        BY <2>0 DEF NativeCoinBacked
      <3>2. i # id
        BY ZenonT(90), <2>4
      <3>3. i[2] # id[2] /\ i[2] \in Denom
        BY ZenonT(90), <2>0, <2>4, <3>2, PairUnique, IdFacts
      <3> QED
        BY ZenonT(90), <2>1, <3>1, <3>3 DEF HookMinted
    <2>7. \A i \in Id : Escrowing(i) => supply'[i[2]] <= supply[i[2]] + Deposit(Head(receipt), i[1])
      <3> SUFFICES ASSUME NEW i \in Id, Registered(i)
                   PROVE  supply'[i[2]] <= supply[i[2]] + Deposit(Head(receipt), i[1])
        BY ZenonT(90) DEF Escrowing
      <3>1. supply[i[2]] \in Nat
        BY <2>0, IdFacts DEF TypeOK
      <3>2. Deposit(Head(receipt), i[1]) \in Nat
        BY ZenonT(90), <2>3, DepositIsNat
      <3>3. CASE i = id
        <4>1. supply'[i[2]] = supply[i[2]] + Deposit(Head(receipt), i[1])
          BY ZenonT(90), <2>1, <3>3 DEF HookMinted
        <4> QED
          BY ZenonT(90), <3>1, <3>2, <4>1, GrowsByDeposit
      <3>4. CASE i # id
        <4>1. i[2] # id[2] /\ i[2] \in Denom
          BY ZenonT(90), <2>0, <2>4, <3>4, PairUnique, IdFacts
        <4>2. supply'[i[2]] = supply[i[2]]
          BY ZenonT(90), <2>1, <4>1 DEF HookMinted
        <4> QED
          BY <3>1, <3>2, <4>2
      <3> QED
        BY ZenonT(90), <3>3, <3>4
    <2>8. PendingBacked'
      BY ZenonT(90), <2>0, <2>2, <2>3, <2>5, <2>7, <1>PendingTail
    <2>9. \A c \in Contract : metadata[CreateDenom(c)] = NoMetadata =>
              supply'[CreateDenom(c)] = supply[CreateDenom(c)]
      <3> SUFFICES ASSUME NEW c \in Contract, metadata[CreateDenom(c)] = NoMetadata
                   PROVE  supply'[CreateDenom(c)] = supply[CreateDenom(c)]
        BY ZenonT(90)
      <3>1. CreateDenom(c) # id[2] /\ CreateDenom(c) \in Denom
        BY ZenonT(90), <2>4, AddrFacts
      <3> QED
        BY ZenonT(90), <2>1, <3>1 DEF HookMinted
    <2> QED
      BY ZenonT(90), <2>2, <2>3, <2>5, <2>6, <2>8, <2>9, <1>LedgerFrame
  \* A step that changes nothing preserves the invariant.
  <1>StutterStep.
      ASSUME IndInv, UNCHANGED vars
      PROVE  IndInv'
    <2> USE <1>StutterStep
    <2>1. UNCHANGED <<params, pairVars, tokenPairs, denomIndex, erc20Index, metadata, coins, supply,
                      code, tokens, totalSupply, nonce, phase, receipt>>
      BY ZenonT(90) DEF vars, pairVars, bankVars, evmVars, txVars
    <2>2. TypeOK'
      BY ZenonT(90), <2>1 DEF IndInv, TypeOK
    <2>3. NativeCoinBacked'
      BY ZenonT(90), <2>1 DEF IndInv, NativeCoinBacked, Registered
    <2>4. PendingBacked'
      BY ZenonT(90), <2>1 DEF IndInv, PendingBacked, Registered, Deposit
    <2>5. (phase = "hook" => receipt # <<>>) /\ (phase = "idle" => receipt = <<>>)
      BY DEF IndInv
    <2> QED
      BY ZenonT(90), <2>1, <2>2, <2>3, <2>4, <2>5, <1>LedgerFrame
  <1> SUFFICES ASSUME IndInv, StepKind \/ UNCHANGED vars PROVE IndInv'
    BY ZenonT(90)
  <1>1. CASE UNCHANGED vars
    BY ZenonT(90), <1>1, <1>StutterStep
  <1>2. CASE StepKind
    BY ZenonT(90), <1>2, <1>RegisterCoinStep, <1>RegisterERC20Step, <1>ToggleStep, <1>ParamsStep,
       <1>ExchangeStep, <1>RemoveStep, <1>EvmStep, <1>SelfDestructStep, <1>PostTxStep, <1>SkipStep,
       <1>HookNativeCoinStep, <1>HookNativeTokenStep DEF StepKind
  <1> QED
    BY <1>1, <1>2

=============================================================================
