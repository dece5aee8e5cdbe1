---------------------------- MODULE ModuleProofs ----------------------------
(***************************************************************************)
(* The theorems of x/epochs, x/inflation and x/govshuttle.                 *)
(*                                                                         *)
(* The clocks of x/epochs are exact for any set of identifiers, durations  *)
(* and start times, and any sequence of block times.  When the minting     *)
(* epoch is the day, the epoch in which skipped epochs are counted, every  *)
(* inflation period has exactly EpochsPerPeriod mints, of one amount.  For *)
(* every precision of the decimals and all valid parameters, the provision *)
(* does not grow from one period to the next, and what is minted is        *)
(* allocated: this rests on lemmas on the rounded operations of LegacyDec. *)
(* The proposal store holds exactly what governance executed, for any      *)
(* number and any order of proposals.                                      *)
(***************************************************************************)
EXTENDS Inflation, Govshuttle, SumLemmas

\* The provers that try a leaf, one after the other, and the seconds each of them has.
USE SMTT(60), ZenonT(60), Z3T(60)

-----------------------------------------------------------------------------
(* The proposal store.                                                     *)

\* The inductive invariant: the port, once set, leads to a contract whose storage is what
\* was executed, and what is stored under an id carries that id.
StoreInv ==
  /\ proposalID \in 1..(MaxProposals + 1)
  /\ sequence \in Nat
  /\ port \in Nat \cup {None}
  /\ executed \in [Id -> Proposal \cup {None}]
  /\ \A id \in Id : executed[id] # None => executed[id].id = id
  /\ IF port = None THEN \A id \in Id : executed[id] = None
     ELSE port \in DOMAIN proposals /\ proposals[port] = executed

\* StoreInv says what QueryProp returns.
LEMMA StoreInvImplies == StoreInv => StoreIsExecuted
<1> SUFFICES ASSUME StoreInv, port # None, NEW id \in Id
             PROVE  QueryProp(id) = executed[id]
  BY ZenonT(90) DEF StoreInv, StoreIsExecuted
<1>1. proposals[port][id] = executed[id] /\ (executed[id] # None => executed[id].id = id)
  BY DEF StoreInv
<1> QED
  BY ZenonT(90), <1>1 DEF QueryProp

\* A new chain has executed nothing.
LEMMA InitStoreInv == GovshuttleInit => StoreInv
<1> SUFFICES ASSUME GovshuttleInit PROVE StoreInv
  OBVIOUS
<1>1. MaxProposals \in Nat
  BY ZenonT(90), GovshuttleAssumption
<1> QED
  BY <1>1 DEF GovshuttleInit, StoreInv

\* A message of governance becomes a proposal with an id of its own.
LEMMA ProposalTyped ==
  ASSUME StoreInv, NEW lm \in LendingMsg
  PROVE  ToProposal(lm) \in Proposal /\ ToProposal(lm).id \in Id
<1>1. MaxProposals \in Nat /\ proposalID \in Id
  BY GovshuttleAssumption DEF StoreInv, Id
<1>2. /\ lm.propId \in Id /\ lm.body \in Body /\ lm.calldatas \in Length
      /\ lm.values \in Length /\ lm.signatures \in Length
  BY ZenonT(90) DEF LendingMsg
<1> QED
  BY ZenonT(90), <1>1, <1>2 DEF ToProposal, Proposal

\* AppendLendingMarketProposal stores the proposal that it is given, whether it deploys the
\* contract or finds it.
LEMMA AppendStores ==
  ASSUME StoreInv, NEW lm \in LendingMsg, AppendLendingMarketProposal(lm),
         executed' = [executed EXCEPT ![ToProposal(lm).id] = ToProposal(lm)],
         UNCHANGED proposalID
  PROVE  StoreInv'
<1> DEFINE prop == ToProposal(lm)
           addr == IF port = None THEN CreateAddress(sequence) ELSE port
           store == IF port = None THEN Constructor(prop) ELSE proposals[port]
<1>1. prop \in Proposal /\ prop.id \in Id
  BY ProposalTyped
<1>2. /\ port' = addr /\ sequence' = IF port = None THEN sequence + 1 ELSE sequence
      /\ proposals' = [a \in DOMAIN proposals \cup {addr} |->
                         IF a = addr THEN AddProposal(store, prop) ELSE proposals[a]]
  BY ZenonT(90) DEF AppendLendingMarketProposal
<1>3. executed' = [executed EXCEPT ![prop.id] = prop]
  BY ZenonT(90)
<1> HIDE DEF prop
<1>4. addr \in Nat /\ addr # None
  BY ZenonT(90), GovshuttleAssumption DEF StoreInv, CreateAddress
<1>5. sequence' \in Nat
  BY <1>2 DEF StoreInv
<1>6. AddProposal(store, prop) = executed'
  <2>1. CASE port = None
    <3>1. executed = [id \in Id |-> None]
      BY <2>1 DEF StoreInv
    <3>2. store = executed'
      BY ZenonT(90), <1>3, <2>1, <3>1 DEF Constructor, AddProposal
    <3>3. AddProposal(store, prop) = [store EXCEPT ![prop.id] = prop]
      BY DEF AddProposal
    <3> HIDE DEF store
    <3> QED
      BY ZenonT(90), <1>1, <1>3, <3>1, <3>2, <3>3
  <2>2. CASE port # None
    <3>1. store = executed
      BY ZenonT(90), <2>2 DEF StoreInv
    <3> QED
      BY ZenonT(90), <1>3, <3>1 DEF AddProposal
  <2> QED
    BY <2>1, <2>2
<1> HIDE DEF addr, store
<1>7. port' \in DOMAIN proposals' /\ proposals'[port'] = executed'
  BY <1>2, <1>6
<1>8. /\ executed' \in [Id -> Proposal \cup {None}]
      /\ \A id \in Id : executed'[id] # None => executed'[id].id = id
  BY ZenonT(90), <1>1, <1>3 DEF StoreInv
<1> QED
  BY ZenonT(90), <1>2, <1>4, <1>5, <1>7, <1>8 DEF StoreInv

\* Only governance delivers, and what it delivers is stored.
LEMMA DeliverStores ==
  ASSUME StoreInv, NEW signer, NEW p \in Id \X Msg, Deliver(signer, p)
  PROVE  StoreInv'
<1> DEFINE lm == ToLending(p[2])
<1>1. Handle(signer, p[2])
  BY DEF Deliver
<1>2. signer = Gov
  BY <1>1 DEF Handle, LendingMarketProposal, TreasuryProposal
<1>3. p[2] \in Lending \/ p[2] \in Treasury
  BY DEF Msg
<1>a. Lending \subseteq LendingMsg /\ Treasury \subseteq TreasuryMsg /\ Lending \cap Treasury = {}
  <2>1. \A x \in LendingMsg, y \in TreasuryMsg : x # y
    BY DEF LendingMsg, TreasuryMsg
  <2> QED
    BY ZenonT(90), <2>1, GovshuttleAssumption
<1>4. lm \in LendingMsg
  <2>1. CASE p[2] \in Lending
    BY ZenonT(90), <2>1, GovshuttleAssumption DEF ToLending
  <2>2. CASE p[2] \notin Lending
    <3>1. p[2].propId \in Id /\ p[2].recipient \in Body
      BY ZenonT(90), <1>3, <2>2, GovshuttleAssumption DEF TreasuryMsg
    <3>2. lm = FromTreasuryToLendingMarket(p[2])
      BY ZenonT(90), <2>2 DEF ToLending
    <3> QED
      BY <3>1, <3>2 DEF FromTreasuryToLendingMarket, LendingMsg, Length
  <2> QED
    BY <2>1, <2>2
<1>5. AppendLendingMarketProposal(lm)
  <2>1. CASE p[2] \in Lending /\ LendingMarketProposal(signer, p[2])
    BY <2>1 DEF LendingMarketProposal, ToLending
  <2>2. CASE p[2] \in Treasury /\ TreasuryProposal(signer, p[2])
    <3>1. p[2] \notin Lending
      BY <1>a, <2>2
    <3> QED
      BY <2>2, <3>1 DEF TreasuryProposal, ToLending
  <2> QED
    BY ZenonT(90), <1>1, <2>1, <2>2 DEF Handle
<1>6. executed' = [executed EXCEPT ![ToProposal(lm).id] = ToProposal(lm)]
  BY <1>2, ZenonT(90) DEF Deliver
<1>7. UNCHANGED proposalID
  BY DEF Deliver
<1> HIDE DEF lm
<1> QED
  BY ZenonT(90), <1>4, <1>5, <1>6, <1>7, AppendStores

\* StoreIsExecuted: whatever governance executes, in any order and however often under one
\* id, is what QueryProp of the port returns, also after a restart from genesis.
THEOREM StoreSafe == GovshuttleSpec => []StoreIsExecuted
<1>1. GovshuttleInit => StoreInv
  BY InitStoreInv
<1>2. StoreInv /\ [GovshuttleNext]_govshuttleVars => StoreInv'
  <2> SUFFICES ASSUME StoreInv, [GovshuttleNext]_govshuttleVars PROVE StoreInv'
    OBVIOUS
  <2>1. CASE \E msg \in Msg : SubmitProposal(msg)
    <3>1. /\ proposalID <= MaxProposals /\ proposalID' = proposalID + 1
          /\ UNCHANGED <<port, sequence, proposals, executed>>
      BY ZenonT(90), <2>1 DEF SubmitProposal
    <3>2. proposalID' \in 1..(MaxProposals + 1)
      BY <3>1, GovshuttleAssumption DEF StoreInv
    <3> QED
      BY <3>1, <3>2 DEF StoreInv
  <2>2. CASE \E signer \in {Gov, User}, p \in Id \X Msg : Deliver(signer, p)
    BY <2>2, DeliverStores, ZenonT(90)
  <2>3. CASE \E p \in active : RejectOrFail(p)
    BY ZenonT(90), <2>3 DEF RejectOrFail, StoreInv
  <2>4. CASE InitGenesis(ExportGenesis)
    BY ZenonT(90), <2>4 DEF InitGenesis, ExportGenesis, StoreInv
  <2>5. CASE UNCHANGED govshuttleVars
    BY <2>5 DEF govshuttleVars, StoreInv
  <2> QED
    BY ZenonT(90), <2>1, <2>2, <2>3, <2>4, <2>5 DEF GovshuttleNext
<1>3. StoreInv => StoreIsExecuted
  BY StoreInvImplies
<1> QED
  BY <1>1, <1>2, <1>3, PTL DEF GovshuttleSpec

-----------------------------------------------------------------------------
(* Epochs.                                                                 *)

EpochsInv == EpochsTypeOK /\ ClockExact

\* ClockExact for one clock.
ExactAt(id, info, time) ==
  IF info.epochCountingStarted
    THEN /\ info.currentEpoch >= 1
         /\ info.currentEpochStartTime = info.startTime + (info.currentEpoch - 1) * Duration[id]
         /\ info.currentEpochStartTime <= time
    ELSE info.currentEpoch = 0

\* Ending an epoch moves the start by one duration.
LEMMA NextStart ==
  ASSUME NEW s \in Nat, NEW n \in Nat, NEW d \in Nat
  PROVE  s + (n - 1) * d + d = s + ((n + 1) - 1) * d
<1>1. ((n + 1) - 1) * d = (n - 1) * d + d  OBVIOUS
<1>2. (n - 1) * d \in Int  OBVIOUS
<1> QED  BY <1>1, <1>2

\* The BeginBlocker's step of one clock keeps it exact and well typed.
LEMMA TickExact ==
  ASSUME NEW id \in Identifier, NEW info \in EpochInfo, NEW t \in Nat, NEW time \in Nat,
         t <= time, ExactAt(id, info, t)
  PROVE  /\ Tick(id, info, time) \in EpochInfo
         /\ ExactAt(id, Tick(id, info, time), time)
         /\ HookNumber(id, info, time) \in Nat
         /\ Tick(id, info, time).startTime = info.startTime
<1> DEFINE d == Duration[id]
<1>0. d \in Nat \ {0}  BY EpochsAssumption
<1>1. CASE ShouldInitialEpochStart(info, time)
  <2> DEFINE new == StartInitialEpoch(info)
  <2>1. /\ new \in EpochInfo /\ new.epochCountingStarted /\ new.currentEpoch = 1
        /\ new.currentEpochStartTime = info.startTime /\ new.startTime = info.startTime
    BY ZenonT(90) DEF StartInitialEpoch, EpochInfo
  <2>2. info.startTime \in Nat /\ info.startTime <= time
    BY <1>1 DEF ShouldInitialEpochStart, EpochInfo
  <2>3. info.startTime = info.startTime + (1 - 1) * d  BY <1>0, <2>2
  <2>4. ExactAt(id, new, time)  BY <2>1, <2>2, <2>3 DEF ExactAt
  <2>5. Tick(id, info, time) = new  BY <1>1 DEF Tick
  <2>6. HookNumber(id, info, time) = NoCall  BY <1>1 DEF HookNumber, ShouldEpochEnd
  <2> QED  BY <2>1, <2>4, <2>5, <2>6 DEF NoCall
<1>2. CASE ~ShouldInitialEpochStart(info, time) /\ ShouldEpochEnd(id, info, time)
  <2> DEFINE new == EndEpoch(id, info)
  <2>1. /\ new \in EpochInfo /\ new.epochCountingStarted = info.epochCountingStarted
        /\ new.currentEpoch = info.currentEpoch + 1
        /\ new.currentEpochStartTime = info.currentEpochStartTime + d
        /\ new.startTime = info.startTime
    <3>1. info.currentEpoch + 1 \in Nat /\ info.currentEpochStartTime + d \in Nat
      BY <1>0 DEF EpochInfo
    <3> QED  BY ZenonT(90), <3>1 DEF EndEpoch, EpochInfo
  <2>2. info.epochCountingStarted
    BY <1>2 DEF ShouldInitialEpochStart, ShouldEpochEnd, EpochInfo
  <2>3. time > info.currentEpochStartTime + d  BY <1>2 DEF ShouldEpochEnd
  <2>4. /\ info.currentEpoch >= 1
        /\ info.currentEpochStartTime = info.startTime + (info.currentEpoch - 1) * d
    BY <2>2 DEF ExactAt
  <2>5. /\ info.startTime \in Nat /\ info.currentEpoch \in Nat
        /\ info.currentEpochStartTime \in Nat
    BY DEF EpochInfo
  <2>6. info.currentEpochStartTime + d = info.startTime + ((info.currentEpoch + 1) - 1) * d
    BY <1>0, <2>4, <2>5, NextStart
  <2>7. new.currentEpochStartTime = new.startTime + (new.currentEpoch - 1) * d
    BY <2>1, <2>6
  <2>8. new.currentEpoch >= 1 /\ new.currentEpochStartTime <= time
    BY <1>0, <2>1, <2>3, <2>5
  <2>9. ExactAt(id, new, time)
    <3>1. new.epochCountingStarted  BY <2>1, <2>2
    <3> HIDE DEF new
    <3> QED  BY <3>1, <2>7, <2>8 DEF ExactAt
  <2>10. Tick(id, info, time) = new  BY <1>2 DEF Tick
  <2>11. HookNumber(id, info, time) = new.currentEpoch  BY <1>2 DEF HookNumber
  <2>12. new.currentEpoch \in Nat  BY <2>1, <2>5
  <2> HIDE DEF new
  <2> QED  BY <2>1, <2>9, <2>10, <2>11, <2>12
<1>3. CASE ~ShouldInitialEpochStart(info, time) /\ ~ShouldEpochEnd(id, info, time)
  <2>1. Tick(id, info, time) = info  BY <1>3 DEF Tick
  <2>2. HookNumber(id, info, time) = NoCall  BY <1>3 DEF HookNumber
  <2>3. ExactAt(id, info, time)
    <3>1. info.currentEpochStartTime \in Nat  BY DEF EpochInfo
    <3> QED  BY <3>1 DEF ExactAt
  <2> QED  BY <2>1, <2>2, <2>3 DEF NoCall
<1> QED  BY <1>1, <1>2, <1>3

\* ClockExact speaks of each clock by itself.
LEMMA ExactByClock ==
  ClockExact <=> \A id \in Identifier : ExactAt(id, epochInfo[id], blockTime)
BY DEF ClockExact, ExactAt

\* The clocks of a new chain have not started.
LEMMA EpochsInitInv == EpochsInit => EpochsInv
<1> SUFFICES ASSUME EpochsInit PROVE EpochsInv  OBVIOUS
<1>1. EpochsTypeOK
  BY EpochsAssumption DEF EpochsInit, EpochsTypeOK, EpochInfo, NoCall
<1>2. ClockExact  BY ZenonT(90) DEF EpochsInit, ClockExact
<1> QED  BY <1>1, <1>2 DEF EpochsInv

\* A block keeps every clock exact.
LEMMA BlockKeepsClocks ==
  ASSUME EpochsInv, NEW time \in BlockTimes, BeginBlocker(time)
  PROVE  EpochsInv'
<1>1. blockTime \in Nat /\ time \in Nat /\ blockTime <= time
  BY EpochsAssumption DEF EpochsInv, EpochsTypeOK, BlockTimes
<1>2. ASSUME NEW id \in Identifier
      PROVE  /\ Tick(id, epochInfo[id], time) \in EpochInfo
             /\ ExactAt(id, Tick(id, epochInfo[id], time), time)
             /\ HookNumber(id, epochInfo[id], time) \in Nat
  <2>1. epochInfo[id] \in EpochInfo  BY DEF EpochsInv, EpochsTypeOK
  <2>2. ExactAt(id, epochInfo[id], blockTime)  BY ExactByClock DEF EpochsInv
  <2> QED  BY <1>1, <2>1, <2>2, TickExact
<1>3. EpochsTypeOK'
  BY <1>1, <1>2 DEF EpochsTypeOK, BeginBlocker
<1>4. \A id \in Identifier : ExactAt(id, epochInfo'[id], blockTime')
  BY <1>2 DEF BeginBlocker
<1>5. ClockExact'  BY <1>4 DEF ClockExact, ExactAt
<1> QED  BY <1>3, <1>5 DEF EpochsInv

\* Every clock of x/epochs is exact at all times (ClockExact), for every genesis.
THEOREM ClocksExact == EpochsSpec => []ClockExact
<1>1. EpochsInit => EpochsInv  BY EpochsInitInv
<1>2. EpochsInv /\ [EpochsNext]_epochVars => EpochsInv'
  <2>1. CASE EpochsNext
    BY <2>1, BlockKeepsClocks DEF EpochsNext, NextBlock
  <2>2. CASE UNCHANGED epochVars
    BY <2>2 DEF epochVars, EpochsInv, EpochsTypeOK, ClockExact
  <2> QED  BY <2>1, <2>2
<1>3. EpochsInv => ClockExact  BY DEF EpochsInv
<1> QED  BY <1>1, <1>2, <1>3, PTL DEF EpochsSpec

\* The hook runs exactly when a running counter moves, by one (HooksInOrder).
THEOREM HooksOnceInOrder == EpochsSpec => HooksInOrder
<1> DEFINE Step(id) ==
      IF hookCall'[id] # NoCall
        THEN epochInfo'[id].currentEpoch = epochInfo[id].currentEpoch + 1
             /\ epochInfo[id].epochCountingStarted
        ELSE epochInfo'[id].currentEpoch > epochInfo[id].currentEpoch
               => ~epochInfo[id].epochCountingStarted
<1>1. EpochsInit => EpochsInv  BY EpochsInitInv
<1>2. EpochsInv /\ [EpochsNext]_epochVars => EpochsInv'
  <2>1. CASE EpochsNext
    BY <2>1, BlockKeepsClocks DEF EpochsNext, NextBlock
  <2>2. CASE UNCHANGED epochVars
    BY <2>2 DEF epochVars, EpochsInv, EpochsTypeOK, ClockExact
  <2> QED  BY <2>1, <2>2
<1>3. EpochsInv /\ [EpochsNext]_epochVars => [\A id \in Identifier : Step(id)]_epochVars
  <2> SUFFICES ASSUME EpochsInv, EpochsNext, NEW id \in Identifier PROVE Step(id)
    OBVIOUS
  <2>1. PICK time \in BlockTimes : BeginBlocker(time)  BY DEF EpochsNext, NextBlock
  <2> DEFINE info == epochInfo[id]
  <2>2. info \in EpochInfo  BY DEF EpochsInv, EpochsTypeOK
  <2>3. /\ epochInfo'[id] = Tick(id, info, time)
        /\ hookCall'[id] = HookNumber(id, info, time)
    BY <2>1 DEF BeginBlocker
  <2>4. CASE ShouldEpochEnd(id, info, time)
    <3>1. Tick(id, info, time) = EndEpoch(id, info)
      BY <2>4 DEF Tick, ShouldEpochEnd
    <3>2. /\ info.currentEpoch \in Nat
          /\ EndEpoch(id, info).currentEpoch = info.currentEpoch + 1
      BY <2>2 DEF EndEpoch, EpochInfo
    <3>3. info.epochCountingStarted
      BY <2>2, <2>4 DEF ShouldEpochEnd, ShouldInitialEpochStart, EpochInfo
    <3>4. hookCall'[id] = info.currentEpoch + 1
      BY <2>3, <2>4, <3>2 DEF HookNumber
    <3> QED  BY <2>3, <3>1, <3>2, <3>3, <3>4 DEF NoCall
  <2>5. CASE ~ShouldEpochEnd(id, info, time)
    <3>1. hookCall'[id] = NoCall  BY <2>3, <2>5 DEF HookNumber
    <3>2. CASE ShouldInitialEpochStart(info, time)
      BY <3>1, <3>2 DEF ShouldInitialEpochStart
    <3>3. CASE ~ShouldInitialEpochStart(info, time)
      <4>1. epochInfo'[id] = info  BY <2>3, <2>5, <3>3 DEF Tick
      <4>2. info.currentEpoch \in Nat  BY <2>2 DEF EpochInfo
      <4> QED  BY <3>1, <4>1, <4>2
    <3> QED  BY <3>2, <3>3
  <2> QED  BY <2>4, <2>5
<1> QED  BY <1>1, <1>2, <1>3, PTL DEF EpochsSpec, HooksInOrder

-----------------------------------------------------------------------------
(* Inflation.                                                              *)

Counters == period \in Nat /\ skippedEpochs \in Nat /\ periodMints \in Nat

PeriodInv == EpochsInv /\ Counters /\ PeriodClock

\* The three things a block can do to the clock of identifier id.
NotRunning(id) ==
  /\ ~epochInfo[id].epochCountingStarted
  /\ hookCall'[id] = NoCall
  /\ epochInfo'[id].epochCountingStarted => epochInfo'[id].currentEpoch = 1
Ended(id) ==
  /\ epochInfo[id].epochCountingStarted /\ epochInfo'[id].epochCountingStarted
  /\ epochInfo'[id].currentEpoch = epochInfo[id].currentEpoch + 1
  /\ hookCall'[id] = epochInfo[id].currentEpoch + 1
  /\ hookCall'[id] # NoCall
Running(id) ==
  /\ epochInfo[id].epochCountingStarted
  /\ epochInfo'[id] = epochInfo[id]
  /\ hookCall'[id] = NoCall

\* A block leaves a clock that does not run without a call of the hook, ends an epoch of
\* a running one, or leaves that as it is (BeginBlocker).
LEMMA ClockCases ==
  ASSUME EpochsInv, NEW time \in BlockTimes, BeginBlocker(time), NEW id \in Identifier
  PROVE  NotRunning(id) \/ Ended(id) \/ Running(id)
<1> DEFINE info == epochInfo[id]
<1>1. info \in EpochInfo  BY DEF EpochsInv, EpochsTypeOK
<1>2. /\ epochInfo'[id] = Tick(id, info, time)
      /\ hookCall'[id] = HookNumber(id, info, time)
  BY DEF BeginBlocker
<1>3. CASE ShouldInitialEpochStart(info, time)
  <2>1. StartInitialEpoch(info).currentEpoch = 1
    BY <1>1 DEF StartInitialEpoch, EpochInfo
  <2>2. epochInfo'[id].currentEpoch = 1  BY <1>2, <1>3, <2>1 DEF Tick
  <2>3. hookCall'[id] = NoCall  BY <1>2, <1>3 DEF HookNumber, ShouldEpochEnd
  <2> QED  BY <1>3, <2>2, <2>3 DEF NotRunning, ShouldInitialEpochStart
<1>4. CASE ShouldEpochEnd(id, info, time)
  <2>1. Tick(id, info, time) = EndEpoch(id, info)
    BY <1>4 DEF Tick, ShouldEpochEnd
  <2>2. /\ EndEpoch(id, info).currentEpoch = info.currentEpoch + 1
        /\ EndEpoch(id, info).epochCountingStarted = info.epochCountingStarted
    BY <1>1 DEF EndEpoch, EpochInfo
  <2>3. info.epochCountingStarted
    BY <1>1, <1>4 DEF ShouldEpochEnd, ShouldInitialEpochStart, EpochInfo
  <2>4. hookCall'[id] = info.currentEpoch + 1  BY <1>2, <1>4, <2>2 DEF HookNumber
  <2>5. info.currentEpoch + 1 # NoCall
    <3>1. info.currentEpoch \in Nat  BY <1>1 DEF EpochInfo
    <3> QED  BY <3>1 DEF NoCall
  <2> QED  BY <1>2, <2>1, <2>2, <2>3, <2>4, <2>5 DEF Ended
<1>5. CASE ~ShouldInitialEpochStart(info, time) /\ ~ShouldEpochEnd(id, info, time)
  <2>1. epochInfo'[id] = info  BY <1>2, <1>5 DEF Tick
  <2>2. hookCall'[id] = NoCall  BY <1>2, <1>5 DEF HookNumber
  <2> QED  BY <2>1, <2>2 DEF NotRunning, Running
<1> QED  BY <1>3, <1>4, <1>5

\* What PeriodPassed decides when the counter is in step: it is the last mint.
LEMMA PassedAtLastMint ==
  ASSUME Counters, NEW n \in Nat, periodMints < EpochsPerPeriod,
         n = 1 + skippedEpochs + EpochsPerPeriod * period + periodMints
  PROVE  PeriodPassed(n + 1) <=> periodMints + 1 = EpochsPerPeriod
<1> DEFINE m == EpochsPerPeriod * period
<1>1. m \in Nat /\ EpochsPerPeriod \in Nat  BY InflationAssumption DEF Counters
<1>2. PeriodPassed(n + 1) <=> n + 1 - m - skippedEpochs > EpochsPerPeriod
  BY <1>1 DEF PeriodPassed, Counters
<1>3. n = 1 + skippedEpochs + m + periodMints  OBVIOUS
<1> HIDE DEF m
<1> QED  BY <1>1, <1>2, <1>3 DEF Counters

\* A finished period adds EpochsPerPeriod to the epochs accounted for.
LEMMA NextPeriod ==
  ASSUME NEW p \in Nat
  PROVE  EpochsPerPeriod * (p + 1) = EpochsPerPeriod * p + EpochsPerPeriod
BY InflationAssumption

\* A new chain starts in step.
LEMMA InitPeriodInv == Init => PeriodInv
<1> SUFFICES ASSUME Init PROVE PeriodInv  OBVIOUS
<1>1. EpochsInv  BY EpochsInitInv DEF Init
<1>2. Counters  BY DEF Init, Counters
<1>3. PeriodClock
  <2>1. EpochIdentifier \in Identifier /\ 0 < EpochsPerPeriod  BY InflationAssumption
  <2>2. ~epochInfo[EpochIdentifier].epochCountingStarted
    BY <2>1 DEF Init, EpochsInit
  <2> QED  BY <2>1, <2>2 DEF Init, PeriodClock
<1> QED  BY <1>1, <1>2, <1>3 DEF PeriodInv

\* A block keeps the periods in step, and ends one only with its last mint: AfterEpochEnd
\* counts an epoch of the day clock as skipped or as a mint.
LEMMA BlockKeepsPeriod ==
  ASSUME EpochIdentifier = Day, PeriodInv, Block
  PROVE  PeriodInv' /\ (period' # period => periodMints + 1 = EpochsPerPeriod)
<1>1. PICK time \in BlockTimes, ratio \in BondedRatios :
        BeginBlocker(time) /\ AfterEpochEnd(hookCall', ratio)
  BY DEF Block
<1>2. EpochsInv'  BY <1>1, BlockKeepsClocks DEF PeriodInv
<1> DEFINE now == epochInfo[Day]
           new == epochInfo'[Day]
           epp == EpochsPerPeriod
<1>3. Day \in Identifier /\ epp \in Nat /\ epp > 0  BY InflationAssumption
<1>4. NotRunning(Day) \/ Ended(Day) \/ Running(Day)
  BY <1>1, <1>3, ClockCases DEF PeriodInv
<1>5. Counters /\ periodMints < epp  BY DEF PeriodInv, PeriodClock
<1>6. now.currentEpoch \in Nat  BY <1>3 DEF PeriodInv, EpochsInv, EpochsTypeOK, EpochInfo
<1>7. CASE hookCall'[Day] = NoCall
  <2>1. UNCHANGED <<period, skippedEpochs, periodMints>>
    BY <1>1, <1>7 DEF AfterEpochEnd, inflationVars
  <2>2. Counters'  BY <1>5, <2>1 DEF Counters
  <2>3. NotRunning(Day) \/ Running(Day)  BY <1>4, <1>7 DEF Ended
  <2>4. CASE NotRunning(Day)
    <3>1. /\ skippedEpochs = 0 /\ period = 0 /\ periodMints = 0
      BY <2>4 DEF PeriodInv, PeriodClock, NotRunning
    <3>2. new.epochCountingStarted => new.currentEpoch = 1  BY <2>4 DEF NotRunning
    <3>3. 1 = 1 + 0 + epp * 0 + 0  BY <1>3
    <3>4. PeriodClock'
      BY ZenonT(90), <1>3, <2>1, <3>1, <3>2, <3>3 DEF PeriodClock
    <3> QED  BY <1>2, <2>1, <2>2, <3>4 DEF PeriodInv
  <2>5. CASE Running(Day)
    <3>1. PeriodClock'  BY <2>1, <2>5 DEF PeriodInv, PeriodClock, Running
    <3> QED  BY <1>2, <2>1, <2>2, <3>1 DEF PeriodInv
  <2> QED  BY <2>3, <2>4, <2>5
<1>8. CASE hookCall'[Day] # NoCall
  <2>1. Ended(Day)  BY <1>4, <1>8 DEF NotRunning, Running
  <2>2. /\ new.epochCountingStarted /\ new.currentEpoch = now.currentEpoch + 1
        /\ hookCall'[Day] = now.currentEpoch + 1
    BY <2>1 DEF Ended
  <2>3. now.currentEpoch = 1 + skippedEpochs + epp * period + periodMints
    BY <2>1 DEF PeriodInv, PeriodClock, Ended
  <2>4. epp * period \in Nat  BY <1>3, <1>5 DEF Counters
  <2>5. SUFFICES /\ Counters'
                 /\ new.currentEpoch = 1 + skippedEpochs' + epp * period' + periodMints'
                 /\ periodMints' < epp
                 /\ period' # period => periodMints + 1 = epp
    BY <1>2, <2>2 DEF PeriodInv, PeriodClock
  <2>6. CASE ~params.enableInflation
    <3>1. skippedEpochs' = skippedEpochs + 1 /\ period' = period /\ periodMints' = periodMints
      BY ZenonT(90), <1>1, <1>8, <2>6 DEF AfterEpochEnd, SkipEpoch
    <3> QED  BY <1>5, <2>2, <2>3, <2>4, <3>1 DEF Counters
  <2>7. CASE params.enableInflation
    <3>1. MintEpoch(now.currentEpoch + 1, ratio)
      BY <1>1, <1>8, <2>2, <2>7 DEF AfterEpochEnd
    <3>2. PeriodPassed(now.currentEpoch + 1) <=> periodMints + 1 = epp
      BY <1>5, <1>6, <2>3, PassedAtLastMint
    <3>3. skippedEpochs' = skippedEpochs  BY <3>1 DEF MintEpoch
    <3>4. CASE PeriodPassed(now.currentEpoch + 1)
      <4>1. period' = period + 1 /\ periodMints' = 0  BY <3>1, <3>4 DEF MintEpoch
      <4>2. epp * period' = epp * period + epp
        BY <1>5, <4>1, NextPeriod DEF Counters
      <4> QED  BY <1>3, <1>5, <2>2, <2>3, <2>4, <3>2, <3>3, <3>4, <4>1, <4>2 DEF Counters
    <3>5. CASE ~PeriodPassed(now.currentEpoch + 1)
      <4>1. period' = period /\ periodMints' = periodMints + 1
        BY <3>1, <3>5 DEF MintEpoch
      <4> QED  BY <1>3, <1>5, <2>2, <2>3, <2>4, <3>2, <3>3, <3>5, <4>1 DEF Counters
    <3> QED  BY <3>4, <3>5
  <2> QED  BY <2>6, <2>7
<1> QED  BY <1>7, <1>8

\* No step takes the periods out of step; parameter changes and restarts leave them alone.
LEMMA NextKeepsPeriod ==
  ASSUME EpochIdentifier = Day, PeriodInv, [Next]_vars
  PROVE  PeriodInv' /\ (period' # period => periodMints + 1 = EpochsPerPeriod)
<1>1. CASE Block  BY <1>1, BlockKeepsPeriod
<1>2. CASE UpdateParams \/ Restart \/ UNCHANGED vars
  <2>1. UNCHANGED <<epochInfo, blockTime, hookCall, period, skippedEpochs, periodMints>>
    BY <1>2 DEF UpdateParams, Restart, vars, epochVars
  <2>2. PeriodInv'
    BY <2>1 DEF PeriodInv, EpochsInv, EpochsTypeOK, ClockExact, Counters, PeriodClock
  <2> QED  BY <2>1, <2>2
<1> QED  BY <1>1, <1>2 DEF Next

\* PeriodClock: inflation's periods stay in step with the day clock for every genesis,
\* every EpochsPerPeriod and every history of halts, parameter changes and restarts.
THEOREM PeriodInStep ==
  ASSUME EpochIdentifier = Day
  PROVE  Spec => []PeriodClock
<1>1. Init => PeriodInv  BY InitPeriodInv
<1>2. PeriodInv /\ [Next]_vars => PeriodInv'  BY NextKeepsPeriod
<1>3. PeriodInv => PeriodClock  BY DEF PeriodInv
<1> QED  BY <1>1, <1>2, <1>3, PTL DEF Spec

\* PeriodHasItsMints: AfterEpochEnd ends a period exactly with its EpochsPerPeriod-th mint.
THEOREM PeriodsHaveTheirMints ==
  ASSUME EpochIdentifier = Day
  PROVE  Spec => PeriodHasItsMints
<1>1. Init => PeriodInv  BY InitPeriodInv
<1>2. PeriodInv /\ [Next]_vars => PeriodInv'  BY NextKeepsPeriod
<1>3. PeriodInv /\ [Next]_vars
        => [period' # period => periodMints + 1 = EpochsPerPeriod]_vars
  BY NextKeepsPeriod
<1> QED  BY <1>1, <1>2, <1>3, PTL DEF Spec, PeriodHasItsMints

-----------------------------------------------------------------------------
(* Decimals: the rounded operations, and powers by squaring.               *)

\* What the recursion of Power computes from the values f of smaller exponents.
PowStep(f, m, base, acc) ==
  IF m <= 1 THEN Mul(base, acc)
  ELSE f[m \div 2][Mul(base, base)][IF m % 2 = 1 THEN Mul(acc, base) ELSE acc]
PowRow(f, m) == [base \in Nat |-> [acc \in Nat |-> PowStep(f, m, base, acc)]]

\* f satisfies the recursion of Power up to the exponent n.
IsPow(f, n) == f = [m \in 0..n |-> PowRow(f, m)]

\* Power is the value of a solution of its recursion, if there is one.
LEMMA PowerIs ==
  ASSUME NEW n \in Nat, NEW d, \E f : IsPow(f, n)
  PROVE  \E f : IsPow(f, n) /\ Power(d, n) = IF n = 0 THEN One ELSE f[n][d][One]
BY ZenonT(90) DEF IsPow, PowRow, PowStep, Power

\* A solution of the recursion, at one exponent, base and accumulator.
LEMMA PowAt ==
  ASSUME NEW n \in Nat, NEW f, IsPow(f, n), NEW m \in 0..n, NEW b \in Nat, NEW a \in Nat
  PROVE  f[m][b][a] = PowStep(f, m, b, a)
<1>1. f[m] = PowRow(f, m)
  BY ZenonT(90) DEF IsPow
<1>2. PowRow(f, m)[b][a] = PowStep(f, m, b, a)
  BY ZenonT(90) DEF PowRow
<1> QED
  BY <1>1, <1>2

\* Half of a number.
LEMMA Half ==
  ASSUME NEW m \in Nat
  PROVE  /\ m \div 2 \in Nat /\ m % 2 \in {0, 1} /\ m = 2 * (m \div 2) + (m % 2)
         /\ m > 1 => m \div 2 < m /\ m \div 2 >= 1
OBVIOUS

\* The recursion of Power has a solution for every exponent, found one exponent at a time.
LEMMA PowExists ==
  ASSUME WellOrdered, NEW n \in Nat
  PROVE  \E f : IsPow(f, n)
<1> DEFINE N == {k \in Nat : \E f : IsPow(f, k)}
<1>1. 0 \in N
  <2> DEFINE f == [m \in 0..0 |-> PowRow(<<>>, m)]
  <2>1. \A m \in 0..0 : PowRow(f, m) = PowRow(<<>>, m)
    BY DEF PowRow, PowStep
  <2>2. IsPow(f, 0)
    BY <2>1 DEF IsPow
  <2> QED
    BY <2>2
<1>2. ASSUME NEW k \in Nat, k \in N PROVE k + 1 \in N
  <2>1. PICK f : IsPow(f, k)
    BY <1>2
  <2> DEFINE g == [m \in 0..(k + 1) |-> PowRow(f, m)]
  <2>2. ASSUME NEW m \in 0..(k + 1) PROVE PowRow(f, m) = PowRow(g, m)
    <3>1. CASE m <= 1
      BY <3>1 DEF PowRow, PowStep
    <3>2. CASE ~(m <= 1)
      <4>1. m \div 2 \in 0..k /\ m \div 2 \in 0..(k + 1)
        BY <3>2, Half
      <4>2. f[m \div 2] = PowRow(f, m \div 2)
        BY <2>1, <4>1, ZenonT(90) DEF IsPow
      <4>3. g[m \div 2] = f[m \div 2]
        BY <4>1, <4>2, ZenonT(90)
      <4> HIDE DEF g
      <4> QED
        BY <4>3 DEF PowRow, PowStep
    <3> QED
      BY <3>1, <3>2
  <2>3. g = [m \in 0..(k + 1) |-> PowRow(g, m)]
    <3> DEFINE h == [m \in 0..(k + 1) |-> PowRow(g, m)]
    <3>1. \A m \in 0..(k + 1) : g[m] = h[m]
      BY <2>2, ZenonT(90)
    <3> QED
      BY <3>1, ZenonT(90)
  <2> HIDE DEF g
  <2>4. IsPow(g, k + 1)
    BY <2>3 DEF IsPow
  <2> QED
    BY <2>4
<1> HIDE DEF N
<1>3. \A k \in Nat : k \in N
  BY <1>1, <1>2, NatSetInduction, ZenonT(90)
<1> QED
  BY <1>3 DEF N

\* Division with remainder.
LEMMA DivMod ==
  ASSUME NEW x \in Nat, NEW y \in Nat \ {0}
  PROVE  /\ x \div y \in Nat /\ x % y \in Nat /\ x % y < y
         /\ x = y * (x \div y) + (x % y)
BY SMTT(60)

\* What is rounded is a natural number.
LEMMA ChopNat ==
  ASSUME NEW x \in Nat
  PROVE  ChopPrecisionAndRound(x) \in Nat
<1>1. x \div One \in Nat
  BY OneAssumption, DivMod
<1> QED
  BY <1>1 DEF ChopPrecisionAndRound

\* Rounding is monotone.
LEMMA ChopMonotone ==
  ASSUME NEW x \in Nat, NEW y \in Nat, x <= y
  PROVE  ChopPrecisionAndRound(x) <= ChopPrecisionAndRound(y)
<1> DEFINE qx == x \div One
           rx == x % One
           qy == y \div One
           ry == y % One
           half == One \div 2
<1>1. One \in Nat \ {0} /\ half \in Nat
  BY OneAssumption
<1>2. /\ qx \in Nat /\ rx \in Nat /\ rx < One /\ x = One * qx + rx
      /\ qy \in Nat /\ ry \in Nat /\ ry < One /\ y = One * qy + ry
  BY <1>1, DivMod
<1> HIDE DEF qx, rx, qy, ry, half
<1>3. qx <= qy
  <2> SUFFICES ASSUME qy + 1 <= qx PROVE FALSE
    BY <1>2
  <2>1. One * (qy + 1) <= One * qx
    BY <1>1, <1>2
  <2>2. One * (qy + 1) = One * qy + One
    BY <1>1, <1>2
  <2>3. One * qx \in Nat /\ One * qy \in Nat
    BY <1>1, <1>2
  <2> QED
    BY <1>1, <1>2, <2>1, <2>2, <2>3
<1>4. qx = qy => rx <= ry
  <2> SUFFICES ASSUME qx = qy PROVE rx <= ry
    OBVIOUS
  <2>1. One * qx = One * qy /\ One * qx \in Nat
    BY <1>1, <1>2
  <2> QED
    BY <1>2, <2>1
<1>5. /\ ChopPrecisionAndRound(x) = IF rx < half \/ (rx = half /\ qx % 2 = 0) THEN qx ELSE qx + 1
      /\ ChopPrecisionAndRound(y) = IF ry < half \/ (ry = half /\ qy % 2 = 0) THEN qy ELSE qy + 1
  BY DEF ChopPrecisionAndRound, qx, rx, qy, ry, half
<1> QED
  BY <1>1, <1>2, <1>3, <1>4, <1>5

\* A product is within a half of what is rounded.
LEMMA ChopBounds ==
  ASSUME NEW x \in Nat
  PROVE  2 * One * ChopPrecisionAndRound(x) <= 2 * x + One
<1> DEFINE q == x \div One
           r == x % One
           half == One \div 2
<1>1. One \in Nat \ {0} /\ half \in Nat /\ One = 2 * half
  BY OneAssumption
<1>2. q \in Nat /\ r \in Nat /\ r < One /\ x = One * q + r
  BY <1>1, DivMod
<1>3. ChopPrecisionAndRound(x) = IF r < half \/ (r = half /\ q % 2 = 0) THEN q ELSE q + 1
  BY DEF ChopPrecisionAndRound
<1> HIDE DEF q, r, half
<1>4. One * q \in Nat /\ One * (q + 1) = One * q + One
  BY <1>1, <1>2
<1>5. CASE ChopPrecisionAndRound(x) = q
  <2>1. 2 * One * q = 2 * (One * q)
    BY <1>1, <1>2
  <2> QED
    BY <1>1, <1>2, <1>4, <1>5, <2>1
<1>6. CASE ChopPrecisionAndRound(x) = q + 1 /\ r >= half
  <2>1. 2 * One * (q + 1) = 2 * (One * (q + 1))
    BY <1>1, <1>2
  <2>2. 2 * (One * (q + 1)) <= 2 * x + One
    BY <1>1, <1>2, <1>4, <1>6
  <2> QED
    BY <1>6, <2>1, <2>2
<1> QED
  BY <1>1, <1>2, <1>3, <1>5, <1>6

\* A whole number of units is not rounded.
LEMMA ChopExact ==
  ASSUME NEW x \in Nat
  PROVE  ChopPrecisionAndRound(x * One) = x
<1>1. One \in Nat \ {0} /\ One \div 2 > 0
  BY OneAssumption
<1>2. (x * One) \div One = x /\ (x * One) % One = 0
  <2> DEFINE q == (x * One) \div One
             r == (x * One) % One
  <2>1. x * One \in Nat
    BY <1>1
  <2>2. q \in Nat /\ r \in Nat /\ r < One /\ x * One = One * q + r
    BY ZenonT(90), <1>1, <2>1, DivMod
  <2> HIDE DEF q, r
  <2>3. One * (x - q) = r
    BY <1>1, <2>2
  <2>4. x - q = 0
    <3>1. CASE x - q >= 1
      <4>1. One * (x - q) >= One
        BY <1>1, <2>2, <3>1
      <4> QED
        BY <2>2, <2>3, <4>1, <1>1
    <3>2. CASE x - q <= -1
      <4>1. One * (x - q) <= -One
        BY <1>1, <2>2, <3>2
      <4> QED
        BY <2>2, <2>3, <4>1, <1>1
    <3> QED
      BY <2>2, <3>1, <3>2
  <2>5. r = 0
    BY <1>1, <2>3, <2>4
  <2> QED
    BY <2>2, <2>4, <2>5 DEF q, r
<1> QED
  BY <1>1, <1>2 DEF ChopPrecisionAndRound

\* Products of decimals are decimals.
LEMMA MulNat ==
  ASSUME NEW x \in Nat, NEW y \in Nat
  PROVE  Mul(x, y) \in Nat
BY ChopNat DEF Mul

\* Products are monotone in both factors.
LEMMA MulMonotone ==
  ASSUME NEW x \in Nat, NEW y \in Nat, NEW u \in Nat, NEW w \in Nat, x <= u, y <= w
  PROVE  Mul(x, y) <= Mul(u, w)
<1>1. x * y <= u * y
  BY SMTT(60)
<1>2. u * y <= u * w
  BY SMTT(60)
<1>3. x * y \in Nat /\ u * w \in Nat /\ x * y <= u * w
  BY <1>1, <1>2
<1> QED
  BY <1>3, ChopMonotone DEF Mul

\* Multiplication by one is exact.
LEMMA MulOne ==
  ASSUME NEW x \in Nat
  PROVE  Mul(x, One) = x /\ Mul(One, x) = x
<1>1. One * x = x * One
  BY OneAssumption
<1> QED
  BY <1>1, ChopExact DEF Mul

\* A factor of at most one does not make a number larger.
LEMMA MulShrinks ==
  ASSUME NEW x \in Nat, NEW y \in Nat, y <= One
  PROVE  Mul(x, y) <= x
<1>1. One \in Nat
  BY OneAssumption
<1>2. Mul(x, y) <= Mul(x, One)
  BY <1>1, MulMonotone
<1> QED
  BY <1>2, MulOne

\* The recursion is monotone in the accumulator.
LEMMA PowMonotone ==
  ASSUME WellOrdered, NEW n \in Nat, NEW k \in Nat, NEW f, NEW g, IsPow(f, n), IsPow(g, k)
  PROVE  \A m \in Nat : m <= n /\ m <= k =>
           \A b \in Nat, a \in Nat, c \in Nat :
             a <= c => f[m][b][a] \in Nat /\ g[m][b][c] \in Nat /\ f[m][b][a] <= g[m][b][c]
<1> DEFINE P == {m \in Nat : m <= n /\ m <= k =>
                   \A b \in Nat, a \in Nat, c \in Nat :
                     a <= c => f[m][b][a] \in Nat /\ g[m][b][c] \in Nat /\ f[m][b][a] <= g[m][b][c]}
<1>1. ASSUME NEW m \in Nat, \A j \in Nat : j < m => j \in P
      PROVE  m \in P
  <2> SUFFICES ASSUME m <= n, m <= k, NEW b \in Nat, NEW a \in Nat, NEW c \in Nat, a <= c
               PROVE  f[m][b][a] \in Nat /\ g[m][b][c] \in Nat /\ f[m][b][a] <= g[m][b][c]
    OBVIOUS
  <2>1. f[m][b][a] = PowStep(f, m, b, a) /\ g[m][b][c] = PowStep(g, m, b, c)
    <3>1. m \in 0..n /\ m \in 0..k
      OBVIOUS
    <3> QED
      BY <3>1, PowAt
  <2>2. CASE m <= 1
    <3>1. PowStep(f, m, b, a) = Mul(b, a) /\ PowStep(g, m, b, c) = Mul(b, c)
      BY <2>2 DEF PowStep
    <3>2. Mul(b, a) \in Nat /\ Mul(b, c) \in Nat
      BY MulNat, ZenonT(90)
    <3>3. Mul(b, a) <= Mul(b, c)
      <4>1. b <= b
        OBVIOUS
      <4> QED
        BY <4>1, MulMonotone, ZenonT(90)
    <3> QED
      BY ZenonT(90), <2>1, <3>1, <3>2, <3>3
  <2>3. CASE m > 1
    <3> DEFINE h == m \div 2
               b2 == Mul(b, b)
               a2 == IF m % 2 = 1 THEN Mul(a, b) ELSE a
               c2 == IF m % 2 = 1 THEN Mul(c, b) ELSE c
    <3>1. h \in Nat /\ h < m
      BY <2>3, Half
    <3>2. Mul(a, b) \in Nat /\ Mul(c, b) \in Nat /\ Mul(a, b) <= Mul(c, b) /\ b2 \in Nat
      <4>1. b <= b
        OBVIOUS
      <4>2. Mul(a, b) <= Mul(c, b)
        BY <4>1, MulMonotone, ZenonT(90)
      <4>3. Mul(a, b) \in Nat /\ Mul(c, b) \in Nat /\ Mul(b, b) \in Nat
        BY MulNat, ZenonT(90)
      <4> QED
        BY <4>2, <4>3
    <3>3. a2 \in Nat /\ c2 \in Nat /\ a2 <= c2
      BY ZenonT(90), <3>2
    <3>4. PowStep(f, m, b, a) = f[h][b2][a2] /\ PowStep(g, m, b, c) = g[h][b2][c2]
      BY <2>3 DEF PowStep
    <3> HIDE DEF h, b2, a2, c2
    <3>5. f[h][b2][a2] \in Nat /\ g[h][b2][c2] \in Nat /\ f[h][b2][a2] <= g[h][b2][c2]
      <4>1. h <= n /\ h <= k
        BY <3>1
      <4>2. h \in P
        BY ZenonT(90), <1>1, <3>1
      <4>3. b2 \in Nat
        BY ZenonT(90), <3>2
      <4> QED
        BY ZenonT(90), <4>1, <4>2, <4>3, <3>3
    <3> QED
      BY <2>1, <3>4, <3>5
  <2> QED
    BY <2>2, <2>3
<1> HIDE DEF P
<1>2. \A m \in Nat : m \in P
  BY <1>1, NatStrongInduction, ZenonT(90)
<1> QED
  BY ZenonT(90), <1>2 DEF P

\* One more squaring step never yields more, for a base of at most one and an accumulator
\* that is at least the base.
LEMMA PowNextBelow ==
  ASSUME WellOrdered, NEW n \in Nat, NEW f, NEW g, IsPow(f, n), IsPow(g, n + 1)
  PROVE  \A m \in Nat : 1 <= m /\ m <= n =>
           \A b \in 0..One, a \in Nat : b <= a => g[m + 1][b][One] <= f[m][b][a]
<1> DEFINE P == {m \in Nat : 1 <= m /\ m <= n =>
                   \A b \in 0..One, a \in Nat : b <= a => g[m + 1][b][One] <= f[m][b][a]}
<1>0. One \in Nat \ {0}
  BY ZenonT(90), OneAssumption
<1>1. ASSUME NEW m \in Nat, \A j \in Nat : j < m => j \in P
      PROVE  m \in P
  <2> SUFFICES ASSUME 1 <= m, m <= n, NEW b \in 0..One, NEW a \in Nat, b <= a
               PROVE  g[m + 1][b][One] <= f[m][b][a]
    OBVIOUS
  <2> DEFINE b2 == Mul(b, b)
             h == m \div 2
  <2>1. b \in Nat /\ b <= One
    BY <1>0
  <2>2. b2 \in Nat /\ b2 <= b
    BY <2>1, MulNat, MulShrinks
  <2>3. b2 \in 0..One
    BY <1>0, <2>1, <2>2
  <2>4. Mul(a, b) \in Nat /\ Mul(b, a) \in Nat /\ b2 <= Mul(a, b) /\ b2 <= Mul(b, a)
    <3>1. b <= b
      BY <2>1
    <3>2. Mul(b, b) <= Mul(a, b) /\ Mul(b, b) <= Mul(b, a)
      BY <2>1, <3>1, MulMonotone, ZenonT(90)
    <3>3. Mul(a, b) \in Nat /\ Mul(b, a) \in Nat
      BY <2>1, MulNat, ZenonT(90)
    <3> QED
      BY <3>2, <3>3
  <2>5. f[m][b][a] = PowStep(f, m, b, a) /\ g[m + 1][b][One] = PowStep(g, m + 1, b, One)
    <3>1. m \in 0..n /\ m + 1 \in 0..(n + 1)
      OBVIOUS
    <3> QED
      BY <1>0, <2>1, <3>1, PowAt
  <2>6. CASE m = 1
    <3>1. PowStep(f, m, b, a) = Mul(b, a)
      BY <2>6 DEF PowStep
    <3>2. PowStep(g, m + 1, b, One) = g[1][b2][One]
      BY <2>6 DEF PowStep
    <3>3. g[1][b2][One] = PowStep(g, 1, b2, One)
      <4>1. 1 \in 0..(n + 1) /\ n + 1 \in Nat
        OBVIOUS
      <4> QED
        BY <1>0, <2>2, <4>1, PowAt
    <3>4. PowStep(g, 1, b2, One) = b2
      BY <2>2, MulOne DEF PowStep
    <3> QED
      BY ZenonT(90), <2>4, <2>5, <3>1, <3>2, <3>3, <3>4
  <2>7. CASE m > 1 /\ m % 2 = 0
    <3>1. h \in Nat /\ h <= n /\ h <= n + 1 /\ n + 1 \in Nat /\ (m + 1) \div 2 = h /\ (m + 1) % 2 = 1
      BY <2>7
    <3>2. PowStep(f, m, b, a) = f[h][b2][a]
      BY <2>7 DEF PowStep
    <3>3. PowStep(g, m + 1, b, One) = g[h][b2][Mul(One, b)]
      BY <2>7, <3>1 DEF PowStep
    <3>4. Mul(One, b) = b
      BY ZenonT(90), <2>1, MulOne
    <3> HIDE DEF h, b2
    <3>5. g[h][b2][b] <= f[h][b2][a]
      BY ZenonT(90), <2>1, <2>2, <3>1, PowMonotone
    <3> QED
      BY <2>5, <3>2, <3>3, <3>4, <3>5
  <2>8. CASE m > 1 /\ m % 2 = 1
    <3>1. /\ h \in Nat /\ 1 <= h /\ h <= n /\ h < m /\ (m + 1) \div 2 = h + 1
          /\ (m + 1) % 2 = 0
      BY <2>8
    <3>2. PowStep(f, m, b, a) = f[h][b2][Mul(a, b)]
      BY <2>8 DEF PowStep
    <3>3. PowStep(g, m + 1, b, One) = g[h + 1][b2][One]
      BY <2>8, <3>1 DEF PowStep
    <3> HIDE DEF h, b2
    <3>4. g[h + 1][b2][One] <= f[h][b2][Mul(a, b)]
      BY <1>1, <2>3, <2>4, <3>1
    <3> QED
      BY <2>5, <3>2, <3>3, <3>4
  <2> QED
    BY <2>6, <2>7, <2>8
<1> HIDE DEF P
<1>2. \A m \in Nat : m \in P
  BY <1>1, NatStrongInduction, ZenonT(90)
<1> QED
  BY <1>2 DEF P

\* The powers of a decimal of at most one do not grow with the exponent, although every
\* squaring is rounded.
LEMMA PowerDecays ==
  ASSUME WellOrdered, NEW n \in Nat, NEW d \in 0..One
  PROVE  Power(d, n) \in Nat /\ Power(d, n + 1) \in Nat /\ Power(d, n + 1) <= Power(d, n)
<1>0. One \in Nat \ {0} /\ d \in Nat /\ d <= One /\ n + 1 \in Nat /\ n + 1 # 0
  BY OneAssumption
<1>1. PICK f : IsPow(f, n) /\ Power(d, n) = IF n = 0 THEN One ELSE f[n][d][One]
  BY PowExists, PowerIs
<1>2. PICK g : IsPow(g, n + 1) /\ Power(d, n + 1) = IF n + 1 = 0 THEN One ELSE g[n + 1][d][One]
  BY <1>0, PowExists, PowerIs
<1>3. Power(d, n + 1) = g[n + 1][d][One]
  BY <1>0, <1>2
<1>4. g[n + 1][d][One] \in Nat
  <2>1. One \in Nat /\ One <= One /\ n + 1 <= n + 1
    BY <1>0
  <2> QED
    BY <1>0, <1>2, <2>1, PowMonotone, ZenonT(90)
<1>5. CASE n = 0
  <2>1. g[n + 1][d][One] = PowStep(g, n + 1, d, One)
    <3>1. n + 1 \in 0..(n + 1)
      BY <1>0
    <3> QED
      BY <1>0, <1>2, <3>1, PowAt
  <2>2. PowStep(g, n + 1, d, One) = d
    BY <1>0, <1>5, MulOne DEF PowStep
  <2> QED
    BY ZenonT(90), <1>0, <1>1, <1>3, <1>4, <1>5, <2>1, <2>2
<1>6. CASE n # 0
  <2>1. f[n][d][One] \in Nat
    <3>1. One <= One /\ n <= n
      BY <1>0
    <3> QED
      BY <1>0, <1>1, <3>1, PowMonotone, ZenonT(90)
  <2>2. 1 <= n
    BY <1>6
  <2>3. g[n + 1][d][One] <= f[n][d][One]
    <3>1. n <= n /\ One \in Nat
      BY <1>0
    <3> QED
      BY ZenonT(90), <1>0, <1>1, <1>2, <2>2, <3>1, PowNextBelow
  <2> QED
    BY <1>1, <1>3, <1>4, <1>6, <2>1, <2>3
<1> QED
  BY <1>5, <1>6

-----------------------------------------------------------------------------
(* The provision.                                                          *)

\* Quotients by the same divisor are monotone.
LEMMA DivMonotone ==
  ASSUME NEW x \in Nat, NEW y \in Nat, NEW d \in Nat \ {0}, x <= y
  PROVE  x \div d \in Nat /\ y \div d \in Nat /\ x \div d <= y \div d
<1> DEFINE qx == x \div d
           qy == y \div d
           rx == x % d
           ry == y % d
<1>1. /\ qx \in Nat /\ rx \in Nat /\ rx < d /\ x = d * qx + rx
      /\ qy \in Nat /\ ry \in Nat /\ ry < d /\ y = d * qy + ry
  BY DivMod
<1> HIDE DEF qx, qy, rx, ry
<1>2. qx <= qy
  <2> SUFFICES ASSUME qy + 1 <= qx PROVE FALSE
    BY <1>1
  <2>1. d * (qy + 1) <= d * qx /\ d * (qy + 1) = d * qy + d
    BY <1>1
  <2>2. d * qx \in Nat /\ d * qy \in Nat
    BY <1>1
  <2> QED
    BY <1>1, <2>1, <2>2
<1> QED
  BY <1>1, <1>2 DEF qx, qy

\* Quotients of decimals are monotone in the dividend.
LEMMA QuoMonotone ==
  ASSUME NEW x \in Nat, NEW y \in Nat, NEW d \in Nat \ {0}, x <= y
  PROVE  Quo(x, d) \in Nat /\ Quo(y, d) \in Nat /\ Quo(x, d) <= Quo(y, d)
<1>0. One \in Nat
  BY OneAssumption
<1>1. x * One \in Nat /\ y * One \in Nat /\ x * One <= y * One
  BY <1>0
<1>2. x * One * One \in Nat /\ y * One * One \in Nat /\ x * One * One <= y * One * One
  BY <1>0, <1>1
<1> DEFINE qx == (x * One * One) \div d
           qy == (y * One * One) \div d
<1>3. qx \in Nat /\ qy \in Nat /\ qx <= qy
  BY <1>2, DivMonotone
<1>4. Quo(x, d) = ChopPrecisionAndRound(qx) /\ Quo(y, d) = ChopPrecisionAndRound(qy)
  BY DEF Quo
<1> HIDE DEF qx, qy
<1> QED
  BY <1>3, <1>4, ChopNat, ChopMonotone

\* A share of at most 1 / d of x, taken d times, is x but for the two roundings.
LEMMA ShareBound ==
  ASSUME NEW x \in Nat, NEW d \in 1..One, NEW ratio \in 0..d
  PROVE  Mul(ratio, Quo(x, d)) \in Nat /\ Mul(ratio, Quo(x, d)) <= x + One
<1> DEFINE q == Quo(x, d)
           f == (x * One * One) \div d
           m == Mul(ratio, q)
<1>0. One \in Nat /\ One >= 1 /\ d \in Nat \ {0} /\ d <= One /\ ratio \in Nat /\ ratio <= d
  BY OneAssumption
<1>1. q \in Nat
  BY <1>0, QuoMonotone
<1>2. f \in Nat /\ d * f <= x * One * One
  <2>1. x * One * One \in Nat
    BY <1>0
  <2> DEFINE y == x * One * One
  <2>2. y \div d \in Nat /\ y % d \in Nat /\ y = d * (y \div d) + (y % d)
    BY <1>0, <2>1, DivMod
  <2>3. d * (y \div d) \in Nat
    BY <1>0, <2>2
  <2> HIDE DEF y
  <2>4. y \div d \in Nat /\ d * (y \div d) <= y
    BY <2>2, <2>3
  <2> QED
    BY <2>4 DEF y
<1>3. 2 * One * q <= 2 * f + One
  <2> HIDE DEF f
  <2>1. q = ChopPrecisionAndRound(f)
    BY DEF Quo, f
  <2> HIDE DEF q
  <2> QED
    BY <1>2, <2>1, ChopBounds
<1>4. m \in Nat
  BY ZenonT(90), <1>0, <1>1, MulNat
<1>5. 2 * One * m <= 2 * (ratio * q) + One
  <2>1. ratio * q \in Nat
    BY <1>0, <1>1
  <2> HIDE DEF q
  <2> QED
    BY <2>1, ChopBounds DEF Mul
<1> HIDE DEF q, f, m
<1>6. ratio * q <= d * q
  BY <1>0, <1>1
<1>7. d * q \in Nat /\ ratio * q \in Nat /\ d * f \in Nat /\ d * One \in Nat /\ x * One \in Nat
  BY <1>0, <1>1, <1>2
<1>8. d * (2 * One * q) <= d * (2 * f + One)
  <2>1. 2 * One * q \in Nat /\ 2 * f + One \in Nat
    BY <1>0, <1>1, <1>2
  <2> QED
    BY <1>0, <1>3, <2>1
<1>9. d * (2 * One * q) = One * (2 * (d * q)) /\ d * (2 * f + One) = 2 * (d * f) + d * One
  BY <1>0, <1>1, <1>2
<1>10. d * One <= One * One
  BY <1>0
<1>11. One * (2 * (d * q)) <= One * (2 * (x * One) + One)
  <2>1. One * (2 * (x * One) + One) = 2 * (x * One * One) + One * One
    BY <1>0
  <2>2. x * One * One \in Nat /\ One * One \in Nat
    BY <1>0
  <2> DEFINE A == x * One * One
             B == One * One
             C == d * One
             D == d * f
             E == One * (2 * (d * q))
  <2>3. A \in Nat /\ B \in Nat /\ C \in Nat /\ D \in Nat /\ E \in Nat
    <3>1. 2 * (d * q) \in Nat
      BY <1>7
    <3>2. One * (2 * (d * q)) \in Nat
      BY <1>0, <3>1
    <3> QED
      BY <1>7, <2>2, <3>2
  <2>4. E <= 2 * D + C /\ D <= A /\ C <= B
    BY <1>2, <1>8, <1>9, <1>10
  <2> HIDE DEF A, B, C, D, E
  <2>5. E <= 2 * A + B
    BY <2>3, <2>4
  <2> QED
    BY <2>1, <2>5 DEF A, B, E
<1>12. 2 * (d * q) <= 2 * (x * One) + One
  <2>1. 2 * (d * q) \in Nat /\ 2 * (x * One) + One \in Nat
    BY <1>0, <1>7
  <2> DEFINE u == 2 * (d * q)
             w == 2 * (x * One) + One
  <2>2. u \in Nat /\ w \in Nat /\ One * u <= One * w
    BY <1>11, <2>1
  <2> HIDE DEF u, w
  <2>3. ASSUME w + 1 <= u PROVE FALSE
    <3>1. One * (w + 1) <= One * u /\ One * (w + 1) = One * w + One
      BY <1>0, <2>2, <2>3
    <3>2. One * w \in Nat /\ One * u \in Nat
      BY <1>0, <2>2
    <3> QED
      BY <1>0, <2>2, <3>1, <3>2
  <2>4. u <= w
    BY <2>2, <2>3
  <2> QED
    BY <2>4 DEF u, w
<1>13. 2 * One * m <= 2 * (x * One) + One + One
  <2>1. 2 * One * m \in Nat
    BY <1>0, <1>4
  <2> QED
    BY <1>0, <1>5, <1>6, <1>7, <1>12, <2>1
<1>14. m <= x + 1
  <2>1. ASSUME x + 2 <= m PROVE FALSE
    <3>1. One * (x + 2) <= One * m /\ One * (x + 2) = x * One + 2 * One
      BY <1>0, <1>4, <2>1
    <3>2. 2 * One * m = 2 * (One * m) /\ One * m \in Nat
      BY <1>0, <1>4
    <3> QED
      BY <1>0, <1>7, <1>13, <3>1, <3>2
  <2> QED
    BY <1>4, <2>1
<1>15. m \in Nat /\ m <= x + One
  BY <1>0, <1>4, <1>14
<1> QED
  BY <1>15 DEF m, q

\* The fields of valid parameters.
LEMMA ParamFields ==
  ASSUME NEW p \in Params
  PROVE  /\ p.a \in Nat /\ p.r \in 0..One /\ p.c \in Nat /\ p.bondingTarget \in 1..One
         /\ p.maxVariance \in Nat /\ p.stakingRewards \in 0..One
         /\ p.enableInflation \in BOOLEAN
BY DEF Params, Dec

\* The incentive is never negative: whatever is rounded, BondingIncentive subtracts at
\* most the variance and one.
LEMMA IncentiveNat ==
  ASSUME NEW p \in Params, NEW ratio \in 0..One
  PROVE  BondingIncentive(p, ratio) \in Nat
<1> DEFINE part == IF ratio >= p.bondingTarget THEN p.bondingTarget ELSE ratio
           share == Mul(part, Quo(p.maxVariance, p.bondingTarget))
<1>1. p.bondingTarget \in 1..One /\ p.maxVariance \in Nat /\ One \in Nat
  BY ParamFields, OneAssumption
<1>2. part \in 0..p.bondingTarget
  BY <1>1
<1>3. BondingIncentive(p, ratio) = One + p.maxVariance - share
  BY DEF BondingIncentive
<1> HIDE DEF part
<1>4. share \in Nat /\ share <= p.maxVariance + One
  BY ZenonT(90), <1>1, <1>2, ShareBound
<1> HIDE DEF share
<1> QED
  BY <1>1, <1>3, <1>4

\* The provision of a period, and that of the next one, for one bonded ratio.
LEMMA ProvisionStep ==
  ASSUME WellOrdered, NEW p \in Params, NEW x \in Nat, NEW ratio \in 0..One
  PROVE  /\ CalculateEpochMintProvision(p, x, ratio) \in Nat
         /\ CalculateEpochMintProvision(p, x + 1, ratio)
              <= CalculateEpochMintProvision(p, x, ratio)
<1> DEFINE d == One - p.r
           now == Power(d, x)
           next == Power(d, x + 1)
           decayNow == Mul(p.a, now) + p.c
           decayNext == Mul(p.a, next) + p.c
           inc == BondingIncentive(p, ratio)
           epp == ToDec(EpochsPerPeriod)
           red == ToDec(PowerReduction)
<1>0. One \in Nat \ {0}
  BY OneAssumption
<1>1. p.a \in Nat /\ p.c \in Nat /\ d \in 0..One
  BY <1>0, ParamFields
<1>2. inc \in Nat
  BY IncentiveNat
<1>3. epp \in Nat \ {0} /\ red \in Nat
  <2>1. EpochsPerPeriod \in Nat \ {0} /\ PowerReduction \in Nat
    BY InflationAssumption
  <2>2. EpochsPerPeriod * One \in Nat \ {0} /\ PowerReduction * One \in Nat
    BY <1>0, <2>1
  <2> QED
    BY <2>2 DEF ToDec
<1>4. /\ ExponentialDecay(p, x) = decayNow /\ ExponentialDecay(p, x + 1) = decayNext
  BY DEF ExponentialDecay
<1> HIDE DEF d
<1>5. now \in Nat /\ next \in Nat /\ next <= now
  BY ZenonT(90), <1>1, PowerDecays
<1> HIDE DEF now, next
<1>6. decayNow \in Nat /\ decayNext \in Nat /\ decayNext <= decayNow
  <2>1. Mul(p.a, now) \in Nat /\ Mul(p.a, next) \in Nat
    BY <1>1, <1>5, MulNat, ZenonT(90)
  <2>2. p.a <= p.a
    BY <1>1
  <2>3. Mul(p.a, next) <= Mul(p.a, now)
    BY <1>1, <1>5, <2>2, MulMonotone, ZenonT(90)
  <2> QED
    BY <1>1, <2>1, <2>3
<1>7. /\ CalculateEpochMintProvision(p, x, ratio) = Mul(Quo(Mul(decayNow, inc), epp), red)
      /\ CalculateEpochMintProvision(p, x + 1, ratio) = Mul(Quo(Mul(decayNext, inc), epp), red)
  <2> HIDE DEF decayNow, decayNext
  <2> QED
    BY <1>4 DEF CalculateEpochMintProvision
<1> HIDE DEF decayNow, decayNext, inc, epp, red
<1>8. inc <= inc /\ red <= red
  BY <1>2, <1>3
<1>9. Mul(decayNow, inc) \in Nat /\ Mul(decayNext, inc) \in Nat
  BY <1>2, <1>6, MulNat, ZenonT(90)
<1>10. Mul(decayNext, inc) <= Mul(decayNow, inc)
  BY <1>2, <1>6, <1>8, MulMonotone, ZenonT(90)
<1>11. /\ Quo(Mul(decayNext, inc), epp) \in Nat /\ Quo(Mul(decayNow, inc), epp) \in Nat
       /\ Quo(Mul(decayNext, inc), epp) <= Quo(Mul(decayNow, inc), epp)
  BY <1>3, <1>9, <1>10, QuoMonotone, ZenonT(90)
<1>12. /\ Mul(Quo(Mul(decayNow, inc), epp), red) \in Nat
       /\ Mul(Quo(Mul(decayNext, inc), epp), red) <= Mul(Quo(Mul(decayNow, inc), epp), red)
  BY <1>3, <1>8, <1>11, MulNat, MulMonotone, ZenonT(90)
<1> QED
  BY <1>7, <1>12

\* A share of at most one of an amount is at most the amount (GetProportions).
LEMMA ProportionBound ==
  ASSUME NEW amount \in Nat, NEW dist \in 0..One
  PROVE  GetProportions(amount, dist) \in Nat /\ GetProportions(amount, dist) <= amount
<1>0. One \in Nat \ {0} /\ dist \in Nat /\ dist <= One
  BY OneAssumption
<1> DEFINE u == amount * One
           m == Mul(u, dist)
<1>1. u \in Nat
  BY <1>0
<1>2. m \in Nat /\ m <= u
  <2> HIDE DEF u
  <2> QED
    BY <1>0, <1>1, MulNat, MulShrinks
<1>3. GetProportions(amount, dist) = m \div One
  BY DEF GetProportions, ToDec, TruncateInt
<1> HIDE DEF m
<1>4. m \div One \in Nat /\ m \div One <= u \div One
  <2> HIDE DEF u
  <2> QED
    BY <1>0, <1>1, <1>2, DivMonotone
<1>5. u \div One = amount
  <2> DEFINE q == u \div One
             r == u % One
  <2> HIDE DEF u
  <2>1. q \in Nat /\ r \in Nat /\ r < One /\ u = One * q + r
    BY <1>0, <1>1, DivMod
  <2> HIDE DEF q, r
  <2>2. u = amount * One
    BY DEF u
  <2>3. One * (amount - q) = r
    BY <1>0, <2>1, <2>2
  <2>4. ASSUME amount - q >= 1 PROVE FALSE
    <3>1. One * (amount - q) >= One
      BY <1>0, <2>1, <2>4
    <3> QED
      BY <1>0, <2>1, <2>3, <3>1
  <2>5. ASSUME amount - q <= -1 PROVE FALSE
    <3>1. One * (amount - q) <= -One
      BY <1>0, <2>1, <2>5
    <3> QED
      BY <1>0, <2>1, <2>3, <3>1
  <2>6. q = amount
    BY <2>1, <2>4, <2>5
  <2> QED
    BY <2>6 DEF q
<1> QED
  BY <1>3, <1>4, <1>5

-----------------------------------------------------------------------------
(* What is minted.                                                         *)

\* The inductive invariant of the amounts.
MintInv == EpochsInv /\ TypeOK /\ MintedIsAllocated

\* A new chain has minted nothing, and has a provision.
LEMMA InitMintInv ==
  ASSUME WellOrdered
  PROVE  Init => MintInv
<1> SUFFICES ASSUME Init PROVE MintInv
  OBVIOUS
<1>1. EpochsInv
  BY EpochsInitInv DEF Init
<1>2. params \in Params
  BY InflationAssumption DEF Init
<1>3. epochMintProvision \in Nat
  <2>1. PICK ratio \in BondedRatios :
          epochMintProvision = CalculateEpochMintProvision(InitParams, 0, ratio)
    BY DEF Init
  <2>2. ratio \in 0..One /\ InitParams \in Params
    BY InflationAssumption
  <2> QED
    BY <2>1, <2>2, ProvisionStep
<1>4. /\ period = 0 /\ skippedEpochs = 0 /\ moduleBalance = 0 /\ feeCollector = 0
      /\ communityPool = 0 /\ supply = 0 /\ restarts = 0 /\ periodMints = 0 /\ periodAmount = 0
  BY DEF Init
<1>5. TypeOK
  BY <1>1, <1>2, <1>3, <1>4 DEF TypeOK, EpochsInv
<1>6. MintedIsAllocated
  BY <1>4 DEF MintedIsAllocated
<1> QED
  BY <1>1, <1>5, <1>6 DEF MintInv

\* The numbers that TypeOK speaks of.
Numbers ==
  /\ period \in Nat /\ skippedEpochs \in Nat /\ epochMintProvision \in Nat
  /\ moduleBalance \in Nat /\ feeCollector \in Nat /\ communityPool \in Nat /\ supply \in Nat
  /\ restarts \in Nat /\ periodMints \in Nat /\ periodAmount \in Nat

\* TypeOK, conjunct by conjunct.
LEMMA TypeByNumbers == TypeOK <=> EpochsTypeOK /\ params \in Params /\ Numbers
BY DEF TypeOK, Numbers

\* A mint of a natural amount, all of which is allocated.
LEMMA MintStep ==
  ASSUME WellOrdered, MintInv, NEW n, NEW ratio \in BondedRatios, MintEpoch(n, ratio)
  PROVE  /\ params' = params /\ skippedEpochs' = skippedEpochs
         /\ {period', epochMintProvision', moduleBalance', feeCollector', communityPool',
             supply', periodMints', periodAmount'} \subseteq Nat
         /\ MintedIsAllocated'
         /\ supply' = supply + TruncateInt(epochMintProvision)
<1> DEFINE amount == TruncateInt(epochMintProvision)
           staking == GetProportions(amount, params.stakingRewards)
<1>1. Numbers /\ params \in Params
  BY TypeByNumbers DEF MintInv
<1>2. moduleBalance = 0 /\ supply = feeCollector + communityPool
  BY DEF MintInv, MintedIsAllocated
<1>3. amount \in Nat
  <2>1. One \in Nat \ {0}
    BY ZenonT(90), OneAssumption
  <2> QED
    BY <1>1, <2>1, DivMod DEF TruncateInt, Numbers
<1>4. /\ supply' = supply + amount /\ feeCollector' = feeCollector + staking
      /\ communityPool' = communityPool + (moduleBalance + amount - staking)
      /\ moduleBalance' = 0
  BY DEF MintEpoch, MintAndAllocateInflation
<1>5. params' = params /\ skippedEpochs' = skippedEpochs
  BY DEF MintEpoch
<1>6. /\ period' = period + 1
         /\ epochMintProvision' = CalculateEpochMintProvision(params, period + 1, ratio)
         /\ periodMints' = 0 /\ periodAmount' = 0
      \/ /\ period' = period /\ epochMintProvision' = epochMintProvision
         /\ periodMints' = periodMints + 1 /\ periodAmount' = periodAmount + amount
  BY DEF MintEpoch
<1> HIDE DEF amount
<1>7. staking \in Nat /\ staking <= amount
  BY ZenonT(90), <1>1, <1>3, ParamFields, ProportionBound
<1> HIDE DEF staking
<1>8. /\ supply' \in Nat /\ feeCollector' \in Nat /\ communityPool' \in Nat /\ moduleBalance' \in Nat
      /\ supply' = feeCollector' + communityPool'
  BY <1>1, <1>2, <1>3, <1>4, <1>7 DEF Numbers
<1>9. CalculateEpochMintProvision(params, period + 1, ratio) \in Nat
  <2>1. ratio \in 0..One /\ period + 1 \in Nat
    BY <1>1, InflationAssumption DEF Numbers
  <2> QED
    BY <1>1, <2>1, ProvisionStep
<1>10. period' \in Nat /\ epochMintProvision' \in Nat /\ periodMints' \in Nat /\ periodAmount' \in Nat
  BY <1>1, <1>3, <1>6, <1>9 DEF Numbers
<1> QED
  BY <1>4, <1>5, <1>8, <1>10 DEF MintedIsAllocated, amount

\* Every step leaves numbers, valid parameters and an empty module account: a block mints
\* at most once and allocates what it minted, a restart computes a provision.
LEMMA NextKeepsMint ==
  ASSUME WellOrdered, MintInv, [Next]_vars
  PROVE  MintInv'
<1>0. Numbers /\ params \in Params
  BY TypeByNumbers DEF MintInv
<1>1. CASE Block
  <2>1. PICK time \in BlockTimes, ratio \in BondedRatios :
          BeginBlocker(time) /\ AfterEpochEnd(hookCall', ratio) /\ UNCHANGED restarts
    BY <1>1 DEF Block
  <2>2. EpochsInv'
    BY ZenonT(90), <2>1, BlockKeepsClocks DEF MintInv
  <2>3. CASE UNCHANGED inflationVars
    <3>1. Numbers' /\ params' \in Params /\ MintedIsAllocated'
      BY ZenonT(90), <1>0, <2>1, <2>3 DEF MintInv, MintedIsAllocated, Numbers, inflationVars
    <3> QED
      BY ZenonT(90), <2>2, <3>1 DEF MintInv, EpochsInv, TypeOK, Numbers
  <2>4. CASE SkipEpoch
    <3>1. Numbers' /\ params' \in Params /\ MintedIsAllocated'
      BY <1>0, <2>1, <2>4 DEF MintInv, MintedIsAllocated, Numbers, SkipEpoch
    <3> QED
      BY <2>2, <3>1 DEF MintInv, EpochsInv, TypeOK, Numbers
  <2>5. CASE MintEpoch(hookCall'[EpochIdentifier], ratio)
    <3> DEFINE n == hookCall'[EpochIdentifier]
    <3> HIDE DEF n
    <3>1. MintEpoch(n, ratio)
      BY ZenonT(90), <2>5 DEF n
    <3>2. Numbers' /\ params' \in Params /\ MintedIsAllocated'
      BY ZenonT(90), <1>0, <2>1, <3>1, MintStep DEF Numbers
    <3> QED
      BY <2>2, <3>2 DEF MintInv, EpochsInv, TypeOK, Numbers
  <2> QED
    BY <2>1, <2>3, <2>4, <2>5 DEF AfterEpochEnd
<1>2. CASE UpdateParams
  <2>1. Numbers' /\ params' \in Params /\ MintedIsAllocated'
    BY ZenonT(90), <1>0, <1>2, InflationAssumption DEF MintInv, MintedIsAllocated, Numbers, UpdateParams
  <2>2. EpochsInv'
    BY <1>2 DEF MintInv, EpochsInv, EpochsTypeOK, ClockExact, UpdateParams, epochVars
  <2> QED
    BY <2>1, <2>2 DEF MintInv, EpochsInv, TypeOK, Numbers
<1>3. CASE Restart
  <2>1. PICK ratio \in BondedRatios :
          epochMintProvision' = CalculateEpochMintProvision(params, period, ratio)
    BY <1>3 DEF Restart
  <2>2. epochMintProvision' \in Nat
    <3>1. ratio \in 0..One /\ period \in Nat
      BY <1>0, InflationAssumption DEF Numbers
    <3> QED
      BY ZenonT(90), <1>0, <2>1, <3>1, ProvisionStep
  <2>3. restarts' = restarts + 1 /\ UNCHANGED <<params, period, skippedEpochs, moduleBalance,
          feeCollector, communityPool, supply, periodMints, periodAmount>>
    BY <1>3 DEF Restart
  <2>4. Numbers' /\ params' \in Params /\ MintedIsAllocated'
    BY <1>0, <2>2, <2>3 DEF MintInv, MintedIsAllocated, Numbers
  <2>5. EpochsInv'
    BY ZenonT(90), <1>3 DEF MintInv, EpochsInv, EpochsTypeOK, ClockExact, Restart, epochVars
  <2> QED
    BY <2>4, <2>5 DEF MintInv, EpochsInv, TypeOK, Numbers
<1>4. CASE UNCHANGED vars
  <2>1. Numbers' /\ params' \in Params /\ MintedIsAllocated'
    BY ZenonT(90), <1>0, <1>4 DEF MintInv, MintedIsAllocated, Numbers, vars
  <2>2. EpochsInv'
    BY <1>4 DEF MintInv, EpochsInv, EpochsTypeOK, ClockExact, vars
  <2> QED
    BY <2>1, <2>2 DEF MintInv, EpochsInv, TypeOK, Numbers
<1> QED
  BY <1>1, <1>2, <1>3, <1>4 DEF Next

-----------------------------------------------------------------------------
(* What is minted in a period.                                             *)

\* Until the first restart every mint of the running period minted the same amount.
AmountInv ==
  restarts = 0 => periodAmount = periodMints * TruncateInt(epochMintProvision)

\* The inductive invariant of a period's amounts.
ExactInv == MintInv /\ PeriodInv /\ AmountInv

\* Every step keeps the account of the running period, and the mint that ends a period
\* completes it: parameter changes do not touch the provision (UpdateParams).
LEMMA NextKeepsExact ==
  ASSUME WellOrdered, EpochIdentifier = Day, ExactInv, [Next]_vars
  PROVE  /\ ExactInv'
         /\ restarts = 0 /\ period' # period =>
              periodAmount + (supply' - supply)
                = EpochsPerPeriod * TruncateInt(epochMintProvision)
<1> DEFINE amount == TruncateInt(epochMintProvision)
<1>0. Numbers /\ amount \in Nat
  <2>1. One \in Nat \ {0}
    BY OneAssumption
  <2>2. Numbers
    BY TypeByNumbers DEF ExactInv, MintInv
  <2> QED
    BY <2>1, <2>2, DivMod DEF TruncateInt, Numbers
<1>1. MintInv' /\ PeriodInv' /\ (period' # period => periodMints + 1 = EpochsPerPeriod)
  BY ZenonT(90), NextKeepsMint, NextKeepsPeriod DEF ExactInv
<1>2. CASE Block
  <2>1. PICK ratio \in BondedRatios : AfterEpochEnd(hookCall', ratio) /\ UNCHANGED restarts
    BY <1>2 DEF Block
  <2>2. CASE UNCHANGED inflationVars \/ SkipEpoch
    <3>1. UNCHANGED <<period, periodAmount, periodMints, epochMintProvision, restarts>>
      BY <2>1, <2>2 DEF inflationVars, SkipEpoch
    <3>2. AmountInv'
      BY ZenonT(90), <3>1 DEF ExactInv, AmountInv
    <3> QED
      BY <1>1, <3>1, <3>2 DEF ExactInv
  <2>3. CASE MintEpoch(hookCall'[EpochIdentifier], ratio)
    <3> DEFINE n == hookCall'[EpochIdentifier]
    <3> HIDE DEF n
    <3>1. MintEpoch(n, ratio)
      BY <2>3 DEF n
    <3>2. supply' = supply + amount
      BY <3>1, MintStep DEF ExactInv
    <3>3. \/ period' = period + 1 /\ periodMints' = 0 /\ periodAmount' = 0
          \/ /\ period' = period /\ epochMintProvision' = epochMintProvision
             /\ periodMints' = periodMints + 1 /\ periodAmount' = periodAmount + amount
      BY <3>1 DEF MintEpoch
    <3> HIDE DEF amount
    <3>4. (periodMints + 1) * amount = periodMints * amount + amount
      BY <1>0 DEF Numbers
    <3>5. restarts = 0 => periodAmount = periodMints * amount
      BY DEF ExactInv, AmountInv, amount
    <3>6. CASE period' = period + 1 /\ periodMints' = 0 /\ periodAmount' = 0
      <4>1. epochMintProvision' \in Nat
        BY <1>1, TypeByNumbers DEF MintInv, TypeOK
      <4>2. TruncateInt(epochMintProvision') \in Nat
        BY ZenonT(90), <4>1, DivMod, OneAssumption DEF TruncateInt
      <4>3. 0 = 0 * TruncateInt(epochMintProvision')
        BY <4>2
      <4>4. AmountInv'
        BY <3>6, <4>3 DEF AmountInv
      <4>5. periodMints + 1 = EpochsPerPeriod
        BY <1>0, <1>1, <3>6 DEF Numbers
      <4>6. restarts = 0 => periodAmount + (supply' - supply) = EpochsPerPeriod * amount
        <5> SUFFICES ASSUME restarts = 0
                     PROVE  periodAmount + (supply' - supply) = EpochsPerPeriod * amount
          OBVIOUS
        <5>1. EpochsPerPeriod * amount = periodAmount + amount
          BY <3>4, <3>5, <4>5
        <5>2. supply' - supply = amount
          BY <1>0, <3>2 DEF Numbers
        <5> QED
          BY <5>1, <5>2
      <4> QED
        BY ZenonT(90), <1>1, <4>4, <4>6 DEF ExactInv, amount
    <3>7. CASE /\ period' = period /\ epochMintProvision' = epochMintProvision
               /\ periodMints' = periodMints + 1 /\ periodAmount' = periodAmount + amount
      <4>1. restarts' = 0 => periodAmount' = periodMints' * amount
        BY <2>1, <3>4, <3>5, <3>7
      <4>2. AmountInv'
        BY <3>7, <4>1 DEF AmountInv, amount
      <4> QED
        BY ZenonT(90), <1>1, <3>7, <4>2 DEF ExactInv
    <3> QED
      BY <3>3, <3>6, <3>7
  <2> QED
    BY <2>1, <2>2, <2>3 DEF AfterEpochEnd
<1>3. CASE UpdateParams \/ UNCHANGED vars
  <2>1. UNCHANGED <<period, periodAmount, periodMints, epochMintProvision, restarts>>
    BY <1>3 DEF UpdateParams, vars
  <2>2. AmountInv'
    BY <2>1 DEF ExactInv, AmountInv
  <2> QED
    BY ZenonT(90), <1>1, <2>1, <2>2 DEF ExactInv
<1>4. CASE Restart
  <2>1. restarts' = restarts + 1 /\ period' = period
    BY <1>4 DEF Restart
  <2>2. AmountInv'
    BY <1>0, <2>1 DEF AmountInv, Numbers
  <2> QED
    BY <1>1, <2>1, <2>2 DEF ExactInv
<1> QED
  BY ZenonT(90), <1>2, <1>3, <1>4 DEF Next

-----------------------------------------------------------------------------
(* Theorems.                                                               *)

INSTANCE WellFoundedInduction

\* The natural numbers are well-ordered, as the library's theorems have it: the hypothesis of
\* the lemmas above holds.
LEMMA NatWellOrdered == WellOrdered
<1> SUFFICES ASSUME NEW T \in SUBSET Nat, T # {}
             PROVE  \E x \in T : \A y \in T : x <= y
  BY DEF WellOrdered
<1> DEFINE less == OpToRel(<, Nat)
<1>1. IsWellFoundedOn(less, Nat)
  BY NatLessThanWellFounded, ZenonT(90)
<1>2. \A x, y \in T : <<y, x>> \in less <=> y < x
  BY DEF OpToRel
<1> HIDE DEF less
<1>3. PICK x \in T : \A y \in T : ~(<<y, x>> \in less)
  BY <1>1, WFMin, ZenonT(90)
<1>4. \A y \in T : ~(y < x)
  BY ZenonT(90), <1>2, <1>3
<1> QED
  BY <1>4

USE NatWellOrdered

\* MintInv holds in every reachable state.
THEOREM MintInvariant == Spec => []MintInv
<1>1. Init => MintInv
  BY InitMintInv
<1>2. MintInv /\ [Next]_vars => MintInv'
  BY NextKeepsMint
<1> QED
  BY <1>1, <1>2, PTL DEF Spec

\* TypeOK: no amount, provision or counter of x/inflation is ever negative, for all valid
\* parameters; BondingIncentive and MintAndAllocateInflation subtract.
THEOREM TypeCorrect == Spec => []TypeOK
<1>1. MintInv => TypeOK
  BY DEF MintInv
<1> QED
  BY <1>1, MintInvariant, PTL

\* MintedIsAllocated: MintAndAllocateInflation leaves nothing in the module account, for
\* every provision and every split, whatever GetProportions rounds.
THEOREM AllMintedIsAllocated == Spec => []MintedIsAllocated
<1>1. MintInv => MintedIsAllocated
  BY DEF MintInv
<1> QED
  BY <1>1, MintInvariant, PTL

\* ProvisionDecays: CalculateEpochMintProvision never yields more for the next period under
\* the same parameters and bonded ratio, for all valid parameters, every period and every
\* precision: the roundings of the squarings in Power never add up to an increase.
THEOREM ProvisionNeverGrows == Spec => []ProvisionDecays
<1>1. MintInv => ProvisionDecays
  <2> SUFFICES ASSUME MintInv, NEW ratio \in BondedRatios
               PROVE  CalculateEpochMintProvision(params, period + 1, ratio)
                        <= CalculateEpochMintProvision(params, period, ratio)
    BY DEF ProvisionDecays
  <2>1. ratio \in 0..One /\ period \in Nat /\ params \in Params
    BY ZenonT(90), InflationAssumption, TypeByNumbers DEF MintInv, Numbers
  <2> QED
    BY <2>1, ProvisionStep
<1> QED
  BY <1>1, MintInvariant, PTL

\* PeriodAmountExact: until a restart, the mints of a period add up to EpochsPerPeriod times
\* its provision, whatever governance changes during the period.
THEOREM PeriodAmountsExact ==
  ASSUME EpochIdentifier = Day
  PROVE  Spec => PeriodAmountExact
<1>1. Init => ExactInv
  <2> SUFFICES ASSUME Init PROVE ExactInv
    OBVIOUS
  <2>1. MintInv /\ PeriodInv
    BY InitMintInv, InitPeriodInv
  <2>2. TruncateInt(epochMintProvision) \in Nat
    BY <2>1, TypeByNumbers, DivMod, OneAssumption DEF MintInv, Numbers, TruncateInt
  <2>3. 0 = 0 * TruncateInt(epochMintProvision)
    BY <2>2
  <2>4. AmountInv
    BY <2>3 DEF Init, AmountInv
  <2> QED
    BY <2>1, <2>4 DEF ExactInv
<1>2. ExactInv /\ [Next]_vars => ExactInv'
  BY NextKeepsExact
<1>3. ExactInv /\ [Next]_vars
        => [restarts = 0 /\ period' # period =>
              periodAmount + (supply' - supply)
                = EpochsPerPeriod * TruncateInt(epochMintProvision)]_vars
  BY NextKeepsExact
<1> QED
  BY <1>1, <1>2, <1>3, PTL DEF Spec, PeriodAmountExact
=============================================================================
