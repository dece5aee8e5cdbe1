------------------------------- MODULE Epochs -------------------------------
(***************************************************************************)
(* x/epochs: named clocks that the BeginBlocker advances from the block    *)
(* time, calling the AfterEpochEnd hooks of other modules.  Times are in   *)
(* an arbitrary unit; two blocks within one unit have the same time.  The  *)
(* informational CurrentEpochStartHeight is left out.                      *)
(***************************************************************************)
EXTENDS Integers

CONSTANTS
  Identifier,  \* epoch identifiers ("day", "week", ...)
  StartTime,   \* Identifier -> start time given at genesis, 0 when unset
  Duration,    \* Identifier -> duration
  GenesisTime, \* block time of genesis
  MaxTime      \* bound on the block time

ASSUME EpochsAssumption ==
  /\ StartTime \in [Identifier -> Nat]
  /\ Duration \in [Identifier -> Nat \ {0}]
  /\ GenesisTime \in Nat /\ MaxTime \in Nat

VARIABLES
  epochInfo,  \* Identifier -> EpochInfo
  blockTime,
  hookCall    \* Identifier -> number passed to AfterEpochEnd in this block, or NoCall

epochVars == <<epochInfo, blockTime, hookCall>>

NoCall == 0

EpochInfo == [startTime : Nat, currentEpoch : Nat, currentEpochStartTime : Nat,
              epochCountingStarted : BOOLEAN]

\* An unset start time becomes the time of genesis.
EpochsInit ==
  /\ blockTime = GenesisTime
  /\ epochInfo = [id \in Identifier |->
       [startTime |-> IF StartTime[id] = 0 THEN GenesisTime ELSE StartTime[id],
        currentEpoch |-> 0, currentEpochStartTime |-> 0, epochCountingStarted |-> FALSE]]
  /\ hookCall = [id \in Identifier |-> NoCall]

ShouldInitialEpochStart(info, time) ==
  ~info.epochCountingStarted /\ info.startTime <= time

\* Mutant: an epoch that is over for longer than its duration is not ended.
ShouldEpochEndOnTime(id, info, time) ==
  /\ time > info.currentEpochStartTime + Duration[id]
  /\ time <= info.currentEpochStartTime + 2 * Duration[id]
  /\ ~ShouldInitialEpochStart(info, time)
  /\ info.startTime <= time

ShouldEpochEnd(id, info, time) ==
  /\ time > info.currentEpochStartTime + Duration[id]
  /\ ~ShouldInitialEpochStart(info, time)
  /\ info.startTime <= time

StartInitialEpoch(info) ==
  [info EXCEPT !.epochCountingStarted = TRUE,
               !.currentEpoch = 1,
               !.currentEpochStartTime = info.startTime]

EndEpoch(id, info) ==
  [info EXCEPT !.currentEpoch = @ + 1,
               !.currentEpochStartTime = @ + Duration[id]]

\* Mutant: the next epoch starts at the block that ended the last one.
TickFromBlockTime(id, info, time) ==
  IF ShouldInitialEpochStart(info, time) THEN StartInitialEpoch(info)
  ELSE IF ShouldEpochEnd(id, info, time)
         THEN [EndEpoch(id, info) EXCEPT !.currentEpochStartTime = time]
  ELSE info

\* What one block does to one clock.
Tick(id, info, time) ==
  IF ShouldInitialEpochStart(info, time) THEN StartInitialEpoch(info)
  ELSE IF ShouldEpochEnd(id, info, time) THEN EndEpoch(id, info)
  ELSE info

\* Mutant: the hook also runs when counting starts.
HookNumberAtStart(id, info, time) ==
  IF ShouldInitialEpochStart(info, time) \/ ShouldEpochEnd(id, info, time)
    THEN Tick(id, info, time).currentEpoch
    ELSE NoCall

\* The hook runs after EndEpoch and is given the counter as EndEpoch left it.
HookNumber(id, info, time) ==
  IF ShouldEpochEnd(id, info, time) THEN EndEpoch(id, info).currentEpoch ELSE NoCall

BeginBlocker(time) ==
  /\ blockTime' = time
  /\ epochInfo' = [id \in Identifier |-> Tick(id, epochInfo[id], time)]
  /\ hookCall' = [id \in Identifier |-> HookNumber(id, epochInfo[id], time)]

\* The block times that may follow: time never runs backwards.
BlockTimes == blockTime..MaxTime

-----------------------------------------------------------------------------
(* The module on its own, with no hook registered.                         *)

NextBlock == \E time \in BlockTimes : BeginBlocker(time)

EpochsNext == NextBlock

\* Consensus keeps producing blocks.
EpochsSpec == EpochsInit /\ [][EpochsNext]_epochVars /\ WF_epochVars(NextBlock)

-----------------------------------------------------------------------------

EpochsTypeOK ==
  /\ epochInfo \in [Identifier -> EpochInfo]
  /\ blockTime \in Nat
  /\ hookCall \in [Identifier -> Nat]

\* A running clock shows exactly the epochs since its start time, however late or
\* bunched the blocks came: epoch n starts at startTime + (n - 1) * duration, and
\* never in the future.
ClockExact ==
  \A id \in Identifier :
    LET info == epochInfo[id]
    IN  IF info.epochCountingStarted
          THEN /\ info.currentEpoch >= 1
               /\ info.currentEpochStartTime
                    = info.startTime + (info.currentEpoch - 1) * Duration[id]
               /\ info.currentEpochStartTime <= blockTime
          ELSE info.currentEpoch = 0

\* The AfterEpochEnd hook sees every epoch once and in order: in a block it is called
\* exactly when the counter moves past an epoch, even while the clock catches up.
HooksInOrder ==
  [][\A id \in Identifier :
       IF hookCall'[id] # NoCall
         THEN epochInfo'[id].currentEpoch = epochInfo[id].currentEpoch + 1
              /\ epochInfo[id].epochCountingStarted
         ELSE epochInfo'[id].currentEpoch > epochInfo[id].currentEpoch
                => ~epochInfo[id].epochCountingStarted]_epochVars

Behind(id) ==
  /\ epochInfo[id].startTime <= blockTime
  /\ \/ ~epochInfo[id].epochCountingStarted
     \/ blockTime > epochInfo[id].currentEpochStartTime + Duration[id]

\* One epoch is ended per block, so after a halt or a jump of the block time the
\* clock lags; it always catches up.
ClocksCatchUp == \A id \in Identifier : []<>~Behind(id)
=============================================================================
