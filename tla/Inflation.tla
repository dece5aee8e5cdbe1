------------------------------ MODULE Inflation ------------------------------
(***************************************************************************)
(* x/inflation composed with x/epochs: the BeginBlocker of x/epochs calls  *)
(* AfterEpochEnd of x/inflation, which mints the epoch provision, splits   *)
(* it between the fee collector and the community pool, and moves to the   *)
(* next period, with a smaller provision, after EpochsPerPeriod mints.     *)
(* Amounts are of the one mint denomination, which no action changes.      *)
(***************************************************************************)
EXTENDS Epochs, LegacyDec

CONSTANTS
  Day,             \* the identifier whose epochs are counted as skipped
  EpochIdentifier, \* the identifier whose epochs mint
  EpochsPerPeriod,
  PowerReduction,  \* base units per coin
  BondedRatios,    \* ratios the staking module may report
  InitParams,
  ParamChoices,    \* parameters that governance may set
  MaxRestarts      \* bound on restarts from an exported genesis

\* What Params.Validate accepts.
Params == [enableInflation : BOOLEAN, a : Dec, r : 0..One, c : Dec,
           bondingTarget : 1..One, maxVariance : Dec, stakingRewards : 0..One]

ASSUME InflationAssumption ==
  /\ {Day, EpochIdentifier} \subseteq Identifier
  /\ EpochsPerPeriod \in Nat \ {0}
  /\ PowerReduction \in Nat \ {0}
  /\ BondedRatios \subseteq 0..One
  /\ InitParams \in Params
  /\ ParamChoices \subseteq Params
  /\ MaxRestarts \in Nat

VARIABLES
  params, period, skippedEpochs,
  epochMintProvision,
  moduleBalance, feeCollector, communityPool, supply, \* what inflation minted, and where it is
  restarts,
  periodMints, periodAmount  \* history: mints, and coins minted, since the period began

inflationVars == <<params, period, skippedEpochs, epochMintProvision, moduleBalance,
                   feeCollector, communityPool, supply, periodMints, periodAmount>>
vars == <<epochInfo, blockTime, hookCall, params, period, skippedEpochs,
          epochMintProvision, moduleBalance, feeCollector, communityPool, supply,
          periodMints, periodAmount, restarts>>

-----------------------------------------------------------------------------

\* Mutant: the reduction factor is added.
ExponentialGrowth(p, x) == Mul(p.a, Power(One + p.r, x)) + p.c

ExponentialDecay(p, x) == Mul(p.a, Power(One - p.r, x)) + p.c

BondingIncentive(p, bondedRatio) ==
  LET ratio == IF bondedRatio >= p.bondingTarget THEN p.bondingTarget ELSE bondedRatio
  IN  One + p.maxVariance - Mul(ratio, Quo(p.maxVariance, p.bondingTarget))

CalculateEpochMintProvision(p, x, bondedRatio) ==
  LET periodProvision == Mul(ExponentialDecay(p, x), BondingIncentive(p, bondedRatio))
  IN  Mul(Quo(periodProvision, ToDec(EpochsPerPeriod)), ToDec(PowerReduction))

GetProportions(amount, distribution) == TruncateInt(Mul(ToDec(amount), distribution))

-----------------------------------------------------------------------------

Init ==
  /\ EpochsInit
  /\ params = InitParams
  /\ period = 0
  /\ skippedEpochs = 0
  /\ \E ratio \in BondedRatios :
       epochMintProvision = CalculateEpochMintProvision(InitParams, 0, ratio)
  /\ moduleBalance = 0 /\ feeCollector = 0 /\ communityPool = 0 /\ supply = 0
  /\ restarts = 0
  /\ periodMints = 0 /\ periodAmount = 0

\* AfterEpochEnd while inflation is disabled.
SkipEpoch ==
  /\ skippedEpochs' = skippedEpochs + 1
  /\ UNCHANGED <<params, period, epochMintProvision, moduleBalance, feeCollector,
                 communityPool, supply, periodMints, periodAmount>>

\* Mutant: the community pool gets its share rounded down, too.
AllocateBothRounded(amount) ==
  LET staking == GetProportions(amount, params.stakingRewards)
      community == GetProportions(amount, One - params.stakingRewards)
  IN  /\ supply' = supply + amount
      /\ feeCollector' = feeCollector + staking
      /\ communityPool' = communityPool + community
      /\ moduleBalance' = moduleBalance + amount - staking - community

\* The community pool gets all that the module still holds after the staking share.
MintAndAllocateInflation(amount) ==
  LET staking == GetProportions(amount, params.stakingRewards)
  IN  /\ supply' = supply + amount
      /\ feeCollector' = feeCollector + staking
      /\ communityPool' = communityPool + (moduleBalance + amount - staking)
      /\ moduleBalance' = 0

\* Mutant: skipped epochs count.
PeriodPassedWithSkipped(epochNumber) ==
  epochNumber - EpochsPerPeriod * period > EpochsPerPeriod

PeriodPassed(epochNumber) ==
  epochNumber - EpochsPerPeriod * period - skippedEpochs > EpochsPerPeriod

\* AfterEpochEnd of the minting epoch while inflation is enabled.
MintEpoch(epochNumber, bondedRatio) ==
  LET amount == TruncateInt(epochMintProvision)
  IN  /\ MintAndAllocateInflation(amount)
      /\ IF PeriodPassed(epochNumber)
           THEN /\ period' = period + 1
                /\ epochMintProvision' =
                     CalculateEpochMintProvision(params, period + 1, bondedRatio)
                /\ periodMints' = 0 /\ periodAmount' = 0
           ELSE /\ periodMints' = periodMints + 1 /\ periodAmount' = periodAmount + amount
                /\ UNCHANGED <<period, epochMintProvision>>
      /\ UNCHANGED <<params, skippedEpochs>>

\* AfterEpochEnd over all epochs that end in one block.  The parameters do not change
\* within the block, so at most one of the calls has an effect and their order is
\* immaterial.
AfterEpochEnd(called, bondedRatio) ==
  IF ~params.enableInflation
    THEN IF called[Day] # NoCall THEN SkipEpoch ELSE UNCHANGED inflationVars
    ELSE IF called[EpochIdentifier] # NoCall
           THEN MintEpoch(called[EpochIdentifier], bondedRatio)
           ELSE UNCHANGED inflationVars

Block ==
  \E time \in BlockTimes, ratio \in BondedRatios :
    /\ BeginBlocker(time)
    /\ AfterEpochEnd(hookCall', ratio)
    /\ UNCHANGED restarts

\* Mutant: new parameters take effect on the provision at once.
UpdateParamsAtOnce ==
  \E p \in ParamChoices, ratio \in BondedRatios :
    /\ params' = p
    /\ epochMintProvision' = CalculateEpochMintProvision(p, period, ratio)
    /\ UNCHANGED <<epochVars, period, skippedEpochs, moduleBalance, feeCollector,
                   communityPool, supply, periodMints, periodAmount, restarts>>

UpdateParams ==
  \E p \in ParamChoices :
    /\ params' = p
    /\ UNCHANGED <<epochVars, period, skippedEpochs, epochMintProvision, moduleBalance,
                   feeCollector, communityPool, supply, periodMints, periodAmount, restarts>>

\* Mutant: the number of skipped epochs is not exported.
RestartForgetsSkipped ==
  /\ restarts < MaxRestarts
  /\ restarts' = restarts + 1
  /\ skippedEpochs' = 0
  /\ \E ratio \in BondedRatios :
       epochMintProvision' = CalculateEpochMintProvision(params, period, ratio)
  /\ UNCHANGED <<epochVars, params, period, moduleBalance, feeCollector,
                 communityPool, supply, periodMints, periodAmount>>

\* ExportGenesis, then InitGenesis of a new chain from it: the provision is not
\* exported, it is computed again.
Restart ==
  /\ restarts < MaxRestarts
  /\ restarts' = restarts + 1
  /\ \E ratio \in BondedRatios :
       epochMintProvision' = CalculateEpochMintProvision(params, period, ratio)
  /\ UNCHANGED <<epochVars, params, period, skippedEpochs, moduleBalance, feeCollector,
                 communityPool, supply, periodMints, periodAmount>>

Next == Block \/ UpdateParams \/ Restart

Spec == Init /\ [][Next]_vars

-----------------------------------------------------------------------------

TypeOK ==
  /\ EpochsTypeOK
  /\ params \in Params
  /\ {period, skippedEpochs, epochMintProvision, moduleBalance, feeCollector, communityPool,
      supply, restarts, periodMints, periodAmount} \subseteq Nat

\* AfterEpochEnd keeps the inflation period in step with the epochs: the minting clock
\* has counted the skipped epochs, EpochsPerPeriod mints for each finished period, and the
\* mints of the running one, of which there are fewer than EpochsPerPeriod, however often
\* governance turned inflation off and on and the chain restarted.
PeriodClock ==
  LET info == epochInfo[EpochIdentifier]
  IN  /\ info.epochCountingStarted =>
           info.currentEpoch = 1 + skippedEpochs + EpochsPerPeriod * period + periodMints
      /\ ~info.epochCountingStarted => <<skippedEpochs, period, periodMints>> = <<0, 0, 0>>
      /\ periodMints < EpochsPerPeriod

\* MintAndAllocateInflation leaves nothing in the module account: every coin ever minted
\* is with the fee collector or in the community pool.
MintedIsAllocated == moduleBalance = 0 /\ supply = feeCollector + communityPool

\* CalculateEpochMintProvision: under the same parameters and bonded ratio the next
\* period never mints more than this one, whatever the roundings of the decimals.
ProvisionDecays ==
  \A ratio \in BondedRatios :
    CalculateEpochMintProvision(params, period + 1, ratio)
      <= CalculateEpochMintProvision(params, period, ratio)

\* AfterEpochEnd, hooks.go:62 "Skipped epochs are subtracted to only account for epochs
\* where inflation minted tokens": a period ends with its EpochsPerPeriod-th mint.
PeriodHasItsMints ==
  [][period' # period => periodMints + 1 = EpochsPerPeriod]_vars

\* spec/01_concepts.md: the amount cumulated over a period is epochProvision *
\* epochsPerPeriod, even if governance changes the parameters during the period (a
\* restart computes the provision anew).
PeriodAmountExact ==
  [][restarts = 0 /\ period' # period =>
       periodAmount + (supply' - supply) = EpochsPerPeriod * TruncateInt(epochMintProvision)]_vars
=============================================================================
