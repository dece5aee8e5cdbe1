CONSTANTS
  day = day
  week = week
  DayLength = 1
  WeekLength = 3
  Identifier = {day, week}
  StartTime <- MCStartTime
  Duration <- MCDuration
  GenesisTime = 1
  MaxTime = 8
  One = 100
  Day = day
  EpochIdentifier = day
  EpochsPerPeriod = 3
  PowerReduction = 10
  BondedRatios = {0, 50, 100}
  InitParams <- Disabled
  ParamChoices <- MCParamChoices
  MaxRestarts = 1
SPECIFICATION Spec
INVARIANTS
  PeriodClock
  MintedIsAllocated
  ProvisionDecays
PROPERTIES
  PeriodHasItsMints
  PeriodAmountExact
