CONSTANTS
  day = day
  week = week
  DayLength = 2
  WeekLength = 5
  WeekStart = 4
  Identifier = {day, week}
  StartTime <- MCStartTime
  Duration <- MCDuration
  GenesisTime = 1
  MaxTime = 40
SPECIFICATION EpochsSpec
INVARIANTS
  ClockExact
PROPERTIES
  HooksInOrder
  ClocksCatchUp
