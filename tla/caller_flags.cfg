CONSTANTS
  NoCaller = NoCaller
  AnyKey <- MCAnyKey
  Trials <- MCTrials
  MaxInt = 31
  Kilo = 2
  TicksPerSecond = 2
  TicksPerHour = 4
  HoursPerDay = 2
  MaxPattern = 4
  MaxName = 4
CHECK_DEADLOCK FALSE
SPECIFICATION Spec
INVARIANTS TypeOK EnforcedAsTyped ShownIsEnforced
