SPECIFICATION Spec
CONSTANTS
  max_hours = 2
  MaxHour = 4
  FoldHours = {2, 3}
  MaxBytes = 2
  Restarts = 2
  StepsBack = 1
  HoursPerDay = 2
INVARIANTS QueriesAddUp Conserved NeverCountedTwice OneBucketPerHour RingMirrorsMemory
CHECK_DEADLOCK FALSE
