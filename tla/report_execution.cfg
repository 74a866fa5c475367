SPECIFICATION Spec
CONSTANTS
  Slots = {s1, s2}
  MaxAttempts = 1
  Recipients = 2
  MaxFaults = 1
INVARIANTS
  TypeOK
  DeliveredWindowIsNotRerun
  CounterCountsRuns
  FencedWorkerSendsOnce
  RetryIsComing
PROPERTIES
  OneRunPerMessage
  NobodyEndsForAnother
  ScheduleGoesOn
