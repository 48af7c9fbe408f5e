SPECIFICATION FairSpec
CONSTANTS
  Day = 3
  Minute = 1
  Windows <- Overnight
  Overrides <- OpenOne
  everyone = everyone
  Everyone = everyone
  Unset = unset
  Jobs = {1, 2, 3}
  Agents = {1, 2}
  Class <- TheClass
  ClassSlots <- TheClassSlots
  Capable <- AnyAgent
  Large = {2, 3}
  Stuck = {1}
  Slots = 2
  LargeSlots = 1
  QueueWindow = 2
  MaxAttempts = 2
  MaxDrops = 1
  MaxNow = 1
INVARIANTS NeverOverbooked
PROPERTIES PausedStartsNothing Drains
\* Also hold on this instance, outside the runs: TypeOK LedgerAgrees.
