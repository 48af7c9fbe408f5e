SPECIFICATION Spec
CONSTANTS
  j1 = j1
  j2 = j2
  a1 = a1
  a2 = a2
  Jobs = {j1}
  Agents = {a1}
  Nobody = nobody
  File <- OneFile
  MaxAttempts = 2
  Trouble = {"write"}
  MaxTrouble = 1
  MaxStreams = 1
CHECK_DEADLOCK FALSE
INVARIANTS QueuedIsFree
