SPECIFICATION Spec
CONSTANTS
  j1 = j1
  j2 = j2
  a1 = a1
  a2 = a2
  Jobs = {j1}
  Agents = {a1, a2}
  Nobody = nobody
  File <- OneFile
  MaxAttempts = 2
  Trouble = {"write", "server", "restart", "stream", "blip", "lease", "timeout", "cancel", "linger"}
  MaxTrouble = 1
  MaxStreams = 3
CHECK_DEADLOCK FALSE
INVARIANTS InstalledIsFinal InstalledOnce OneInstaller
\* Also holds on this instance, outside the runs: TypeOK.
