\* The server as the host, one crash, no failing call.
SPECIFICATION FairSpec
CONSTANTS
  Rituals = {r1, r2}
  Source = src
  Edits = {}
  None = none
  Faults = FALSE
  Host = "serve"
  MaxCrashes = 1
CHECK_DEADLOCK FALSE
PROPERTIES WindowCloses

