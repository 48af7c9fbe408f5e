\* No crash: a re-registration resolves a record under a running ritual.
SPECIFICATION Spec
CONSTANTS
  Rituals = {r1, r2}
  Source = src
  Edits = {}
  None = none
  Faults = TRUE
  Host = "agent"
  MaxCrashes = 0
CHECK_DEADLOCK FALSE
INVARIANTS NeverUndercut

