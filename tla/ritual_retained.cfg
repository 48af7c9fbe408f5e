\* No crash and no failure: two rituals at one destination, one after the other.
SPECIFICATION Spec
CONSTANTS
  Rituals = {r1, r2}
  Source = src
  Edits = {}
  None = none
  Faults = FALSE
  Host = "agent"
  MaxCrashes = 0
CHECK_DEADLOCK FALSE
INVARIANTS OriginalRetained

