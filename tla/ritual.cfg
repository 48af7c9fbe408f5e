\* An agent: two rituals, one outside edit, two crashes, any checked call may fail.
SPECIFICATION FairSpec
CONSTANTS
  Rituals = {r1, r2}
  Source = src
  Edits = {e1}
  None = none
  Faults = TRUE
  Host = "agent"
  MaxCrashes = 2
CHECK_DEADLOCK FALSE
INVARIANTS NeverNeither NeverTorn SourceSurvives EmptyIsAccounted
PROPERTIES WindowCloses ReplacesSafely
\* Also holds on this instance, outside the runs: TypeOK.
