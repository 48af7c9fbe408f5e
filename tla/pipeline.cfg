SPECIFICATION FairPipeline
CONSTANTS
    SmallMax = 50
    MediumMax = 80
    MaxShorterCap = 5
    MaxLonger = 2
    Contents <- MCContents
    Replacements <- MCReplacements
    Policies <- MCPolicies
    TailReadable = TRUE
    MaxEdits = 1
    MaxPolicies = 1
    MaxForced = 1
    MaxAbandoned = 1
    MaxFaults = 1
CHECK_DEADLOCK FALSE
INVARIANTS NoEncodeLoop
PROPERTIES ReplacesItsSource RespectsTheFile Settles
\* Also holds on this instance, outside the runs: PipelineTypeOK.
