SPECIFICATION PipelineSpec
CONSTANTS
    SmallMax = 50
    MediumMax = 80
    MaxShorterCap = 5
    MaxLonger = 2
    Contents <- MCContents
    Replacements <- MCReplacements
    Policies <- MCPolicies
    TailReadable = TRUE
    MaxEdits = 0
    MaxPolicies = 0
    MaxForced = 0
    MaxAbandoned = 0
    MaxFaults = 0
INVARIANT StageTwoIsQueued
CHECK_DEADLOCK FALSE
