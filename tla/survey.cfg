CONSTANTS
    Agents = {a1}
    Samples <- FourClips
    EncodersFor <- Faithful
    Machines <- Three
    Frames = 10
    Jobs <- SomeJobs
    MaxUpgrades = 1
    MaxTrouble = 2
    Trouble = {"die", "encode", "trial", "hang", "setup"}
SPECIFICATION Spec
CHECK_DEADLOCK FALSE
INVARIANTS VerdictsAreTrue OffersMatch JudgedByRename
\* Also hold on this instance, outside the runs: TypeOK Registers.
