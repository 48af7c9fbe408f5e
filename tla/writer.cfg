SPECIFICATION FairSpec
CONSTANTS
    c1 = c1
    s1 = s1
    n1 = n1
    first = first
    second = second
    rewritten = rewritten
    Callers = {c1}
    Streams = {s1}
    Names = {n1}
    Texts = {first, second, rewritten}
    Releases <- TwoBuildsAndAnother
    POISON_AFTER_FAILURES = 2
    MaxOps = 4
    MaxTrouble = 2
CHECK_DEADLOCK FALSE
INVARIANTS InOrder SchemaAgrees
PROPERTIES KeepsPromise Answers
\* Also hold on this instance, outside the runs: TypeOK CommitIsDurable PoisonTells.
