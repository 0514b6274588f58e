SPECIFICATION Spec
CONSTANTS
    a = a
    b = b
    L1 = L1
    None = None
    Items = {a, b}
    Lanes = {L1}
    PRs = {1, 2}
    Shas = {"s1"}
    Rounds = {1}
    Kinds = {"ci-fix"}
    FailureReasons = {"ci-failure"}
    SchedulingReasons = {"deferred"}
    Untyped = "untyped"
    SameSecond = {FALSE}
    MaxAttempts = 1
    Seeds <- MCSeeds
INVARIANTS
    TypeOK
    QueueMembership
    BlockedHasCause
PROPERTIES
    AttemptsWithinCycle
    UnblockedIsFree
    IsWorkBoard
VIEW FoldView
CHECK_DEADLOCK FALSE
