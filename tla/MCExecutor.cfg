SPECIFICATION ExecSpec
CONSTANTS
    a = a
    L1 = L1
    None = None
    Items = {a}
    Lanes = {L1}
    PRs = {"#1", "#2"}
    Shas = {"s1", "s2"}
    Rounds = {1}
    Kinds = {"ci-fix"}
    FailureReasons = {"ci-failure", "budget-exhausted"}
    SchedulingReasons = {"deferred"}
    Untyped = "untyped"
    SameSecond = {FALSE}
    MaxAttempts = 2
    Seeds <- MCSeeds
    HandleChoices <- MCHandles
    Budget = 1
    BudgetExhausted = "budget-exhausted"
    Untracked = "none"
INVARIANTS
    ExecTypeOK
    AppendNeverFlagged
    ClosedMeansMerged
    PreCharged
    NothingStranded
    RetryNeverRefused
    SuccessMeansBoth
CHECK_DEADLOCK FALSE
