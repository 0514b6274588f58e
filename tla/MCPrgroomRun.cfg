SPECIFICATION Spec
CONSTANTS
    thread = thread
    remark = remark
    Items = {thread, remark}
    Threads = {thread}
    Budgets = {1}
    MaxForeign = 2
    MaxFaults = 1
INVARIANTS
    TypeOK
    RepliesOnce
    NothingForgotten
    FixesArePublished
    GateIsAnnounced
PROPERTIES
    BudgetHolds
    RunAdvances
