SPECIFICATION Spec
CONSTANTS
    thread = thread
    remark = remark
    Items = {thread}
    Threads = {thread}
    Budgets = {1}
    MaxForeign = 1
    MaxFaults = 0
INVARIANTS
    FailedIsIsolated
