SPECIFICATION FairSpec
CONSTANTS
    thread = thread
    remark = remark
    Items = {thread}
    Threads = {thread}
    Budgets = {0, 1}
    MaxForeign = 2
    MaxFaults = 1
PROPERTIES
    RunEnds
    CommentsAreHandled
