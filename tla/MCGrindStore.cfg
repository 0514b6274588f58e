SPECIFICATION Spec
CONSTANTS
    MaxEvents = 4
    Nothing = Nothing
    Torn = Torn
    RunTogether = RunTogether
INVARIANTS
    StoreTypeOK
    CreationFirst
PROPERTIES
    DurableStays
    AnswerIsProjected
    IsOneLog
CHECK_DEADLOCK FALSE
