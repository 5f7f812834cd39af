SPECIFICATION Spec
CONSTANTS
    Inbox = 2
    Window = 1
    Code <- MCCode
    Calls <- MCCalls
    Uses <- MCUses
    Programs <- MCPrograms
CHECK_DEADLOCK FALSE
INVARIANTS
    OutputIsComplete
    StatusIsExit
    EndsForAReason
    PlainExecIsComplete
PROPERTIES
    ReadingEnds
    RefusalEnds
    ChannelReleased
