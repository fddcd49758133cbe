SPECIFICATION Spec
CONSTANTS
    e1 = e1
    e2 = e2
    Engine = {e1, e2}
    Home = e1
    MaxCalls = 3
    MaxAsked = 2
    Kinds = {"hold", "undo"}
    Edits = {2}
    Blind = {"insert"}
    MaxTurns = 2
    MaxFaults = 1
CHECK_DEADLOCK FALSE
INVARIANTS
    TypeOK
    ActsAsDecided
PROPERTIES
    TurnsEnd
