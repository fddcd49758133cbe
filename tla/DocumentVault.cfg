SPECIFICATION Spec
CONSTANTS
    Doc = {d1, d2}
    Version = {1, 2, 3}
    Stub = 3
    Chunks <- SomeChunks
    MaxAttempts = 2
    MaxJobs = 4
    Origin = {"upload", "url", "sync"}
    Req = {q1, q2}
    MaxAsked = 2
    MaxFaults = 1
CHECK_DEADLOCK FALSE
INVARIANTS
    TypeOK
    IndexedIsWhole
    OnlyPassedIsFound
PROPERTIES
    ParsingEnds
