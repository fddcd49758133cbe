SPECIFICATION RecordsSpec
CONSTANTS
    ConflictRetries = 3
    MaxEdits = 2
    MaxToolFaults = 2
    Files <- MCFiles
    ImportEdits = 2
    ImportFaults = 1
    MaxEnabled = 2
    MaxOwn = 1
    MaxSaves = 3
    MaxRequests = 3
    w1 = w1
    w2 = w2
    Worker = {w1, w2}
    MaxAttempts = 2
    MaxNotFound = 2
    Batch = 3
    MaxRecords = 3
    MaxFailures = 1
CHECK_DEADLOCK FALSE
INVARIANTS
    RecordTypes
    AnswersTrue
    ReportedIsSo
PROPERTIES
    SkillsAsAllowed
    KeepsOthersWork
    OthersWorkStays
