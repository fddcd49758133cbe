\* The requests, webhooks and scheduled runs are bounded, so the system stops.
SPECIFICATION Spec
CHECK_DEADLOCK FALSE
CONSTANTS
    Job <- MCJob
    Nobody <- MCNobody
    Provider <- MCProvider
    Items = 3
    Limit = 1
    Guardrail = {1, 10}
    Events = {1}
    Shaky = {"gmail", "gdrive", "slack"}
    MaxRequests = 1
INVARIANTS
    TypeOK
    OneJobAtATime
    LockIsAccountedFor
    CompleteBackfillHasAll
