SPECIFICATION MCSpec
CONSTANTS
    w1 = w1
    w2 = w2
    user = user
    guest = guest
    key = key
    free = free
    order = order
    NoId = NoId
    NoWorker = NoWorker
    NoCommand = NoCommand
    Workers = {p1, p2}
    MaxLines = 2
    Workspaces = {w1, w2}
    Ids <- MCIds
    Owner <- MCOwner
    Commands <- MCCommands
INVARIANTS
    LedgerTyped
    BooksExplainAccounts
    WelcomeOnceInOwnWorkspace
    AnswersTruthful
PROPERTIES
    RefinesAtomicLedger
    NoUnaskedOverdraft
    Served
