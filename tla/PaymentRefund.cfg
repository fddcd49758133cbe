SPECIFICATION Spec
CONSTANTS
    workspace = workspace
    NoId = NoId
    Orders = {order1}
    Ids = {order1}
    Threads = {t1, t2}
    Workspaces <- MCWorkspaces
    Account <- MCAccount
    Price <- MCPrice
    Commands <- MCCommands
CHECK_DEADLOCK FALSE
INVARIANTS
    RefundTakesCredits
