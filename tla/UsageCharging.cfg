SPECIFICATION FairChargeSpec
CONSTANTS
    good = good
    bad = bad
    Drainers = {engine, pipeline}
    PendingMax = 1
    MaxAttempts = 3
    Charges <- MCCharges
    Malformed <- MCMalformed
CHECK_DEADLOCK FALSE
INVARIANTS
    ChargeTypes
    ChargedOnce
    NoneForgotten
PROPERTIES
    Settles
