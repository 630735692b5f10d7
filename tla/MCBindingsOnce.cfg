SPECIFICATION FairSpec
CONSTANTS
    d1 = d1
    d2 = d2
    a1 = a1
    b1 = b1
    v1 = v1
    v2 = v2
    Daemon = {d1, d2}
    Approver = {a1}
    Binding = {b1}
    Delivery = {v1, v2}
    NCaptures = 3
    DeliveryOf <- Retried
    Dispatchable <- Signed
    MaxEvents = 2
    BatchLimit = 2
    MaxOperations = 1
    MaxFaults = 1
    MaxCrashes = 1
INVARIANT AtMostOnce
INVARIANT LedgerTellsTruth
PROPERTY EveryCaptureOffered
CHECK_DEADLOCK FALSE
