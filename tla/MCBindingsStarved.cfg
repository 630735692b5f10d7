SPECIFICATION FairSpec
CONSTANTS
    d1 = d1
    d2 = d2
    a1 = a1
    b1 = b1
    v1 = v1
    v2 = v2
    Daemon = {d1}
    Approver = {a1}
    Binding = {b1}
    Delivery = {v1, v2}
    NCaptures = 2
    DeliveryOf <- Distinct
    Dispatchable <- Signed
    MaxEvents = 2
    BatchLimit = 1
    MaxOperations = 0
    MaxFaults = 0
    MaxCrashes = 0
PROPERTY EveryCaptureOffered
CHECK_DEADLOCK FALSE
