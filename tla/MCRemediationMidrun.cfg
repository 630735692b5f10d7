SPECIFICATION Spec
CONSTANTS
    d1 = d1
    d2 = d2
    Daemon = {d1, d2}
    NReviews = 4
    NComments = 2
    Parent <- Standalone
    Verdict <- Verdicts
    Own <- OwnReply
    Length <- Short
    MaxPayload = 5
    MaxDeliver = 3
    Setups <- OneScan
INVARIANT NeverDropped
CHECK_DEADLOCK FALSE
