SPECIFICATION QueuedSpec
CONSTANTS
    MaxMessages = 2
    MaxAttempts = 3
    Limit = 2
    Senders = {}
    Drainers = {d1, d2}
    Nobody = Nobody
    Answers = {"accepted", "refused"}
    MaxCrashes = 0
    MaxRequeues = 0
INVARIANTS
    NoDoubleSend
CHECK_DEADLOCK FALSE
