SPECIFICATION MixedSpec
CONSTANTS
    MaxMessages = 3
    MaxAttempts = 2
    Limit = 2
    Senders = {s1}
    Drainers = {d1, d2}
    Nobody = Nobody
    Answers = {"accepted", "refused", "lost"}
    MaxCrashes = 1
    MaxRequeues = 1
INVARIANTS
    NothingLost
    AttemptsWereMade
    LockedRowsAreFresh
PROPERTIES
    QueueSettles
CHECK_DEADLOCK FALSE
