CONSTANTS
    None = None
    Order <- OrderTwo
    Entries <- EntriesTwo
    Answers <- AnswersTwo
    CardIds = {"card"}
    Addrs = {"hw:1", "hw:2"}
    Streams = {"s1"}
    Backoff <- BackoffTwo
    RetrySettle = 1
    RetryResetAfter = 1
    Top = 1
    Shortfalls = 1
    Discoveries = {TRUE}
    Encoders = TRUE
    Periods = TRUE
    MaxSaves = 2
    MaxTrouble = 3
SPECIFICATION FairSpec
CHECK_DEADLOCK FALSE
INVARIANTS PumpsAccounted DownIsTold RetryHasWakeup Discoverable
PROPERTY ProofBeforeClear RetriedUntilUp
