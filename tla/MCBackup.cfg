CONSTANTS
    a = a
    Jobs = {a}
    MaxRetries = 2
    RetentionMs = 1
    MaxLives = 2
    MaxTasks = 2
    MaxChatFails = 1
    EarlyChats = FALSE
SPECIFICATION BackupSpec
INVARIANTS
    RestoredSound
    RetryBudget
    BackedUp
    RestartRestores
PROPERTY EndedStaysEnded
CHECK_DEADLOCK FALSE
