SPECIFICATION Spec
CONSTANTS
    MaxAttempts = 3
    MaxRounds = 2
    Operations = {"doubao_asr", "ata"}
CHECK_DEADLOCK FALSE
INVARIANTS
    KnownTaskQueried
