SPECIFICATION Spec
CONSTANTS
    MaxAttempts = 3
    MaxRounds = 2
    Operations = {"doubao_asr"}
CHECK_DEADLOCK FALSE
INVARIANTS
    DoubtNotRetried
