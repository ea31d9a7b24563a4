SPECIFICATION Spec
CONSTANTS
    b1 = b1
    f1 = f1
    o1 = o1
    Batches = {}
    Oversized = {}
    Refs = {f1}
    MaxRounds = 2
    MaxFaults = 2
    Faulty = {"crash", "cancel", "reference", "media_upload", "qwen_asr", "doubao_asr", "kimi_correction", "ata", "local"}
CHECK_DEADLOCK FALSE
INVARIANTS
    TypeOK
    CallsSettled
    RetryChains
    PaidOnce
    TailCurrent
    NoIntegrityFailure
    CorrectionsUseRefs
    PaidResultsKept
    SuccessExport
PROPERTIES
    EarlierRoundsFrozen
    ContractHolds
