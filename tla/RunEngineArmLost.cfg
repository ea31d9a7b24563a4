SPECIFICATION Spec
CONSTANTS
    b1 = b1
    f1 = f1
    o1 = o1
    Batches = {}
    Oversized = {}
    Refs = {}
    MaxRounds = 1
    MaxFaults = 2
    Faulty = {"cancel", "qwen_correction"}
CHECK_DEADLOCK FALSE
INVARIANTS
    BothArmsCollected
