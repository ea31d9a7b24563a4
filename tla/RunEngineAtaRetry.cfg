SPECIFICATION Spec
CONSTANTS
    b1 = b1
    f1 = f1
    o1 = o1
    Batches = {b1}
    Oversized = {}
    Refs = {}
    MaxRounds = 2
    MaxFaults = 2
    Faulty = {"glm_selection", "ata"}
CHECK_DEADLOCK FALSE
PROPERTIES
    AtaRetryReuses
