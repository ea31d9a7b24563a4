SPECIFICATION Spec
CONSTANTS
    m1 = m1
    m2 = m2
    s1 = s1
    Manifests = {m1, m2}
    Snapshots = {s1}
    MaxTransfers = 5
    MaxFaults = 3
    Faulty = {"crash", "head", "put", "cancel"}
CHECK_DEADLOCK FALSE
INVARIANTS
    TypeOK
    OneObjectPerIntent
    NothingLeaks
    BoundExists
PROPERTIES
    ProtectedNeverDeleted
