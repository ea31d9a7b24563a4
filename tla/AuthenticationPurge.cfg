SPECIFICATION MCSpec
CONSTANTS
    p1 = p1
    p2 = p2
    m1 = m1
    m2 = m2
    Processes = {m1, m2}
    Nobody = Nobody
    OldRows = {"ann", "bob"}
    Instants = {1, 2, 3}
    Phones = {p1, p2}
    Users = {1, 2}
    Subjects = {"mail"}
    NoUser = NoUser
    BanThreshold = 2
    MaxOperations = 7
    MaxGenerations = 2
    MaxFamilies = 2
    MaxLogins = 3
    MaxRotations = 2
    Challenges = {1, 2, 3}
    Grants = {1, 2}
    MaxAttempts = 2
    Clients = {"browser"}
    Addresses = {"home"}
    Limits <- MCLimits
    Starts <- MCStarts
    Workloads = {"registration"}
INVARIANT PurgeNeverRefused
CHECK_DEADLOCK FALSE
