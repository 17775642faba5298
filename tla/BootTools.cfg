SPECIFICATION FairSpec
CONSTANTS
    u1 = u1
    u2 = u2
    k1 = k1
    k2 = k2
    k3 = k3
    Names = {n1}
    Urls = {u1, u2}
    Paths = {k1, k2, k3}
    Holds <- MCHolds
    Defs <- MCDefs
    Requests = {r1, r2}
    Slots = {d1, d2}
    None = None
    MaxId = 2
    MaxOps = 4
INVARIANTS
    TypeOK
    OfferedOnDisk
    ProgressHonest
PROPERTIES
    DownloadsEnd
CHECK_DEADLOCK FALSE
