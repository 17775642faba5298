SPECIFICATION Spec
CONSTANTS
    Clients = {m1}
    RowIds = {k1, k2}
    ClusterIds = {c1, c2}
    NodeImageIds = {i1}
    Roles = {"worker"}
    Tokens = {t1, t2, t3}
    Uuids = {}
    BootImages = {b1}
    Requests = {r1}
    None = None
    TTL = 0
    MaxTime = 2
    EnforceFK = FALSE
    CreateForms <- BlankForms
    Ops <- AllOps
SYMMETRY Symmetry
INVARIANTS
    NoDanglingCluster
PROPERTIES
    LifecycleRefined
