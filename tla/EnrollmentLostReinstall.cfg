SPECIFICATION ReadySpec
CONSTANTS
    Clients = {m1}
    RowIds = {k1}
    ClusterIds = {c1, c2}
    NodeImageIds = {i1}
    Roles = {"worker"}
    Tokens = {t1, t2}
    Uuids = {}
    BootImages = {}
    Requests = {r1, r2}
    None = None
    TTL = 1
    MaxTime = 1
    EnforceFK = FALSE
    CreateForms <- BlankForms
    Ops <- RaceOps
SYMMETRY Symmetry
PROPERTIES
    BootNeverCancelsApproval
