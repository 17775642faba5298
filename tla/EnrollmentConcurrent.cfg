SPECIFICATION ReadySpec
CONSTANTS
    Clients = {m1}
    RowIds = {k1}
    ClusterIds = {c1, c2}
    NodeImageIds = {i1}
    Roles = {"controlplane", "worker"}
    Tokens = {t1, t2}
    Uuids = {}
    BootImages = {}
    Requests = {r1, r2}
    None = None
    TTL = 0
    MaxTime = 2
    EnforceFK = FALSE
    CreateForms <- AnyForms
    Ops <- RaceOps
SYMMETRY Symmetry
INVARIANTS
    TypeOK
    TokensSound
    ServedAsIssued
PROPERTIES
    RevokedStaysRevoked
