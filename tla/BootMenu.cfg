CONSTANTS
    Images = {1, 2}
    Macs = {m1}
    ClientGroups = {c1}
    Requests = {r1, r2}
    None = None
    GroupIds = {1, 2, 3}
    MaxOps = 2
    ImportRows <- MCImportRows
    InitClients <- MCClients
    InitClientGroups <- MCClientGroups
    InitImages <- MCImages
    InitImageGroups <- MCImageGroups
SPECIFICATION MCSpec
INVARIANTS TypeOK ServedWasGranted ReachExact TargetsResolve UnattendedBoots FailsOnlyOnBrokenGroups
CHECK_DEADLOCK FALSE
SYMMETRY Symmetry
