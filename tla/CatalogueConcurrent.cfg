SPECIFICATION Spec
CONSTANTS
    Files = {f1}
    Requests = {r1, r2}
    Methods <- FewMethods
    MethodEdits = {}
    Ops <- PairOps
SYMMETRY Symmetry
INVARIANTS
    TypeOK
    UploadDelivers
    ExtractDelivers
    DeleteDelivers
    ScanReconciles
