SPECIFICATION Spec
CONSTANTS
    Files = {f1}
    Requests = {r1}
    Methods <- AllMethods
    MethodEdits = {"nfs"}
    Ops <- ServerOps
INVARIANT
    OnlyEditsUnchecked
SYMMETRY Symmetry
PROPERTIES
    NeverOverwritten
    RowsNeedFiles
