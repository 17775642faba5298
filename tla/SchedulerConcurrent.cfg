SPECIFICATION FairSpec
CONSTANTS
    TaskIds = {t1}
    Confs = {c1, bad}
    BadConfs = {bad}
    Requests = {r1, r2}
    Main = main
    Slots = {s1, s2}
    None = None
    MaxLoads = 2
    MaxRuns = 2
INVARIANTS
    TypeOK
    EntriesTracked
    RunsAccounted
    InSync
PROPERTIES
    StopReturns
