SPECIFICATION FairSpec
CONSTANTS
    Machines = {m1}
    Reqs = {r1, r2}
    MaxEvents = 3
    nil = nil
INVARIANTS
    ToastsTellTheRows
PROPERTIES
    GoodTokenIsKept
    WrongTokenIsAskedAgain
    Converges
