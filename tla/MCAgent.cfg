SPECIFICATION FairSpec
CONSTANTS
    p1 = p1
    p2 = p2
    s1 = s1
    nil = nil
    Ptys = {p1, p2}
    Sids = {s1}
    Encrypted = TRUE
    FlushBytes = 2
    ChunkCap = 1
    MaxOut = 3
    MaxInbox = 1
    MaxFrames = 3
ACTION_CONSTRAINT OneAtATime
INVARIANTS
    EveryShellIsReachable
    TamperedIsKilled
    OutputBeforeExit
PROPERTIES
    ExitIsReported
    PumpsEnd
    LossIsNoticed
