SPECIFICATION FairSpec
CONSTANTS
    p1 = p1
    p2 = p2
    s1 = s1
    nil = nil
    Ptys = {p1}
    Sids = {s1}
    Encrypted = FALSE
    FlushBytes = 2
    ChunkCap = 1
    MaxOut = 1
    MaxInbox = 1
    MaxFrames = 2
PROPERTIES
    LossKillsEveryPty
