SPECIFICATION FairFeedSpec
CONSTANTS
    MaxOut = 2
    MaxKeys = 2
    QueueLen = 2
    nil = nil
    tab = tab
    Conns = {tab}
    Frames <- FeedFrames
CHECK_DEADLOCK FALSE
INVARIANTS
    ProbedPageIsInMode
    FinalFrameIsShown
PROPERTIES
    ConnIsARelay
    ImplementsViewer
    AcceptedIsShown
    EndReachesTheUser
