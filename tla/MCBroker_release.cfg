SPECIFICATION FairSpec
CONSTANTS
    m1 = m1
    m2 = m2
    a1 = a1
    a2 = a2
    t1 = t1
    t2 = t2
    s1 = s1
    s2 = s2
    nil = nil
    Machines = {m1}
    Revocable = {m1}
    AgentConns = {a1, a2}
    Tabs = {t1}
    Sids = {s1}
    QueueLen = 2
ACTION_CONSTRAINT SuccessorIsLate
INVARIANTS
    OneEndAndLast
    CloseMeansEnded
PROPERTIES
    KeyLostForAReason
    EndedIsReleased
    ImplementsFairLife
