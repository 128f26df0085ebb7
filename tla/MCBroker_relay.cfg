SPECIFICATION Spec
CONSTANTS
    m1 = m1
    m2 = m2
    a1 = a1
    a2 = a2
    t1 = t1
    t2 = t2
    s1 = s1
    s2 = s2
    nil = nil
    Machines = {m1, m2}
    Revocable = {}
    AgentConns = {a1, a2}
    Tabs = {t1, t2}
    Sids = {s1}
    QueueLen = 1
SYMMETRY Interchangeable
INVARIANTS
    OneTabPerKey
    Isolation
    MappedIsOpen
    NothingForgotten
    LossBannerIsTrue
    SessionFollowsAgent
