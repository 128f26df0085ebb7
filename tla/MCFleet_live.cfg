SPECIFICATION FairSpec
CONSTANTS
    m1 = m1
    m2 = m2
    a1 = a1
    a2 = a2
    t1 = t1
    t2 = t2
    s1 = s1
    s2 = s2
    c1 = c1
    c2 = c2
    nil = nil
    Machines = {m1}
    Revocable = {m1}
    Agents = {a1}
    Tabs = {t1}
    Sids = {s1, s2}
    Calls = {c1, c2}
    MaxRestarts = 1
    DigestYields = FALSE
CHECK_DEADLOCK FALSE
PROPERTIES
    KeysAreSwept
    SilentIsReaped
