SPECIFICATION Spec
CONSTANTS
    m1 = m1
    m2 = m2
    label = label
    t1 = t1
    never = never
    blank = blank
    nil = nil
    torn = torn
    Machines = {m1, m2}
    Labels = {label}
    Times = {t1}
INVARIANTS
    RevokedStaysGone
