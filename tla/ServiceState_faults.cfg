SPECIFICATION Spec
CONSTANTS
    c1 = c1
    c2 = c2
    c3 = c3
    r1 = r1
    r2 = r2
    s1 = s1
    s2 = s2
    Services = {s1, s2}
    Creators = {c1, c2, c3}
    Requesters = {r1}
    ServiceOf <- MCServiceOf
    Asked <- MCAsked
    SaveMayFail = TRUE
    MaxCrashes = 1
INVARIANT TypeOK
INVARIANT ServiceIsKnown
PROPERTY ContextsStay
CHECK_DEADLOCK FALSE
