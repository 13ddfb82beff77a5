CONSTANTS
    d1 = d1
    d2 = d2
    e1 = e1
    e2 = e2
    t1 = t1
    t2 = t2
    Daemons = {d1}
    Edits = {e2}
    Tokens = {t1, t2}
    TokenOf <- MCTokenOf
    FirstTokens = {t1}
    NoOne = NoOne
    Overlap = 1
    Day = 2
    MaxLag = 2
    ReloadEvery = 2
    MaxTime = 5
    MaxFaults = 2
SPECIFICATION FairSpec
PROPERTIES
    ShutsDown
CHECK_DEADLOCK FALSE
