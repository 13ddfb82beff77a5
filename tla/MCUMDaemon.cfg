CONSTANTS
    d1 = d1
    d2 = d2
    e1 = e1
    e2 = e2
    t1 = t1
    t2 = t2
    Daemons = {d1, d2}
    Edits = {e2}
    Tokens = {t1, t2}
    TokenOf <- MCTokenOf
    FirstTokens = {t1}
    NoOne = NoOne
    Overlap = 1
    Day = 1
    MaxLag = 2
    ReloadEvery = 2
    MaxTime = 5
    MaxFaults = 1
SPECIFICATION FairSpec
INVARIANTS
    OneMaster
    NoEditLeftBehind
PROPERTIES
    EveryEditFetched
CHECK_DEADLOCK FALSE
