SPECIFICATION Spec
CONSTANTS
    NaN = NaN
    Undefined = Undefined
    Null = Null
    HASH_UNDEFINED = HASH_UNDEFINED
    Atoms = {NaN, Undefined, Null}
    LARGE_ARRAY_SIZE = 3
    Elements <- MCElements
    Iteratees <- MCIteratees
    MaxLength = 3
    Methods <- MCMethods
    Subjects <- MCSubjects
    MaxCalls = 3
    Strings = {"s"}
    Simple = {"n"}
    Objects = {"a", "x", "y"}
    Values = {1, Undefined}
    MAX_MEMOIZE_SIZE = 2
    MaxDepth = 5
    wait = 2
    MaxWaits = {1, 2, 3}
    Args = {1, 2}
    MaxTimers = 2
    TopN = 2
INVARIANTS
    LazyEqualsEager ChainEndsAlike
    CacheIsMap MemoizeIsTransparent
    EqualIsAlike NoRunaway
    SetOpsAgree SearchesAgree OrderByStable RemovalExact SlicesPartition
    AggregatesAgree EveryOrderPossible
    ValuesAtTheirDates TopHostsShown
PROPERTIES
    OncePerCall LastCallDelivered
CHECK_DEADLOCK FALSE
