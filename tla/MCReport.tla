------------------------------- MODULE MCReport -------------------------------
(***************************************************************************)
(* The instance of the report's modules that TLC checks.  They share no    *)
(* state: a behaviour is of one part, the others stay as they are.         *)
(***************************************************************************)
EXTENDS LodashLazy, LodashCompare, LodashDebounce, LodashLaws, ChartReport

VARIABLE part

reportVars ==
    <<part, lazyVars, cacheVars, compareVars, debounceVars, given, chartVars>>

-----------------------------------------------------------------------------
(* What the constants are                                                  *)

MCElements == {1, 2, NaN, Null, Undefined}

\* One that tells all values apart, one that does not, one that makes a NaN.
MCIteratees ==
    {[v \in MCElements |-> v],
     [v \in MCElements |-> IF v \in {1, 2} THEN 1 ELSE v],
     [v \in MCElements |-> IF v = 1 THEN NaN ELSE IF v = Null THEN 3 ELSE v]}

Numbers == {1, 2, 3, Undefined}

Among(S) == [v \in Numbers |-> v \in S]

MCMethods ==
    {[name |-> "map", f |-> [v \in Numbers |-> IF v = Undefined THEN v ELSE 4 - v]],
     [name |-> "filter", f |-> Among({1, 3})],
     [name |-> "filter", f |-> Among({2, 3})],
     [name |-> "reject", f |-> Among({2})],
     [name |-> "takeWhile", f |-> Among({1, 2})],
     [name |-> "takeRightWhile", f |-> Among({2, 3})],
     [name |-> "dropWhile", f |-> Among({1})],
     [name |-> "at", n |-> 1],
     [name |-> "slice", n |-> 1, m |-> Undefined],
     [name |-> "slice", n |-> -2, m |-> Undefined],
     [name |-> "slice", n |-> 1, m |-> -1],
     [name |-> "slice", n |-> 0, m |-> 2]}
    \cup [name : {"take", "drop", "takeRight", "dropRight"}, n : {0, 2}]
    \cup [name : {"reverse", "initial", "tail", "toArray"}]

MCSubjects == {<<1, 2, 3>>, <<2>>}

Arrays3 == {"a", "x", "y"}

\* Every way for three arrays of two to contain one another.
MCHeaps == [Arrays3 -> (Arrays3 \cup {Null}) \X (Arrays3 \cup {Null})]

Points(dates, last1) ==
    [k \in 1 .. Len(dates) |->
        [date |-> dates[k], value |-> IF k = Len(dates) THEN last1 ELSE 0]]

\* Hosts that lack dates at the end, at the start, in the middle or all of them.
MCData ==
    UNION {[hosts -> {Points(dates, last1) :
                        dates \in {<<1, 2, 3>>, <<1, 2>>, <<2, 3>>, <<1, 3>>, <<>>},
                        last1 \in 1 .. 2}] :
           hosts \in {{"h"}, {"h", "i"}, {"h", "i", "j"}}}

-----------------------------------------------------------------------------
AnArray == CHOOSE array \in MCSubjects : TRUE

AHeap == [a \in Arrays3 |-> <<Null, Null>>]

NoCompare == CompareInit(AHeap, "a", "x") /\ hasMap

NoData == [h \in {} |-> <<>>]

Init ==
    /\ CacheInit
    /\ \/ /\ part = "chain"
          /\ LazyInit
          /\ NoCompare /\ debounce(throttle(TRUE, TRUE))
          /\ given = Undefined /\ ChartInit(NoData)
       \/ /\ part \in {"cache", "memo"}
          /\ LazyInit /\ subject = AnArray
          /\ NoCompare /\ debounce(throttle(TRUE, TRUE))
          /\ given = Undefined /\ ChartInit(NoData)
       \/ /\ part = "compare"
          /\ \E h \in MCHeaps : CompareInit(h, "a", "x")
          /\ LazyInit /\ subject = AnArray /\ debounce(throttle(TRUE, TRUE))
          /\ given = Undefined /\ ChartInit(NoData)
       \/ /\ part = "debounce"
          /\ \E opts \in Options : debounce(opts)
          /\ LazyInit /\ subject = AnArray /\ NoCompare
          /\ given = Undefined /\ ChartInit(NoData)
       \/ /\ part = "laws"
          /\ LawsInit
          /\ LazyInit /\ subject = AnArray /\ NoCompare
          /\ debounce(throttle(TRUE, TRUE)) /\ ChartInit(NoData)
       \/ /\ part = "chart"
          /\ \E d \in MCData : ChartInit(d)
          /\ LazyInit /\ subject = AnArray /\ NoCompare
          /\ debounce(throttle(TRUE, TRUE)) /\ given = Undefined

Next ==
    /\ UNCHANGED <<part, given>>
    /\ \/ /\ part = "chain" /\ LazyNext
          /\ UNCHANGED <<cacheVars, compareVars, debounceVars, chartVars>>
       \/ /\ part = "cache" /\ CacheNext
          /\ UNCHANGED <<lazyVars, compareVars, debounceVars, chartVars>>
       \/ /\ part = "memo" /\ MemoNext
          /\ UNCHANGED <<lazyVars, compareVars, debounceVars, chartVars>>
       \/ /\ part = "compare" /\ CompareNext
          /\ UNCHANGED <<lazyVars, cacheVars, debounceVars, chartVars>>
       \/ /\ part = "debounce" /\ DebounceNext
          /\ UNCHANGED <<lazyVars, cacheVars, compareVars, chartVars>>
       \/ /\ part = "chart" /\ ChartNext
          /\ UNCHANGED <<lazyVars, cacheVars, compareVars, debounceVars>>

Spec == Init /\ [][Next]_reportVars /\ (part = "debounce" => DebounceFairness)

=============================================================================
