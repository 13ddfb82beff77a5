----------------------------- MODULE LodashCompare -----------------------------
(***************************************************************************)
(* _.isEqual of lodash.js, for arrays that may contain one another and     *)
(* themselves: a depth-first comparison that keeps the pairs it is inside  *)
(* of in a Stack.  Objects are compared in the same way, property by       *)
(* property; other types, customizers and partial comparisons are left     *)
(* out.                                                                    *)
(***************************************************************************)
EXTENDS LodashCache

CONSTANT MaxDepth       \* the limit of JavaScript's call stack

ASSUME MaxDepthAssumption == MaxDepth \in Nat \ {0}

ASSUME VerdictAssumption == Undefined \notin {"equal", "different", "overflow"}

VARIABLES
    start,      \* the two arrays
    hasMap,     \* the engine has a Map
    heap,       \* the elements of each array, an array or an atom
    frames,     \* the calls of equalArrays, innermost last
    stack,      \* the Stack they share
    verdict,    \* what isEqual returns, "overflow" if it throws; Undefined until then
    crossed,    \* history: an array was met while inside it, beside another one
    reentered   \* history: and entered while the Stack was a MapCache

compareVars == <<start, hasMap, heap, frames, stack, verdict, crossed, reentered>>

isArray(value) == value \in DOMAIN heap

\* Faulty variant: an array it is inside of is taken for equal to any other.
equalShallowTrusting(value, other) ==
    IF value = other THEN "equal"
    ELSE IF ~isArray(value) \/ ~isArray(other) \/ Len(heap[value]) # Len(heap[other])
    THEN "different"
    ELSE IF stackGet(stack, value) = Undefined THEN "deep" ELSE "equal"

\* What is known without going inside: "deep" if nothing is.
equalShallow(value, other) ==
    IF value = other THEN "equal"
    ELSE IF ~isArray(value) \/ ~isArray(other) \/ Len(heap[value]) # Len(heap[other])
    THEN "different"
    ELSE LET found == stackGet(stack, value)
         IN  IF found = Undefined \/ stackGet(stack, other) = Undefined THEN "deep"
             ELSE IF found = other THEN "equal" ELSE "different"

Frame(array, other) == [array |-> array, other |-> other, index |-> 0]

Entered(s, array, other) ==
    stackSet(hasMap, stackSet(hasMap, s, array, other), other, array)

CompareInit(h, array, other) ==
    /\ hasMap \in BOOLEAN
    /\ heap = h
    /\ start = <<array, other>>
    /\ array # other
    /\ Len(h[array]) = Len(h[other])
    /\ frames = <<Frame(array, other)>>
    /\ stack = Entered(Stack, array, other)
    /\ verdict = Undefined
    /\ crossed = FALSE
    /\ reentered = FALSE

Top == Last(frames)

Step(fs) == [fs EXCEPT ![Len(fs)].index = @ + 1]

Inside == {frames[k].array : k \in DOMAIN frames} \cup {frames[k].other : k \in DOMAIN frames}

\* One round of the loop of equalArrays.  A difference ends all the loops.
CompareElement ==
    /\ verdict = Undefined
    /\ Top.index < Len(heap[Top.array])
    /\ LET value == At(heap[Top.array], Top.index)
           other == At(heap[Top.other], Top.index)
           known == equalShallow(value, other)
           met == {value, other} \cap Inside # {}
           fits == Len(frames) < MaxDepth
       IN  /\ frames' = CASE known = "equal" -> Step(frames)
                           [] known = "different" -> <<>>
                           [] OTHER -> IF fits THEN Append(frames, Frame(value, other)) ELSE <<>>
           /\ stack' = IF known = "deep" /\ fits THEN Entered(stack, value, other) ELSE stack
           /\ verdict' = CASE known = "different" -> "different"
                            [] known = "deep" /\ ~fits -> "overflow"
                            [] OTHER -> Undefined
           /\ crossed' = (crossed \/ (met /\ known = "different" /\ isArray(value)))
           /\ reentered' = (reentered \/ (met /\ known = "deep" /\ stack'.data.kind = "map"))
           /\ UNCHANGED <<start, hasMap, heap>>

\* equalArrays returns true.
LeaveArrays ==
    /\ verdict = Undefined
    /\ Top.index = Len(heap[Top.array])
    /\ stack' = stackDelete(stackDelete(stack, Top.array), Top.other)
    /\ frames' = IF Len(frames) = 1 THEN <<>> ELSE Step(Front(frames))
    /\ verdict' = IF Len(frames) = 1 THEN "equal" ELSE Undefined
    /\ UNCHANGED <<start, hasMap, heap, crossed, reentered>>

CompareNext == CompareElement \/ LeaveArrays

-----------------------------------------------------------------------------
\* The pairs of R of which the elements are the same or a pair of R again.
Kept(R) ==
    {p \in R :
        /\ Len(heap[p[1]]) = Len(heap[p[2]])
        /\ \A i \in DOMAIN heap[p[1]] :
            \/ heap[p[1]][i] = heap[p[2]][i]
            \/ <<heap[p[1]][i], heap[p[2]][i]>> \in R}

\* The pairs of arrays no path of indices tells apart: the most that keep one
\* another.
Alike == UNION {R \in SUBSET ((DOMAIN heap) \X (DOMAIN heap)) : R = Kept(R)}

\* What isEqual takes for equal is alike, however the arrays contain one another,
\* though it assumes a pair it is inside of to be equal; and what it takes for
\* different is not, unless it met an array while inside it beside another one.
EqualIsAlike ==
    /\ verdict = "equal" => start \in Alike
    /\ verdict = "different" /\ ~crossed => start \notin Alike

\* Going inside ends, for arrays that contain themselves, too: no deeper than
\* there are arrays.  The exception is a Stack that has become a MapCache: it
\* does not get back what an inner comparison of the same array overwrote.
NoRunaway == verdict = "overflow" => reentered

=============================================================================
