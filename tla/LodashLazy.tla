------------------------------ MODULE LodashLazy ------------------------------
(***************************************************************************)
(* Method chains of lodash.js, _(array).map(f).take(2)...value(): map,     *)
(* filter, takeWhile, take, drop, reverse and what is built of them are    *)
(* put off and done in one pass over the array (LazyWrapper), the other    *)
(* methods are remembered as actions on its result (LodashWrapper).  Each  *)
(* LazyWrapper keeps its methods as actions, too, for the case that there  *)
(* is nothing to be saved.                                                 *)
(*                                                                         *)
(* A method is a record: its name, and n, m (numbers) or f (a function)    *)
(* where it takes them.                                                    *)
(***************************************************************************)
EXTENDS LodashArrays

CONSTANTS
    Methods,        \* the calls a chain is made of
    Subjects,       \* the arrays it is called on
    MaxCalls        \* bound

ASSUME MaxCallsAssumption == MaxCalls \in Nat

VARIABLES
    subject,        \* the array
    chained,        \* the wrapper of the calls so far
    eager,          \* what the same calls return one by one
    calls,          \* the calls
    astray          \* history: a step that lodash gets wrong was taken

lazyVars == <<subject, chained, eager, calls, astray>>

\* 4294967295 of the code
MAX_ARRAY_LENGTH == 1000

-----------------------------------------------------------------------------
(* What a method does to an array                                          *)

Perform(method, array) ==
    CASE method.name = "map" -> arrayMap(array, method.f)
      [] method.name = "filter" -> arrayFilter(array, method.f)
      [] method.name = "reject" -> arrayFilter(array, negate(method.f))
      [] method.name = "takeWhile" -> takeWhile(array, method.f)
      [] method.name = "takeRightWhile" -> takeRightWhile(array, method.f)
      [] method.name = "dropWhile" -> dropWhile(array, method.f)
      [] method.name = "take" -> take(array, method.n)
      [] method.name = "takeRight" -> takeRight(array, method.n)
      [] method.name = "drop" -> drop(array, method.n)
      [] method.name = "dropRight" -> dropRight(array, method.n)
      [] method.name = "slice" -> slice(array, method.n, method.m)
      [] method.name = "initial" -> initial(array)
      [] method.name = "tail" -> tail(array)
      [] method.name = "reverse" -> reverse(array)
      [] method.name = "toArray" -> copyArray(array)
      [] method.name = "at" -> baseAt(array, <<method.n>>)
      [] method.name = "padded" -> IF array = <<>> THEN <<Undefined>> ELSE array

-----------------------------------------------------------------------------
(* Wrappers                                                                *)

Plain(array) == [kind |-> "array", value |-> array]

LodashWrapper(value) == [kind |-> "wrapper", wrapped |-> value, actions |-> <<>>]

lodash(array) == LodashWrapper(Plain(array))

LazyWrapper(value) ==
    [kind |-> "lazy", wrapped |-> value, actions |-> <<>>, dir |-> 1,
     filtered |-> FALSE, iteratees |-> <<>>, takeCount |-> MAX_ARRAY_LENGTH,
     views |-> <<>>]

isLazy(value) == value.kind = "lazy"

lazyClone(lazy) == lazy

Push(wrapper, action) == [wrapper EXCEPT !.actions = Append(@, action)]

baseWrapperValue(value, actions) ==
    FoldLeft(LAMBDA result, action : Perform(action, result), value, actions)

getView(start, end, transforms) ==
    FoldLeft(LAMBDA view, t :
                CASE t.type = "drop" -> [view EXCEPT !.start = @ + t.size]
                  [] t.type = "dropRight" -> [view EXCEPT !.end = @ - t.size]
                  [] t.type = "take" ->
                        [view EXCEPT !.end = Min({@, view.start + t.size})]
                  [] t.type = "takeRight" ->
                        [view EXCEPT !.start = Max({@, view.end - t.size})],
             [start |-> start, end |-> end], transforms)

\* One value through the iteratees, up to the first one that refuses it.
Pass(value, iteratees) ==
    FoldLeft(LAMBDA acc, data :
                IF acc.flow # "on" THEN acc
                ELSE IF data.type = "map" THEN [acc EXCEPT !.value = data.iteratee[@]]
                ELSE IF data.iteratee[acc.value] THEN acc
                ELSE [acc EXCEPT !.flow = IF data.type = "filter" THEN "skip" ELSE "stop"],
             [value |-> value, flow |-> "on"], iteratees)

RECURSIVE Value(_)

\* The values in the view, in the wrapper's direction, until takeCount of them
\* have passed.
lazyValue(lazy) ==
    LET array == Value(lazy.wrapped)
        isRight == lazy.dir < 0
        view == getView(0, Len(array), lazy.views)
        length == view.end - view.start
        takeCount == Min({length, lazy.takeCount})
        Add(acc, k) ==
            IF acc.stopped \/ Len(acc.result) >= takeCount THEN acc
            ELSE LET index == IF isRight THEN view.end - k ELSE view.start + k - 1
                     passed == Pass(At(array, index), lazy.iteratees)
                 IN  CASE passed.flow = "on" ->
                            [acc EXCEPT !.result = Append(@, passed.value)]
                       [] passed.flow = "skip" -> acc
                       [] passed.flow = "stop" -> [acc EXCEPT !.stopped = TRUE]
    IN  IF ~isRight /\ Len(array) = length /\ takeCount = length
        THEN baseWrapperValue(array, lazy.actions)
        ELSE FoldLeft(Add, [result |-> <<>>, stopped |-> FALSE],
                      [k \in 1 .. length |-> k]).result

wrapperValue(wrapper) == baseWrapperValue(Value(wrapper.wrapped), wrapper.actions)

Value(wrapper) ==
    CASE wrapper.kind = "array" -> wrapper.value
      [] wrapper.kind = "lazy" -> lazyValue(wrapper)
      [] wrapper.kind = "wrapper" -> wrapperValue(wrapper)

-----------------------------------------------------------------------------
(* The methods of a LazyWrapper                                            *)

lazyReverse(lazy) ==
    IF lazy.filtered
    THEN [LazyWrapper(lazy) EXCEPT !.dir = -1, !.filtered = TRUE]
    ELSE [lazyClone(lazy) EXCEPT !.dir = -@]

Sized(lazy, type, n) ==
    IF lazy.filtered THEN [lazy EXCEPT !.takeCount = Min({n, @})]
    ELSE [lazy EXCEPT !.views = Append(@,
            [type |-> IF lazy.dir < 0 THEN type \o "Right" ELSE type, size |-> n])]

\* Faulty variant: on a filtered wrapper, too, it goes on with a clone.
lazyDropCloned(lazy, n) == Sized(lazyClone(lazy), "drop", n)

lazyDrop(lazy, n) == Sized(IF lazy.filtered THEN LazyWrapper(lazy) ELSE lazyClone(lazy), "drop", n)

lazyTake(lazy, n) == Sized(lazyClone(lazy), "take", n)

lazyDropRight(lazy, n) == lazyReverse(lazyDrop(lazyReverse(lazy), n))

lazyTakeRight(lazy, n) == lazyReverse(lazyTake(lazyReverse(lazy), n))

Iterated(lazy, type, f) ==
    [lazyClone(lazy) EXCEPT
        !.iteratees = Append(@, [type |-> type, iteratee |-> f]),
        !.filtered = @ \/ type # "map"]

lazySlice(lazy, start, end) ==
    IF lazy.filtered /\ (start > 0 \/ (end # Undefined /\ end < 0))
    THEN LazyWrapper(lazy)
    ELSE LET from == IF start < 0 THEN lazyTakeRight(lazy, -start)
                     ELSE IF start > 0 THEN lazyDrop(lazy, start) ELSE lazy
         IN  IF end = Undefined THEN from
             ELSE IF end < 0 THEN lazyDropRight(from, -end)
             ELSE lazyTake(from, Max({end - start, 0}))

Lazily(method, lazy) ==
    CASE method.name \in {"map", "filter", "takeWhile"} ->
            Iterated(lazy, method.name, method.f)
      [] method.name = "reject" ->
            Iterated(lazy, "filter", negate(method.f))
      [] method.name = "takeRightWhile" ->
            lazyReverse(Iterated(lazyReverse(lazy), "takeWhile", method.f))
      [] method.name = "take" -> lazyTake(lazy, Max({method.n, 0}))
      [] method.name = "takeRight" -> lazyTakeRight(lazy, Max({method.n, 0}))
      [] method.name = "drop" -> lazyDrop(lazy, Max({method.n, 0}))
      [] method.name = "dropRight" -> lazyDropRight(lazy, Max({method.n, 0}))
      [] method.name = "slice" -> lazySlice(lazy, method.n, method.m)
      [] method.name = "initial" ->
            IF lazy.filtered THEN LazyWrapper(lazy) ELSE lazyDropRight(lazy, 1)
      [] method.name = "tail" ->
            IF lazy.filtered THEN LazyWrapper(lazy) ELSE lazyDrop(lazy, 1)
      [] method.name = "toArray" -> lazyTake(lazy, MAX_ARRAY_LENGTH)

LazyMethods ==
    {"map", "filter", "takeWhile", "reject", "takeRightWhile", "take", "takeRight",
     "drop", "dropRight", "slice", "initial", "tail", "toArray"}

-----------------------------------------------------------------------------
(* The methods of the lodash wrapper                                       *)

\* thru, and every method that is not lazy.
wrapperThru(wrapper, action) == Push(wrapper, action)

\* Actions on top of a lazy value (hybrid) make what follows start anew.
OnlyLazy(wrapper) == isLazy(wrapper.wrapped) /\ wrapper.actions = <<>>

wrapperMethod(wrapper, method) ==
    LET value == IF OnlyLazy(wrapper) THEN wrapper.wrapped ELSE LazyWrapper(wrapper)
    IN  LodashWrapper(Push(Lazily(method, value), method))

wrapperReverse(wrapper) ==
    IF isLazy(wrapper.wrapped)
    THEN LET wrapped == IF wrapper.actions # <<>> THEN LazyWrapper(wrapper) ELSE wrapper.wrapped
         IN  LodashWrapper(Push(lazyReverse(wrapped), [name |-> "reverse"]))
    ELSE wrapperThru(wrapper, [name |-> "reverse"])

\* at with a single index
wrapperAt(wrapper, method) ==
    IF wrapper.actions # <<>> \/ ~isLazy(wrapper.wrapped) \/ method.n < 0
    THEN wrapperThru(wrapper, method)
    ELSE wrapperThru(
            LodashWrapper(Push(lazySlice(wrapper.wrapped, method.n, method.n + 1), method)),
            [name |-> "padded"])

wrapperCommit(wrapper) == LodashWrapper(Plain(wrapperValue(wrapper)))

\* A copy of the chain over another array.
RECURSIVE wrapperPlant(_, _)
wrapperPlant(wrapper, array) ==
    [wrapper EXCEPT !.wrapped =
        IF @.kind = "array" THEN Plain(array) ELSE wrapperPlant(@, array)]

\* head, last and find end a chain.
wrapperHead(wrapper) ==
    At(IF OnlyLazy(wrapper)
       THEN wrapperValue(wrapperMethod(wrapper, [name |-> "take", n |-> 1]))
       ELSE take(wrapperValue(wrapper), 1), 0)

wrapperLast(wrapper) ==
    At(IF OnlyLazy(wrapper)
       THEN wrapperValue(wrapperMethod(wrapper, [name |-> "takeRight", n |-> 1]))
       ELSE takeRight(wrapperValue(wrapper), 1), 0)

wrapperFind(wrapper, f) ==
    IF OnlyLazy(wrapper)
    THEN wrapperHead(wrapperMethod(wrapper, [name |-> "filter", f |-> f]))
    ELSE LET array == wrapperValue(wrapper)
         IN  At(array, findIndex(array, f, Undefined))

\* Faulty variant: the chain is not reversed.
wrapperFindLastForward(wrapper, f) ==
    IF OnlyLazy(wrapper)
    THEN wrapperFind(wrapper, f)
    ELSE LET array == wrapperValue(wrapper)
         IN  At(array, findLastIndex(array, f, Undefined))

wrapperFindLast(wrapper, f) ==
    IF OnlyLazy(wrapper)
    THEN wrapperFind(wrapperReverse(wrapper), f)
    ELSE LET array == wrapperValue(wrapper)
         IN  At(array, findLastIndex(array, f, Undefined))

-----------------------------------------------------------------------------
\* initial, tail and slice of a filtered LazyWrapper return a new one that does
\* nothing but remember the method as its action.  The next lazy method goes on
\* from it, and may give it something to do: then the actions are passed over.
Deferred(wrapper) ==
    /\ OnlyLazy(wrapper)
    /\ wrapper.wrapped = [LazyWrapper(wrapper.wrapped.wrapped)
                            EXCEPT !.actions = wrapper.wrapped.actions]

\* take on a filtered LazyWrapper limits how many values come out in the end,
\* not how many come out of the filters up to now.
Limited(wrapper) == OnlyLazy(wrapper) /\ wrapper.wrapped.takeCount < MAX_ARRAY_LENGTH

\* takeRightWhile turns an unfiltered reversed LazyWrapper round, filters it and
\* wraps it to turn it back; the one in the middle lacks the method's action.
Reversed(wrapper) ==
    OnlyLazy(wrapper) /\ wrapper.wrapped.dir < 0 /\ ~wrapper.wrapped.filtered

\* dropRight of a filtered LazyWrapper leaves a reversed one in the middle; turned
\* round, and with nothing dropped, its actions are done on the reversed array.
Halfway(wrapper) ==
    /\ Reversed(wrapper)
    /\ isLazy(wrapper.wrapped.wrapped)
    /\ wrapper.wrapped.wrapped.actions = <<>>

GoesAstray(wrapper, name) ==
    \/ Deferred(wrapper) /\ name \in LazyMethods \cup {"reverse", "at"}
    \/ Limited(wrapper) /\ name \in {"filter", "reject"}
    \/ Reversed(wrapper) /\ name = "takeRightWhile"
    \/ Halfway(wrapper) /\ name = "reverse"

LazyInit ==
    /\ subject \in Subjects
    /\ chained = lodash(subject)
    /\ eager = subject
    /\ calls = <<>>
    /\ astray = FALSE

Call(method) ==
    /\ Len(calls) < MaxCalls
    /\ chained' =
        CASE method.name \in LazyMethods -> wrapperMethod(chained, method)
          [] method.name = "reverse" -> wrapperReverse(chained)
          [] method.name = "at" -> wrapperAt(chained, method)
          [] OTHER -> wrapperThru(chained, method)
    /\ eager' = Perform(method, eager)
    /\ calls' = Append(calls, method)
    /\ astray' = (astray \/ GoesAstray(chained, method.name))
    /\ UNCHANGED subject

Commit ==
    /\ Len(calls) < MaxCalls
    /\ chained' = wrapperCommit(chained)
    /\ calls' = Append(calls, [name |-> "commit"])
    /\ UNCHANGED <<subject, eager, astray>>

Plant(array) ==
    /\ calls # <<>>
    /\ \A k \in DOMAIN calls : calls[k].name # "commit"
    /\ array # subject
    /\ subject' = array
    /\ chained' = wrapperPlant(chained, array)
    /\ eager' = FoldLeft(LAMBDA result, method : Perform(method, result), array, calls)
    /\ UNCHANGED <<calls, astray>>

LazyNext ==
    \/ \E method \in Methods : Call(method)
    \/ Commit
    \/ \E array \in Subjects : Plant(array)

-----------------------------------------------------------------------------
\* A chain returns what its methods return one by one, in whatever order lazy
\* methods, others, reverse, commit and plant follow one another.  Five pairs of
\* calls are excepted, where lodash returns something else: the four of
\* GoesAstray, and a slice with a negative start and an end, which Methods has
\* not: LazyWrapper.prototype.slice takes end - start elements of it.
\*
\* It says nothing of the array that was wrapped, which reverse turns round in
\* place; the result is compared as if each evaluation had an array of its own.
LazyEqualsEager == ~astray => wrapperValue(chained) = eager

\* head, last, find and findLast of a chain, which go through the same lazy
\* methods, are those of the array it stands for; with the same exceptions.
ChainEndsAlike ==
    /\ ~astray /\ ~Deferred(chained) =>
        /\ wrapperHead(chained) = head(eager)
        /\ wrapperLast(chained) = last(eager)
    /\ \A method \in {m \in Methods : m.name = "filter"} :
        /\ ~astray /\ ~GoesAstray(chained, "filter") =>
              wrapperFind(chained, method.f) =
                  At(eager, findIndex(eager, method.f, Undefined))
        /\ ~astray /\ ~GoesAstray(chained, "reverse") =>
              wrapperFindLast(chained, method.f) =
                  At(eager, findLastIndex(eager, method.f, Undefined))

=============================================================================
