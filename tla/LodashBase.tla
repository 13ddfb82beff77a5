------------------------------ MODULE LodashBase ------------------------------
(***************************************************************************)
(* The internal functions of lodash.js that its array and collection       *)
(* methods are built from.                                                 *)
(*                                                                         *)
(* An array is a sequence; an index of JavaScript counts from 0.  Values   *)
(* are numbers, or atoms (strings and the like) of which only identity     *)
(* counts.  NaN is not === to itself, while eq (SameValueZero, what a Set  *)
(* or a Map goes by) takes it for equal: NaN = NaN here, and StrictEq is   *)
(* the ===.  Symbols, sparse arrays, -0 and array-likes are left out, and  *)
(* so are early returns for an empty or missing array where what follows   *)
(* returns the same.  A function that changes its argument returns it.     *)
(*                                                                         *)
(* A callback is a function, of two arguments if it is a comparator or     *)
(* folds an array; Undefined if it is not given.  The comparer of a sort   *)
(* is a function of pairs.                                                 *)
(***************************************************************************)
EXTENDS Integers, SequencesExt

CONSTANTS
    Atoms,             \* the values that are neither numbers nor arrays
    NaN, Undefined, Null,
    LARGE_ARRAY_SIZE   \* from this length on a SetCache is used, 200

ASSUME AtomsAssumption ==
    /\ {NaN, Undefined, Null} \subseteq Atoms
    /\ NaN # Undefined /\ NaN # Null /\ Undefined # Null

ASSUME LargeAssumption == LARGE_ARRAY_SIZE \in Nat \ {0}

\* Deeper than any array here is nested.
INFINITY == 8

Default(argument, value) == IF argument = Undefined THEN value ELSE argument

\* array[index]
At(array, index) ==
    IF index \in 0 .. Len(array) - 1 THEN array[index + 1] ELSE Undefined

Indices(array) == 0 .. Len(array) - 1

LeastOr(S, default) == IF S = {} THEN default ELSE Min(S)

GreatestOr(S, default) == IF S = {} THEN default ELSE Max(S)

baseIsNaN(value) == value = NaN

StrictEq(value, other) == value = other /\ ~baseIsNaN(value)

eq(value, other) == StrictEq(value, other) \/ (baseIsNaN(value) /\ baseIsNaN(other))

negate(predicate) == [value \in DOMAIN predicate |-> ~predicate[value]]

-----------------------------------------------------------------------------
(* Going through an array                                                  *)

arrayEvery(array, predicate) == \A i \in DOMAIN array : predicate[array[i]]

arraySome(array, predicate) == \E i \in DOMAIN array : predicate[array[i]]

arrayFilter(array, predicate) == SelectSeq(array, LAMBDA value : predicate[value])

arrayMap(array, iteratee) == [i \in DOMAIN array |-> iteratee[array[i]]]

\* The iteratee's result, or the value itself if there is no iteratee.
Computed(iteratee, value) == IF iteratee = Undefined THEN value ELSE iteratee[value]

Mapped(array, iteratee) == IF iteratee = Undefined THEN array ELSE arrayMap(array, iteratee)

arrayPush(array, values) == array \o values

\* Without an accumulator (initAccum) the first value takes its place.
arrayReduce(array, iteratee, accumulator, initAccum) ==
    LET Reduce(acc, value) == iteratee[acc, value]
    IN  IF initAccum /\ array # <<>>
        THEN FoldLeft(Reduce, Head(array), Tail(array))
        ELSE FoldLeft(Reduce, accumulator, array)

arrayReduceRight(array, iteratee, accumulator, initAccum) ==
    arrayReduce(Reverse(array), iteratee, accumulator, initAccum)

\* arrayEach stops when the callback returns false: what it has visited.
arrayEach(array, continues) ==
    SubSeq(array, 1, LeastOr({i \in DOMAIN array : ~continues[array[i]]}, Len(array)))

arrayEachRight(array, continues) ==
    Reverse(SubSeq(array,
        GreatestOr({i \in DOMAIN array : ~continues[array[i]]}, 1), Len(array)))

copyArray(source) == source

baseTimes(n, iteratee) == [i \in 1 .. n |-> iteratee[i - 1]]

baseSum(array, iteratee) ==
    FoldLeft(LAMBDA result, value :
                LET current == Computed(iteratee, value)
                IN  IF current = Undefined THEN result
                    ELSE IF result = Undefined THEN current ELSE result + current,
             Undefined, array)

IsNumber(value) == value \notin Atoms

\* A comparison with NaN or undefined is false.
baseGt(value, other) == IsNumber(value) /\ IsNumber(other) /\ value > other

baseLt(value, other) == IsNumber(value) /\ IsNumber(other) /\ value < other

\* The value of which the iteratee's result is greatest ("gt") or least ("lt"),
\* the first one of several.
baseExtremum(array, iteratee, comparator) ==
    FoldLeft(LAMBDA best, value :
                LET current == Computed(iteratee, value)
                IN  IF /\ current \notin {Null, Undefined}
                       /\ CASE best.computed = Undefined -> ~baseIsNaN(current)
                            [] comparator = "gt" -> baseGt(current, best.computed)
                            [] comparator = "lt" -> baseLt(current, best.computed)
                    THEN [computed |-> current, result |-> value]
                    ELSE best,
             [computed |-> Undefined, result |-> Undefined], array).result

\* Numbers come before null, null before undefined, NaN comes last; two NaNs
\* are each greater than the other.
compareAscending(value, other) ==
    IF StrictEq(value, other) THEN 0
    ELSE IF \/ other # Null /\ baseGt(value, other)
            \/ value = Null /\ other \notin {Undefined, NaN}
            \/ value = Undefined /\ other # NaN
            \/ value = NaN
    THEN 1
    ELSE IF \/ value # Null /\ baseLt(value, other)
            \/ other = Null /\ value \notin {Undefined, NaN}
            \/ other = Undefined /\ value # NaN
            \/ other = NaN
    THEN -1
    ELSE 0

\* array.sort, as an insertion sort: it tells engines apart only where the
\* comparer contradicts itself.
ArraySort(array, comparer) ==
    FoldLeft(LAMBDA sorted, value :
                InsertAt(sorted,
                    1 + GreatestOr({j \in DOMAIN sorted : comparer[<<sorted[j], value>>] <= 0}, 0),
                    value),
             <<>>, array)

baseClamp(number, lower, upper) ==
    IF baseIsNaN(number) THEN number
    ELSE LET below == IF upper = Undefined \/ number <= upper THEN number ELSE upper
         IN  IF lower = Undefined \/ below >= lower THEN below ELSE lower

baseInRange(number, start, end) ==
    number >= Min({start, end}) /\ number < Max({start, end})

CeilDiv(a, b) == IF b > 0 THEN -((-a) \div b) ELSE -(a \div (-b))

baseRange(start, end, step, fromRight) ==
    LET length == Max({CeilDiv(end - start, IF step = 0 THEN 1 ELSE step), 0})
        result == [i \in 1 .. length |-> start + step * (i - 1)]
    IN  IF fromRight THEN Reverse(result) ELSE result

-----------------------------------------------------------------------------
(* Looking for a value                                                     *)

baseFindIndex(array, predicate, fromIndex, fromRight) ==
    LET found == {i \in Indices(array) : predicate[At(array, i)]}
    IN  IF fromRight THEN GreatestOr({i \in found : i <= fromIndex}, -1)
        ELSE LeastOr({i \in found : i >= fromIndex}, -1)

strictIndexOf(array, value, fromIndex) ==
    LeastOr({i \in Indices(array) : i >= fromIndex /\ StrictEq(At(array, i), value)}, -1)

\* fromIndex is looked at even if it is beyond the array.
strictLastIndexOf(array, value, fromIndex) ==
    GreatestOr({i \in 0 .. fromIndex : StrictEq(At(array, i), value)}, -1)

AreNaN(array) == [value \in ToSet(array) |-> baseIsNaN(value)]

baseIndexOf(array, value, fromIndex) ==
    IF baseIsNaN(value)
    THEN baseFindIndex(array, AreNaN(array), fromIndex, FALSE)
    ELSE strictIndexOf(array, value, fromIndex)

arrayIncludes(array, value) == baseIndexOf(array, value, 0) > -1

arrayIncludesWith(array, value, comparator) ==
    \E i \in DOMAIN array : comparator[value, array[i]]

\* A cache of values, see LodashCache.
SetCache(values) == ToSet(values)

cacheHas(cache, key) == key \in cache

\* A Set, which keeps the order of insertion.
createSet(values) ==
    FoldLeft(LAMBDA set, value : IF value \in ToSet(set) THEN set ELSE Append(set, value),
             <<>>, values)

setToArray(set) == set

-----------------------------------------------------------------------------
(* Sets of values: with an iteratee, with a comparator, or with neither    *)

\* Faulty variant: NaN is compared like other values.
InCommonStrict(values, computed) == \E i \in DOMAIN values : StrictEq(values[i], computed)

\* The strict comparisons of the inner loops of baseDifference and baseUniq.
InCommon(values, computed) ==
    IF baseIsNaN(computed) THEN arrayIncludes(values, computed)
    ELSE \E i \in DOMAIN values : StrictEq(values[i], computed)

baseDifference(array, values, iteratee, comparator) ==
    LET mapped == Mapped(values, iteratee)
        Excluded(value) ==
            LET computed == Computed(iteratee, value)
            IN  IF comparator # Undefined
                THEN arrayIncludesWith(mapped, computed, comparator)
                ELSE IF Len(mapped) >= LARGE_ARRAY_SIZE
                THEN cacheHas(SetCache(mapped), computed)
                ELSE InCommon(mapped, computed)
    IN  SelectSeq(array, LAMBDA value : ~Excluded(value))

\* Up to LARGE_ARRAY_SIZE what was seen is looked through, from then on it is
\* kept in a SetCache; without an iteratee a Set of the array does it all.
baseUniq(array, iteratee, comparator) ==
    LET large == comparator = Undefined /\ Len(array) >= LARGE_ARRAY_SIZE
        Seen(seen, computed) ==
            IF comparator # Undefined THEN arrayIncludesWith(seen, computed, comparator)
            ELSE IF large THEN cacheHas(SetCache(seen), computed)
            ELSE InCommon(seen, computed)
        Add(acc, value) ==
            LET computed == Computed(iteratee, value)
            IN  IF Seen(acc.seen, computed) THEN acc
                ELSE [seen |-> Append(acc.seen, computed),
                      result |-> Append(acc.result, value)]
    IN  IF large /\ iteratee = Undefined
        THEN setToArray(createSet(array))
        ELSE FoldLeft(Add, [seen |-> <<>>, result |-> <<>>], array).result

\* Equal neighbours count once.
baseSortedUniq(array, iteratee) ==
    LET Add(acc, value) ==
            LET computed == Computed(iteratee, value)
            IN  IF acc.result # <<>> /\ eq(computed, acc.seen)
                THEN acc
                ELSE [seen |-> computed, result |-> Append(acc.result, value)]
    IN  FoldLeft(Add, [seen |-> Undefined, result |-> <<>>], array).result

\* It stops once the result is as long as the shortest array.  The code has a
\* threshold of its own here, 120.
baseIntersection(arrays, iteratee, comparator) ==
    LET mapped == [k \in DOMAIN arrays |-> Mapped(arrays[k], iteratee)]
        maxLength == Min({Len(arrays[k]) : k \in DOMAIN arrays})
        cached(k) ==
            /\ comparator = Undefined
            /\ \/ iteratee # Undefined
               \/ Len(arrays[1]) >= LARGE_ARRAY_SIZE /\ Len(arrays[k]) >= LARGE_ARRAY_SIZE
        Includes(k, values, computed) ==
            IF cached(k) THEN cacheHas(SetCache(values), computed)
            ELSE IF comparator # Undefined THEN arrayIncludesWith(values, computed, comparator)
            ELSE arrayIncludes(values, computed)
        Add(acc, value) ==
            LET computed == Computed(iteratee, value)
            IN  IF /\ Len(acc.result) < maxLength
                   /\ ~Includes(1, IF cached(1) THEN acc.seen ELSE acc.result, computed)
                   /\ \A k \in 2 .. Len(arrays) : Includes(k, mapped[k], computed)
                THEN [seen |-> Append(acc.seen, computed),
                      result |-> Append(acc.result, value)]
                ELSE acc
    IN  FoldLeft(Add, [seen |-> <<>>, result |-> <<>>], arrays[1]).result

=============================================================================
