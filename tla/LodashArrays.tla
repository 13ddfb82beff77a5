----------------------------- MODULE LodashArrays -----------------------------
(***************************************************************************)
(* The array methods of lodash.js: slices, flattening, removal, binary     *)
(* search, set operations, zipping.  Of a variable number of arrays, the   *)
(* argument is the sequence of them.                                       *)
(***************************************************************************)
EXTENDS LodashBase

-----------------------------------------------------------------------------
(* Slices                                                                  *)

\* Negative positions count from the end.
baseSlice(array, start, end) ==
    LET length == Len(array)
        from == IF start >= 0 THEN start
                ELSE IF -start > length THEN 0 ELSE length + start
        upTo == LET e == Min({end, length}) IN IF e < 0 THEN e + length ELSE e
    IN  IF from > upTo THEN <<>> ELSE SubSeq(array, from + 1, upTo)

\* Where the predicate fails for the first time, from either side.
baseWhile(array, predicate, isDrop, fromRight) ==
    LET length == Len(array)
        failing == {i \in Indices(array) : ~predicate[At(array, i)]}
        index == IF fromRight THEN GreatestOr(failing, -1) ELSE LeastOr(failing, length)
    IN  CASE isDrop /\ fromRight -> baseSlice(array, 0, index + 1)
          [] isDrop /\ ~fromRight -> baseSlice(array, index, length)
          [] ~isDrop /\ fromRight -> baseSlice(array, index + 1, length)
          [] OTHER -> baseSlice(array, 0, index)

chunk(array, size) ==
    LET by == Max({Default(size, 1), 0})
    IN  IF by < 1 THEN <<>>
        ELSE [k \in 1 .. CeilDiv(Len(array), by) |->
                baseSlice(array, (k - 1) * by, k * by)]

slice(array, start, end) ==
    baseSlice(array, Default(start, 0), Default(end, Len(array)))

drop(array, n) == baseSlice(array, Max({Default(n, 1), 0}), Len(array))

\* Faulty variant: a negative end counts from the end again.
dropRightBeyond(array, n) == baseSlice(array, 0, Len(array) - Default(n, 1))

dropRight(array, n) == baseSlice(array, 0, Max({Len(array) - Default(n, 1), 0}))

take(array, n) == baseSlice(array, 0, Max({Default(n, 1), 0}))

takeRight(array, n) == baseSlice(array, Max({Len(array) - Default(n, 1), 0}), Len(array))

dropWhile(array, predicate) == baseWhile(array, predicate, TRUE, FALSE)

dropRightWhile(array, predicate) == baseWhile(array, predicate, TRUE, TRUE)

takeWhile(array, predicate) == baseWhile(array, predicate, FALSE, FALSE)

takeRightWhile(array, predicate) == baseWhile(array, predicate, FALSE, TRUE)

head(array) == At(array, 0)

last(array) == At(array, Len(array) - 1)

initial(array) == baseSlice(array, 0, -1)

tail(array) == baseSlice(array, 1, Len(array))

isIndex(value, length) == value \in 0 .. length - 1

baseNth(array, n) ==
    LET m == IF n < 0 THEN n + Len(array) ELSE n
    IN  IF isIndex(m, Len(array)) THEN At(array, m) ELSE Undefined

nth(array, n) == baseNth(array, n)

reverse(array) == Reverse(array)

baseFill(array, value, start, end) ==
    LET length == Len(array)
        from == IF start >= 0 THEN start
                ELSE IF -start > length THEN 0 ELSE length + start
        upTo == LET e == IF end = Undefined \/ end > length THEN length ELSE end
                IN  IF e < 0 THEN e + length ELSE e
    IN  [i \in DOMAIN array |-> IF from < i /\ i <= upTo THEN value ELSE array[i]]

fill(array, value, start, end) == baseFill(array, value, Default(start, 0), end)

-----------------------------------------------------------------------------
(* Flattening                                                              *)

\* Of the values of an array that is flattened, those that are arrays: here it
\* has atoms and arrays as values, or only arrays.
isFlattenable(value) == value \notin Atoms

flattenLevel(array, isStrict) ==
    FoldLeft(LAMBDA result, value :
                IF isFlattenable(value) THEN arrayPush(result, value)
                ELSE IF isStrict THEN result ELSE Append(result, value),
             <<>>, array)

\* The code goes inside each value in turn, here one level comes after the other.
baseFlatten(array, depth, isStrict) ==
    LET level[n \in 0 .. depth] ==
            IF n = 0 THEN array ELSE flattenLevel(level[n - 1], isStrict)
    IN  level[depth]

flatten(array) == baseFlatten(array, 1, FALSE)

flattenDeep(array) == baseFlatten(array, INFINITY, FALSE)

flattenDepth(array, depth) == baseFlatten(array, Default(depth, 1), FALSE)

concat(args) ==
    IF args = <<>> THEN <<>>
    ELSE arrayPush(IF isFlattenable(args[1]) THEN copyArray(args[1]) ELSE <<args[1]>>,
                   baseFlatten(Tail(args), 1, FALSE))

\* The truthy values.
compact(array, falsey) == SelectSeq(array, LAMBDA value : value \notin falsey)

\* The arguments that are arrays, one after the other.
Arrays(arrays) == baseFlatten(arrays, 1, TRUE)

-----------------------------------------------------------------------------
(* Searching                                                               *)

FromStart(array, index) == IF index < 0 THEN Max({Len(array) + index, 0}) ELSE index

FromEnd(array, index) ==
    IF index < 0 THEN Max({Len(array) + index, 0}) ELSE Min({index, Len(array) - 1})

findIndex(array, predicate, fromIndex) ==
    baseFindIndex(array, predicate, FromStart(array, Default(fromIndex, 0)), FALSE)

findLastIndex(array, predicate, fromIndex) ==
    IF array = <<>> THEN -1
    ELSE baseFindIndex(array, predicate,
            IF fromIndex = Undefined THEN Len(array) - 1 ELSE FromEnd(array, fromIndex), TRUE)

indexOf(array, value, fromIndex) ==
    baseIndexOf(array, value, FromStart(array, Default(fromIndex, 0)))

\* Without a fromIndex the search begins one beyond the end.
lastIndexOf(array, value, fromIndex) ==
    IF array = <<>> THEN -1
    ELSE LET index == IF fromIndex = Undefined THEN Len(array) ELSE FromEnd(array, fromIndex)
         IN  IF baseIsNaN(value) THEN baseFindIndex(array, AreNaN(array), index, TRUE)
             ELSE strictLastIndexOf(array, value, index)

-----------------------------------------------------------------------------
(* Binary search                                                           *)

\* Halve low .. high until it is empty; setLow tells the half to go on with.
Bisect(length, setLow) ==
    LET from[low \in 0 .. length, high \in 0 .. length] ==
            LET mid == (low + high) \div 2
            IN  IF low >= high THEN high
                ELSE IF setLow[mid] THEN from[mid + 1, high] ELSE from[low, mid]
    IN  from[0, length]

\* Numbers come before null, null before undefined, NaN comes last.
baseSortedIndexBy(array, value, iteratee, retHighest) ==
    LET key == Computed(iteratee, value)
        SetLow(computed) ==
            LET othIsDefined == computed # Undefined
                othIsNull == computed = Null
                othIsReflexive == ~baseIsNaN(computed)
            IN  CASE baseIsNaN(key) -> retHighest \/ othIsReflexive
                  [] key = Undefined -> othIsReflexive /\ (retHighest \/ othIsDefined)
                  [] key = Null -> othIsReflexive /\ othIsDefined /\ (retHighest \/ ~othIsNull)
                  [] OTHER -> ~othIsNull /\ (baseLt(computed, key) \/ (retHighest /\ computed = key))
    IN  Bisect(Len(array),
               [mid \in Indices(array) |-> SetLow(Computed(iteratee, At(array, mid)))])

\* Faulty variant: every value is looked for by comparisons only.
baseSortedIndexPlain(array, value, retHighest) ==
    Bisect(Len(array), [mid \in Indices(array) |->
        \/ baseLt(At(array, mid), value)
        \/ retHighest /\ At(array, mid) = value])

\* A number is looked for by comparisons only.
baseSortedIndex(array, value, retHighest) ==
    IF IsNumber(value)
    THEN Bisect(Len(array), [mid \in Indices(array) |->
            \/ baseLt(At(array, mid), value)
            \/ retHighest /\ At(array, mid) = value])
    ELSE baseSortedIndexBy(array, value, Undefined, retHighest)

sortedIndex(array, value) == baseSortedIndex(array, value, FALSE)

sortedIndexBy(array, value, iteratee) == baseSortedIndexBy(array, value, iteratee, FALSE)

sortedLastIndex(array, value) == baseSortedIndex(array, value, TRUE)

sortedLastIndexBy(array, value, iteratee) == baseSortedIndexBy(array, value, iteratee, TRUE)

sortedIndexOf(array, value) ==
    LET index == baseSortedIndex(array, value, FALSE)
    IN  IF index < Len(array) /\ eq(At(array, index), value) THEN index ELSE -1

sortedLastIndexOf(array, value) ==
    LET index == baseSortedIndex(array, value, TRUE) - 1
    IN  IF array # <<>> /\ eq(At(array, index), value) THEN index ELSE -1

sortedUniq(array) == baseSortedUniq(array, Undefined)

sortedUniqBy(array, iteratee) == baseSortedUniq(array, iteratee)

-----------------------------------------------------------------------------
(* Removal; the argument is changed in place                               *)

\* One value after the other, all its occurrences.
basePullAll(array, values, iteratee, comparator) ==
    LET Matches(computed, wanted) ==
            IF comparator # Undefined THEN comparator[computed, wanted]
            ELSE IF baseIsNaN(wanted) THEN baseIsNaN(computed)
            ELSE StrictEq(computed, wanted)
        Pull(rest, value) ==
            SelectSeq(rest, LAMBDA v :
                ~Matches(Computed(iteratee, v), Computed(iteratee, value)))
    IN  FoldLeft(Pull, array, values)

pullAll(array, values) == basePullAll(array, values, Undefined, Undefined)

pullAllBy(array, values, iteratee) == basePullAll(array, values, iteratee, Undefined)

pullAllWith(array, values, comparator) == basePullAll(array, values, Undefined, comparator)

pull(array, values) == pullAll(array, values)

\* array.splice(index, 1)
Splice(array, index) ==
    IF isIndex(index, Len(array)) THEN RemoveAt(array, index + 1) ELSE array

\* Faulty variant: from the first index on.
basePullAtForward(array, indexes) ==
    FoldLeft(LAMBDA rest, k :
                IF k = 1 \/ indexes[k] # indexes[k - 1] THEN Splice(rest, indexes[k]) ELSE rest,
             array, [k \in DOMAIN indexes |-> k])

\* From the last index on; equal neighbours count once.
basePullAt(array, indexes) ==
    LET lastIndex == Len(indexes)
    IN  FoldLeft(LAMBDA rest, k :
                    IF k = lastIndex \/ indexes[k] # indexes[k + 1]
                    THEN Splice(rest, indexes[k]) ELSE rest,
                 array, Reverse([k \in 1 .. lastIndex |-> k]))

baseAt(array, indexes) == [k \in DOMAIN indexes |-> At(array, indexes[k])]

pullAt(array, indexes) ==
    [array |-> basePullAt(array, ArraySort(indexes,
        [pair \in ToSet(indexes) \X ToSet(indexes) |-> compareAscending(pair[1], pair[2])])),
     result |-> baseAt(array, indexes)]

remove(array, predicate) ==
    [array |-> basePullAt(array,
        SetToSortSeq({i \in Indices(array) : predicate[At(array, i)]}, <)),
     result |-> arrayFilter(array, predicate)]

-----------------------------------------------------------------------------
(* Sets of values                                                          *)

difference(array, values) == baseDifference(array, Arrays(values), Undefined, Undefined)

differenceBy(array, values, iteratee) ==
    baseDifference(array, Arrays(values), iteratee, Undefined)

differenceWith(array, values, comparator) ==
    baseDifference(array, Arrays(values), Undefined, comparator)

without(array, values) == baseDifference(array, values, Undefined, Undefined)

intersection(arrays) ==
    IF arrays = <<>> THEN <<>> ELSE baseIntersection(arrays, Undefined, Undefined)

intersectionBy(arrays, iteratee) ==
    IF arrays = <<>> THEN <<>> ELSE baseIntersection(arrays, iteratee, Undefined)

intersectionWith(arrays, comparator) ==
    IF arrays = <<>> THEN <<>> ELSE baseIntersection(arrays, Undefined, comparator)

union(arrays) == baseUniq(Arrays(arrays), Undefined, Undefined)

unionBy(arrays, iteratee) == baseUniq(Arrays(arrays), iteratee, Undefined)

unionWith(arrays, comparator) == baseUniq(Arrays(arrays), Undefined, comparator)

uniq(array) == baseUniq(array, Undefined, Undefined)

uniqBy(array, iteratee) == baseUniq(array, iteratee, Undefined)

uniqWith(array, comparator) == baseUniq(array, Undefined, comparator)

\* What is left of each array without the others; a single array does not
\* see iteratee and comparator.
baseXor(arrays, iteratee, comparator) ==
    CASE arrays = <<>> -> <<>>
      [] Len(arrays) = 1 -> baseUniq(arrays[1], Undefined, Undefined)
      [] OTHER ->
            LET left(k) ==
                    FoldLeft(LAMBDA rest, other :
                                baseDifference(rest, other, iteratee, comparator),
                             arrays[k], RemoveAt(arrays, k))
            IN  baseUniq(Arrays([k \in DOMAIN arrays |-> left(k)]), iteratee, comparator)

xor(arrays) == baseXor(arrays, Undefined, Undefined)

xorBy(arrays, iteratee) == baseXor(arrays, iteratee, Undefined)

xorWith(arrays, comparator) == baseXor(arrays, Undefined, comparator)

-----------------------------------------------------------------------------
(* Zipping                                                                 *)

unzip(array) ==
    [i \in 1 .. GreatestOr({Len(array[k]) : k \in DOMAIN array}, 0) |->
        [k \in DOMAIN array |-> At(array[k], i - 1)]]

unzipWith(array, iteratee) == arrayMap(unzip(array), iteratee)

zip(arrays) == unzip(arrays)

zipWith(arrays, iteratee) == unzipWith(arrays, iteratee)

\* An object is a function from its keys; a key given twice has the last value.
fromPairs(pairs) ==
    FoldLeft(LAMBDA result, pair : (pair[1] :> pair[2]) @@ result, <<>>, pairs)

baseZipObject(props, values) ==
    fromPairs([k \in DOMAIN props |-> <<props[k], At(values, k - 1)>>])

zipObject(props, values) == baseZipObject(props, values)

=============================================================================
