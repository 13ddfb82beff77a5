-------------------------- MODULE LodashCollections --------------------------
(***************************************************************************)
(* The collection, sorting, aggregating and number methods of lodash.js.   *)
(* A collection is an array, or an object as the sequence of its           *)
(* <<key, value>> in the order of its keys; on an object the methods do    *)
(* to its values what they do to an array.                                 *)
(***************************************************************************)
EXTENDS LodashArrays

-----------------------------------------------------------------------------
(* Objects                                                                 *)

baseValues(object) == [k \in DOMAIN object |-> object[k][2]]

values(object) == baseValues(object)

keys(object) == [k \in DOMAIN object |-> object[k][1]]

baseToPairs(object) == [k \in DOMAIN object |-> <<object[k][1], object[k][2]>>]

size(object) == Len(keys(object))

baseMap(object, iteratee) == arrayMap(values(object), iteratee)

baseFilter(object, predicate) == arrayFilter(values(object), predicate)

baseEvery(object, predicate) == arrayEvery(values(object), predicate)

baseSome(object, predicate) == arraySome(values(object), predicate)

baseReduce(object, iteratee, accumulator, initAccum) ==
    arrayReduce(values(object), iteratee, accumulator, initAccum)

\* The first key of a value that satisfies the predicate.
baseFindKey(object, predicate) ==
    LET i == baseFindIndex(values(object), predicate, 0, FALSE)
    IN  IF i = -1 THEN Undefined ELSE keys(object)[i + 1]

findKey(object, predicate) == baseFindKey(object, predicate)

-----------------------------------------------------------------------------
(* Every value                                                             *)

every(array, predicate) == arrayEvery(array, predicate)

some(array, predicate) == arraySome(array, predicate)

filter(array, predicate) == arrayFilter(array, predicate)

reject(array, predicate) == filter(array, negate(predicate))

map(array, iteratee) == Mapped(array, iteratee)

flatMap(array, iteratee) == flatten(map(array, iteratee))

flatMapDeep(array, iteratee) == flattenDeep(map(array, iteratee))

flatMapDepth(array, iteratee, depth) == flattenDepth(map(array, iteratee), depth)

forEach(array, continues) == arrayEach(array, continues)

forEachRight(array, continues) == arrayEachRight(array, continues)

reduce(array, iteratee, accumulator, initAccum) ==
    arrayReduce(array, iteratee, accumulator, initAccum)

reduceRight(array, iteratee, accumulator, initAccum) ==
    arrayReduceRight(array, iteratee, accumulator, initAccum)

\* The value found by findIndex or findLastIndex.
createFind(array, index) == IF index > -1 THEN At(array, index) ELSE Undefined

find(array, predicate, fromIndex) ==
    createFind(array, findIndex(array, predicate, fromIndex))

findLast(array, predicate, fromIndex) ==
    createFind(array, findLastIndex(array, predicate, fromIndex))

includes(array, value, fromIndex) ==
    baseIndexOf(array, value, FromStart(array, Default(fromIndex, 0))) > -1

-----------------------------------------------------------------------------
(* Sorting                                                                 *)

\* Faulty variant: equal criteria are left to the engine's sort, here the worst.
compareMultipleUnstable(object, other, orders) ==
    LET Result(i) == compareAscending(object.criteria[i], other.criteria[i])
        differ == {i \in DOMAIN object.criteria : Result(i) # 0}
    IN  IF differ = {} THEN other.index - object.index
        ELSE LET i == Min(differ)
             IN  IF i <= Len(orders) /\ orders[i] = "desc" THEN -Result(i) ELSE Result(i)

\* The first criterion that differs decides; in the end, the position.
compareMultiple(object, other, orders) ==
    LET Result(i) == compareAscending(object.criteria[i], other.criteria[i])
        differ == {i \in DOMAIN object.criteria : Result(i) # 0}
    IN  IF differ = {} THEN object.index - other.index
        ELSE LET i == Min(differ)
             IN  IF i <= Len(orders) /\ orders[i] = "desc" THEN -Result(i) ELSE Result(i)

\* The objects have the value sorted.
baseSortBy(array, comparer) ==
    LET sorted == ArraySort(array, comparer)
    IN  [k \in DOMAIN sorted |-> sorted[k].value]

\* Without iteratees, the values are compared themselves.
baseOrderBy(array, iteratees, orders) ==
    LET objects == [i \in DOMAIN array |->
            [criteria |-> IF iteratees = <<>> THEN <<array[i]>>
                          ELSE [k \in DOMAIN iteratees |-> iteratees[k][array[i]]],
             index |-> i - 1, value |-> array[i]]]
    IN  baseSortBy(objects, [pair \in ToSet(objects) \X ToSet(objects) |->
                                compareMultiple(pair[1], pair[2], orders)])

orderBy(array, iteratees, orders) == baseOrderBy(array, iteratees, orders)

sortBy(array, iteratees) == baseOrderBy(array, iteratees, <<>>)

-----------------------------------------------------------------------------
(* Aggregation: the result is an object, a function from its keys          *)

\* Faulty variant: what is there stays.
baseAssignValueOnce(object, key, value) == object @@ (key :> value)

baseAssignValue(object, key, value) == (key :> value) @@ object

\* What countBy, groupBy, keyBy and partition do with a value and its key.
Setter(setter, result, value, key) ==
    CASE setter = "countBy" ->
            baseAssignValue(result, key, IF key \in DOMAIN result THEN result[key] + 1 ELSE 1)
      [] setter = "groupBy" ->
            baseAssignValue(result, key,
                IF key \in DOMAIN result THEN Append(result[key], value) ELSE <<value>>)
      [] setter = "keyBy" -> baseAssignValue(result, key, value)
      [] setter = "partition" ->
            [result EXCEPT ![IF key THEN 1 ELSE 2] = Append(@, value)]

arrayAggregator(array, setter, iteratee, accumulator) ==
    FoldLeft(LAMBDA acc, value : Setter(setter, acc, value, Computed(iteratee, value)),
             accumulator, array)

baseAggregator(object, setter, iteratee, accumulator) ==
    arrayAggregator(values(object), setter, iteratee, accumulator)

createAggregator(array, setter, initializer, iteratee) ==
    arrayAggregator(array, setter, iteratee, initializer)

countBy(array, iteratee) == createAggregator(array, "countBy", <<>>, iteratee)

groupBy(array, iteratee) == createAggregator(array, "groupBy", <<>>, iteratee)

keyBy(array, iteratee) == createAggregator(array, "keyBy", <<>>, iteratee)

partition(array, predicate) ==
    createAggregator(array, "partition", <<<<>>, <<>>>>, predicate)

-----------------------------------------------------------------------------
(* Chance: the sets of what may be returned                                *)

\* Faulty variant: the upper end is left out.
baseRandomBelow(lower, upper) == lower .. upper - 1

baseRandom(lower, upper) == lower .. upper

\* Each position is exchanged with one of those not yet dealt with.
shuffleSelf(array, size1) ==
    LET from[index \in 0 .. size1] ==
            IF index = 0 THEN {array}
            ELSE UNION {{[a EXCEPT ![index] = a[rand], ![rand] = a[index]] :
                            rand \in baseRandom(index, Len(array))} : a \in from[index - 1]}
    IN  {SubSeq(a, 1, size1) : a \in from[size1]}

arraySample(array) ==
    IF array = <<>> THEN {Undefined}
    ELSE {At(array, i) : i \in baseRandom(0, Len(array) - 1)}

arraySampleSize(array, n) == shuffleSelf(copyArray(array), baseClamp(n, 0, Len(array)))

arrayShuffle(array) == shuffleSelf(copyArray(array), Len(array))

sample(array) == arraySample(array)

sampleSize(array, n) == arraySampleSize(array, Default(n, 1))

shuffle(array) == arrayShuffle(array)

-----------------------------------------------------------------------------
(* Numbers                                                                 *)

max(array) == baseExtremum(array, Undefined, "gt")

maxBy(array, iteratee) == baseExtremum(array, iteratee, "gt")

min(array) == baseExtremum(array, Undefined, "lt")

minBy(array, iteratee) == baseExtremum(array, iteratee, "lt")

sum(array) == IF array = <<>> THEN 0 ELSE baseSum(array, Undefined)

sumBy(array, iteratee) == IF array = <<>> THEN 0 ELSE baseSum(array, iteratee)

\* A missing operand is as if it were not there.
createMathOperation(value, other, operator, defaultValue) ==
    CASE value = Undefined /\ other = Undefined -> defaultValue
      [] value # Undefined /\ other = Undefined -> value
      [] value = Undefined /\ other # Undefined -> other
      [] OTHER -> operator[value, other]

add(value, other) == createMathOperation(value, other, [v, w \in Int |-> v + w], 0)

subtract(value, other) == createMathOperation(value, other, [v, w \in Int |-> v - w], 0)

multiply(value, other) == createMathOperation(value, other, [v, w \in Int |-> v * w], 1)

\* A single bound is the upper one; a bound that is NaN counts as 0.
clamp(number, lower, upper) ==
    LET Bound(b) == IF baseIsNaN(b) THEN 0 ELSE b
    IN  IF upper = Undefined THEN baseClamp(number, Undefined, Bound(lower))
        ELSE baseClamp(number, Bound(lower), Bound(upper))

inRange(number, start, end) ==
    IF end = Undefined THEN baseInRange(number, 0, start)
    ELSE baseInRange(number, start, end)

createRange(start, end, step, fromRight) ==
    LET from == IF end = Undefined THEN 0 ELSE start
        upTo == IF end = Undefined THEN start ELSE end
    IN  baseRange(from, upTo, Default(step, IF from < upTo THEN 1 ELSE -1), fromRight)

range(start, end, step) == createRange(start, end, step, FALSE)

rangeRight(start, end, step) == createRange(start, end, step, TRUE)

times(n, iteratee) == baseTimes(Max({n, 0}), iteratee)

=============================================================================
