------------------------------- MODULE LodashLaws -------------------------------
(***************************************************************************)
(* What the array and collection methods of lodash.js promise, stated of   *)
(* arbitrary arguments: two arrays, and iteratees as functions.  The same  *)
(* result is computed on several paths, by the length of the array (a      *)
(* SetCache from LARGE_ARRAY_SIZE on), by NaN, by iteratee or comparator;  *)
(* the promise is one.                                                     *)
(***************************************************************************)
EXTENDS LodashCollections

CONSTANTS
    Elements,       \* what arrays have as values
    Iteratees,      \* functions of them
    MaxLength       \* bound: of an array

\* Criteria to sort by are numbers, or one of the values ordered behind them.
ASSUME IterateesAssumption ==
    /\ Undefined \notin Iteratees
    /\ \A f \in Iteratees : f \in [Elements -> (Int \ Atoms) \cup {NaN, Null, Undefined}]

VARIABLE given      \* the arguments, a record of array and other; Undefined if none

\* The other array is no longer than two.
Arguments ==
    [array : UNION {[1 .. n -> Elements] : n \in 0 .. MaxLength},
     other : UNION {[1 .. n -> Elements] : n \in 0 .. 2}]

LawsInit == given \in Arguments

\* Laws of one array are looked at for each array once.
Alone == given # Undefined /\ given.other = <<>>

Count(array, element) == Cardinality({i \in DOMAIN array : array[i] = element})

\* The values of the array, each where it first stands.
FirstSeen(array) ==
    LET first == SetToSortSeq({i \in DOMAIN array : \A j \in 1 .. i - 1 : array[j] # array[i]}, <)
    IN  [k \in DOMAIN first |-> array[first[k]]]

\* Functions of the values.
Eq == [v, w \in Elements |-> eq(v, w)]

In(S) == [v \in Elements |-> v \in S]

-----------------------------------------------------------------------------
\* union, difference, intersection, xor and uniq return what their names say, no
\* value twice (difference keeps those of the array) and each where it first
\* stood, NaN being one value: on the paths for short and for long arrays, with
\* eq for a comparator, and of the images if there is an iteratee.
SetOpsAgree ==
    given # Undefined =>
    LET a == given.array
        b == given.other
        kept == SelectSeq(a, LAMBDA v : v \notin ToSet(b))
        common == SelectSeq(FirstSeen(a), LAMBDA v : v \in ToSet(b))
        apart == FirstSeen(kept \o SelectSeq(b, LAMBDA v : v \notin ToSet(a)))
    IN  /\ {union(<<a, b>>), unionWith(<<a, b>>, Eq), uniq(a \o b), uniqWith(a \o b, Eq)} =
                {FirstSeen(a \o b)}
        /\ {difference(a, <<b>>), differenceWith(a, <<b>>, Eq), without(a, b), pull(a, b),
            pullAllWith(a, b, Eq)} = {kept}
        /\ compact(a, {NaN, Null, Undefined}) = without(a, <<NaN, Null, Undefined>>)
        /\ {intersection(<<a, b>>), intersectionWith(<<a, b>>, Eq)} = {common}
        /\ {xor(<<a, b>>), xorWith(<<a, b>>, Eq)} = {apart}
        /\ \A f \in Iteratees :
            LET fa == map(a, f)
                fb == map(b, f)
            IN  /\ map(unionBy(<<a, b>>, f), f) = union(<<fa, fb>>)
                /\ uniqBy(a \o b, f) = unionBy(<<a, b>>, f)
                /\ map(differenceBy(a, <<b>>, f), f) = difference(fa, <<fb>>)
                /\ pullAllBy(a, b, f) = differenceBy(a, <<b>>, f)
                /\ map(intersectionBy(<<a, b>>, f), f) = intersection(<<fa, fb>>)
                /\ map(xorBy(<<a, b>>, f), f) = xor(<<fa, fb>>)

\* The binary searches find in what sortBy has sorted the first and the last
\* place that keep it sorted, null, undefined and NaN included; and where a value
\* is, if it is there at all, the same place as the linear searches, with a value
\* or with a predicate, in an array or among the values of an object.  Neighbours
\* are enough to find what is there twice.
SearchesAgree ==
    Alone =>
        LET s == sortBy(given.array, <<>>)
            Before(v) == Cardinality({i \in DOMAIN s : ~eq(s[i], v) /\ compareAscending(s[i], v) < 0})
            names == [i \in DOMAIN s |-> <<"key", i>>]
            object == zip(<<names, s>>)
        IN  /\ \A v \in Elements :
                LET is == In({v})
                    at == sortedIndexOf(s, v)
                IN  /\ sortedIndex(s, v) = Before(v)
                    /\ sortedLastIndex(s, v) = Before(v) + Count(s, v)
                    /\ {indexOf(s, v, Undefined), findIndex(s, is, Undefined)} = {at}
                    /\ sortedLastIndexOf(s, v) = findLastIndex(s, is, Undefined)
                    /\ v # Undefined => sortedLastIndexOf(s, v) = lastIndexOf(s, v, Undefined)
                    /\ findKey(object, is) = At(names, at)
                    /\ at > -1 => {nth(s, at - Len(s)), find(s, is, at), findLast(s, is, Undefined),
                                   zipObject(names, s)[findKey(object, is)]} = {v}
                    /\ {includes(s, v, Undefined), some(s, is), ~every(s, negate(is)),
                        baseSome(object, is), ~baseEvery(object, negate(is))} = {v \in ToSet(s)}
                    /\ baseFilter(object, is) = filter(s, is)
            /\ fromPairs(baseToPairs(object)) = zipObject(names, s)
            /\ sortedUniq(s) = uniq(s)
            /\ \A f \in Iteratees :
                LET t == sortBy(given.array, <<f>>)
                IN  /\ sortedUniqBy(t, f) = uniqBy(t, f)
                    /\ \A v \in Elements :
                        /\ sortedIndexBy(t, v, f) = sortedIndex(map(t, f), f[v])
                        /\ sortedLastIndexBy(t, v, f) = sortedLastIndex(map(t, f), f[v])

\* Whether v may stand before w: by the first criterion, by the second, or as they
\* stood.
MayPrecede(a, f, g, orders, v, w) ==
    LET Compare(h, order) ==
            IF order = "asc" THEN compareAscending(h[v], h[w]) ELSE compareAscending(h[w], h[v])
        c == Compare(f, orders[1])
        d == Compare(g, orders[2])
    IN  \/ c < 0
        \/ c = 0 /\ d < 0
        \/ /\ c = 0 /\ d = 0
           /\ \E i \in DOMAIN a : \E j \in i .. Len(a) : a[i] = v /\ a[j] = w

\* orderBy returns the array's values in the order of the first criterion, within
\* equal ones of the second, each in its own direction, and then as they stood;
\* unless two criteria are NaN, which compareAscending puts before each other.
OrderByStable ==
    Alone =>
        \A f, g \in Iteratees : \A orders \in {"asc", "desc"} \X {"asc", "desc"} :
            LET a == given.array
                result == orderBy(a, <<f, g>>, orders)
                OneNaN(h) == Count(map(a, h), NaN) <= 1
            IN  OneNaN(f) /\ OneNaN(g) =>
                    /\ \A v \in Elements : Count(result, v) = Count(a, v)
                    /\ \A i, j \in DOMAIN result :
                          i < j => MayPrecede(a, f, g, orders, result[i], result[j])

\* pullAt takes away what stands at the indexes, given in any order, twice or
\* beyond the array, and nothing else, and returns it; remove does the same for a
\* predicate, though both shorten the array while they go through it.
RemovalExact ==
    Alone =>
        LET a == given.array
            Rest(gone) == baseAt(a, SetToSortSeq(Indices(a) \ gone, <))
        IN  /\ \A n \in 0 .. MaxLength : \A indexes \in [1 .. n -> -1 .. MaxLength] :
                pullAt(a, indexes) = [array |-> Rest(ToSet(indexes)),
                                      result |-> [k \in 1 .. n |-> At(a, indexes[k])]]
            /\ \A S \in SUBSET Elements :
                LET removed == remove(a, In(S))
                IN  /\ removed.array = Rest({i \in Indices(a) : At(a, i) \in S})
                    /\ removed.array = reject(a, In(S))
                    /\ removed.result = SelectSeq(a, LAMBDA v : v \in S)

\* What take, takeRight, takeWhile, takeRightWhile and initial leave is what their
\* counterparts return, and forEach comes one further than takeWhile; slice and
\* fill count negative positions from the end, and touch the same values; ranges
\* run through the indexes in either direction; and chunks put together, however
\* deep they are nested, are the array again.
SlicesPartition ==
    Alone =>
        LET a == given.array
            positions == -(MaxLength + 1) .. MaxLength + 1
            Place(p) == IF p < 0 THEN Max({Len(a) + p, 0}) ELSE Min({p, Len(a)})
        IN  /\ \A n \in positions :
                /\ take(a, n) \o drop(a, n) = a
                /\ dropRight(a, n) \o takeRight(a, n) = a
                /\ baseAt(a, range(n, Len(a), Undefined)) =
                        [k \in 1 .. (IF n < Len(a) THEN Len(a) - n ELSE n - Len(a)) |->
                            At(a, IF n < Len(a) THEN n + k - 1 ELSE n - k + 1)]
                /\ inRange(n, Len(a), Undefined) <=> n \in ToSet(range(Len(a), Undefined, 1))
                /\ clamp(Place(n), 0, Len(a)) = Place(n)
                /\ \A m \in positions :
                    /\ slice(a, n, m) = SubSeq(a, Place(n) + 1, Place(m))
                    /\ fill(a, Null, n, m) =
                            [i \in DOMAIN a |-> IF i - 1 \in Place(n) .. Place(m) - 1
                                                THEN Null ELSE a[i]]
            /\ \A n \in 1 .. MaxLength + 1 :
                LET chunks == chunk(a, n)
                    deep == <<chunks, chunk(chunks, 1)>>
                IN  /\ {flatten(chunks), concat(chunks)} = {a}
                    /\ \A c \in DOMAIN chunks : Len(chunks[c]) = Min({n, Len(a) - n * (c - 1)})
                    /\ ToSet(a) \subseteq Atoms =>
                            {flattenDeep(deep), flatten(flattenDepth(deep, 2)),
                             flatMapDeep(<<1, 2>>, deep), flatMapDepth(<<1, 2>>, deep, 3),
                             flattenDepth(flatMap(<<1, 2>>, deep), 2)} = {a \o a}
            /\ \A S \in SUBSET Elements :
                LET taken == takeWhile(a, In(S))
                    takenRight == takeRightWhile(a, In(S))
                IN  /\ taken \o dropWhile(a, In(S)) = a
                    /\ dropRightWhile(a, In(S)) \o takenRight = a
                    /\ ToSet(taken \o takenRight) \subseteq S
                    /\ Len(taken) < Len(a) => At(a, Len(taken)) \notin S
                    /\ forEach(a, In(S)) = take(a, Len(taken) + 1)
                    /\ forEachRight(a, In(S)) = reverse(takeRight(a, Len(takenRight) + 1))
                    /\ Len(takenRight) < Len(a) => nth(a, -Len(takenRight) - 1) \notin S
            /\ a # <<>> => Append(initial(a), last(a)) = a /\ <<head(a)>> \o tail(a) = a
            /\ baseAt(a, rangeRight(Len(a), Undefined, Undefined)) = reverse(a)

\* groupBy, countBy, keyBy and partition divide the array alike: each key has the
\* values with it, as they stood, their number, and the last of them.  Sums and
\* extrema are those of the numbers there are, whatever NaN, null and undefined
\* stand among them, and the extremum is the first of several.
AggregatesAgree ==
    Alone =>
        LET a == given.array
            Numeric(f) == {v \in ToSet(a) : IsNumber(f[v])}
            object == zip(<<a, a>>)
            plus == [v, w \in Elements \cup 0 .. 2 * MaxLength |-> add(v, w)]
        IN  /\ \A f \in Iteratees :
                LET groups == groupBy(a, f)
                    best == maxBy(a, f)
                    least == minBy(a, f)
                IN  /\ DOMAIN groups = {f[v] : v \in ToSet(a)}
                    /\ baseAggregator(object, "groupBy", f, <<>>) = groups
                    /\ zipWith(<<a>>, [g \in ToSet(zip(<<a>>)) |-> f[g[1]]]) = baseMap(object, f)
                    /\ DOMAIN countBy(a, f) = DOMAIN groups
                    /\ \A key \in DOMAIN groups :
                        LET is == [v \in Elements |-> f[v] = key]
                        IN  /\ groups[key] = SelectSeq(a, LAMBDA v : f[v] = key)
                            /\ countBy(a, f)[key] = Len(groups[key])
                            /\ keyBy(a, f)[key] = last(groups[key])
                            /\ partition(a, is) = <<groups[key], reject(a, is)>>
                    /\ Numeric(f) = {} <=> best = Undefined /\ least = Undefined
                    /\ Numeric(f) # {} =>
                        /\ \A v \in Numeric(f) : f[least] <= f[v] /\ f[v] <= f[best]
                        /\ best = head(groups[f[best]]) /\ least = head(groups[f[least]])
            /\ ToSet(a) \subseteq {1, 2, Undefined} /\ ToSet(a) \cap {1, 2} # {} =>
                {reduce(a, plus, 0, FALSE), reduceRight(a, plus, 0, FALSE),
                 reduce(a, plus, Undefined, TRUE),
                 baseReduce(object, plus, 0, FALSE)} = {sum(a)}
            /\ sumBy(a, [v \in Elements |-> 1]) = size(object)
            /\ \A v, w \in ToSet(a) \cap {1, 2} :
                /\ min(a) <= v /\ w <= max(a) /\ {min(a), max(a)} \subseteq ToSet(a)
                /\ subtract(add(v, w), w) = v
                /\ multiply(v, w) = sum(times(w, [i \in 0 .. w |-> v]))

\* shuffle can return the array in any order, sampleSize any n of its values in
\* any order, and sample any of them; and nothing else.
EveryOrderPossible ==
    Alone =>
        LET a == given.array
            Picked(n) == {[k \in 1 .. n |-> a[p[k]]] :
                            p \in {q \in [1 .. n -> DOMAIN a] : \A i, j \in 1 .. n : q[i] = q[j] => i = j}}
        IN  /\ shuffle(a) = Picked(Len(a))
            /\ \A n \in 0 .. MaxLength + 1 : sampleSize(a, n) = Picked(Min({n, Len(a)}))
            /\ {<<v>> : v \in sample(a)} = IF a = <<>> THEN {<<Undefined>>} ELSE Picked(1)

=============================================================================
