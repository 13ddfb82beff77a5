---------------------------- MODULE Lodash_proofs ----------------------------
(***************************************************************************)
(* What is proved of lodash, and of the charts that call it: the caches    *)
(* stand for a function, whichever of their three parts a key belongs to;  *)
(* a memoized function returns what the function does; a debounced         *)
(* function runs once for a call; isEqual of arrays that contain one       *)
(* another finds what is alike and goes no deeper than there are arrays;   *)
(* sorting is stable, by one criterion or by several; uniq is the same     *)
(* whichever way it goes; and a chart shows the hosts it should, with each *)
(* value at its date.  For any keys, values, sizes, arguments, waits,      *)
(* arrays, criteria, hosts and points.                                     *)
(***************************************************************************)
EXTENDS LodashCompare, LodashDebounce, LodashLaws, ChartReport, FiniteSetTheorems,
        WellFoundedInduction, TLAPS

-----------------------------------------------------------------------------
(* Caches                                                                  *)

\* What a cache may hold: the values, the objects compared, and what memoized
\* functions return.
Holdable == Values \cup Objects \cup {<<key>> : key \in Keys}

\* What a Hash holds for a value.
Stored(value) == IF value = Undefined THEN HASH_UNDEFINED ELSE value

\* A cache has three fields.
Fields(c) == DOMAIN c = {"kind", "data", "size"} /\ c.size \in Int

\* A Hash that stands for function f on the keys S.
HashFor(hash, f, S) ==
    /\ Fields(hash)
    /\ hash.data = [key \in S \cap DOMAIN f |-> Stored(f[key])]

\* A ListCache that stands for f on the objects: each has one pair.
ListFor(list, f) ==
    /\ Fields(list)
    /\ list.data \in Seq(Objects \X Holdable)
    /\ \A i \in DOMAIN list.data :
          list.data[i][1] \in DOMAIN f /\ list.data[i][2] = f[list.data[i][1]]
    /\ \A key \in Objects \cap DOMAIN f : \E i \in DOMAIN list.data : list.data[i][1] = key
    /\ \A i, j \in DOMAIN list.data : list.data[i][1] = list.data[j][1] => i = j

\* A MapCache that stands for f.
MapFor(mapCache, f) ==
    /\ f \in [DOMAIN f -> Holdable]
    /\ DOMAIN f \subseteq Keys
    /\ IsFiniteSet(DOMAIN f)
    /\ Fields(mapCache)
    /\ mapCache.size = Cardinality(DOMAIN f)
    /\ DOMAIN mapCache.data = {"hash", "map", "string"}
    /\ HashFor(mapCache.data.hash, f, Simple)
    /\ HashFor(mapCache.data.string, f, Strings)
    /\ ListFor(mapCache.data.map, f)

\* The three kinds of keys, and the part of a MapCache each belongs to.
LEMMA MapDataOf ==
    /\ \A key \in Strings : isKeyable(key) /\ getMapData(key) = "string" /\ key \notin Simple \cup Objects
    /\ \A key \in Simple : isKeyable(key) /\ getMapData(key) = "hash" /\ key \notin Strings \cup Objects
    /\ \A key \in Objects : ~isKeyable(key) /\ getMapData(key) = "map" /\ key \notin Strings \cup Simple
BY KeysAssumption DEF isKeyable, getMapData

LEMMA HashLooks ==
    ASSUME NEW S, NEW f, f \in [DOMAIN f -> Holdable], NEW hash, HashFor(hash, f, S), NEW key \in S
    PROVE  /\ hashHas(hash, key) <=> key \in DOMAIN f
           /\ hashGet(hash, key) = IF key \in DOMAIN f THEN f[key] ELSE Undefined
BY HashUndefinedAssumption DEF HashFor, hashHas, hashGet, Stored, Holdable

LEMMA HashSets ==
    ASSUME NEW S, NEW f, f \in [DOMAIN f -> Holdable], NEW hash, HashFor(hash, f, S),
           NEW key \in S, NEW value \in Holdable
    PROVE  /\ HashFor(hashSet(hash, key, value), With(f, key, value), S)
           /\ hashSet(hash, key, value).size = hash.size <=> key \in DOMAIN f
<1> DEFINE g == With(f, key, value)
           new == hashSet(hash, key, value)
<1>1. /\ Fields(new)
      /\ new.size = hash.size + (IF key \in DOMAIN f THEN 0 ELSE 1)
      /\ new.data = With(hash.data, key, Stored(value))
  <2>1. hashHas(hash, key) <=> key \in DOMAIN f
        BY HashLooks
  <2>2. new = [hash EXCEPT !.size = @ + (IF hashHas(hash, key) THEN 0 ELSE 1),
                           !.data = With(@, key, Stored(value))]
        BY DEF hashSet, Stored
  <2>3. Fields(hash)
        BY DEF HashFor
  <2>4. QED BY <2>1, <2>2, <2>3 DEF Fields
<1>2. With(hash.data, key, Stored(value)) = [k \in S \cap DOMAIN g |-> Stored(g[k])]
      BY DEF HashFor, With
<1>3. QED BY <1>1, <1>2 DEF HashFor, Fields

LEMMA HashDeletes ==
    ASSUME NEW S, NEW f, f \in [DOMAIN f -> Holdable], NEW hash, HashFor(hash, f, S), NEW key \in S
    PROVE  HashFor(hashDelete(hash, key), Without(f, key), S)
<1> DEFINE new == hashDelete(hash, key)
<1>1. CASE key \in DOMAIN f
  <2>1. Fields(new) /\ new.data = Without(hash.data, key)
    <3>1. new = [hash EXCEPT !.data = Without(@, key), !.size = @ - 1]
          BY <1>1, HashLooks DEF hashDelete
    <3>2. Fields(hash)
          BY DEF HashFor
    <3>3. QED BY <3>1, <3>2 DEF Fields
  <2>2. Without(hash.data, key) = [k \in S \cap DOMAIN Without(f, key) |-> Stored(Without(f, key)[k])]
        BY DEF HashFor, Without
  <2>3. QED BY <2>1, <2>2 DEF HashFor
<1>2. CASE key \notin DOMAIN f
  <2>1. new = hash /\ Without(f, key) = f
        BY <1>2, HashLooks DEF hashDelete, Without
  <2>2. QED BY <2>1
<1>3. QED BY <1>1, <1>2

\* A Hash does not depend on the other keys.
LEMMA HashRests ==
    ASSUME NEW S, NEW f, NEW g, NEW hash, HashFor(hash, f, S),
           S \cap DOMAIN g = S \cap DOMAIN f, \A key \in S \cap DOMAIN f : g[key] = f[key]
    PROVE  HashFor(hash, g, S)
BY DEF HashFor

-----------------------------------------------------------------------------
\* Removing a value from a sequence moves those behind it.
LEMMA Removed ==
    ASSUME NEW T, NEW array \in Seq(T), NEW i \in 1 .. Len(array)
    PROVE  /\ RemoveAt(array, i) \in Seq(T)
           /\ DOMAIN RemoveAt(array, i) = 1 .. Len(array) - 1
           /\ \A j \in 1 .. Len(array) - 1 :
                 RemoveAt(array, i)[j] = IF j < i THEN array[j] ELSE array[j + 1]
<1>1. PICK s : s = SubSeq(array, 1, i - 1)
      OBVIOUS
<1>2. s \in Seq(T) /\ Len(s) = i - 1 /\ \A j \in 1 .. i - 1 : s[j] = array[j]
      BY <1>1
<1>3. PICK t : t = SubSeq(array, i + 1, Len(array))
      OBVIOUS
<1>4. t \in Seq(T) /\ Len(t) = Len(array) - i /\ \A j \in 1 .. Len(array) - i : t[j] = array[j + i]
      BY <1>3
<1>5. RemoveAt(array, i) = s \o t
      BY <1>1, <1>3 DEF RemoveAt
<1>6. /\ s \o t \in Seq(T)
      /\ Len(s \o t) = Len(array) - 1
      /\ \A j \in 1 .. Len(array) - 1 : (s \o t)[j] = IF j <= i - 1 THEN s[j] ELSE t[j - (i - 1)]
  <2>1. /\ s \o t \in Seq(T) /\ Len(s \o t) = Len(s) + Len(t)
        /\ \A j \in 1 .. Len(s) + Len(t) : (s \o t)[j] = IF j <= Len(s) THEN s[j] ELSE t[j - Len(s)]
    <3>1. s \in Seq(T) /\ t \in Seq(T)
          BY <1>2, <1>4
    <3>2. QED BY <3>1
  <2>2. Len(s) = i - 1 /\ Len(s) + Len(t) = Len(array) - 1
        BY <1>2, <1>4
  <2>3. QED BY <2>1, <2>2
<1>7. \A j \in 1 .. Len(array) - 1 : (s \o t)[j] = IF j < i THEN array[j] ELSE array[j + 1]
  <2> SUFFICES ASSUME NEW j \in 1 .. Len(array) - 1
               PROVE  (s \o t)[j] = IF j < i THEN array[j] ELSE array[j + 1]
      OBVIOUS
  <2>1. CASE j < i
        BY <1>2, <1>6, <2>1
  <2>2. CASE ~(j < i)
    <3>1. j - (i - 1) \in 1 .. Len(array) - i /\ (j - (i - 1)) + i = j + 1
          BY <2>2
    <3>2. t[j - (i - 1)] = array[j + 1]
          BY <1>4, <3>1
    <3>3. QED BY <1>6, <2>2, <3>2
  <2>3. QED BY <2>1, <2>2
<1>8. PICK u : u = s \o t
      OBVIOUS
<1>9. DOMAIN u = 1 .. Len(array) - 1
  <2>1. u \in Seq(T) /\ Len(u) = Len(array) - 1
        BY <1>6, <1>8
  <2>2. QED BY <2>1
<1>10. QED BY <1>5, <1>6, <1>7, <1>8, <1>9

LEMMA ListIndex ==
    ASSUME NEW f, NEW list, ListFor(list, f), NEW key \in Objects
    PROVE  \/ key \notin DOMAIN f /\ assocIndexOf(list.data, key) = -1
           \/ \E i \in DOMAIN list.data :
                 /\ key \in DOMAIN f
                 /\ list.data[i] = <<key, f[key]>>
                 /\ assocIndexOf(list.data, key) = i - 1
<1> DEFINE array == list.data
           found == {i \in Indices(array) : eq(At(array, i)[1], key)}
<1>0. array \in Seq(Objects \X Holdable) /\ DOMAIN array = 1 .. Len(array) /\ Len(array) \in Nat
      BY DEF ListFor
<1>1. found = {i \in 0 .. Len(array) - 1 : array[i + 1][1] = key}
      BY DEF Indices, At, eq, StrictEq, baseIsNaN
<1>2. CASE key \notin DOMAIN f
  <2>1. found = {}
    <3>1. \A i \in DOMAIN array : array[i][1] # key
          BY <1>2 DEF ListFor
    <3>2. \A i \in 0 .. Len(array) - 1 : i + 1 \in DOMAIN array
          BY <1>0
    <3>3. QED BY <1>1, <3>1, <3>2
  <2>2. QED BY <1>2, <2>1 DEF assocIndexOf, GreatestOr
<1>3. CASE key \in DOMAIN f
  <2>1. PICK i \in DOMAIN array : array[i][1] = key
        BY <1>3 DEF ListFor
  <2>2. array[i] = <<key, f[key]>>
        BY <1>0, <2>1 DEF ListFor
  <2>3. found = {i - 1}
    <3>1. i - 1 \in found
      <4>1. i - 1 \in 0 .. Len(array) - 1 /\ (i - 1) + 1 = i
            BY <1>0
      <4>2. array[(i - 1) + 1][1] = key
            BY <2>1, <4>1
      <4>3. QED BY <1>1, <4>1, <4>2
    <3>2. ASSUME NEW j \in found PROVE j = i - 1
      <4>1. j \in 0 .. Len(array) - 1 /\ array[j + 1][1] = key
            BY <1>1, <3>2
      <4>2. j + 1 \in DOMAIN array /\ array[j + 1][1] = array[i][1]
            BY <1>0, <2>1, <4>1
      <4>3. j + 1 = i
            BY <4>2 DEF ListFor
      <4>4. QED BY <1>0, <4>1, <4>3
    <3>3. QED BY <3>1, <3>2
  <2>4. Max(found) = i - 1
        BY <1>0, <2>3 DEF Max
  <2>5. assocIndexOf(array, key) = i - 1
        BY <2>3, <2>4 DEF assocIndexOf, GreatestOr
  <2>6. QED BY <1>3, <2>2, <2>5
<1>4. QED BY <1>2, <1>3

LEMMA ListLooks ==
    ASSUME NEW f, NEW list, ListFor(list, f), NEW key \in Objects
    PROVE  /\ listCacheHas(list, key) <=> key \in DOMAIN f
           /\ listCacheGet(list, key) = IF key \in DOMAIN f THEN f[key] ELSE Undefined
<1>1. list.data \in Seq(Objects \X Holdable)
      BY DEF ListFor
<1>2. CASE key \notin DOMAIN f
      BY <1>2, ListIndex DEF listCacheHas, listCacheGet
<1>3. CASE key \in DOMAIN f
  <2>1. PICK i \in DOMAIN list.data :
               list.data[i] = <<key, f[key]>> /\ assocIndexOf(list.data, key) = i - 1
        BY <1>3, ListIndex
  <2>2. At(list.data, i - 1) = <<key, f[key]>> /\ i \in Nat /\ i >= 1
        BY <1>1, <2>1 DEF At
  <2>3. QED BY <1>3, <2>1, <2>2 DEF listCacheHas, listCacheGet
<1>4. QED BY <1>2, <1>3

LEMMA ListSets ==
    ASSUME NEW f, f \in [DOMAIN f -> Holdable], NEW list, ListFor(list, f),
           NEW key \in Objects, NEW value \in Holdable
    PROVE  /\ ListFor(listCacheSet(list, key, value), With(f, key, value))
           /\ listCacheSet(list, key, value).size = list.size <=> key \in DOMAIN f
<1> DEFINE g == With(f, key, value)
           new == listCacheSet(list, key, value)
           array == list.data
<1>1. array \in Seq(Objects \X Holdable) /\ <<key, value>> \in Objects \X Holdable
      BY DEF ListFor
<1>2. /\ DOMAIN g = DOMAIN f \cup {key}
      /\ g[key] = value
      /\ \A k \in DOMAIN f \ {key} : g[k] = f[k]
      BY DEF With
<1>3. CASE key \notin DOMAIN f
  <2>1. Fields(new) /\ new.size = list.size + 1 /\ new.data = Append(array, <<key, value>>)
        BY <1>3, ListIndex DEF listCacheSet, ListFor, Fields
  <2> DEFINE more == Append(array, <<key, value>>)
  <2>2. /\ more \in Seq(Objects \X Holdable)
        /\ DOMAIN more = DOMAIN array \cup {Len(array) + 1}
        /\ Len(array) + 1 \notin DOMAIN array
        /\ more[Len(array) + 1] = <<key, value>>
        /\ \A i \in DOMAIN array : more[i] = array[i]
        BY <1>1
  <2>3. \A i \in DOMAIN array : array[i][1] \in DOMAIN f \ {key}
        BY <1>3 DEF ListFor
  <2>4. ListFor(new, g)
        BY <1>2, <2>1, <2>2, <2>3 DEF ListFor
  <2>5. QED BY <1>3, <2>1, <2>4 DEF ListFor, Fields
<1>4. CASE key \in DOMAIN f
  <2>1. PICK i \in DOMAIN array :
               array[i] = <<key, f[key]>> /\ assocIndexOf(array, key) = i - 1
        BY <1>4, ListIndex
  <2>2. i \in Nat /\ i >= 1
        BY <1>1, <2>1
  <2>3. Fields(new) /\ new.size = list.size /\ new.data = [array EXCEPT ![i][2] = value]
    <3>1. ~(assocIndexOf(array, key) < 0) /\ assocIndexOf(array, key) + 1 = i
          BY <2>1, <2>2
    <3>2. new = [list EXCEPT !.data[assocIndexOf(array, key) + 1][2] = value]
          BY <3>1 DEF listCacheSet
    <3>3. Fields(list)
          BY DEF ListFor
    <3>4. QED BY <3>1, <3>2, <3>3 DEF Fields
  <2> DEFINE other == [array EXCEPT ![i][2] = value]
  <2>4. /\ other \in Seq(Objects \X Holdable)
        /\ DOMAIN other = DOMAIN array
        /\ other[i] = <<key, value>>
        /\ \A j \in DOMAIN array \ {i} : other[j] = array[j]
        BY <1>1, <2>1
  <2>5. \A j \in DOMAIN array \ {i} : array[j][1] \in DOMAIN f \ {key}
        BY <2>1 DEF ListFor
  <2>6. ListFor(new, g)
        BY <1>2, <2>1, <2>3, <2>4, <2>5 DEF ListFor
  <2>7. QED BY <1>4, <2>3, <2>6
<1>5. QED BY <1>3, <1>4

LEMMA ListDeletes ==
    ASSUME NEW f, f \in [DOMAIN f -> Holdable], NEW list, ListFor(list, f), NEW key \in Objects
    PROVE  ListFor(listCacheDelete(list, key), Without(f, key))
<1> DEFINE g == Without(f, key)
           new == listCacheDelete(list, key)
           array == list.data
<1>1. array \in Seq(Objects \X Holdable)
      BY DEF ListFor
<1>2. DOMAIN g = DOMAIN f \ {key} /\ \A k \in DOMAIN g : g[k] = f[k]
      BY DEF Without
<1>3. CASE key \notin DOMAIN f
  <2>1. new = list /\ g = f
        BY <1>3, ListIndex DEF listCacheDelete, Without
  <2>2. QED BY <2>1
<1>4. CASE key \in DOMAIN f
  <2>1. PICK i \in DOMAIN array :
               array[i] = <<key, f[key]>> /\ assocIndexOf(array, key) = i - 1
        BY <1>4, ListIndex
  <2>2. i \in 1 .. Len(array) /\ Len(array) \in Nat
        BY <1>1, <2>1
  <2>3. Fields(new) /\ new.data = RemoveAt(array, i)
        BY <2>1, <2>2 DEF listCacheDelete, ListFor, Fields
  <2> DEFINE fewer == RemoveAt(array, i)
  <2>4. /\ fewer \in Seq(Objects \X Holdable)
        /\ DOMAIN fewer = 1 .. Len(array) - 1
        /\ \A j \in DOMAIN fewer : fewer[j] = IF j < i THEN array[j] ELSE array[j + 1]
        BY <1>1, <2>2, Removed
  <2>5. \A j \in DOMAIN array \ {i} : array[j][1] \in DOMAIN g
        BY <1>2, <2>1 DEF ListFor
  <2>6. \A j \in DOMAIN fewer : \E k \in DOMAIN array \ {i} :
               fewer[j] = array[k] /\ k = IF j < i THEN j ELSE j + 1
        BY <1>1, <2>2, <2>4
  <2>7. \A k \in DOMAIN array \ {i} : \E j \in DOMAIN fewer : fewer[j] = array[k]
    <3> SUFFICES ASSUME NEW k \in DOMAIN array \ {i} PROVE \E j \in DOMAIN fewer : fewer[j] = array[k]
        OBVIOUS
    <3>1. CASE k < i
          BY <1>1, <2>2, <2>4, <3>1
    <3>2. CASE k > i
      <4>1. k - 1 \in 1 .. Len(array) - 1 /\ ~(k - 1 < i) /\ (k - 1) + 1 = k
            BY <1>1, <2>2, <3>2
      <4>2. k - 1 \in DOMAIN fewer /\ fewer[k - 1] = array[(k - 1) + 1]
            BY <2>4, <4>1
      <4>3. QED BY <4>1, <4>2
    <3>3. QED BY <1>1, <2>2, <3>1, <3>2
  <2>8. \A j, k \in DOMAIN fewer : fewer[j][1] = fewer[k][1] => j = k
    <3> SUFFICES ASSUME NEW j \in DOMAIN fewer, NEW k \in DOMAIN fewer, fewer[j][1] = fewer[k][1]
                 PROVE  j = k
        OBVIOUS
    <3> DEFINE at(n) == IF n < i THEN n ELSE n + 1
    <3>1. /\ at(j) \in DOMAIN array /\ fewer[j] = array[at(j)]
          /\ at(k) \in DOMAIN array /\ fewer[k] = array[at(k)]
          BY <2>6
    <3>2. at(j) = at(k)
          BY <3>1 DEF ListFor
    <3>3. j \in Int /\ k \in Int
          BY <2>2, <2>4
    <3>4. QED BY <2>2, <3>2, <3>3
  <2> HIDE DEF g, fewer, array
  <2>9. \A j \in DOMAIN fewer : fewer[j][1] \in DOMAIN g /\ fewer[j][2] = g[fewer[j][1]]
    <3>1. \A k \in DOMAIN array \ {i} : array[k][1] \in DOMAIN g /\ array[k][2] = g[array[k][1]]
          BY <1>2, <2>5 DEF ListFor, array
    <3>2. QED BY <2>6, <3>1
  <2>10. \A k \in Objects \cap DOMAIN g : \E j \in DOMAIN fewer : fewer[j][1] = k
    <3>1. \A k \in Objects \cap DOMAIN g : \E j \in DOMAIN array \ {i} : array[j][1] = k
          BY <1>2, <2>1 DEF ListFor, array
    <3>2. QED BY <2>7, <3>1
  <2>11. QED BY <2>3, <2>4, <2>8, <2>9, <2>10 DEF ListFor, fewer, array, g
<1>5. QED BY <1>3, <1>4

LEMMA ListRests ==
    ASSUME NEW f, NEW g, NEW list, ListFor(list, f),
           Objects \cap DOMAIN g = Objects \cap DOMAIN f, \A key \in Objects \cap DOMAIN f : g[key] = f[key]
    PROVE  ListFor(list, g)
<1>1. \A i \in DOMAIN list.data : list.data[i][1] \in Objects
      BY DEF ListFor
<1>2. QED BY <1>1 DEF ListFor

-----------------------------------------------------------------------------
\* The parts of a MapCache under With and Without of another part's key.
LEMMA Elsewhere ==
    ASSUME NEW f, NEW key, NEW value, NEW S, key \notin S
    PROVE  /\ S \cap DOMAIN With(f, key, value) = S \cap DOMAIN f
           /\ \A k \in S \cap DOMAIN f : With(f, key, value)[k] = f[k]
BY DEF With

LEMMA ElsewhereGone ==
    ASSUME NEW f, NEW key, NEW S, key \notin S
    PROVE  /\ S \cap DOMAIN Without(f, key) = S \cap DOMAIN f
           /\ \A k \in S \cap DOMAIN f : Without(f, key)[k] = f[k]
BY DEF Without

\* A function that gains or loses a key.
LEMMA FunctionOf ==
    ASSUME NEW f, f \in [DOMAIN f -> Holdable], DOMAIN f \subseteq Keys, IsFiniteSet(DOMAIN f),
           NEW key \in Keys, NEW value \in Holdable
    PROVE  /\ With(f, key, value) \in [DOMAIN With(f, key, value) -> Holdable]
           /\ DOMAIN With(f, key, value) \subseteq Keys
           /\ IsFiniteSet(DOMAIN With(f, key, value))
           /\ Cardinality(DOMAIN With(f, key, value)) =
                 Cardinality(DOMAIN f) + (IF key \in DOMAIN f THEN 0 ELSE 1)
           /\ Without(f, key) \in [DOMAIN Without(f, key) -> Holdable]
           /\ DOMAIN Without(f, key) \subseteq Keys
           /\ IsFiniteSet(DOMAIN Without(f, key))
           /\ Cardinality(DOMAIN Without(f, key)) =
                 Cardinality(DOMAIN f) - (IF key \in DOMAIN f THEN 1 ELSE 0)
           /\ Cardinality(DOMAIN f) \in Nat
<1>1. /\ DOMAIN With(f, key, value) = DOMAIN f \cup {key}
      /\ DOMAIN Without(f, key) = DOMAIN f \ {key}
      BY DEF With, Without
<1>2. /\ With(f, key, value) \in [DOMAIN f \cup {key} -> Holdable]
      /\ Without(f, key) \in [DOMAIN f \ {key} -> Holdable]
      BY DEF With, Without
<1>3. Cardinality(DOMAIN f) \in Nat
      BY FS_CardinalityType
<1>4. QED BY <1>1, <1>2, <1>3, FS_AddElement, FS_RemoveElement

\* A MapCache answers as the function does.
LEMMA MapLooks ==
    ASSUME NEW mapCache, NEW f, MapFor(mapCache, f), NEW key \in Keys
    PROVE  /\ mapCacheHas(mapCache, key) <=> key \in DOMAIN f
           /\ mapCacheGet(mapCache, key) = IF key \in DOMAIN f THEN f[key] ELSE Undefined
<1> USE MapDataOf DEF mapCacheHas, mapCacheGet, MapFor
<1>1. CASE key \in Strings
      BY <1>1, HashLooks
<1>2. CASE key \in Simple
      BY <1>2, HashLooks
<1>3. CASE key \in Objects
      BY <1>3, ListLooks
<1>4. QED BY <1>1, <1>2, <1>3 DEF Keys

LEMMA MapSets ==
    ASSUME NEW mapCache, NEW f, MapFor(mapCache, f), NEW key \in Keys, NEW value \in Holdable
    PROVE  MapFor(mapCacheSet(mapCache, key, value), With(f, key, value))
<1> DEFINE g == With(f, key, value)
           new == mapCacheSet(mapCache, key, value)
<1>1. /\ g \in [DOMAIN g -> Holdable] /\ DOMAIN g \subseteq Keys /\ IsFiniteSet(DOMAIN g)
      /\ Cardinality(DOMAIN g) = Cardinality(DOMAIN f) + (IF key \in DOMAIN f THEN 0 ELSE 1)
      BY FunctionOf DEF MapFor
<1>2. /\ f \in [DOMAIN f -> Holdable]
      /\ Fields(mapCache) /\ DOMAIN mapCache.data = {"hash", "map", "string"}
      /\ mapCache.size = Cardinality(DOMAIN f)
      /\ HashFor(mapCache.data.hash, f, Simple)
      /\ HashFor(mapCache.data.string, f, Strings)
      /\ ListFor(mapCache.data.map, f)
      BY DEF MapFor
<1>3. CASE key \in Strings
  <2> DEFINE part == hashSet(mapCache.data.string, key, value)
  <2>1. HashFor(part, g, Strings) /\ (part.size = mapCache.data.string.size <=> key \in DOMAIN f)
    <3>1. HashFor(mapCache.data.string, f, Strings) /\ f \in [DOMAIN f -> Holdable]
          BY <1>2
    <3> DEFINE h == mapCache.data.string
    <3> HIDE DEF h
    <3>2. HashFor(h, f, Strings)
          BY <3>1 DEF h
    <3>3. /\ HashFor(hashSet(h, key, value), With(f, key, value), Strings)
          /\ hashSet(h, key, value).size = h.size <=> key \in DOMAIN f
          BY <1>3, <3>1, <3>2, HashSets
    <3>4. QED BY <3>3 DEF h
  <2>2. new = [mapCache EXCEPT !.data["string"] = part,
                               !.size = @ + (IF part.size = mapCache.data.string.size THEN 0 ELSE 1)]
        BY <1>3, MapDataOf DEF mapCacheSet
  <2>3. /\ Fields(new) /\ DOMAIN new.data = {"hash", "map", "string"}
        /\ new.size = Cardinality(DOMAIN g)
        /\ new.data.string = part
        /\ new.data.hash = mapCache.data.hash /\ new.data.map = mapCache.data.map
        BY <1>1, <1>2, <2>1, <2>2 DEF Fields
  <2>4. HashFor(new.data.hash, g, Simple) /\ ListFor(new.data.map, g)
        BY <1>2, <1>3, <2>3, MapDataOf, Elsewhere, HashRests, ListRests
  <2>5. QED BY <1>1, <2>1, <2>3, <2>4 DEF MapFor
<1>4. CASE key \in Simple
  <2> DEFINE part == hashSet(mapCache.data.hash, key, value)
  <2>1. HashFor(part, g, Simple) /\ (part.size = mapCache.data.hash.size <=> key \in DOMAIN f)
    <3>1. HashFor(mapCache.data.hash, f, Simple) /\ f \in [DOMAIN f -> Holdable]
          BY <1>2
    <3> DEFINE h == mapCache.data.hash
    <3> HIDE DEF h
    <3>2. HashFor(h, f, Simple)
          BY <3>1 DEF h
    <3>3. /\ HashFor(hashSet(h, key, value), With(f, key, value), Simple)
          /\ hashSet(h, key, value).size = h.size <=> key \in DOMAIN f
          BY <1>4, <3>1, <3>2, HashSets
    <3>4. QED BY <3>3 DEF h
  <2>2. new = [mapCache EXCEPT !.data["hash"] = part,
                               !.size = @ + (IF part.size = mapCache.data.hash.size THEN 0 ELSE 1)]
        BY <1>4, MapDataOf DEF mapCacheSet
  <2>3. /\ Fields(new) /\ DOMAIN new.data = {"hash", "map", "string"}
        /\ new.size = Cardinality(DOMAIN g)
        /\ new.data.hash = part
        /\ new.data.string = mapCache.data.string /\ new.data.map = mapCache.data.map
        BY <1>1, <1>2, <2>1, <2>2 DEF Fields
  <2>4. HashFor(new.data.string, g, Strings) /\ ListFor(new.data.map, g)
        BY <1>2, <1>4, <2>3, MapDataOf, Elsewhere, HashRests, ListRests
  <2>5. QED BY <1>1, <2>1, <2>3, <2>4 DEF MapFor
<1>5. CASE key \in Objects
  <2> DEFINE part == listCacheSet(mapCache.data.map, key, value)
  <2>1. ListFor(part, g) /\ (part.size = mapCache.data.map.size <=> key \in DOMAIN f)
        BY <1>2, <1>5, ListSets
  <2>2. new = [mapCache EXCEPT !.data["map"] = part,
                               !.size = @ + (IF part.size = mapCache.data.map.size THEN 0 ELSE 1)]
        BY <1>5, MapDataOf DEF mapCacheSet
  <2>3. /\ Fields(new) /\ DOMAIN new.data = {"hash", "map", "string"}
        /\ new.size = Cardinality(DOMAIN g)
        /\ new.data.map = part
        /\ new.data.string = mapCache.data.string /\ new.data.hash = mapCache.data.hash
        BY <1>1, <1>2, <2>1, <2>2 DEF Fields
  <2>4. HashFor(new.data.string, g, Strings) /\ HashFor(new.data.hash, g, Simple)
        BY <1>2, <1>5, <2>3, MapDataOf, Elsewhere, HashRests
  <2>5. QED BY <1>1, <2>1, <2>3, <2>4 DEF MapFor
<1>6. QED BY <1>3, <1>4, <1>5 DEF Keys

LEMMA MapDeletes ==
    ASSUME NEW mapCache, NEW f, MapFor(mapCache, f), NEW key \in Keys
    PROVE  MapFor(mapCacheDelete(mapCache, key), Without(f, key))
<1> DEFINE g == Without(f, key)
           new == mapCacheDelete(mapCache, key)
           left == mapCache.size - (IF key \in DOMAIN f THEN 1 ELSE 0)
<1>1. PICK value : value = <<key>>
      OBVIOUS
<1>2. value \in Holdable
      BY <1>1 DEF Holdable
<1>3. /\ g \in [DOMAIN g -> Holdable] /\ DOMAIN g \subseteq Keys /\ IsFiniteSet(DOMAIN g)
      /\ Cardinality(DOMAIN g) = left
      BY <1>2, FunctionOf DEF MapFor
<1>4. /\ f \in [DOMAIN f -> Holdable]
      /\ Fields(mapCache) /\ DOMAIN mapCache.data = {"hash", "map", "string"}
      /\ HashFor(mapCache.data.hash, f, Simple)
      /\ HashFor(mapCache.data.string, f, Strings)
      /\ ListFor(mapCache.data.map, f)
      BY DEF MapFor
<1>5. mapCacheHas(mapCache, key) <=> key \in DOMAIN f
      BY MapLooks
<1>6. CASE key \in Strings
  <2> DEFINE part == hashDelete(mapCache.data.string, key)
  <2>1. HashFor(part, g, Strings)
        BY <1>4, <1>6, HashDeletes
  <2>2. new = [mapCache EXCEPT !.data["string"] = part,
                               !.size = @ - (IF mapCacheHas(mapCache, key) THEN 1 ELSE 0)]
        BY <1>6, MapDataOf DEF mapCacheDelete
  <2>3. /\ Fields(new) /\ DOMAIN new.data = {"hash", "map", "string"}
        /\ new.size = Cardinality(DOMAIN g)
        /\ new.data.string = part
        /\ new.data.hash = mapCache.data.hash /\ new.data.map = mapCache.data.map
        BY <1>3, <1>4, <1>5, <2>2 DEF Fields
  <2>4. HashFor(new.data.hash, g, Simple) /\ ListFor(new.data.map, g)
        BY <1>4, <1>6, <2>3, MapDataOf, ElsewhereGone, HashRests, ListRests
  <2>5. QED BY <1>3, <2>1, <2>3, <2>4 DEF MapFor
<1>7. CASE key \in Simple
  <2> DEFINE part == hashDelete(mapCache.data.hash, key)
  <2>1. HashFor(part, g, Simple)
        BY <1>4, <1>7, HashDeletes
  <2>2. new = [mapCache EXCEPT !.data["hash"] = part,
                               !.size = @ - (IF mapCacheHas(mapCache, key) THEN 1 ELSE 0)]
        BY <1>7, MapDataOf DEF mapCacheDelete
  <2>3. /\ Fields(new) /\ DOMAIN new.data = {"hash", "map", "string"}
        /\ new.size = Cardinality(DOMAIN g)
        /\ new.data.hash = part
        /\ new.data.string = mapCache.data.string /\ new.data.map = mapCache.data.map
        BY <1>3, <1>4, <1>5, <2>2 DEF Fields
  <2>4. HashFor(new.data.string, g, Strings) /\ ListFor(new.data.map, g)
        BY <1>4, <1>7, <2>3, MapDataOf, ElsewhereGone, HashRests, ListRests
  <2>5. QED BY <1>3, <2>1, <2>3, <2>4 DEF MapFor
<1>8. CASE key \in Objects
  <2> DEFINE part == listCacheDelete(mapCache.data.map, key)
  <2>1. ListFor(part, g)
        BY <1>4, <1>8, ListDeletes
  <2>2. new = [mapCache EXCEPT !.data["map"] = part,
                               !.size = @ - (IF mapCacheHas(mapCache, key) THEN 1 ELSE 0)]
        BY <1>8, MapDataOf DEF mapCacheDelete
  <2>3. /\ Fields(new) /\ DOMAIN new.data = {"hash", "map", "string"}
        /\ new.size = Cardinality(DOMAIN g)
        /\ new.data.map = part
        /\ new.data.string = mapCache.data.string /\ new.data.hash = mapCache.data.hash
        BY <1>3, <1>4, <1>5, <2>2 DEF Fields
  <2>4. HashFor(new.data.string, g, Strings) /\ HashFor(new.data.hash, g, Simple)
        BY <1>4, <1>8, <2>3, MapDataOf, ElsewhereGone, HashRests
  <2>5. QED BY <1>3, <2>1, <2>3, <2>4 DEF MapFor
<1>9. QED BY <1>6, <1>7, <1>8 DEF Keys

LEMMA MapClears == MapFor(mapCacheClear, <<>>)
<1>1. DOMAIN <<>> = {} /\ <<>> \in [{} -> Holdable] /\ <<>> \in Seq(Objects \X Holdable)
      OBVIOUS
<1>2. IsFiniteSet({}) /\ Cardinality({}) = 0
      BY FS_EmptySet
<1>3. \A S : HashFor(Hash, <<>>, S)
      BY <1>1 DEF HashFor, Hash, Fields
<1>4. ListFor(ListCache, <<>>)
      BY <1>1 DEF ListFor, ListCache, Fields
<1>5. QED BY <1>1, <1>2, <1>3, <1>4 DEF MapFor, mapCacheClear, Fields

-----------------------------------------------------------------------------
CacheSpec == CacheInit /\ [][CacheNext]_cacheVars

MemoSpec == CacheInit /\ [][MemoNext]_cacheVars

\* Whatever is set, deleted and cleared: a MapCache has the keys that were set
\* and not deleted since, each with its last value, undefined among them, and
\* counts them (mapCacheSet, mapCacheDelete, hashSet, listCacheSet).
THEOREM CacheStandsForMap == CacheSpec => []CacheIsMap
<1> DEFINE I == MapFor(cache, kept)
<1>1. CacheInit => I
      BY MapClears DEF CacheInit
<1>2. I /\ [CacheNext]_cacheVars => I'
  <2> SUFFICES ASSUME I, [CacheNext]_cacheVars PROVE MapFor(cache', kept')
      OBVIOUS
  <2>1. ASSUME NEW key \in Keys, NEW value \in Values, CacheSet(key, value)
        PROVE  MapFor(cache', kept')
        BY <2>1, MapSets DEF CacheSet, Holdable
  <2>2. ASSUME NEW key \in Keys, CacheDelete(key) PROVE MapFor(cache', kept')
        BY <2>2, MapDeletes DEF CacheDelete
  <2>3. CASE CacheClear
        BY <2>3, MapClears DEF CacheClear
  <2>4. CASE UNCHANGED cacheVars
        BY <2>4 DEF cacheVars
  <2>5. QED BY <2>1, <2>2, <2>3, <2>4 DEF CacheNext
<1>3. I => CacheIsMap
  <2> SUFFICES ASSUME I PROVE CacheIsMap
      OBVIOUS
  <2>1. cache.size = Cardinality(DOMAIN kept)
        BY DEF MapFor
  <2>2. QED BY <2>1, MapLooks DEF CacheIsMap
<1>4. QED BY <1>1, <1>2, <1>3, PTL DEF CacheSpec

\* What memoized functions return.
Results(S) == [key \in S |-> <<key>>]

\* The cache of a memoized function holds results of the function.
MemoInvariant ==
    /\ \E S \in SUBSET Keys : MapFor(memo, Results(S))
    /\ memo.size \in 0 .. MAX_MEMOIZE_SIZE
    /\ \A key \in DOMAIN results : results[key] = <<key>>

LEMMA MemoInit == CacheInit => MemoInvariant
<1> SUFFICES ASSUME CacheInit PROVE MemoInvariant
    OBVIOUS
<1>1. Results({}) = <<>>
      BY DEF Results
<1>2. MapFor(memo, Results({})) /\ memo.size = 0
      BY <1>1, MapClears DEF CacheInit, mapCacheClear
<1>3. results = <<>> /\ DOMAIN <<>> = {}
      BY DEF CacheInit
<1>4. QED BY <1>2, <1>3, MemoizeAssumption DEF MemoInvariant

LEMMA MemoStep == MemoInvariant /\ [MemoNext]_cacheVars => MemoInvariant'
<1> SUFFICES ASSUME MemoInvariant, [MemoNext]_cacheVars PROVE MemoInvariant'
    OBVIOUS
<1>1. CASE UNCHANGED cacheVars
      BY <1>1 DEF cacheVars, MemoInvariant
<1>2. ASSUME NEW key \in Keys, memoized(key) PROVE MemoInvariant'
  <2> DEFINE resolved == IF memo.size = MAX_MEMOIZE_SIZE THEN mapCacheClear ELSE memo
             has == mapCacheHas(resolved, key)
             returned == IF has THEN mapCacheGet(resolved, key) ELSE <<key>>
  <2>1. /\ memo' = IF has THEN resolved ELSE mapCacheSet(resolved, key, <<key>>)
        /\ results' = With(results, key, returned)
        BY <1>2 DEF memoized
  <2>2. PICK S \in SUBSET Keys : MapFor(resolved, Results(S)) /\ resolved.size \in 0 .. MAX_MEMOIZE_SIZE - 1
    <3>1. CASE memo.size = MAX_MEMOIZE_SIZE
      <4>1. Results({}) = <<>>
            BY DEF Results
      <4>2. MapFor(mapCacheClear, Results({})) /\ mapCacheClear.size = 0
            BY <4>1, MapClears DEF mapCacheClear
      <4>3. QED BY <3>1, <4>2, MemoizeAssumption
    <3>2. CASE memo.size # MAX_MEMOIZE_SIZE
          BY <3>2, MemoizeAssumption DEF MemoInvariant
    <3>3. QED BY <3>1, <3>2
  <2> HIDE DEF resolved
  <2>3. DOMAIN Results(S) = S /\ \A k \in S : Results(S)[k] = <<k>>
        BY DEF Results
  <2>4. has <=> key \in S
        BY <2>2, <2>3, MapLooks
  <2>5. returned = <<key>>
        BY <2>2, <2>3, <2>4, MapLooks
  <2>6. \A k \in DOMAIN results' : results'[k] = <<k>>
        BY <2>1, <2>5 DEF MemoInvariant, With
  <2>7. CASE has
        BY <2>1, <2>2, <2>6, <2>7, MemoizeAssumption DEF MemoInvariant
  <2>8. CASE ~has
    <3>1. With(Results(S), key, <<key>>) = Results(S \cup {key})
          BY DEF With, Results
    <3>2. MapFor(memo', Results(S \cup {key}))
      <4>1. <<key>> \in Holdable
            BY DEF Holdable
      <4>2. MapFor(mapCacheSet(resolved, key, <<key>>), With(Results(S), key, <<key>>))
            BY <2>2, <4>1, MapSets
      <4>3. QED BY <2>1, <2>8, <3>1, <4>2
    <3>3. memo'.size = resolved.size + 1
      <4>1. /\ resolved.size = Cardinality(S) /\ IsFiniteSet(S)
            BY <2>2, <2>3 DEF MapFor
      <4>2. memo'.size = Cardinality(S \cup {key})
            BY <3>2 DEF MapFor, Results
      <4>3. QED BY <2>4, <2>8, <4>1, <4>2, FS_AddElement
    <3>4. QED BY <2>2, <2>6, <3>2, <3>3, MemoizeAssumption DEF MemoInvariant
  <2>9. QED BY <2>7, <2>8
<1>3. QED BY <1>1, <1>2 DEF MemoNext

\* A memoized function returns what the function does, before and after its
\* cache was emptied, and the cache counts the results it holds and never holds
\* more than MAX_MEMOIZE_SIZE (memoize, memoizeCapped).
THEOREM MemoizedReturnsTheSame == MemoSpec => []MemoizeIsTransparent
<1>1. MemoInvariant => MemoizeIsTransparent
  <2> SUFFICES ASSUME MemoInvariant PROVE MemoizeIsTransparent
      OBVIOUS
  <2>1. PICK S \in SUBSET Keys : MapFor(memo, Results(S))
        BY DEF MemoInvariant
  <2>2. DOMAIN Results(S) = S
        BY DEF Results
  <2>3. {key \in Keys : mapCacheHas(memo, key)} = S
        BY <2>1, <2>2, MapLooks
  <2>4. memo.size = Cardinality(S)
        BY <2>1, <2>2 DEF MapFor
  <2>5. QED BY <2>3, <2>4, MemoizeAssumption DEF MemoInvariant, MemoizeIsTransparent
<1>2. QED BY <1>1, MemoInit, MemoStep, PTL DEF MemoSpec

-----------------------------------------------------------------------------
(* debounce                                                                *)

DebounceSpec ==
    (\E opts \in Options : debounce(opts)) /\ [][DebounceNext]_debounceVars

\* Arguments that wait for an invocation are those of the last call, which is
\* owed one.
WaitingInvariant == lastArgs # Undefined => owed /\ lastArgs = latest

LEMMA WaitingStep ==
    ASSUME WaitingInvariant, [DebounceNext]_debounceVars
    PROVE  /\ WaitingInvariant'
           /\ [invoked' # Undefined =>
                 /\ owed \/ \E args \in Args : debounced(args)
                 /\ invoked' = latest']_debounceVars
<1> DEFINE Once == invoked' # Undefined =>
                     /\ owed \/ \E args \in Args : debounced(args)
                     /\ invoked' = latest'
<1> USE DEF WaitingInvariant, invokeFunc, Keep
<1>1. CASE UNCHANGED debounceVars
      BY <1>1 DEF debounceVars
<1>2. ASSUME NEW args \in Args, debounced(args)
      PROVE  WaitingInvariant' /\ Once
  <2>1. /\ latest' = args
        /\ owed' = (invoked' = Undefined)
        BY <1>2 DEF debounced
  <2>2. \/ lastArgs' = Undefined /\ invoked' = args
        \/ lastArgs' = args /\ invoked' = Undefined
    <3>1. CASE shouldInvoke /\ timerId = Undefined
          BY <1>2, <3>1 DEF debounced, leadingEdge
    <3>2. CASE shouldInvoke /\ timerId # Undefined /\ maxing
          BY <1>2, <3>2 DEF debounced
    <3>3. CASE ~(shouldInvoke /\ (timerId = Undefined \/ maxing))
          BY <1>2, <3>3 DEF debounced
    <3>4. QED BY <3>1, <3>2, <3>3
  <2>3. QED BY <1>2, <2>1, <2>2
<1>3. ASSUME NEW t \in TimerIds, timerExpired(t)
      PROVE  WaitingInvariant' /\ Once
      BY <1>3 DEF timerExpired, trailingEdge
<1>4. CASE cancel
      BY <1>4 DEF cancel
<1>5. CASE flush
      BY <1>5 DEF flush, trailingEdge
<1>6. CASE Tick \/ SetBack
      BY <1>6 DEF Tick, SetBack
<1>7. QED BY <1>1, <1>2, <1>3, <1>4, <1>5, <1>6 DEF DebounceNext

\* However calls, timers, cancel and flush come, and though the clock is set
\* back: func runs at most once for a call, with the arguments of the last one
\* (debounced, timerExpired, trailingEdge).
THEOREM InvokedOncePerCall == DebounceSpec => OncePerCall
<1>1. (\E opts \in Options : debounce(opts)) => WaitingInvariant
      BY DEF debounce, WaitingInvariant
<1>2. QED BY <1>1, WaitingStep, PTL DEF DebounceSpec, OncePerCall

-----------------------------------------------------------------------------
(* MapCache of a list of pairs                                             *)

\* Some numbers have a least one.
LEMMA Least ==
    ASSUME NEW T, T \subseteq Nat, T # {}
    PROVE  \E n \in T : \A m \in Nat : m < n => m \notin T
<1>1. PICK n \in T : \A m \in T : ~(<<m, n>> \in OpToRel(<, Nat))
      BY NatLessThanWellFounded, WFMin
<1>2. QED BY <1>1 DEF OpToRel

\* Induction over the naturals, for sets.
LEMMA Successors ==
    ASSUME NEW S, 0 \in S, \A n \in Nat : n \in S => n + 1 \in S
    PROVE  Nat \subseteq S
<1> DEFINE T == Nat \ S
<1>1. SUFFICES ASSUME T # {} PROVE FALSE
      OBVIOUS
<1>2. PICK n \in T : \A m \in Nat : m < n => m \notin T
      BY <1>1, Least
<1>3. CASE n = 0
      BY <1>3
<1>4. CASE n # 0
  <2>1. n - 1 \in Nat /\ n - 1 < n /\ (n - 1) + 1 = n
        BY <1>4
  <2>2. QED BY <1>2, <2>1
<1>5. QED BY <1>3, <1>4

\* Max of a set that has a greatest number.
LEMMA GreatestOf ==
    ASSUME NEW S, NEW n \in S, n \in Int, \A m \in S : m \in Int /\ m <= n
    PROVE  Max(S) = n
<1>1. \A x \in S : (\A y \in S : x >= y) => x = n
      OBVIOUS
<1>2. \A y \in S : n >= y
      OBVIOUS
<1>3. QED BY <1>1, <1>2 DEF Max

\* An interval without its end.
LEMMA OneLess ==
    ASSUME NEW n \in Nat
    PROVE  (1 .. n + 1) \ {n + 1} = 1 .. n
<1>1. \A x : x \in (1 .. n + 1) \ {n + 1} => x \in 1 .. n
      OBVIOUS
<1>2. \A x : x \in 1 .. n => x \in (1 .. n + 1) \ {n + 1}
      OBVIOUS
<1>3. QED BY <1>1, <1>2

-----------------------------------------------------------------------------
\* mapCache[s] is what becomes of an empty MapCache when the entries with the
\* indices in s, up to n, are set.
Fills(mapCache, entries, n) ==
    mapCache = [s \in SUBSET (1 .. n) |->
              IF s = {} THEN mapCacheClear
              ELSE mapCacheSet(mapCache[s \ {Max(s)}], entries[Max(s)][1], entries[Max(s)][2])]

\* There is such a function, so that the fold of MapCache is one.
LEMMA FillsExists ==
    ASSUME NEW entries, NEW n \in Nat
    PROVE  \E mapCache : Fills(mapCache, entries, n)
<1> DEFINE S == {m \in Nat : \E mapCache : Fills(mapCache, entries, m)}
<1>1. 0 \in S
  <2> DEFINE mapCache == [s \in SUBSET (1 .. 0) |-> mapCacheClear]
  <2>1. \A s \in SUBSET (1 .. 0) : s = {}
        OBVIOUS
  <2>2. Fills(mapCache, entries, 0)
        BY <2>1 DEF Fills
  <2>3. QED BY <2>2
<1>2. ASSUME NEW m \in Nat, m \in S PROVE m + 1 \in S
  <2>1. PICK mapCache : Fills(mapCache, entries, m)
        BY <1>2
  <2> DEFINE Value(s) == mapCacheSet(mapCache[s \ {m + 1}], entries[m + 1][1], entries[m + 1][2])
             next == [s \in SUBSET (1 .. m + 1) |-> IF m + 1 \in s THEN Value(s) ELSE mapCache[s]]
             Entry(s) == IF s = {} THEN mapCacheClear
                         ELSE mapCacheSet(next[s \ {Max(s)}], entries[Max(s)][1], entries[Max(s)][2])
  <2>2. \A s \in SUBSET (1 .. m) : s \in SUBSET (1 .. m + 1) /\ next[s] = mapCache[s]
        OBVIOUS
  <2>3. ASSUME NEW s \in SUBSET (1 .. m + 1) PROVE next[s] = Entry(s)
    <3>1. CASE m + 1 \in s
      <4>1. Max(s) = m + 1
        <5>1. \A x \in s : x \in Int /\ x <= m + 1
              OBVIOUS
        <5>2. m + 1 \in Int
              OBVIOUS
        <5>3. QED BY <3>1, <5>1, <5>2, GreatestOf
      <4>2. s \ {m + 1} \in SUBSET (1 .. m)
            OBVIOUS
      <4>3. next[s] = Value(s) /\ next[s \ {m + 1}] = mapCache[s \ {m + 1}]
            BY <2>2, <3>1, <4>2
      <4>4. s # {}
            BY <3>1
      <4> HIDE DEF next
      <4>5. QED BY <4>1, <4>3, <4>4
    <3>2. CASE m + 1 \notin s
      <4>1. s \in SUBSET (1 .. m) /\ next[s] = mapCache[s]
            BY <2>2, <3>2
      <4>2. s \ {Max(s)} \in SUBSET (1 .. m) /\ next[s \ {Max(s)}] = mapCache[s \ {Max(s)}]
            BY <2>2, <4>1
      <4>3. mapCache[s] = IF s = {} THEN mapCacheClear
                     ELSE mapCacheSet(mapCache[s \ {Max(s)}], entries[Max(s)][1], entries[Max(s)][2])
            BY <2>1, <4>1 DEF Fills
      <4> HIDE DEF next
      <4>4. QED BY <4>1, <4>2, <4>3
    <3>3. QED BY <3>1, <3>2
  <2>4. next = [s \in SUBSET (1 .. m + 1) |-> next[s]]
        OBVIOUS
  <2> HIDE DEF next
  <2>5. next = [s \in SUBSET (1 .. m + 1) |-> Entry(s)]
        BY <2>3, <2>4
  <2>6. Fills(next, entries, m + 1)
        BY <2>5 DEF Fills
  <2>7. QED BY <2>6
<1>3. QED BY <1>1, <1>2, Successors

\* A MapCache of a list of pairs is the last of them: what FoldLeft does.
LEMMA MapCacheFills ==
    ASSUME NEW entries, NEW n \in Nat, DOMAIN entries = 1 .. n
    PROVE  \E mapCache : Fills(mapCache, entries, n) /\ MapCache(entries) = mapCache[1 .. n]
<1>1. MapCache(entries) = (CHOOSE mapCache : Fills(mapCache, entries, n))[1 .. n]
      BY DEF MapCache, FoldLeft, MapThenFoldSet, Fills
<1>2. QED BY <1>1, FillsExists

\* A MapCache that is made of a list of pairs has pairs of the list only.
LEMMA MapCacheOf ==
    ASSUME NEW entries \in Seq(Objects \X Objects)
    PROVE  \E f : /\ MapFor(MapCache(entries), f)
                  /\ MapCache(entries).kind = "map"
                  /\ \A k \in DOMAIN f : \E i \in DOMAIN entries : entries[i] = <<k, f[k]>>
<1> DEFINE n == Len(entries)
<1>1. n \in Nat /\ DOMAIN entries = 1 .. n
      OBVIOUS
<1>2. PICK mapCache : Fills(mapCache, entries, n) /\ MapCache(entries) = mapCache[1 .. n]
      BY <1>1, MapCacheFills
<1> DEFINE Good(m) == \E f : /\ MapFor(mapCache[1 .. m], f)
                             /\ mapCache[1 .. m].kind = "map"
                             /\ \A k \in DOMAIN f : \E i \in 1 .. m : entries[i] = <<k, f[k]>>
           S == {m \in Nat : m <= n => Good(m)}
<1>3. 0 \in S
  <2>1. 1 .. 0 = {} /\ mapCache[{}] = mapCacheClear
        BY <1>2 DEF Fills
  <2>2. mapCacheClear.kind = "map"
        BY DEF mapCacheClear
  <2>3. Good(0)
    <3>1. DOMAIN <<>> = {}
          OBVIOUS
    <3>2. QED BY <2>1, <2>2, <3>1, MapClears
  <2>4. QED BY <2>3
<1>4. ASSUME NEW m \in Nat, m \in S PROVE m + 1 \in S
  <2>1. SUFFICES ASSUME m + 1 <= n PROVE Good(m + 1)
        OBVIOUS
  <2>2. PICK f : /\ MapFor(mapCache[1 .. m], f)
                 /\ mapCache[1 .. m].kind = "map"
                 /\ \A k \in DOMAIN f : \E i \in 1 .. m : entries[i] = <<k, f[k]>>
    <3>1. m <= n
          BY <1>1, <2>1
    <3> HIDE DEF Good
    <3>2. Good(m)
          BY <1>4, <3>1
    <3>3. QED BY <3>2 DEF Good
  <2>3. Max(1 .. m + 1) = m + 1
    <3>1. /\ m + 1 \in 1 .. m + 1 /\ m + 1 \in Int
          /\ \A x \in 1 .. m + 1 : x \in Int /\ x <= m + 1
          OBVIOUS
    <3>2. QED BY <3>1, GreatestOf
  <2>4. (1 .. m + 1) \ {m + 1} = 1 .. m
        BY OneLess
  <2>5. 1 .. m + 1 \in SUBSET (1 .. n) /\ 1 .. m + 1 # {}
    <3>1. m + 1 \in 1 .. m + 1 /\ \A x \in 1 .. m + 1 : x \in 1 .. n
          BY <1>1, <2>1
    <3>2. QED BY <3>1
  <2> DEFINE key == entries[m + 1][1]
             value == entries[m + 1][2]
             g == With(f, key, value)
  <2>6. mapCache[1 .. m + 1] = mapCacheSet(mapCache[1 .. m], key, value)
        BY <1>2, <2>3, <2>4, <2>5 DEF Fills
  <2>7. key \in Objects /\ value \in Objects /\ entries[m + 1] = <<key, value>>
        BY <1>1, <2>1
  <2>8. MapFor(mapCache[1 .. m + 1], g)
        BY <2>2, <2>6, <2>7, MapSets DEF Keys, Holdable
  <2>9. mapCache[1 .. m + 1].kind = "map"
    <3>1. "kind" \in DOMAIN mapCache[1 .. m]
          BY <2>2 DEF MapFor, Fields
    <3>2. QED BY <2>2, <2>6, <3>1 DEF mapCacheSet
  <2>10. \A k \in DOMAIN g : \E i \in 1 .. m + 1 : entries[i] = <<k, g[k]>>
    <3> HIDE DEF key, value
    <3>1. m + 1 \in 1 .. m + 1 /\ 1 .. m \subseteq 1 .. m + 1
          OBVIOUS
    <3>2. QED BY <2>2, <2>7, <3>1 DEF With
  <2>11. QED BY <2>8, <2>9, <2>10
<1>5. n \in S
      BY <1>1, <1>3, <1>4, Successors
<1>6. QED BY <1>1, <1>2, <1>5

-----------------------------------------------------------------------------
(* What a Stack has of the calls it is shared by                           *)

\* A set of numbers up to n has a greatest one.
LEMMA GreatestIn ==
    ASSUME NEW n \in Nat, NEW S, S \subseteq 0 .. n, S # {}
    PROVE  Max(S) \in S /\ \A m \in S : m <= Max(S)
<1> DEFINE T == {m \in Nat : n - m \in S}
<1>1. T # {}
  <2>1. PICK x \in S : x \in 0 .. n
        OBVIOUS
  <2>2. n - x \in Nat /\ n - (n - x) = x
        BY <2>1
  <2>3. QED BY <2>2
<1>2. PICK m \in T : \A k \in Nat : k < m => k \notin T
      BY <1>1, Least
<1>3. ASSUME NEW y \in S PROVE y <= n - m
  <2>1. y \in 0 .. n /\ n - y \in Nat /\ n - (n - y) = y
        OBVIOUS
  <2>2. n - y \in T
        BY <2>1
  <2>3. ~(n - y < m)
        BY <1>2, <2>1, <2>2
  <2>4. QED BY <2>1, <2>3
<1>4. n - m \in S /\ n - m \in Int
      OBVIOUS
<1>5. \A y \in S : y \in Int
      OBVIOUS
<1>6. Max(S) = n - m
      BY <1>3, <1>4, <1>5, GreatestOf
<1>7. QED BY <1>3, <1>4, <1>6

-----------------------------------------------------------------------------
\* The arrays that a Stack keeps.
Compared == Objects \ Atoms

FramesOK(fs) ==
    /\ fs \in Seq([array : Compared, other : Compared, index : Nat])
    /\ \A k \in DOMAIN fs : fs[k].array # fs[k].other

\* The pairs of arrays that the calls fs are inside of, either way round.
PairsOf(fs) ==
    {<<fs[k].array, fs[k].other>> : k \in DOMAIN fs}
    \cup {<<fs[k].other, fs[k].array>> : k \in DOMAIN fs}

InsideOf(fs) == {fs[k].array : k \in DOMAIN fs} \cup {fs[k].other : k \in DOMAIN fs}

\* A ListCache has the pairs of the calls in their order.
ListOf(list, fs) ==
    /\ Fields(list)
    /\ list.kind = "list"
    /\ list.data \in Seq(Compared \X Compared)
    /\ Len(list.data) = 2 * Len(fs)
    /\ \A k \in DOMAIN fs :
          /\ list.data[2 * k - 1] = <<fs[k].array, fs[k].other>>
          /\ list.data[2 * k] = <<fs[k].other, fs[k].array>>

\* A MapCache may have lost some of them.
MapOf(mapCache, fs) ==
    /\ mapCache.kind = "map"
    /\ \E f : MapFor(mapCache, f) /\ \A key \in DOMAIN f : <<key, f[key]>> \in PairsOf(fs)

StackOf(s, fs) == ListOf(s.data, fs) \/ MapOf(s.data, fs)

\* assocIndexOf looks from the end.
LEMMA LastIndex ==
    ASSUME NEW array \in Seq(Compared \X Compared), NEW key
    PROVE  \/ /\ \A i \in DOMAIN array : array[i][1] # key
              /\ assocIndexOf(array, key) = -1
           \/ \E i \in DOMAIN array :
                 /\ array[i][1] = key
                 /\ \A j \in DOMAIN array : array[j][1] = key => j <= i
                 /\ assocIndexOf(array, key) = i - 1
<1> DEFINE found == {i \in Indices(array) : eq(At(array, i)[1], key)}
<1>0. DOMAIN array = 1 .. Len(array) /\ Len(array) \in Nat
      OBVIOUS
<1>1. found = {i \in 0 .. Len(array) - 1 : array[i + 1][1] = key}
      BY DEF Indices, At, eq, StrictEq, baseIsNaN
<1>2. assocIndexOf(array, key) = IF found = {} THEN -1 ELSE Max(found)
      BY DEF assocIndexOf, GreatestOr
<1>3. \A i \in DOMAIN array : array[i][1] = key <=> i - 1 \in found
  <2>1. \A i \in DOMAIN array : i - 1 \in 0 .. Len(array) - 1 /\ (i - 1) + 1 = i
        BY <1>0
  <2>2. QED BY <1>1, <2>1
<1> HIDE DEF found
<1>4. CASE found = {}
      BY <1>2, <1>3, <1>4
<1>5. CASE found # {}
  <2>1. found \subseteq 0 .. Len(array)
        BY <1>1
  <2>2. Max(found) \in found /\ \A m \in found : m <= Max(found)
        BY <1>0, <1>5, <2>1, GreatestIn
  <2>3. Max(found) \in 0 .. Len(array) - 1
        BY <1>1, <2>2
  <2>4. Max(found) + 1 \in DOMAIN array /\ (Max(found) + 1) - 1 = Max(found)
        BY <1>0, <2>3
  <2>5. array[Max(found) + 1][1] = key
        BY <1>3, <2>2, <2>4
  <2>6. \A j \in DOMAIN array : array[j][1] = key => j <= Max(found) + 1
    <3> SUFFICES ASSUME NEW j \in DOMAIN array, array[j][1] = key PROVE j <= Max(found) + 1
        OBVIOUS
    <3>1. j - 1 <= Max(found)
          BY <1>3, <2>2
    <3>2. QED BY <1>0, <2>3, <3>1
  <2>7. QED BY <1>2, <1>5, <2>4, <2>5, <2>6
<1>6. QED BY <1>4, <1>5

\* A position in a list of two pairs for each call belongs to one of the calls.
LEMMA Halves ==
    ASSUME NEW n \in Nat, NEW i \in 1 .. 2 * n
    PROVE  \E k \in 1 .. n : i = 2 * k - 1 \/ i = 2 * k
<1>1. PICK q \in Int : i + 1 = 2 * q \/ i + 1 = 2 * q + 1
  <2>1. (i + 1) \div 2 \in Int /\ (i + 1 = 2 * ((i + 1) \div 2) \/ i + 1 = 2 * ((i + 1) \div 2) + 1)
        OBVIOUS
  <2>2. QED BY <2>1
<1>2. q \in 1 .. n /\ (i = 2 * q - 1 \/ i = 2 * q)
      BY <1>1
<1>3. QED BY <1>2

\* What a Stack gives back is one of the pairs; a ListCache has all of them.
LEMMA StackKnows ==
    ASSUME NEW s, NEW fs, FramesOK(fs), StackOf(s, fs), NEW key \in Compared
    PROVE  /\ stackGet(s, key) = Undefined \/ <<key, stackGet(s, key)>> \in PairsOf(fs)
           /\ s.data.kind = "list" /\ key \in InsideOf(fs) => stackGet(s, key) # Undefined
<1>1. CASE ListOf(s.data, fs)
  <2> DEFINE array == s.data.data
  <2>1. array \in Seq(Compared \X Compared) /\ s.data.kind = "list" /\ Len(array) = 2 * Len(fs)
        BY <1>1 DEF ListOf
  <2>2. stackGet(s, key) = listCacheGet(s.data, key)
        BY <2>1 DEF stackGet
  <2>3. DOMAIN fs = 1 .. Len(fs) /\ Len(fs) \in Nat
        BY DEF FramesOK
  <2>4. \A i \in DOMAIN array : array[i] \in PairsOf(fs)
    <3> SUFFICES ASSUME NEW i \in DOMAIN array PROVE array[i] \in PairsOf(fs)
        OBVIOUS
    <3>1. i \in 1 .. 2 * Len(fs)
          BY <2>1
    <3>2. PICK k \in DOMAIN fs : i = 2 * k - 1 \/ i = 2 * k
          BY <2>3, <3>1, Halves
    <3>3. array[i] = <<fs[k].array, fs[k].other>> \/ array[i] = <<fs[k].other, fs[k].array>>
          BY <1>1, <3>2 DEF ListOf
    <3>4. QED BY <3>3 DEF PairsOf
  <2>5. CASE \A i \in DOMAIN array : array[i][1] # key
    <3>1. assocIndexOf(array, key) = -1
          BY <2>1, <2>5, LastIndex
    <3>2. stackGet(s, key) = Undefined
          BY <2>2, <3>1 DEF listCacheGet
    <3>3. key \notin InsideOf(fs)
      <4> SUFFICES ASSUME NEW k \in DOMAIN fs PROVE key # fs[k].array /\ key # fs[k].other
          BY DEF InsideOf
      <4>1. 2 * k - 1 \in DOMAIN array /\ 2 * k \in DOMAIN array
            BY <2>1, <2>3
      <4>2. array[2 * k - 1][1] = fs[k].array /\ array[2 * k][1] = fs[k].other
            BY <1>1 DEF ListOf
      <4>3. QED BY <2>5, <4>1, <4>2
    <3>4. QED BY <3>2, <3>3
  <2>6. CASE ~(\A i \in DOMAIN array : array[i][1] # key)
    <3>1. PICK i \in DOMAIN array : array[i][1] = key /\ assocIndexOf(array, key) = i - 1
          BY <2>1, <2>6, LastIndex
    <3>2. At(array, i - 1) = array[i] /\ ~(i - 1 < 0)
          BY <2>1, <3>1 DEF At
    <3>3. stackGet(s, key) = array[i][2]
          BY <2>2, <3>1, <3>2 DEF listCacheGet
    <3>4. array[i] = <<key, array[i][2]>> /\ array[i][2] \in Compared
          BY <2>1, <3>1
    <3>5. stackGet(s, key) # Undefined
          BY <3>3, <3>4, AtomsAssumption DEF Compared
    <3>6. QED BY <2>4, <3>3, <3>4, <3>5
  <2>7. QED BY <2>5, <2>6
<1>2. CASE MapOf(s.data, fs)
  <2>1. s.data.kind = "map"
        BY <1>2 DEF MapOf
  <2>2. stackGet(s, key) = mapCacheGet(s.data, key)
        BY <2>1 DEF stackGet
  <2>3. PICK f : MapFor(s.data, f) /\ \A k \in DOMAIN f : <<k, f[k]>> \in PairsOf(fs)
        BY <1>2 DEF MapOf
  <2>4. stackGet(s, key) = IF key \in DOMAIN f THEN f[key] ELSE Undefined
        BY <2>2, <2>3, MapLooks DEF Compared, Keys
  <2>5. QED BY <2>1, <2>3, <2>4
<1>3. QED BY <1>1, <1>2 DEF StackOf

\* A sequence with one more at its end.
LEMMA Appended ==
    ASSUME NEW T, NEW seq \in Seq(T), NEW e \in T
    PROVE  /\ Append(seq, e) \in Seq(T)
           /\ Len(Append(seq, e)) = Len(seq) + 1
           /\ DOMAIN Append(seq, e) = 1 .. Len(seq) + 1
           /\ Append(seq, e)[Len(seq) + 1] = e
           /\ \A i \in DOMAIN seq : i \in DOMAIN Append(seq, e) /\ Append(seq, e)[i] = seq[i]
           /\ \A i \in DOMAIN Append(seq, e) : i \in DOMAIN seq \/ i = Len(seq) + 1
<1>1. /\ Append(seq, e) \in Seq(T) /\ Len(Append(seq, e)) = Len(seq) + 1
      /\ DOMAIN Append(seq, e) = 1 .. Len(seq) + 1
      /\ DOMAIN seq = 1 .. Len(seq) /\ Len(seq) \in Nat
      OBVIOUS
<1>2. Append(seq, e)[Len(seq) + 1] = e /\ \A i \in DOMAIN seq : Append(seq, e)[i] = seq[i]
      OBVIOUS
<1>3. \A i \in DOMAIN seq : i \in 1 .. Len(seq) + 1
      BY <1>1
<1>4. \A i \in 1 .. Len(seq) + 1 : i \in DOMAIN seq \/ i = Len(seq) + 1
      BY <1>1
<1>5. QED BY <1>1, <1>2, <1>3, <1>4

\* Two calls more: what a Stack is given on going inside a pair.
LEMMA FramesGrow ==
    ASSUME NEW fs, FramesOK(fs), NEW array \in Compared, NEW other \in Compared, array # other
    PROVE  LET more == Append(fs, Frame(array, other))
           IN  /\ FramesOK(more)
               /\ Len(more) = Len(fs) + 1 /\ DOMAIN more = 1 .. Len(fs) + 1
               /\ more[Len(fs) + 1] = Frame(array, other)
               /\ \A k \in DOMAIN fs : k \in DOMAIN more /\ more[k] = fs[k]
               /\ PairsOf(more) = PairsOf(fs) \cup {<<array, other>>, <<other, array>>}
               /\ InsideOf(more) = InsideOf(fs) \cup {array, other}
<1> DEFINE more == Append(fs, Frame(array, other))
<1>1. Frame(array, other) \in [array : Compared, other : Compared, index : Nat]
      BY DEF Frame
<1>2. Frame(array, other).array = array /\ Frame(array, other).other = other
      BY DEF Frame
<1>3. fs \in Seq([array : Compared, other : Compared, index : Nat]) /\ DOMAIN fs = 1 .. Len(fs) /\ Len(fs) \in Nat
      BY DEF FramesOK
<1>4. more \in Seq([array : Compared, other : Compared, index : Nat])
      BY <1>1, <1>3
<1>5. Len(more) = Len(fs) + 1 /\ DOMAIN more = 1 .. Len(fs) + 1
      BY <1>1, <1>3, <1>4
<1>6. more[Len(fs) + 1] = Frame(array, other)
      BY <1>1, <1>3
<1>7. \A k \in DOMAIN fs : k \in DOMAIN more /\ more[k] = fs[k]
      BY <1>1, <1>3, <1>5
<1>8. \A k \in DOMAIN more : k = Len(fs) + 1 \/ k \in DOMAIN fs
      BY <1>3, <1>5
<1>9. Len(fs) + 1 \in DOMAIN more
      BY <1>3, <1>5
<1> HIDE DEF more
<1>10. FramesOK(more)
  <2>1. \A k \in DOMAIN more : more[k].array # more[k].other
        BY <1>2, <1>6, <1>7, <1>8 DEF FramesOK
  <2>2. QED BY <1>4, <2>1 DEF FramesOK
<1>11. PairsOf(more) = PairsOf(fs) \cup {<<array, other>>, <<other, array>>}
  <2>1. {<<more[k].array, more[k].other>> : k \in DOMAIN more} =
            {<<fs[k].array, fs[k].other>> : k \in DOMAIN fs} \cup {<<array, other>>}
        BY <1>2, <1>6, <1>7, <1>8, <1>9
  <2>2. {<<more[k].other, more[k].array>> : k \in DOMAIN more} =
            {<<fs[k].other, fs[k].array>> : k \in DOMAIN fs} \cup {<<other, array>>}
        BY <1>2, <1>6, <1>7, <1>8, <1>9
  <2>3. QED BY <2>1, <2>2 DEF PairsOf
<1>12. InsideOf(more) = InsideOf(fs) \cup {array, other}
  <2>1. {more[k].array : k \in DOMAIN more} = {fs[k].array : k \in DOMAIN fs} \cup {array}
        BY <1>2, <1>6, <1>7, <1>8, <1>9
  <2>2. {more[k].other : k \in DOMAIN more} = {fs[k].other : k \in DOMAIN fs} \cup {other}
        BY <1>2, <1>6, <1>7, <1>8, <1>9
  <2>3. QED BY <2>1, <2>2 DEF InsideOf
<1>13. QED BY <1>5, <1>6, <1>7, <1>10, <1>11, <1>12 DEF more

\* A MapCache still has pairs of the calls only when it is given one more.
LEMMA MapGrows ==
    ASSUME NEW mapCache, NEW fs, NEW key \in Compared, NEW value \in Compared, NEW more,
           MapOf(mapCache, fs), PairsOf(fs) \subseteq PairsOf(more), <<key, value>> \in PairsOf(more)
    PROVE  MapOf(mapCacheSet(mapCache, key, value), more)
<1> DEFINE new == mapCacheSet(mapCache, key, value)
<1>1. PICK f : MapFor(mapCache, f) /\ \A k \in DOMAIN f : <<k, f[k]>> \in PairsOf(fs)
      BY DEF MapOf
<1> DEFINE g == With(f, key, value)
<1>2. MapFor(new, g)
      BY <1>1, MapSets DEF Compared, Keys, Holdable
<1>3. new.kind = "map"
  <2>1. mapCache.kind = "map"
        BY DEF MapOf
  <2>2. "kind" \in DOMAIN mapCache
        BY <1>1 DEF MapFor, Fields
  <2>3. QED BY <2>1, <2>2 DEF mapCacheSet
<1>4. \A k \in DOMAIN g : <<k, g[k]>> \in PairsOf(more)
      BY <1>1 DEF With
<1> HIDE DEF new, g
<1>5. MapOf(new, more)
      BY <1>2, <1>3, <1>4 DEF MapOf
<1>6. QED BY <1>5 DEF new

\* Going inside a pair puts it into the Stack, whether the Stack is a list, a
\* MapCache, or becomes one on the way (stackSet).
LEMMA StackEnters ==
    ASSUME NEW s, NEW fs, FramesOK(fs), StackOf(s, fs),
           NEW array \in Compared, NEW other \in Compared, array # other
    PROVE  /\ StackOf(Entered(s, array, other), Append(fs, Frame(array, other)))
           /\ s.data.kind = "map" => Entered(s, array, other).data.kind = "map"
<1> DEFINE more == Append(fs, Frame(array, other))
           s1 == stackSet(hasMap, s, array, other)
           s2 == stackSet(hasMap, s1, other, array)
<1>0. Entered(s, array, other) = s2
      BY DEF Entered
<1>1. /\ FramesOK(more)
      /\ Len(more) = Len(fs) + 1 /\ DOMAIN more = 1 .. Len(fs) + 1
      /\ more[Len(fs) + 1] = Frame(array, other)
      /\ \A k \in DOMAIN fs : k \in DOMAIN more /\ more[k] = fs[k]
      /\ PairsOf(more) = PairsOf(fs) \cup {<<array, other>>, <<other, array>>}
      BY FramesGrow
<1>2. DOMAIN fs = 1 .. Len(fs) /\ Len(fs) \in Nat
      BY DEF FramesOK
<1> HIDE DEF more
<1>p. /\ PairsOf(fs) \subseteq PairsOf(more)
      /\ <<array, other>> \in PairsOf(more) /\ <<other, array>> \in PairsOf(more)
      BY <1>1
<1>o. \A held : OfData(held).data = held
      BY DEF OfData
<1>3. CASE MapOf(s.data, fs)
  <2>1. s.data.kind = "map"
        BY <1>3 DEF MapOf
  <2>2. s1 = OfData(mapCacheSet(s.data, array, other))
        BY <2>1 DEF stackSet
  <2>3. MapOf(s1.data, more)
    <3>1. MapOf(mapCacheSet(s.data, array, other), more)
          BY <1>p, <1>3, MapGrows
    <3>2. QED BY <1>o, <2>2, <3>1
  <2>4. s1.data.kind = "map"
        BY <2>3 DEF MapOf
  <2> HIDE DEF s1
  <2>5. s2 = OfData(mapCacheSet(s1.data, other, array))
        BY <2>4 DEF stackSet
  <2>6. MapOf(s2.data, more)
    <3>1. MapOf(mapCacheSet(s1.data, other, array), more)
          BY <1>p, <2>3, MapGrows
    <3>2. QED BY <1>o, <2>5, <3>1
  <2> HIDE DEF s2
  <2>7. QED BY <1>0, <2>6 DEF StackOf, MapOf, more
<1>4. CASE ListOf(s.data, fs)
  <2> DEFINE list == s.data.data
             pair1 == <<array, other>>
             pair2 == <<other, array>>
  <2>1. /\ s.data.kind = "list" /\ Fields(s.data)
        /\ list \in Seq(Compared \X Compared) /\ Len(list) = 2 * Len(fs)
        BY <1>4 DEF ListOf
  <2>2. \A i \in DOMAIN list : list[i] \in PairsOf(fs)
    <3> SUFFICES ASSUME NEW i \in DOMAIN list PROVE list[i] \in PairsOf(fs)
        OBVIOUS
    <3>1. i \in 1 .. 2 * Len(fs)
          BY <2>1
    <3>2. PICK k \in DOMAIN fs : i = 2 * k - 1 \/ i = 2 * k
          BY <1>2, <3>1, Halves
    <3>3. list[i] = <<fs[k].array, fs[k].other>> \/ list[i] = <<fs[k].other, fs[k].array>>
          BY <1>4, <3>2 DEF ListOf
    <3>4. QED BY <3>3 DEF PairsOf
  <2>3. ASSUME NEW entries \in Seq(Compared \X Compared),
               \A i \in DOMAIN entries : entries[i] \in PairsOf(more)
        PROVE  MapOf(MapCache(entries), more)
    <3>1. entries \in Seq(Objects \X Objects)
      <4>1. Compared \X Compared \subseteq Objects \X Objects
            BY DEF Compared
      <4>2. QED BY <4>1
    <3>2. PICK f : /\ MapFor(MapCache(entries), f)
                   /\ MapCache(entries).kind = "map"
                   /\ \A k \in DOMAIN f : \E i \in DOMAIN entries : entries[i] = <<k, f[k]>>
          BY <3>1, MapCacheOf
    <3>3. \A k \in DOMAIN f : <<k, f[k]>> \in PairsOf(more)
          BY <2>3, <3>2
    <3>4. QED BY <3>2, <3>3 DEF MapOf
  <2>4. \A i \in DOMAIN list : list[i] \in PairsOf(more)
        BY <1>1, <2>2
  <2>5. CASE ~hasMap \/ Len(list) < LARGE_ARRAY_SIZE - 1
    <3> DEFINE list1 == Append(list, pair1)
               list2 == Append(list1, pair2)
    <3>1. s1 = OfData([s.data EXCEPT !.data = list1, !.size = @ + 1])
          BY <2>1, <2>5 DEF stackSet
    <3>2. s1.data = [s.data EXCEPT !.data = list1, !.size = @ + 1]
          BY <3>1 DEF OfData
    <3>3. s1.data.data = list1 /\ s1.data.kind = "list" /\ Fields(s1.data)
      <4>1. DOMAIN s.data = {"kind", "data", "size"} /\ s.data.size \in Int
            BY <2>1 DEF Fields
      <4> HIDE DEF list1, s1
      <4>2. QED BY <2>1, <3>2, <4>1 DEF Fields
    <3>4. /\ list1 \in Seq(Compared \X Compared) /\ Len(list1) = Len(list) + 1
          /\ list1[Len(list) + 1] = pair1
          /\ \A i \in DOMAIN list : i \in DOMAIN list1 /\ list1[i] = list[i]
          /\ \A i \in DOMAIN list1 : i \in DOMAIN list \/ i = Len(list) + 1
      <4>1. pair1 \in Compared \X Compared
            OBVIOUS
      <4>2. PICK T : T = Compared \X Compared
            OBVIOUS
      <4>3. list \in Seq(T) /\ pair1 \in T
            BY <2>1, <4>1, <4>2
      <4> HIDE DEF pair1, list
      <4>4. QED BY ONLY <4>2, <4>3, Appended DEF list1
    <3> HIDE DEF s1
    <3>5. CASE ~hasMap \/ Len(list1) < LARGE_ARRAY_SIZE - 1
      <4>1. s2 = OfData([s1.data EXCEPT !.data = list2, !.size = @ + 1])
            BY <3>3, <3>5 DEF stackSet
      <4>2. s2.data = [s1.data EXCEPT !.data = list2, !.size = @ + 1]
            BY <4>1 DEF OfData
      <4> HIDE DEF list1
      <4>3. s2.data.data = list2 /\ s2.data.kind = "list" /\ Fields(s2.data)
        <5>1. DOMAIN s1.data = {"kind", "data", "size"} /\ s1.data.size \in Int
              BY <3>3 DEF Fields
        <5> HIDE DEF list2, s2
        <5>2. QED BY <3>3, <4>2, <5>1 DEF Fields
      <4>4. /\ list2 \in Seq(Compared \X Compared) /\ Len(list2) = Len(list1) + 1
            /\ list2[Len(list1) + 1] = pair2
            /\ \A i \in DOMAIN list1 : i \in DOMAIN list2 /\ list2[i] = list1[i]
            BY <3>4
      <4> HIDE DEF list2, s2, list
      <4>5. Len(list2) = 2 * Len(more)
            BY <1>1, <1>2, <2>1, <3>4, <4>4
      <4>6. ASSUME NEW k \in DOMAIN more
            PROVE  /\ list2[2 * k - 1] = <<more[k].array, more[k].other>>
                   /\ list2[2 * k] = <<more[k].other, more[k].array>>
        <5>1. CASE k \in DOMAIN fs
          <6>1. 2 * k - 1 \in DOMAIN list /\ 2 * k \in DOMAIN list
                BY <1>2, <2>1, <5>1
          <6>2. list2[2 * k - 1] = list[2 * k - 1] /\ list2[2 * k] = list[2 * k]
                BY <3>4, <4>4, <6>1
          <6>3. /\ list[2 * k - 1] = <<fs[k].array, fs[k].other>>
                /\ list[2 * k] = <<fs[k].other, fs[k].array>>
                BY <1>4, <5>1 DEF ListOf, list
          <6>4. QED BY <1>1, <5>1, <6>2, <6>3
        <5>2. CASE k = Len(fs) + 1
          <6>1. 2 * k - 1 = Len(list) + 1 /\ 2 * k = Len(list1) + 1
                BY <1>2, <2>1, <3>4, <5>2
          <6>2. 2 * k - 1 \in DOMAIN list1
                BY <1>2, <2>1, <3>4, <5>2
          <6>3. list2[2 * k - 1] = pair1 /\ list2[2 * k] = pair2
                BY <3>4, <4>4, <6>1, <6>2
          <6>4. more[k].array = array /\ more[k].other = other
                BY <1>1, <5>2 DEF Frame
          <6>5. QED BY <6>3, <6>4
        <5>3. QED BY <1>1, <1>2, <5>1, <5>2
      <4>7. ListOf(s2.data, more)
            BY <4>3, <4>4, <4>5, <4>6 DEF ListOf
      <4>8. QED BY <1>0, <2>1, <4>7 DEF StackOf, more, s2
    <3>6. CASE hasMap /\ ~(Len(list1) < LARGE_ARRAY_SIZE - 1)
      <4>1. s2 = OfData(mapCacheSet(MapCache(list1), other, array))
            BY <3>3, <3>6 DEF stackSet
      <4>2. \A i \in DOMAIN list1 : list1[i] \in PairsOf(more)
        <5> HIDE DEF list1, list
        <5>1. QED BY <1>p, <2>4, <3>4
      <4> HIDE DEF list1
      <4>3. MapOf(MapCache(list1), more)
            BY <2>3, <3>4, <4>2
      <4>4. MapOf(s2.data, more)
        <5>1. MapOf(mapCacheSet(MapCache(list1), other, array), more)
              BY <1>p, <4>3, MapGrows
        <5>2. QED BY <1>o, <4>1, <5>1
      <4> HIDE DEF s2
      <4>5. QED BY <1>0, <2>1, <4>4 DEF StackOf, more
    <3>7. QED BY <3>5, <3>6
  <2>6. CASE hasMap /\ ~(Len(list) < LARGE_ARRAY_SIZE - 1)
    <3>1. s1 = OfData(mapCacheSet(MapCache(list), array, other))
          BY <2>1, <2>6 DEF stackSet
    <3>2. MapOf(MapCache(list), more)
          BY <2>1, <2>3, <2>4
    <3>3. MapOf(s1.data, more)
      <4>1. MapOf(mapCacheSet(MapCache(list), array, other), more)
            BY <1>p, <3>2, MapGrows
      <4>2. QED BY <1>o, <3>1, <4>1
    <3>4. s1.data.kind = "map"
          BY <3>3 DEF MapOf
    <3> HIDE DEF s1
    <3>5. s2 = OfData(mapCacheSet(s1.data, other, array))
          BY <3>4 DEF stackSet
    <3>6. MapOf(s2.data, more)
      <4>1. MapOf(mapCacheSet(s1.data, other, array), more)
            BY <1>p, <3>3, MapGrows
      <4>2. QED BY <1>o, <3>5, <4>1
    <3> HIDE DEF s2
    <3>7. QED BY <1>0, <2>1, <3>6 DEF StackOf, more
  <2>7. QED BY <2>5, <2>6
<1>5. QED BY <1>3, <1>4 DEF StackOf

\* The index a call has come to does not matter to the Stack.
LEMMA StackRests ==
    ASSUME NEW s, NEW fs, FramesOK(fs), StackOf(s, fs), NEW gs, FramesOK(gs), Len(gs) = Len(fs),
           \A k \in DOMAIN gs : gs[k].array = fs[k].array /\ gs[k].other = fs[k].other
    PROVE  StackOf(s, gs) /\ PairsOf(gs) = PairsOf(fs) /\ InsideOf(gs) = InsideOf(fs)
<1>1. DOMAIN gs = DOMAIN fs
      BY DEF FramesOK
<1>2. PairsOf(gs) = PairsOf(fs) /\ InsideOf(gs) = InsideOf(fs)
      BY <1>1 DEF PairsOf, InsideOf
<1>3. ListOf(s.data, fs) => ListOf(s.data, gs)
      BY <1>1 DEF ListOf
<1>4. MapOf(s.data, fs) => MapOf(s.data, gs)
      BY <1>2 DEF MapOf
<1>5. QED BY <1>2, <1>3, <1>4 DEF StackOf

\* listCacheDelete removes the last pair of a key and moves those behind it.
LEMMA ListDeletesLast ==
    ASSUME NEW list, Fields(list), list.data \in Seq(Compared \X Compared),
           NEW i \in DOMAIN list.data, NEW key, list.data[i][1] = key,
           \A j \in DOMAIN list.data : j > i => list.data[j][1] # key,
           NEW new, new = listCacheDelete(list, key)
    PROVE  /\ Fields(new) /\ new.kind = list.kind
           /\ new.data \in Seq(Compared \X Compared)
           /\ Len(new.data) = Len(list.data) - 1
           /\ \A j \in 1 .. Len(list.data) - 1 :
                 new.data[j] = IF j < i THEN list.data[j] ELSE list.data[j + 1]
<1> DEFINE array == list.data
           fewer == RemoveAt(array, i)
<1>1. PICK T : T = Compared \X Compared
      OBVIOUS
<1>2. array \in Seq(T) /\ i \in 1 .. Len(array) /\ Len(array) \in Nat /\ DOMAIN array = 1 .. Len(array)
      BY <1>1
<1>3. assocIndexOf(array, key) = i - 1
  <2>1. PICK n \in DOMAIN array :
            /\ array[n][1] = key
            /\ \A j \in DOMAIN array : array[j][1] = key => j <= n
            /\ assocIndexOf(array, key) = n - 1
        BY LastIndex
  <2>2. n = i
        BY <1>2, <2>1
  <2>3. QED BY <2>1, <2>2
<1>4. new = [list EXCEPT !.data = fewer, !.size = @ - 1]
  <2>1. ~(i - 1 < 0) /\ (i - 1) + 1 = i
        BY <1>2
  <2>2. QED BY <1>3, <2>1 DEF listCacheDelete
<1>5. /\ fewer \in Seq(T)
      /\ DOMAIN fewer = 1 .. Len(array) - 1
      /\ \A j \in 1 .. Len(array) - 1 : fewer[j] = IF j < i THEN array[j] ELSE array[j + 1]
      BY <1>2, Removed
<1> HIDE DEF fewer
<1>6. new.data = fewer /\ Fields(new) /\ new.kind = list.kind
      BY <1>4 DEF Fields
<1>7. Len(fewer) = Len(array) - 1
      BY <1>2, <1>5
<1>8. QED BY <1>1, <1>5, <1>6, <1>7

\* What a call is made of.
LEMMA FrameAt ==
    ASSUME NEW fs, FramesOK(fs), NEW k \in DOMAIN fs
    PROVE  /\ fs[k] \in [array : Compared, other : Compared, index : Nat]
           /\ fs[k].array \in Compared /\ fs[k].other \in Compared /\ fs[k].index \in Nat
           /\ fs[k].array # fs[k].other
<1>1. fs[k] \in [array : Compared, other : Compared, index : Nat]
  <2>1. PICK T : T = [array : Compared, other : Compared, index : Nat]
        OBVIOUS
  <2>2. fs \in Seq(T)
        BY <2>1 DEF FramesOK
  <2>3. fs[k] \in T
        BY <2>2
  <2>4. QED BY <2>1, <2>3
<1>2. QED BY <1>1 DEF FramesOK

\* Leaving a pair takes it out of the Stack and nothing else of a ListCache
\* (equalArrays: stack['delete'](array), stack['delete'](other)).
LEMMA StackLeaves ==
    ASSUME NEW s, NEW fs, FramesOK(fs), StackOf(s, fs), Len(fs) > 0,
           NEW gs, FramesOK(gs), Len(gs) = Len(fs) - 1,
           \A k \in DOMAIN gs : gs[k].array = fs[k].array /\ gs[k].other = fs[k].other
    PROVE  StackOf(stackDelete(stackDelete(s, fs[Len(fs)].array), fs[Len(fs)].other), gs)
<1> DEFINE n == Len(fs)
           a == fs[n].array
           o == fs[n].other
           s1 == stackDelete(s, a)
           s2 == stackDelete(s1, o)
<1>1. /\ DOMAIN fs = 1 .. n /\ n \in Nat /\ DOMAIN gs = 1 .. n - 1 /\ n \in DOMAIN fs
      /\ Len(gs) = n - 1
      BY DEF FramesOK
<1>2. a \in Compared /\ o \in Compared /\ a # o
      BY <1>1, FrameAt
<1>3. \A k \in DOMAIN fs : k = n \/ k \in DOMAIN gs
      BY <1>1
<1>o. \A held : OfData(held).data = held
      BY DEF OfData
<1> HIDE DEF n, a, o
<1>4. CASE MapOf(s.data, fs)
  <2>1. PICK f : MapFor(s.data, f) /\ \A k \in DOMAIN f : <<k, f[k]>> \in PairsOf(fs)
        BY <1>4 DEF MapOf
  <2> DEFINE g == Without(f, a)
             h == Without(g, o)
  <2>2. s.data.kind = "map" /\ "kind" \in DOMAIN s.data
        BY <1>4, <2>1 DEF MapOf, MapFor, Fields
  <2>3. s1.data = mapCacheDelete(s.data, a)
        BY <1>o, <2>2 DEF stackDelete
  <2>4. s1.data.kind = "map"
        BY <2>2, <2>3 DEF mapCacheDelete
  <2>5. MapFor(s1.data, g)
        BY <1>2, <2>1, <2>3, MapDeletes DEF Compared, Keys
  <2> HIDE DEF s1
  <2>6. s2.data = mapCacheDelete(s1.data, o)
        BY <1>o, <2>4 DEF stackDelete
  <2>7. s2.data.kind = "map"
    <3>1. "kind" \in DOMAIN s1.data
          BY <2>5 DEF MapFor, Fields
    <3>2. QED BY <2>4, <2>6, <3>1 DEF mapCacheDelete
  <2>8. MapFor(s2.data, h)
        BY <1>2, <2>5, <2>6, MapDeletes DEF Compared, Keys
  <2>9. DOMAIN h = DOMAIN f \ {a, o} /\ \A k \in DOMAIN h : h[k] = f[k]
        BY DEF Without
  <2> HIDE DEF h, g, s2
  <2>10. \A k \in DOMAIN h : <<k, h[k]>> \in PairsOf(gs)
    <3> SUFFICES ASSUME NEW k \in DOMAIN h PROVE <<k, h[k]>> \in PairsOf(gs)
        OBVIOUS
    <3>1. <<k, h[k]>> \in PairsOf(fs) /\ k # a /\ k # o
          BY <2>1, <2>9
    <3>2. PICK j \in DOMAIN fs : \/ k = fs[j].array /\ h[k] = fs[j].other
                                 \/ k = fs[j].other /\ h[k] = fs[j].array
          BY <3>1 DEF PairsOf
    <3>3. j # n
          BY <3>1, <3>2 DEF a, o
    <3>4. j \in DOMAIN gs
          BY <1>3, <3>3
    <3>5. QED BY <3>2, <3>4 DEF PairsOf
  <2>11. MapOf(s2.data, gs)
        BY <2>7, <2>8, <2>10 DEF MapOf
  <2>12. QED BY <2>11 DEF StackOf, s2, s1, n, a, o
<1>5. CASE ListOf(s.data, fs)
  <2> DEFINE list == s.data.data
             list1 == s1.data.data
             list2 == s2.data.data
  <2>1. /\ s.data.kind = "list" /\ Fields(s.data)
        /\ list \in Seq(Compared \X Compared) /\ Len(list) = 2 * n
        /\ list[2 * n - 1] = <<a, o>> /\ list[2 * n] = <<o, a>>
        BY <1>1, <1>5 DEF ListOf, n, a, o
  <2>2. s1.data = listCacheDelete(s.data, a)
        BY <1>o, <2>1 DEF stackDelete
  <2>3. /\ Fields(s1.data) /\ s1.data.kind = "list"
        /\ list1 \in Seq(Compared \X Compared)
        /\ Len(list1) = 2 * n - 1
        /\ \A j \in 1 .. 2 * n - 1 : list1[j] = IF j < 2 * n - 1 THEN list[j] ELSE list[j + 1]
    <3>1. 2 * n - 1 \in DOMAIN list /\ list[2 * n - 1][1] = a
          BY <1>1, <2>1
    <3>2. \A j \in DOMAIN list : j > 2 * n - 1 => list[j][1] # a
      <4>1. \A j \in DOMAIN list : j > 2 * n - 1 => j = 2 * n
            BY <1>1, <2>1
      <4>2. list[2 * n][1] # a
            BY <1>2, <2>1
      <4>3. QED BY <4>1, <4>2
    <3>3. Len(list) - 1 = 2 * n - 1
          BY <1>1, <2>1
    <3> HIDE DEF s1
    <3>4. PICK i : i = 2 * n - 1
          OBVIOUS
    <3>5. /\ i \in DOMAIN list /\ list[i][1] = a
          /\ \A j \in DOMAIN list : j > i => list[j][1] # a
          BY <3>1, <3>2, <3>4
    <3>6. /\ Fields(s1.data) /\ s1.data.kind = s.data.kind
          /\ list1 \in Seq(Compared \X Compared)
          /\ Len(list1) = Len(list) - 1
          /\ \A j \in 1 .. Len(list) - 1 : list1[j] = IF j < i THEN list[j] ELSE list[j + 1]
      <4>1. PICK l : l = s.data
            OBVIOUS
      <4>2. PICK new : new = s1.data
            OBVIOUS
      <4>3. /\ Fields(l) /\ l.data \in Seq(Compared \X Compared)
            /\ i \in DOMAIN l.data /\ l.data[i][1] = a
            /\ \A j \in DOMAIN l.data : j > i => l.data[j][1] # a
            /\ new = listCacheDelete(l, a)
            BY <2>1, <2>2, <3>5, <4>1, <4>2
      <4>4. /\ Fields(new) /\ new.kind = l.kind
            /\ new.data \in Seq(Compared \X Compared)
            /\ Len(new.data) = Len(l.data) - 1
            /\ \A j \in 1 .. Len(l.data) - 1 : new.data[j] = IF j < i THEN l.data[j] ELSE l.data[j + 1]
            BY ONLY <4>3, ListDeletesLast
      <4>5. QED BY <4>1, <4>2, <4>4
    <3>7. QED BY <2>1, <3>3, <3>4, <3>6
  <2> HIDE DEF s1
  <2>4. list1[2 * n - 1] = <<o, a>> /\ \A j \in 1 .. 2 * n - 2 : list1[j] = list[j]
    <3>1. 2 * n - 1 \in 1 .. 2 * n - 1 /\ ~(2 * n - 1 < 2 * n - 1) /\ (2 * n - 1) + 1 = 2 * n
          BY <1>1
    <3>2. list1[2 * n - 1] = list[2 * n]
          BY <2>3, <3>1
    <3>3. \A j \in 1 .. 2 * n - 2 : j \in 1 .. 2 * n - 1 /\ j < 2 * n - 1
          BY <1>1
    <3>4. QED BY <2>1, <2>3, <3>2, <3>3
  <2>5. s2.data = listCacheDelete(s1.data, o)
        BY <1>o, <2>3 DEF stackDelete
  <2>6. /\ Fields(s2.data) /\ s2.data.kind = "list"
        /\ list2 \in Seq(Compared \X Compared)
        /\ Len(list2) = (2 * n - 1) - 1
        /\ \A j \in 1 .. (2 * n - 1) - 1 : list2[j] = IF j < 2 * n - 1 THEN list1[j] ELSE list1[j + 1]
    <3>1. 2 * n - 1 \in DOMAIN list1 /\ list1[2 * n - 1][1] = o
          BY <1>1, <2>3, <2>4
    <3>2. \A j \in DOMAIN list1 : j > 2 * n - 1 => list1[j][1] # o
          BY <1>1, <2>3
    <3> HIDE DEF s2
    <3>4. PICK i : i = 2 * n - 1
          OBVIOUS
    <3>5. /\ i \in DOMAIN list1 /\ list1[i][1] = o
          /\ \A j \in DOMAIN list1 : j > i => list1[j][1] # o
          BY <3>1, <3>2, <3>4
    <3>6. /\ Fields(s2.data) /\ s2.data.kind = s1.data.kind
          /\ list2 \in Seq(Compared \X Compared)
          /\ Len(list2) = Len(list1) - 1
          /\ \A j \in 1 .. Len(list1) - 1 : list2[j] = IF j < i THEN list1[j] ELSE list1[j + 1]
      <4>1. PICK l : l = s1.data
            OBVIOUS
      <4>2. PICK new : new = s2.data
            OBVIOUS
      <4>3. /\ Fields(l) /\ l.data \in Seq(Compared \X Compared)
            /\ i \in DOMAIN l.data /\ l.data[i][1] = o
            /\ \A j \in DOMAIN l.data : j > i => l.data[j][1] # o
            /\ new = listCacheDelete(l, o)
            BY <2>3, <2>5, <3>5, <4>1, <4>2
      <4>4. /\ Fields(new) /\ new.kind = l.kind
            /\ new.data \in Seq(Compared \X Compared)
            /\ Len(new.data) = Len(l.data) - 1
            /\ \A j \in 1 .. Len(l.data) - 1 : new.data[j] = IF j < i THEN l.data[j] ELSE l.data[j + 1]
            BY ONLY <4>3, ListDeletesLast
      <4>5. QED BY <4>1, <4>2, <4>4
    <3>7. QED BY <2>3, <3>4, <3>6
  <2> HIDE DEF s2
  <2>7. \A j \in 1 .. 2 * n - 2 : list2[j] = list[j]
    <3>1. \A j \in 1 .. 2 * n - 2 : j \in 1 .. (2 * n - 1) - 1 /\ j < 2 * n - 1
          BY <1>1
    <3> HIDE DEF list, list1, list2
    <3>2. QED BY <2>4, <2>6, <3>1
  <2>8. Len(list2) = 2 * Len(gs)
    <3> HIDE DEF list2
    <3>1. (2 * n - 1) - 1 = 2 * (n - 1)
          BY <1>1
    <3>2. QED BY <1>1, <2>6, <3>1
  <2>9. ASSUME NEW k \in DOMAIN gs
        PROVE  /\ list2[2 * k - 1] = <<gs[k].array, gs[k].other>>
               /\ list2[2 * k] = <<gs[k].other, gs[k].array>>
    <3>1. 2 * k - 1 \in 1 .. 2 * n - 2 /\ 2 * k \in 1 .. 2 * n - 2 /\ k \in DOMAIN fs
          BY <1>1
    <3>2. /\ list[2 * k - 1] = <<fs[k].array, fs[k].other>>
          /\ list[2 * k] = <<fs[k].other, fs[k].array>>
          BY <1>5, <3>1 DEF ListOf
    <3> HIDE DEF list, list2
    <3>3. QED BY <2>7, <3>1, <3>2
  <2>10. ListOf(s2.data, gs)
        BY <2>6, <2>8, <2>9 DEF ListOf
  <2>11. QED BY <2>10 DEF StackOf, s2, s1, n, a, o
<1>6. QED BY <1>4, <1>5 DEF StackOf

-----------------------------------------------------------------------------
(* The calls, and what they have compared                                  *)

\* The index of the innermost call goes on, the rest stays.
LEMMA Stepped ==
    ASSUME NEW fs, FramesOK(fs), Len(fs) > 0
    PROVE  /\ FramesOK(Step(fs)) /\ Len(Step(fs)) = Len(fs) /\ DOMAIN Step(fs) = DOMAIN fs
           /\ \A k \in DOMAIN fs : /\ Step(fs)[k].array = fs[k].array
                                   /\ Step(fs)[k].other = fs[k].other
                                   /\ Step(fs)[k].index =
                                         fs[k].index + (IF k = Len(fs) THEN 1 ELSE 0)
<1> DEFINE n == Len(fs)
           gs == Step(fs)
<1>1. PICK T : T = [array : Compared, other : Compared, index : Nat]
      OBVIOUS
<1>2. fs \in Seq(T) /\ n \in DOMAIN fs /\ DOMAIN fs = 1 .. n /\ n \in Nat
      BY <1>1 DEF FramesOK
<1>3. \A k \in DOMAIN fs : fs[k] \in T
      BY <1>2
<1> DEFINE top == [fs[n] EXCEPT !.index = @ + 1]
<1>4. gs = [fs EXCEPT ![n] = top]
      BY DEF Step
<1>5. /\ top \in T /\ top.array = fs[n].array /\ top.other = fs[n].other
      /\ top.index = fs[n].index + 1
      BY <1>1, <1>2, <1>3
<1> HIDE DEF top
<1>6. gs \in Seq(T) /\ Len(gs) = n /\ DOMAIN gs = DOMAIN fs
      BY <1>2, <1>4, <1>5
<1>7. \A k \in DOMAIN fs : gs[k] = IF k = n THEN top ELSE fs[k]
      BY <1>2, <1>4
<1> HIDE DEF gs
<1>8. \A k \in DOMAIN fs : fs[k].index \in Nat
      BY FrameAt
<1>9. \A k \in DOMAIN fs : /\ gs[k].array = fs[k].array /\ gs[k].other = fs[k].other
                           /\ gs[k].index = fs[k].index + (IF k = n THEN 1 ELSE 0)
  <2> SUFFICES ASSUME NEW k \in DOMAIN fs
               PROVE  /\ gs[k].array = fs[k].array /\ gs[k].other = fs[k].other
                      /\ gs[k].index = fs[k].index + (IF k = n THEN 1 ELSE 0)
      OBVIOUS
  <2>1. CASE k = n
        BY <1>5, <1>7, <2>1
  <2>2. CASE k # n
    <3>1. gs[k] = fs[k] /\ fs[k].index + 0 = fs[k].index
          BY <1>7, <1>8, <2>2
    <3>2. QED BY <2>2, <3>1
  <2>3. QED BY <2>1, <2>2
<1>10. FramesOK(gs)
  <2>1. \A k \in DOMAIN gs : gs[k].array # gs[k].other
        BY <1>6, <1>9 DEF FramesOK
  <2>2. QED BY <1>1, <1>6, <2>1 DEF FramesOK
<1>11. QED BY <1>6, <1>9, <1>10 DEF gs

\* The calls without the innermost one.
LEMMA Fronted ==
    ASSUME NEW fs, FramesOK(fs), Len(fs) > 0
    PROVE  /\ FramesOK(Front(fs)) /\ Len(Front(fs)) = Len(fs) - 1
           /\ DOMAIN Front(fs) = 1 .. Len(fs) - 1
           /\ \A k \in 1 .. Len(fs) - 1 : k \in DOMAIN fs /\ Front(fs)[k] = fs[k]
<1> DEFINE n == Len(fs)
           gs == Front(fs)
<1>1. PICK T : T = [array : Compared, other : Compared, index : Nat]
      OBVIOUS
<1>2. fs \in Seq(T) /\ DOMAIN fs = 1 .. n /\ n \in Nat
      BY <1>1 DEF FramesOK
<1>3. gs = SubSeq(fs, 1, n - 1)
      BY DEF Front
<1>4. /\ gs \in Seq(T) /\ Len(gs) = n - 1 /\ DOMAIN gs = 1 .. n - 1
      /\ \A k \in 1 .. n - 1 : gs[k] = fs[k]
      BY <1>2, <1>3
<1> HIDE DEF gs
<1>5. \A k \in 1 .. n - 1 : k \in DOMAIN fs
      BY <1>2
<1>6. FramesOK(gs)
  <2>1. \A k \in DOMAIN gs : gs[k].array # gs[k].other
        BY <1>4, <1>5 DEF FramesOK
  <2>2. QED BY <1>1, <1>4, <2>1 DEF FramesOK
<1>7. QED BY <1>4, <1>5, <1>6 DEF gs

-----------------------------------------------------------------------------
\* Each call is inside of arrays of the same length, at elements of its caller's.
CallsOK(h, fs) ==
    /\ FramesOK(fs)
    /\ Len(fs) > 0
    /\ \A k \in DOMAIN fs :
          /\ fs[k].array \in DOMAIN h /\ fs[k].other \in DOMAIN h
          /\ Len(h[fs[k].array]) = Len(h[fs[k].other])
          /\ fs[k].index <= Len(h[fs[k].array])
          /\ k + 1 \in DOMAIN fs =>
                /\ fs[k].index < Len(h[fs[k].array])
                /\ fs[k + 1].array = h[fs[k].array][fs[k].index + 1]
                /\ fs[k + 1].other = h[fs[k].other][fs[k].index + 1]

Same(S, v, w) == v = w \/ <<v, w>> \in S

\* The elements of the arrays of pair p are the same or pairs of S.
Agree(h, p, S) ==
    /\ Len(h[p[1]]) = Len(h[p[2]])
    /\ \A i \in DOMAIN h[p[1]] : Same(S, h[p[1]][i], h[p[2]][i])

\* What was compared, in the calls and before, agrees by the pairs of R, which
\* were compared to the end, and those the calls are inside of.
CoveredBy(h, fs, R) ==
    /\ R \subseteq (DOMAIN h) \X (DOMAIN h)
    /\ \A p \in R : <<p[2], p[1]>> \in R
    /\ \A p \in R : Agree(h, p, R \cup PairsOf(fs))
    /\ \A k \in DOMAIN fs : \A i \in 1 .. fs[k].index :
          Same(R \cup PairsOf(fs), h[fs[k].array][i], h[fs[k].other][i])

\* A heap of arrays of anything.
OfArrays(h) ==
    /\ DOMAIN h \subseteq Compared
    /\ \E T : \A a \in DOMAIN h : h[a] \in Seq(T)

\* The next element.
LEMMA CallsStep ==
    ASSUME NEW h, NEW fs, CallsOK(h, fs),
           fs[Len(fs)].index < Len(h[fs[Len(fs)].array]), OfArrays(h)
    PROVE  CallsOK(h, Step(fs))
<1> DEFINE n == Len(fs)
           gs == Step(fs)
<1>1. /\ FramesOK(gs) /\ Len(gs) = n /\ DOMAIN gs = DOMAIN fs
      /\ \A k \in DOMAIN fs : /\ gs[k].array = fs[k].array /\ gs[k].other = fs[k].other
                              /\ gs[k].index = fs[k].index + (IF k = n THEN 1 ELSE 0)
      BY Stepped DEF CallsOK
<1>2. DOMAIN fs = 1 .. n /\ n \in Nat /\ n > 0 /\ FramesOK(fs)
      BY DEF CallsOK, FramesOK
<1> HIDE DEF gs
<1>3. ASSUME NEW k \in DOMAIN gs
      PROVE  /\ gs[k].array \in DOMAIN h /\ gs[k].other \in DOMAIN h
             /\ Len(h[gs[k].array]) = Len(h[gs[k].other])
             /\ gs[k].index <= Len(h[gs[k].array])
             /\ k + 1 \in DOMAIN gs =>
                   /\ gs[k].index < Len(h[gs[k].array])
                   /\ gs[k + 1].array = h[gs[k].array][gs[k].index + 1]
                   /\ gs[k + 1].other = h[gs[k].other][gs[k].index + 1]
  <2>1. fs[k].index \in Nat /\ fs[k].array \in DOMAIN h
        BY <1>1, <1>2, FrameAt DEF CallsOK
  <2>2. Len(h[fs[k].array]) \in Nat
        BY <2>1 DEF OfArrays
  <2>3. CASE k = n
    <3>1. k + 1 \notin DOMAIN gs
          BY <1>1, <1>2, <2>3
    <3>2. gs[k].index = fs[k].index + 1
          BY <1>1, <2>3
    <3>3. gs[k].index <= Len(h[fs[k].array])
          BY <2>1, <2>2, <2>3, <3>2
    <3>4. QED BY <1>1, <3>1, <3>3 DEF CallsOK
  <2>4. CASE k # n
    <3>1. gs[k].index = fs[k].index
      <4>1. gs[k].index = fs[k].index + 0
            BY <1>1, <2>4
      <4>2. QED BY <2>1, <4>1
    <3>2. QED BY <1>1, <3>1 DEF CallsOK
  <2>5. QED BY <2>3, <2>4
<1>4. QED BY <1>1, <1>2, <1>3 DEF CallsOK, gs

\* The call for an element inside.
LEMMA CallsEnter ==
    ASSUME NEW h, NEW fs, CallsOK(h, fs), OfArrays(h),
           fs[Len(fs)].index < Len(h[fs[Len(fs)].array]),
           NEW array \in DOMAIN h, NEW other \in DOMAIN h,
           array = h[fs[Len(fs)].array][fs[Len(fs)].index + 1],
           other = h[fs[Len(fs)].other][fs[Len(fs)].index + 1],
           array # other, Len(h[array]) = Len(h[other])
    PROVE  CallsOK(h, Append(fs, Frame(array, other)))
<1> DEFINE n == Len(fs)
           gs == Append(fs, Frame(array, other))
<1>1. /\ FramesOK(gs) /\ Len(gs) = n + 1 /\ DOMAIN gs = 1 .. n + 1
      /\ gs[n + 1] = Frame(array, other)
      /\ \A k \in DOMAIN fs : k \in DOMAIN gs /\ gs[k] = fs[k]
  <2>1. FramesOK(fs)
        BY DEF CallsOK
  <2>2. array \in Compared /\ other \in Compared
        BY DEF OfArrays
  <2>3. QED BY FramesGrow, <2>1, <2>2
<1>2. DOMAIN fs = 1 .. n /\ n \in Nat /\ n > 0 /\ FramesOK(fs)
      BY DEF CallsOK, FramesOK
<1>3. Frame(array, other).array = array /\ Frame(array, other).other = other /\ Frame(array, other).index = 0
      BY DEF Frame
<1>4. Len(h[array]) \in Nat
      BY DEF OfArrays
<1> HIDE DEF gs
<1>5. ASSUME NEW k \in DOMAIN gs
      PROVE  /\ gs[k].array \in DOMAIN h /\ gs[k].other \in DOMAIN h
             /\ Len(h[gs[k].array]) = Len(h[gs[k].other])
             /\ gs[k].index <= Len(h[gs[k].array])
             /\ k + 1 \in DOMAIN gs =>
                   /\ gs[k].index < Len(h[gs[k].array])
                   /\ gs[k + 1].array = h[gs[k].array][gs[k].index + 1]
                   /\ gs[k + 1].other = h[gs[k].other][gs[k].index + 1]
  <2>1. CASE k = n + 1
    <3>1. k + 1 \notin DOMAIN gs
          BY <1>1, <1>2, <2>1
    <3>2. gs[k] = Frame(array, other)
          BY <1>1, <2>1
    <3>3. gs[k].array = array /\ gs[k].other = other /\ gs[k].index = 0
          BY <1>3, <3>2
    <3>4. 0 <= Len(h[array])
          BY <1>4
    <3>5. QED BY <3>1, <3>3, <3>4
  <2>2. CASE k = n
    <3>1. k \in DOMAIN fs /\ gs[k] = fs[k]
          BY <1>1, <1>2, <2>2
    <3>2. QED BY <1>1, <1>3, <2>2, <3>1 DEF CallsOK
  <2>3. CASE k # n /\ k # n + 1
    <3>1. k \in DOMAIN fs /\ k + 1 \in DOMAIN fs
          BY <1>1, <1>2, <2>3
    <3>2. gs[k] = fs[k] /\ gs[k + 1] = fs[k + 1]
          BY <1>1, <3>1
    <3>3. QED BY <3>1, <3>2 DEF CallsOK
  <2>4. QED BY <2>1, <2>2, <2>3
<1>6. Len(gs) > 0
      BY <1>1, <1>2
<1>7. CallsOK(h, gs)
      BY <1>1, <1>5, <1>6 DEF CallsOK
<1>8. QED BY <1>7 DEF gs

\* Back in the caller, at its next element.
LEMMA CallsLeave ==
    ASSUME NEW h, NEW fs, CallsOK(h, fs), OfArrays(h), Len(fs) > 1
    PROVE  CallsOK(h, Step(Front(fs)))
<1> DEFINE n == Len(fs)
           gs == Front(fs)
<1>1. /\ FramesOK(gs) /\ Len(gs) = n - 1 /\ DOMAIN gs = 1 .. n - 1
      /\ \A k \in 1 .. n - 1 : k \in DOMAIN fs /\ gs[k] = fs[k]
      BY Fronted DEF CallsOK
<1>2. DOMAIN fs = 1 .. n /\ n \in Nat /\ n > 1
      BY DEF CallsOK, FramesOK
<1> HIDE DEF gs
<1>3. \A k \in DOMAIN gs : k + 1 \in DOMAIN gs => gs[k + 1] = fs[k + 1]
      BY <1>1
<1>4. CallsOK(h, gs)
  <2>1. Len(gs) > 0
        BY <1>1, <1>2
  <2>2. \A k \in DOMAIN gs : k + 1 \in DOMAIN gs => k + 1 \in DOMAIN fs
        BY <1>1
  <2>3. QED BY <1>1, <1>3, <2>1, <2>2 DEF CallsOK
<1>5. gs[Len(gs)].index < Len(h[gs[Len(gs)].array])
  <2>1. n - 1 \in 1 .. n - 1 /\ (n - 1) + 1 \in DOMAIN fs
        BY <1>2
  <2>2. fs[n - 1].index < Len(h[fs[n - 1].array])
        BY <1>1, <2>1 DEF CallsOK
  <2>3. QED BY <1>1, <2>1, <2>2
<1>6. QED BY <1>4, <1>5, CallsStep DEF gs

\* The greatest set of pairs that agree by one another.
AlikeOf(h) ==
    UNION {R \in SUBSET ((DOMAIN h) \X (DOMAIN h)) : R = {p \in R : Agree(h, p, R)}}

\* Pairs that agree by one another are alike.
LEMMA AlikeLargest ==
    ASSUME NEW h, NEW R, R \subseteq (DOMAIN h) \X (DOMAIN h), \A p \in R : Agree(h, p, R)
    PROVE  R \subseteq AlikeOf(h)
<1>1. R = {p \in R : Agree(h, p, R)}
      OBVIOUS
<1>2. QED BY <1>1 DEF AlikeOf

\* Alike pairs agree by alike pairs.
LEMMA AlikeKept ==
    ASSUME NEW h, NEW p \in AlikeOf(h)
    PROVE  p \in (DOMAIN h) \X (DOMAIN h) /\ Agree(h, p, AlikeOf(h))
<1>1. PICK R : /\ R \subseteq (DOMAIN h) \X (DOMAIN h)
               /\ R = {q \in R : Agree(h, q, R)}
               /\ p \in R
      BY DEF AlikeOf
<1>2. R \subseteq AlikeOf(h)
      BY <1>1 DEF AlikeOf
<1>3. Agree(h, p, R)
      BY <1>1
<1>4. Agree(h, p, AlikeOf(h))
      BY <1>2, <1>3 DEF Agree, Same
<1>5. QED BY <1>1, <1>4

\* If the first pair is alike, so is every pair that the calls went inside.
LEMMA ChainAlike ==
    ASSUME NEW h, NEW fs, CallsOK(h, fs), OfArrays(h),
           <<fs[1].array, fs[1].other>> \in AlikeOf(h)
    PROVE  \A k \in DOMAIN fs : <<fs[k].array, fs[k].other>> \in AlikeOf(h)
<1> DEFINE n == Len(fs)
           S == {m \in Nat : m + 1 \in DOMAIN fs =>
                                <<fs[m + 1].array, fs[m + 1].other>> \in AlikeOf(h)}
<1>1. DOMAIN fs = 1 .. n /\ n \in Nat /\ FramesOK(fs)
      BY DEF CallsOK, FramesOK
<1>2. 0 \in S
  <2>1. 0 \in Nat /\ 0 + 1 = 1
        OBVIOUS
  <2>2. <<fs[0 + 1].array, fs[0 + 1].other>> \in AlikeOf(h)
        BY <2>1
  <2>3. QED BY <2>1, <2>2
<1>3. ASSUME NEW m \in Nat, m \in S PROVE m + 1 \in S
  <2>1. SUFFICES ASSUME (m + 1) + 1 \in DOMAIN fs
                 PROVE <<fs[(m + 1) + 1].array, fs[(m + 1) + 1].other>> \in AlikeOf(h)
        OBVIOUS
  <2>2. PICK k : k = m + 1
        OBVIOUS
  <2>3. k \in DOMAIN fs /\ k + 1 \in DOMAIN fs
        BY <1>1, <2>1, <2>2
  <2> DEFINE a == fs[k].array
             o == fs[k].other
             i == fs[k].index + 1
  <2>4. <<a, o>> \in AlikeOf(h)
        BY <1>3, <2>2, <2>3
  <2>5. /\ fs[k].index < Len(h[a]) /\ a \in DOMAIN h
        /\ fs[k + 1].array = h[a][i] /\ fs[k + 1].other = h[o][i]
        BY <2>3 DEF CallsOK
  <2>6. fs[k].index \in Nat
        BY <1>1, <2>3, FrameAt
  <2>7. i \in DOMAIN h[a]
    <3>1. DOMAIN h[a] = 1 .. Len(h[a]) /\ Len(h[a]) \in Nat
          BY <2>5 DEF OfArrays
    <3>2. QED BY <2>5, <2>6, <3>1
  <2> HIDE DEF a, o, i
  <2>8. Same(AlikeOf(h), h[a][i], h[o][i])
        BY <2>4, <2>7, AlikeKept DEF Agree
  <2>9. fs[k + 1].array # fs[k + 1].other
        BY <1>1, <2>3 DEF FramesOK
  <2>10. <<fs[k + 1].array, fs[k + 1].other>> \in AlikeOf(h)
        BY <2>5, <2>8, <2>9 DEF Same
  <2>11. QED BY <2>2, <2>10
<1> HIDE DEF S
<1>4. Nat \subseteq S
      BY <1>2, <1>3, Successors
<1>5. ASSUME NEW k \in DOMAIN fs PROVE <<fs[k].array, fs[k].other>> \in AlikeOf(h)
  <2>1. k - 1 \in Nat /\ (k - 1) + 1 = k
        BY <1>1
  <2>2. PICK m \in Nat : m = k - 1 /\ m + 1 = k
        BY <2>1
  <2>3. m \in S
        BY <1>4
  <2>4. QED BY <2>2, <2>3 DEF S
<1>6. QED BY <1>5

-----------------------------------------------------------------------------
\* The index of a call does not change what the calls are inside of.
LEMMA PairsRest ==
    ASSUME NEW fs, FramesOK(fs), NEW gs, FramesOK(gs), Len(gs) = Len(fs),
           \A k \in DOMAIN gs : gs[k].array = fs[k].array /\ gs[k].other = fs[k].other
    PROVE  PairsOf(gs) = PairsOf(fs) /\ InsideOf(gs) = InsideOf(fs)
<1>1. DOMAIN gs = DOMAIN fs
      BY DEF FramesOK
<1>2. QED BY <1>1 DEF PairsOf, InsideOf

\* An element is found to be the same.
LEMMA CoverStep ==
    ASSUME NEW h, NEW fs, NEW R, CallsOK(h, fs), CoveredBy(h, fs, R),
           Same(R \cup PairsOf(fs), h[fs[Len(fs)].array][fs[Len(fs)].index + 1],
                                    h[fs[Len(fs)].other][fs[Len(fs)].index + 1])
    PROVE  CoveredBy(h, Step(fs), R)
<1> DEFINE n == Len(fs)
           gs == Step(fs)
<1>0. FramesOK(fs) /\ n > 0
      BY DEF CallsOK
<1>1. /\ FramesOK(gs) /\ Len(gs) = n /\ DOMAIN gs = DOMAIN fs
      /\ \A k \in DOMAIN fs : /\ gs[k].array = fs[k].array /\ gs[k].other = fs[k].other
                              /\ gs[k].index = fs[k].index + (IF k = n THEN 1 ELSE 0)
      BY <1>0, Stepped
<1> HIDE DEF gs
<1>2. PairsOf(gs) = PairsOf(fs)
      BY <1>0, <1>1, PairsRest
<1>3. ASSUME NEW k \in DOMAIN gs, NEW i \in 1 .. gs[k].index
      PROVE  Same(R \cup PairsOf(gs), h[gs[k].array][i], h[gs[k].other][i])
  <2>1. fs[k].index \in Nat
        BY <1>0, <1>1, FrameAt
  <2>2. CASE i \in 1 .. fs[k].index
        BY <1>1, <1>2, <2>2 DEF CoveredBy
  <2>3. CASE i \notin 1 .. fs[k].index
    <3>1. k = n /\ i = fs[k].index + 1
          BY <1>1, <2>1, <2>3
    <3>2. QED BY <1>1, <1>2, <3>1
  <2>4. QED BY <2>2, <2>3
<1>4. CoveredBy(h, gs, R)
      BY <1>2, <1>3 DEF CoveredBy
<1>5. QED BY <1>4 DEF gs

\* Going inside, nothing is compared yet.
LEMMA CoverEnter ==
    ASSUME NEW h, NEW fs, NEW R, CallsOK(h, fs), CoveredBy(h, fs, R),
           NEW array \in Compared, NEW other \in Compared, array # other
    PROVE  CoveredBy(h, Append(fs, Frame(array, other)), R)
<1> DEFINE n == Len(fs)
           gs == Append(fs, Frame(array, other))
<1>1. /\ FramesOK(gs) /\ Len(gs) = n + 1 /\ DOMAIN gs = 1 .. n + 1
      /\ gs[n + 1] = Frame(array, other)
      /\ \A k \in DOMAIN fs : k \in DOMAIN gs /\ gs[k] = fs[k]
      /\ PairsOf(gs) = PairsOf(fs) \cup {<<array, other>>, <<other, array>>}
      BY FramesGrow DEF CallsOK
<1>2. DOMAIN fs = 1 .. n /\ n \in Nat
      BY DEF CallsOK, FramesOK
<1>3. Frame(array, other).index = 0
      BY DEF Frame
<1> HIDE DEF gs
<1>4. R \cup PairsOf(fs) \subseteq R \cup PairsOf(gs)
      BY <1>1
<1>5. ASSUME NEW v, NEW w, Same(R \cup PairsOf(fs), v, w)
      PROVE  Same(R \cup PairsOf(gs), v, w)
      BY <1>4, <1>5 DEF Same
<1>6. ASSUME NEW k \in DOMAIN gs, NEW i \in 1 .. gs[k].index
      PROVE  Same(R \cup PairsOf(gs), h[gs[k].array][i], h[gs[k].other][i])
  <2>1. k # n + 1
    <3>1. CASE k = n + 1
      <4>1. gs[k].index = 0
            BY <1>1, <1>3, <3>1
      <4>2. QED BY <4>1
    <3>2. QED BY <3>1
  <2>2. k \in DOMAIN fs /\ gs[k] = fs[k]
        BY <1>1, <1>2, <2>1
  <2>3. Same(R \cup PairsOf(fs), h[fs[k].array][i], h[fs[k].other][i])
        BY <2>2 DEF CoveredBy
  <2>4. QED BY <1>5, <2>2, <2>3
<1>7. \A p \in R : Agree(h, p, R \cup PairsOf(gs))
      BY <1>5 DEF CoveredBy, Agree
<1>8. CoveredBy(h, gs, R)
      BY <1>6, <1>7 DEF CoveredBy
<1>9. QED BY <1>8 DEF gs

\* R and the pair of the innermost call.
WithTop(fs, R) ==
    R \cup {<<fs[Len(fs)].array, fs[Len(fs)].other>>, <<fs[Len(fs)].other, fs[Len(fs)].array>>}

\* The innermost call has come to its end: its pair is compared, too.
LEMMA CoverDone ==
    ASSUME NEW h, NEW fs, NEW R, CallsOK(h, fs), OfArrays(h), CoveredBy(h, fs, R),
           fs[Len(fs)].index = Len(h[fs[Len(fs)].array])
    PROVE  /\ WithTop(fs, R) \subseteq (DOMAIN h) \X (DOMAIN h)
           /\ \A p \in WithTop(fs, R) : <<p[2], p[1]>> \in WithTop(fs, R)
           /\ \A p \in WithTop(fs, R) : Agree(h, p, R \cup PairsOf(fs))
<1> DEFINE n == Len(fs)
           Q == R \cup PairsOf(fs)
<1>a. PICK a : a = fs[n].array
      OBVIOUS
<1>o. PICK o : o = fs[n].other
      OBVIOUS
<1>s. PICK S : S = R \cup {<<a, o>>, <<o, a>>}
      OBVIOUS
<1>1. DOMAIN fs = 1 .. n /\ n \in Nat /\ n > 0 /\ n \in DOMAIN fs
      BY DEF CallsOK, FramesOK
<1>2. a \in DOMAIN h /\ o \in DOMAIN h /\ Len(h[a]) = Len(h[o])
      BY <1>1, <1>a, <1>o DEF CallsOK
<1>3. S \subseteq (DOMAIN h) \X (DOMAIN h)
      BY <1>2, <1>s DEF CoveredBy
<1>4. \A p \in S : <<p[2], p[1]>> \in S
  <2> SUFFICES ASSUME NEW p \in S PROVE <<p[2], p[1]>> \in S
      OBVIOUS
  <2>1. CASE p \in R
        BY <1>s, <2>1 DEF CoveredBy
  <2>2. CASE p = <<a, o>>
    <3>1. p[1] = a /\ p[2] = o
          BY <2>2
    <3>2. QED BY <1>s, <3>1
  <2>3. CASE p = <<o, a>>
    <3>1. p[1] = o /\ p[2] = a
          BY <2>3
    <3>2. QED BY <1>s, <3>1
  <2>4. QED BY <1>s, <2>1, <2>2, <2>3
<1>6. \A v, w : <<v, w>> \in Q => <<w, v>> \in Q
  <2>1. \A v, w : <<v, w>> \in R => <<w, v>> \in R
    <3> SUFFICES ASSUME NEW v, NEW w, <<v, w>> \in R PROVE <<w, v>> \in R
        OBVIOUS
    <3>1. <<<<v, w>>[2], <<v, w>>[1]>> \in R
          BY DEF CoveredBy
    <3>2. QED BY <3>1
  <2>2. \A v, w : <<v, w>> \in PairsOf(fs) => <<w, v>> \in PairsOf(fs)
    <3> SUFFICES ASSUME NEW v, NEW w, <<v, w>> \in PairsOf(fs) PROVE <<w, v>> \in PairsOf(fs)
        OBVIOUS
    <3>1. PICK k \in DOMAIN fs : \/ v = fs[k].array /\ w = fs[k].other
                                 \/ v = fs[k].other /\ w = fs[k].array
          BY DEF PairsOf
    <3>2. QED BY <3>1 DEF PairsOf
  <2>3. QED BY <2>1, <2>2
<1>7. DOMAIN h[a] = 1 .. Len(h[a]) /\ DOMAIN h[o] = 1 .. Len(h[a])
      BY <1>2 DEF OfArrays
<1>8. \A i \in 1 .. Len(h[a]) : Same(Q, h[a][i], h[o][i])
      BY <1>1, <1>a, <1>o DEF CoveredBy
<1> HIDE DEF Q
<1>9. Agree(h, <<a, o>>, Q)
      BY <1>2, <1>7, <1>8 DEF Agree
<1>10. Agree(h, <<o, a>>, Q)
  <2>1. \A i \in 1 .. Len(h[a]) : Same(Q, h[o][i], h[a][i])
        BY <1>6, <1>8 DEF Same
  <2>2. QED BY <1>2, <1>7, <2>1 DEF Agree
<1>11. \A p \in R : Agree(h, p, Q)
      BY DEF CoveredBy, Q
<1>12. \A p \in S : Agree(h, p, Q)
      BY <1>9, <1>10, <1>11, <1>s
<1>13. S = WithTop(fs, R)
      BY <1>a, <1>o, <1>s DEF WithTop
<1>14. QED BY <1>3, <1>4, <1>12, <1>13 DEF Q

\* When the first call ends, what was compared agrees by itself: it is alike.
LEMMA CoverEnd ==
    ASSUME NEW h, NEW fs, NEW R, CallsOK(h, fs), OfArrays(h), CoveredBy(h, fs, R),
           Len(fs) = 1, fs[1].index = Len(h[fs[1].array])
    PROVE  <<fs[1].array, fs[1].other>> \in AlikeOf(h)
<1>1. PICK a : a = fs[1].array
      OBVIOUS
<1>2. PICK o : o = fs[1].other
      OBVIOUS
<1>3. PICK S : S = R \cup {<<a, o>>, <<o, a>>}
      OBVIOUS
<1>4. /\ S \subseteq (DOMAIN h) \X (DOMAIN h)
      /\ \A p \in S : Agree(h, p, R \cup PairsOf(fs))
  <2>1. S = WithTop(fs, R)
        BY <1>1, <1>2, <1>3 DEF WithTop
  <2>2. QED BY <2>1, CoverDone
<1>5. PairsOf(fs) = {<<a, o>>, <<o, a>>}
  <2>1. DOMAIN fs = {1}
        BY DEF CallsOK, FramesOK
  <2>2. QED BY <1>1, <1>2, <2>1 DEF PairsOf
<1>6. R \cup PairsOf(fs) = S
      BY <1>3, <1>5
<1>7. S \subseteq AlikeOf(h)
      BY <1>4, <1>6, AlikeLargest
<1>8. QED BY <1>1, <1>2, <1>3, <1>7

\* When another call ends, its pair moves from those the calls are inside of to
\* those compared to the end.
LEMMA CoverLeave ==
    ASSUME NEW h, NEW fs, NEW R, CallsOK(h, fs), OfArrays(h), CoveredBy(h, fs, R),
           Len(fs) > 1, fs[Len(fs)].index = Len(h[fs[Len(fs)].array])
    PROVE  \E S : CoveredBy(h, Step(Front(fs)), S)
<1> DEFINE n == Len(fs)
           gs == Front(fs)
           gs2 == Step(gs)
<1>1. PICK a : a = fs[n].array
      OBVIOUS
<1>2. PICK o : o = fs[n].other
      OBVIOUS
<1>3. PICK S : S = R \cup {<<a, o>>, <<o, a>>}
      OBVIOUS
<1>4. /\ S \subseteq (DOMAIN h) \X (DOMAIN h)
      /\ \A p \in S : <<p[2], p[1]>> \in S
      /\ \A p \in S : Agree(h, p, R \cup PairsOf(fs))
  <2>1. S = WithTop(fs, R)
        BY <1>1, <1>2, <1>3 DEF WithTop
  <2>2. QED BY <2>1, CoverDone
<1>5. /\ FramesOK(gs) /\ Len(gs) = n - 1 /\ DOMAIN gs = 1 .. n - 1
      /\ \A k \in 1 .. n - 1 : k \in DOMAIN fs /\ gs[k] = fs[k]
      BY Fronted DEF CallsOK
<1>6. DOMAIN fs = 1 .. n /\ n \in Nat /\ n > 1 /\ FramesOK(fs)
      BY DEF CallsOK, FramesOK
<1>7. /\ FramesOK(gs2) /\ Len(gs2) = n - 1 /\ DOMAIN gs2 = 1 .. n - 1
      /\ \A k \in DOMAIN gs : /\ gs2[k].array = gs[k].array /\ gs2[k].other = gs[k].other
                              /\ gs2[k].index = gs[k].index + (IF k = n - 1 THEN 1 ELSE 0)
  <2>1. Len(gs) > 0
        BY <1>5, <1>6
  <2>2. QED BY <1>5, <2>1, Stepped
<1> HIDE DEF gs, gs2
<1>8. PairsOf(fs) \subseteq PairsOf(gs2) \cup {<<a, o>>, <<o, a>>}
  <2> SUFFICES ASSUME NEW p \in PairsOf(fs) PROVE p \in PairsOf(gs2) \cup {<<a, o>>, <<o, a>>}
      OBVIOUS
  <2>1. PICK k \in DOMAIN fs : p = <<fs[k].array, fs[k].other>> \/ p = <<fs[k].other, fs[k].array>>
        BY DEF PairsOf
  <2>2. CASE k = n
        BY <1>1, <1>2, <2>1, <2>2
  <2>3. CASE k # n
    <3>1. k \in DOMAIN gs2 /\ gs2[k].array = fs[k].array /\ gs2[k].other = fs[k].other
          BY <1>5, <1>6, <1>7, <2>3
    <3>2. QED BY <2>1, <3>1 DEF PairsOf
  <2>4. QED BY <2>2, <2>3
<1>9. R \cup PairsOf(fs) \subseteq S \cup PairsOf(gs2)
      BY <1>3, <1>8
<1>10. ASSUME NEW v, NEW w, Same(R \cup PairsOf(fs), v, w)
       PROVE  Same(S \cup PairsOf(gs2), v, w)
      BY <1>9, <1>10 DEF Same
<1>11. \A p \in S : Agree(h, p, S \cup PairsOf(gs2))
      BY <1>4, <1>10 DEF Agree
<1>12. ASSUME NEW k \in DOMAIN gs2, NEW i \in 1 .. gs2[k].index
       PROVE  Same(S \cup PairsOf(gs2), h[gs2[k].array][i], h[gs2[k].other][i])
  <2>1. /\ k \in DOMAIN fs /\ gs2[k].array = fs[k].array /\ gs2[k].other = fs[k].other
        /\ gs2[k].index = fs[k].index + (IF k = n - 1 THEN 1 ELSE 0)
        BY <1>5, <1>7
  <2>2. fs[k].index \in Nat
        BY <1>6, <2>1, FrameAt
  <2>3. CASE i \in 1 .. fs[k].index
    <3>1. Same(R \cup PairsOf(fs), h[fs[k].array][i], h[fs[k].other][i])
          BY <2>1, <2>3 DEF CoveredBy
    <3>2. QED BY <1>10, <2>1, <3>1
  <2>4. CASE i \notin 1 .. fs[k].index
    <3>1. k = n - 1 /\ i = fs[k].index + 1
          BY <2>1, <2>2, <2>4
    <3>2. k + 1 = n /\ k + 1 \in DOMAIN fs
          BY <1>6, <3>1
    <3>3. a = h[fs[k].array][i] /\ o = h[fs[k].other][i]
          BY <1>1, <1>2, <2>1, <3>1, <3>2 DEF CallsOK
    <3>4. QED BY <1>3, <2>1, <3>3 DEF Same
  <2>5. QED BY <2>3, <2>4
<1>13. CoveredBy(h, gs2, S)
      BY <1>4, <1>11, <1>12 DEF CoveredBy
<1>14. QED BY <1>13 DEF gs2, gs

-----------------------------------------------------------------------------
(* No more calls than arrays                                               *)

\* Each call is inside of an array that the calls around it are not inside of.
FreshCalls(fs) ==
    \A k \in DOMAIN fs : \E x \in {fs[k].array, fs[k].other} :
        \A j \in 1 .. k - 1 : x # fs[j].array /\ x # fs[j].other

\* No more such calls than there are arrays.
LEMMA FreshBounded ==
    ASSUME NEW h, NEW fs, CallsOK(h, fs), FreshCalls(fs), IsFiniteSet(DOMAIN h)
    PROVE  Len(fs) <= Cardinality(DOMAIN h)
<1> DEFINE n == Len(fs)
           Own(k) == CHOOSE x \in {fs[k].array, fs[k].other} :
                        \A j \in 1 .. k - 1 : x # fs[j].array /\ x # fs[j].other
           own == [k \in 1 .. n |-> Own(k)]
<1>1. DOMAIN fs = 1 .. n /\ n \in Nat
      BY DEF CallsOK, FramesOK
<1>2. \A k \in 1 .. n : /\ Own(k) \in {fs[k].array, fs[k].other}
                        /\ \A j \in 1 .. k - 1 : Own(k) # fs[j].array /\ Own(k) # fs[j].other
      BY <1>1 DEF FreshCalls
<1>3. \A k \in 1 .. n : own[k] = Own(k)
      OBVIOUS
<1> HIDE DEF Own
<1>4. \A k \in 1 .. n : Own(k) \in DOMAIN h
      BY <1>1, <1>2 DEF CallsOK
<1>5. own \in [1 .. n -> DOMAIN h]
      BY <1>4
<1> HIDE DEF own
<1>6. \A j, k \in 1 .. n : j < k => own[j] # own[k]
  <2> SUFFICES ASSUME NEW j \in 1 .. n, NEW k \in 1 .. n, j < k PROVE own[j] # own[k]
      OBVIOUS
  <2>1. j \in 1 .. k - 1
        BY <1>1
  <2>2. QED BY <1>2, <1>3, <2>1
<1>7. \A j, k \in 1 .. n : own[j] = own[k] => j = k
  <2> SUFFICES ASSUME NEW j \in 1 .. n, NEW k \in 1 .. n, j # k PROVE own[j] # own[k]
      OBVIOUS
  <2>1. j < k \/ k < j
        BY <1>1
  <2>2. QED BY <1>6, <2>1
<1>8. own \in Injection(1 .. n, DOMAIN h)
      BY <1>5, <1>7 DEF Injection, IsInjective
<1>9. IsFiniteSet(1 .. n) /\ Cardinality(1 .. n) = n
      BY <1>1, FS_Interval
<1>10. QED BY <1>8, <1>9, FS_Injection

\* Going inside a pair of which one is not yet in the Stack.
LEMMA FreshEnter ==
    ASSUME NEW fs, FramesOK(fs), FreshCalls(fs),
           NEW array \in Compared, NEW other \in Compared, array # other,
           array \notin InsideOf(fs) \/ other \notin InsideOf(fs)
    PROVE  FreshCalls(Append(fs, Frame(array, other)))
<1> DEFINE n == Len(fs)
           gs == Append(fs, Frame(array, other))
<1>1. /\ Len(gs) = n + 1 /\ DOMAIN gs = 1 .. n + 1
      /\ gs[n + 1] = Frame(array, other)
      /\ \A k \in DOMAIN fs : k \in DOMAIN gs /\ gs[k] = fs[k]
      BY FramesGrow
<1>2. DOMAIN fs = 1 .. n /\ n \in Nat
      BY DEF FramesOK
<1>3. Frame(array, other).array = array /\ Frame(array, other).other = other
      BY DEF Frame
<1> HIDE DEF gs
<1>4. ASSUME NEW k \in DOMAIN gs
      PROVE  \E x \in {gs[k].array, gs[k].other} :
                \A j \in 1 .. k - 1 : x # gs[j].array /\ x # gs[j].other
  <2>1. \A j \in 1 .. k - 1 : j \in DOMAIN fs /\ gs[j] = fs[j]
        BY <1>1, <1>2
  <2>2. CASE k \in DOMAIN fs
    <3>1. gs[k] = fs[k]
          BY <1>1, <2>2
    <3>2. PICK x \in {fs[k].array, fs[k].other} :
              \A j \in 1 .. k - 1 : x # fs[j].array /\ x # fs[j].other
          BY <2>2 DEF FreshCalls
    <3>3. QED BY <2>1, <3>1, <3>2
  <2>3. CASE k \notin DOMAIN fs
    <3>1. gs[k] = Frame(array, other)
          BY <1>1, <1>2, <2>3
    <3>2. PICK x \in {array, other} : x \notin InsideOf(fs)
          OBVIOUS
    <3>3. \A j \in 1 .. k - 1 : x # gs[j].array /\ x # gs[j].other
          BY <2>1, <3>2 DEF InsideOf
    <3>4. x \in {gs[k].array, gs[k].other}
          BY <1>3, <3>1
    <3>5. QED BY <3>3, <3>4
  <2>4. QED BY <2>2, <2>3
<1>5. FreshCalls(gs)
      BY <1>4 DEF FreshCalls
<1>6. QED BY <1>5 DEF gs

-----------------------------------------------------------------------------
(* The comparison                                                          *)

\* A comparison of two arrays, not the same and of the same length, of any heap.
CompareSpec ==
    /\ OfArrays(heap)
    /\ \E array, other \in DOMAIN heap : CompareInit(heap, array, other)
    /\ [][CompareNext]_compareVars

\* What is known of a pair of elements without going inside.
LEMMA Shallow ==
    ASSUME OfArrays(heap), CallsOK(heap, frames), StackOf(stack, frames), NEW v, NEW w
    PROVE  /\ equalShallow(v, w) \in {"equal", "different", "deep"}
           /\ equalShallow(v, w) = "equal" => Same(PairsOf(frames), v, w)
           /\ equalShallow(v, w) = "different" =>
                 v # w /\ (<<v, w>> \in AlikeOf(heap) => isArray(v) /\ v \in InsideOf(frames))
           /\ equalShallow(v, w) = "deep" =>
                 /\ v # w /\ v \in DOMAIN heap /\ w \in DOMAIN heap
                 /\ Len(heap[v]) = Len(heap[w])
                 /\ stack.data.kind = "list" => v \notin InsideOf(frames) \/ w \notin InsideOf(frames)
<1> DEFINE known == equalShallow(v, w)
           arrays == isArray(v) /\ isArray(w) /\ Len(heap[v]) = Len(heap[w])
           found == stackGet(stack, v)
           back == stackGet(stack, w)
<1>1. isArray(v) <=> v \in DOMAIN heap
      BY DEF isArray
<1>2. isArray(w) <=> w \in DOMAIN heap
      BY DEF isArray
<1>3. known = IF v = w THEN "equal"
              ELSE IF ~arrays THEN "different"
              ELSE IF found = Undefined \/ back = Undefined THEN "deep"
              ELSE IF found = w THEN "equal" ELSE "different"
      BY DEF equalShallow
<1>4. FramesOK(frames)
      BY DEF CallsOK
<1>5. arrays => v \in Compared /\ w \in Compared
      BY <1>1, <1>2 DEF OfArrays
<1>6. arrays => /\ found = Undefined \/ <<v, found>> \in PairsOf(frames)
                /\ stack.data.kind = "list" /\ v \in InsideOf(frames) => found # Undefined
                /\ stack.data.kind = "list" /\ w \in InsideOf(frames) => back # Undefined
  <2>1. SUFFICES ASSUME arrays
                 PROVE  /\ found = Undefined \/ <<v, found>> \in PairsOf(frames)
                        /\ stack.data.kind = "list" /\ v \in InsideOf(frames) => found # Undefined
                        /\ stack.data.kind = "list" /\ w \in InsideOf(frames) => back # Undefined
        OBVIOUS
  <2>2. v \in Compared /\ w \in Compared
        BY <1>5, <2>1
  <2>3. QED BY <1>4, <2>2, StackKnows
<1>7. \A u : <<v, u>> \in PairsOf(frames) => v \in InsideOf(frames)
      BY DEF PairsOf, InsideOf
<1>8. <<v, w>> \in AlikeOf(heap) => arrays
  <2>1. SUFFICES ASSUME <<v, w>> \in AlikeOf(heap) PROVE arrays
        OBVIOUS
  <2>2. PICK p : p = <<v, w>>
        OBVIOUS
  <2>3. p \in (DOMAIN heap) \X (DOMAIN heap) /\ Agree(heap, p, AlikeOf(heap))
        BY <2>1, <2>2, AlikeKept
  <2>4. Len(heap[v]) = Len(heap[w])
        BY <2>2, <2>3 DEF Agree
  <2>5. QED BY <1>1, <1>2, <2>2, <2>3, <2>4
<1> HIDE DEF known, arrays, found, back
<1>9. known \in {"equal", "different", "deep"}
      BY <1>3
<1>10. known = "equal" => Same(PairsOf(frames), v, w)
      BY <1>3, <1>6 DEF Same
<1>11. known = "different" =>
           v # w /\ (<<v, w>> \in AlikeOf(heap) => isArray(v) /\ v \in InsideOf(frames))
      BY <1>3, <1>6, <1>7, <1>8 DEF arrays
<1>12. known = "deep" =>
           /\ v # w /\ arrays
           /\ stack.data.kind = "list" => v \notin InsideOf(frames) \/ w \notin InsideOf(frames)
      BY <1>3, <1>6
<1>13. QED BY <1>1, <1>2, <1>9, <1>10, <1>11, <1>12 DEF known, arrays

-----------------------------------------------------------------------------
\* While the calls are going on.
Going ==
    /\ CallsOK(heap, frames)
    /\ StackOf(stack, frames)
    /\ start = <<frames[1].array, frames[1].other>>
    /\ \E R : CoveredBy(heap, frames, R)
    /\ ~reentered => FreshCalls(frames)

\* The call stack has room for a call for each of the arrays.
FewArrays(h) == IsFiniteSet(DOMAIN h) /\ Cardinality(DOMAIN h) <= MaxDepth

CompareIInv ==
    /\ OfArrays(heap)
    /\ verdict = Undefined => Going
    /\ EqualIsAlike
    /\ FewArrays(heap) => NoRunaway

\* Alike of the specification is the greatest such set of its heap.
LEMMA AlikeIsAlikeOf == Alike = AlikeOf(heap)
BY DEF Alike, AlikeOf, Kept, Agree, Same

\* The Stack is an empty list at first.
LEMMA EmptyStack ==
    ASSUME NEW none, none = <<>>
    PROVE  ListOf(Stack.data, none)
<1>1. PICK list : list = ListCache
      OBVIOUS
<1>2. Fields(list) /\ list.kind = "list" /\ list.data = none
      BY <1>1 DEF ListCache, Fields
<1>3. none \in Seq(Compared \X Compared) /\ Len(none) = 0 /\ DOMAIN none = {}
      OBVIOUS
<1>4. ListOf(list, none)
      BY <1>2, <1>3 DEF ListOf
<1>5. Stack.data = list
      BY <1>1 DEF Stack
<1>6. QED BY <1>4, <1>5

\* The first call of equalArrays.
LEMMA CompareStarts ==
    ASSUME OfArrays(heap), NEW array \in DOMAIN heap, NEW other \in DOMAIN heap,
           CompareInit(heap, array, other)
    PROVE  CompareIInv
<1>1. array \in Compared /\ other \in Compared /\ array # other /\ Len(heap[array]) = Len(heap[other])
      BY DEF OfArrays, CompareInit
<1>2. PICK f : f = Frame(array, other)
      OBVIOUS
<1>3. /\ f \in [array : Compared, other : Compared, index : Nat]
      /\ f.array = array /\ f.other = other /\ f.index = 0
      BY <1>1, <1>2 DEF Frame
<1>4. frames = <<f>>
      BY <1>2 DEF CompareInit
<1>5. Len(frames) = 1 /\ DOMAIN frames = {1} /\ frames[1] = f
      BY <1>4
<1>6. FramesOK(frames)
  <2>1. PICK T : T = [array : Compared, other : Compared, index : Nat]
        OBVIOUS
  <2>2. frames \in Seq(T)
        BY <1>3, <1>4, <2>1
  <2>3. QED BY <1>1, <1>3, <1>5, <2>1, <2>2 DEF FramesOK
<1>7. CallsOK(heap, frames)
  <2>1. Len(heap[array]) \in Nat
        BY DEF OfArrays
  <2>2. 0 <= Len(heap[array])
        BY <2>1
  <2>3. QED BY <1>1, <1>3, <1>5, <1>6, <2>2 DEF CallsOK
<1>8. StackOf(stack, frames)
  <2>1. PICK none : none = <<>>
        OBVIOUS
  <2>2. FramesOK(none) /\ Append(none, f) = frames
        BY <1>4, <2>1 DEF FramesOK
  <2>3. StackOf(Stack, none)
    <3>1. ListOf(Stack.data, none)
          BY <2>1, EmptyStack
    <3>2. QED BY <3>1 DEF StackOf
  <2>4. stack = Entered(Stack, array, other)
        BY DEF CompareInit
  <2>5. StackOf(Entered(Stack, array, other), Append(none, Frame(array, other)))
        BY <1>1, <2>2, <2>3, StackEnters
  <2>6. QED BY <1>2, <2>2, <2>4, <2>5
<1>9. start = <<frames[1].array, frames[1].other>>
      BY <1>3, <1>5 DEF CompareInit
<1>10. CoveredBy(heap, frames, {})
  <2>1. \A k \in DOMAIN frames : 1 .. frames[k].index = {}
        BY <1>3, <1>5
  <2>2. QED BY <2>1 DEF CoveredBy
<1>11. FreshCalls(frames)
      BY <1>5 DEF FreshCalls
<1>12. EqualIsAlike /\ NoRunaway
      BY VerdictAssumption DEF CompareInit, EqualIsAlike, NoRunaway
<1>13. QED BY <1>7, <1>8, <1>9, <1>10, <1>11, <1>12 DEF CompareIInv, Going

\* One element of the innermost call.
LEMMA ElementGoes ==
    ASSUME CompareIInv, CompareElement
    PROVE  CompareIInv'
<1>1. PICK h : h = heap
      OBVIOUS
<1>2. PICK fs : fs = frames
      OBVIOUS
<1>3. PICK n : n = Len(fs)
      OBVIOUS
<1>4. PICK a : a = fs[n].array
      OBVIOUS
<1>5. PICK o : o = fs[n].other
      OBVIOUS
<1>6. PICK i : i = fs[n].index
      OBVIOUS
<1>7. PICK v : v = h[a][i + 1]
      OBVIOUS
<1>8. PICK w : w = h[o][i + 1]
      OBVIOUS
<1>9. PICK known : known = equalShallow(v, w)
      OBVIOUS
<1> DEFINE met == {v, w} \cap Inside # {}
           fits == n < MaxDepth
<1>10. Top = fs[n]
      BY <1>2, <1>3 DEF Top, Last
<1>11. At(heap[Top.array], Top.index) = v /\ At(heap[Top.other], Top.index) = w
  <2>1. Top.array = a /\ Top.other = o /\ Top.index = i
        BY <1>4, <1>5, <1>6, <1>10
  <2>2. verdict = Undefined /\ i < Len(h[a])
        BY <1>1, <2>1 DEF CompareElement
  <2>3. CallsOK(h, fs)
        BY <1>1, <1>2, <2>2 DEF CompareIInv, Going
  <2>4. n \in DOMAIN fs /\ FramesOK(fs)
        BY <1>3, <2>3 DEF CallsOK, FramesOK
  <2>5. i \in Nat /\ a \in DOMAIN h /\ Len(h[o]) = Len(h[a])
        BY <1>4, <1>5, <1>6, <2>3, <2>4, FrameAt DEF CallsOK
  <2>6. Len(h[a]) \in Nat
        BY <1>1, <2>5 DEF CompareIInv, OfArrays
  <2>7. i \in 0 .. Len(h[a]) - 1 /\ i \in 0 .. Len(h[o]) - 1
        BY <2>2, <2>5, <2>6
  <2>8. At(heap[a], i) = v /\ At(heap[o], i) = w
        BY <1>1, <1>7, <1>8, <2>7 DEF At
  <2>9. QED BY <2>1, <2>8
<1>12. /\ verdict = Undefined
       /\ i < Len(h[a])
       /\ frames' = CASE known = "equal" -> Step(fs)
                      [] known = "different" -> <<>>
                      [] OTHER -> IF fits THEN Append(fs, Frame(v, w)) ELSE <<>>
       /\ stack' = IF known = "deep" /\ fits THEN Entered(stack, v, w) ELSE stack
       /\ verdict' = CASE known = "different" -> "different"
                       [] known = "deep" /\ ~fits -> "overflow"
                       [] OTHER -> Undefined
       /\ crossed' = (crossed \/ (met /\ known = "different" /\ isArray(v)))
       /\ reentered' = (reentered \/ (met /\ known = "deep" /\ stack'.data.kind = "map"))
       /\ start' = start /\ heap' = h
      BY <1>1, <1>2, <1>3, <1>4, <1>6, <1>9, <1>10, <1>11 DEF CompareElement
<1>13. /\ OfArrays(h) /\ CallsOK(h, fs) /\ StackOf(stack, fs)
       /\ start = <<fs[1].array, fs[1].other>>
       /\ \E R : CoveredBy(h, fs, R)
       /\ ~reentered => FreshCalls(fs)
      BY <1>1, <1>2, <1>12 DEF CompareIInv, Going
<1>14. PICK R : CoveredBy(h, fs, R)
      BY <1>13
<1>15. /\ known \in {"equal", "different", "deep"}
       /\ known = "equal" => Same(PairsOf(fs), v, w)
       /\ known = "different" =>
             v # w /\ (<<v, w>> \in AlikeOf(h) => isArray(v) /\ v \in InsideOf(fs))
       /\ known = "deep" =>
             /\ v # w /\ v \in DOMAIN h /\ w \in DOMAIN h
             /\ Len(h[v]) = Len(h[w])
             /\ stack.data.kind = "list" => v \notin InsideOf(fs) \/ w \notin InsideOf(fs)
  <2>1. OfArrays(heap) /\ CallsOK(heap, frames) /\ StackOf(stack, frames)
        BY <1>1, <1>2, <1>13
  <2>2. QED BY <1>1, <1>2, <1>9, <2>1, Shallow
<1>16. Inside = InsideOf(fs)
      BY <1>2 DEF Inside, InsideOf
<1>17. /\ DOMAIN fs = 1 .. n /\ n \in Nat /\ n > 0 /\ n \in DOMAIN fs /\ 1 \in DOMAIN fs
       /\ FramesOK(fs) /\ i \in Nat /\ a \in DOMAIN h
  <2>1. DOMAIN fs = 1 .. n /\ n \in Nat /\ n > 0 /\ FramesOK(fs)
        BY <1>3, <1>13 DEF CallsOK, FramesOK
  <2>2. n \in DOMAIN fs /\ 1 \in DOMAIN fs
        BY <2>1
  <2>3. i \in Nat
        BY <1>6, <2>1, <2>2, FrameAt
  <2>4. QED BY <1>4, <1>13, <2>1, <2>2, <2>3 DEF CallsOK
<1>18. Alike = AlikeOf(h) /\ Alike' = AlikeOf(h)
  <2>1. Alike' = AlikeOf(heap')
        BY DEF Alike, AlikeOf, Kept, Agree, Same
  <2>2. QED BY <1>1, <1>12, <2>1, AlikeIsAlikeOf
<1>19. OfArrays(heap')
      BY <1>12, <1>13
<1>20. CASE known = "equal"
  <2>1. frames' = Step(fs) /\ stack' = stack /\ verdict' = Undefined /\ (~reentered' => ~reentered)
    <3> HIDE DEF met, fits
    <3>1. known # "deep" /\ known # "different"
          BY <1>20
    <3>2. frames' = Step(fs) /\ stack' = stack
          BY <1>12, <1>20
    <3>3. verdict' = Undefined
          BY <1>12, <3>1
    <3>4. ~reentered' => ~reentered
          BY <1>12
    <3>5. QED BY <3>2, <3>3, <3>4
  <2>2. CallsOK(h, Step(fs))
        BY <1>3, <1>4, <1>6, <1>12, <1>13, CallsStep
  <2>3. /\ FramesOK(Step(fs)) /\ Len(Step(fs)) = Len(fs) /\ DOMAIN Step(fs) = DOMAIN fs
        /\ \A k \in DOMAIN fs : Step(fs)[k].array = fs[k].array /\ Step(fs)[k].other = fs[k].other
        BY <1>3, <1>17, Stepped
  <2>4. StackOf(stack, Step(fs))
        BY <1>13, <1>17, <2>3, StackRests
  <2>5. Same(R \cup PairsOf(fs), v, w)
        BY <1>15, <1>20 DEF Same
  <2>6. CoveredBy(h, Step(fs), R)
        BY <1>3, <1>4, <1>5, <1>6, <1>7, <1>8, <1>13, <1>14, <2>5, CoverStep
  <2>7. ~reentered => FreshCalls(Step(fs))
        BY <1>3, <1>13, <1>17, <2>3 DEF FreshCalls
  <2>8. start = <<Step(fs)[1].array, Step(fs)[1].other>>
        BY <1>13, <1>17, <2>3
  <2> HIDE DEF met, fits
  <2>9. Going'
        BY <1>12, <2>1, <2>2, <2>4, <2>6, <2>7, <2>8 DEF Going
  <2>10. EqualIsAlike' /\ NoRunaway'
        BY <2>1, VerdictAssumption DEF EqualIsAlike, NoRunaway
  <2>11. QED BY <1>19, <2>9, <2>10 DEF CompareIInv
<1>21. CASE known = "different"
  <2>1. verdict' = "different"
        BY <1>12, <1>21
  <2>2. ASSUME start \in AlikeOf(h) PROVE crossed'
    <3>1. <<fs[n].array, fs[n].other>> \in AlikeOf(h)
      <4>1. <<fs[1].array, fs[1].other>> \in AlikeOf(h)
            BY <1>13, <2>2
      <4>2. QED BY <1>13, <1>17, <4>1, ChainAlike
    <3>2. PICK p : p = <<a, o>>
          OBVIOUS
    <3>3. Agree(h, p, AlikeOf(h))
          BY <1>4, <1>5, <3>1, <3>2, AlikeKept
    <3>4. i + 1 \in DOMAIN h[a]
      <4>1. DOMAIN h[a] = 1 .. Len(h[a]) /\ Len(h[a]) \in Nat
            BY <1>13, <1>17 DEF OfArrays
      <4>2. QED BY <1>12, <1>17, <4>1
    <3>5. Same(AlikeOf(h), v, w)
          BY <1>7, <1>8, <3>2, <3>3, <3>4 DEF Agree
    <3>6. isArray(v) /\ v \in InsideOf(fs)
          BY <1>15, <1>21, <3>5 DEF Same
    <3>7. QED BY <1>12, <1>16, <1>21, <3>6
  <2>3. EqualIsAlike'
        BY <1>12, <1>18, <2>1, <2>2 DEF EqualIsAlike
  <2>4. QED BY <1>19, <2>1, <2>3, VerdictAssumption DEF CompareIInv, NoRunaway
<1>22. CASE known = "deep"
  <2>1. PICK gs : gs = Append(fs, Frame(v, w))
        OBVIOUS
  <2>2. /\ v # w /\ v \in DOMAIN h /\ w \in DOMAIN h /\ Len(h[v]) = Len(h[w])
        /\ v \in Compared /\ w \in Compared
        BY <1>13, <1>15, <1>22 DEF OfArrays
  <2>3. CallsOK(h, gs)
        BY <1>3, <1>4, <1>5, <1>6, <1>7, <1>8, <1>12, <1>13, <2>1, <2>2, CallsEnter
  <2>4. /\ StackOf(Entered(stack, v, w), gs)
        /\ stack.data.kind = "map" => stack'.data.kind = "map"
    <3>1. /\ StackOf(Entered(stack, v, w), gs)
          /\ stack.data.kind = "map" => Entered(stack, v, w).data.kind = "map"
          BY <1>13, <1>17, <2>1, <2>2, StackEnters
    <3>2. stack' = Entered(stack, v, w) \/ stack' = stack
          BY <1>12
    <3>3. QED BY <3>1, <3>2
  <2>5. ~reentered' => FreshCalls(gs)
    <3>1. SUFFICES ASSUME ~reentered' PROVE FreshCalls(gs)
          OBVIOUS
    <3>2. ~reentered /\ (~met \/ stack'.data.kind # "map")
          BY <1>12, <1>22, <3>1
    <3>3. v \notin InsideOf(fs) \/ w \notin InsideOf(fs)
      <4>1. CASE ~met
            BY <1>16, <4>1
      <4>2. CASE stack'.data.kind # "map"
        <5>1. stack.data.kind = "list"
              BY <1>13, <2>4, <4>2 DEF StackOf, ListOf, MapOf
        <5>2. QED BY <1>15, <1>22, <5>1
      <4>3. QED BY <3>2, <4>1, <4>2
    <3>4. QED BY <1>13, <1>17, <2>1, <2>2, <3>2, <3>3, FreshEnter
  <2>6. CASE fits
    <3>1. frames' = gs /\ stack' = Entered(stack, v, w) /\ verdict' = Undefined
          BY <1>12, <1>22, <2>1, <2>6
    <3>2. CoveredBy(h, gs, R)
          BY <1>13, <1>14, <2>1, <2>2, CoverEnter
    <3>3. start = <<gs[1].array, gs[1].other>>
      <4>1. gs[1] = fs[1]
            BY <1>17, <2>1, <2>2, FramesGrow
      <4>2. QED BY <1>13, <4>1
    <3> HIDE DEF met, fits
    <3>4. Going'
          BY <1>12, <2>3, <2>4, <2>5, <3>1, <3>2, <3>3 DEF Going
    <3>5. EqualIsAlike' /\ NoRunaway'
          BY <3>1, VerdictAssumption DEF EqualIsAlike, NoRunaway
    <3>6. QED BY <1>19, <3>4, <3>5 DEF CompareIInv
  <2>7. CASE ~fits
    <3>1. verdict' = "overflow"
          BY <1>12, <1>22, <2>7
    <3>2. FewArrays(h) => reentered'
      <4>1. SUFFICES ASSUME FewArrays(h), ~reentered' PROVE FALSE
            OBVIOUS
      <4>2. Len(gs) <= Cardinality(DOMAIN h) /\ Cardinality(DOMAIN h) \in Nat
            BY <2>3, <2>5, <4>1, FreshBounded, FS_CardinalityType DEF FewArrays
      <4>3. Len(gs) = n + 1
            BY <1>3, <1>17, <2>1, <2>2, FramesGrow
      <4>4. QED BY <1>17, <2>7, <4>1, <4>2, <4>3, MaxDepthAssumption DEF FewArrays
    <3>3. FewArrays(heap') => NoRunaway'
          BY <1>12, <3>2 DEF NoRunaway
    <3>4. QED BY <1>19, <3>1, <3>3, VerdictAssumption DEF CompareIInv, EqualIsAlike
  <2>8. QED BY <2>6, <2>7
<1>23. QED BY <1>15, <1>20, <1>21, <1>22

\* The end of the innermost call.
LEMMA LeaveGoes ==
    ASSUME CompareIInv, LeaveArrays
    PROVE  CompareIInv'
<1>1. PICK h : h = heap
      OBVIOUS
<1>2. PICK fs : fs = frames
      OBVIOUS
<1>3. PICK n : n = Len(fs)
      OBVIOUS
<1>4. Top = fs[n]
      BY <1>2, <1>3 DEF Top, Last
<1>5. PICK s : s = stackDelete(stackDelete(stack, fs[n].array), fs[n].other)
      OBVIOUS
<1>6. /\ verdict = Undefined
      /\ fs[n].index = Len(h[fs[n].array])
      /\ stack' = s
      /\ frames' = IF n = 1 THEN <<>> ELSE Step(Front(fs))
      /\ verdict' = IF n = 1 THEN "equal" ELSE Undefined
      /\ start' = start /\ heap' = h /\ crossed' = crossed /\ reentered' = reentered
      BY <1>1, <1>2, <1>3, <1>4, <1>5 DEF LeaveArrays
<1>7. /\ OfArrays(h) /\ CallsOK(h, fs) /\ StackOf(stack, fs)
      /\ start = <<fs[1].array, fs[1].other>>
      /\ \E R : CoveredBy(h, fs, R)
      /\ ~reentered => FreshCalls(fs)
      BY <1>1, <1>2, <1>6 DEF CompareIInv, Going
<1>8. PICK R : CoveredBy(h, fs, R)
      BY <1>7
<1>9. DOMAIN fs = 1 .. n /\ n \in Nat /\ n > 0 /\ FramesOK(fs)
      BY <1>3, <1>7 DEF CallsOK, FramesOK
<1>10. Alike' = AlikeOf(h)
  <2>1. Alike' = AlikeOf(heap')
        BY DEF Alike, AlikeOf, Kept, Agree, Same
  <2>2. QED BY <1>6, <2>1
<1>11. OfArrays(heap')
      BY <1>6, <1>7
<1>12. CASE n = 1
  <2>1. verdict' = "equal"
        BY <1>6, <1>12
  <2>2. start \in AlikeOf(h)
    <3>1. Len(fs) = 1 /\ fs[1].index = Len(h[fs[1].array])
          BY <1>3, <1>6, <1>12
    <3>2. QED BY <1>7, <1>8, <3>1, CoverEnd
  <2>3. EqualIsAlike'
        BY <1>6, <1>10, <2>1, <2>2 DEF EqualIsAlike
  <2>4. QED BY <1>11, <2>1, <2>3, VerdictAssumption DEF CompareIInv, NoRunaway
<1>13. CASE n # 1
  <2>1. PICK gs : gs = Step(Front(fs))
        OBVIOUS
  <2>2. Len(fs) > 1 /\ Len(fs) > 0
        BY <1>3, <1>9, <1>13
  <2>3. frames' = gs /\ verdict' = Undefined
        BY <1>6, <1>13, <2>1
  <2>4. CallsOK(h, gs)
        BY <1>7, <2>1, <2>2, CallsLeave
  <2>5. \E S : CoveredBy(h, gs, S)
        BY <1>3, <1>6, <1>7, <1>8, <2>1, <2>2, CoverLeave
  <2>6. /\ FramesOK(gs) /\ Len(gs) = n - 1 /\ DOMAIN gs = 1 .. n - 1
        /\ \A k \in 1 .. n - 1 : gs[k].array = fs[k].array /\ gs[k].other = fs[k].other
    <3>1. PICK front : front = Front(fs)
          OBVIOUS
    <3>2. /\ FramesOK(front) /\ Len(front) = n - 1 /\ DOMAIN front = 1 .. n - 1
          /\ \A k \in 1 .. n - 1 : front[k] = fs[k]
          BY <1>3, <1>9, <2>2, <3>1, Fronted
    <3>3. Len(front) > 0
          BY <1>9, <1>13, <3>2
    <3>4. /\ FramesOK(gs) /\ Len(gs) = Len(front) /\ DOMAIN gs = DOMAIN front
          /\ \A k \in DOMAIN front : gs[k].array = front[k].array /\ gs[k].other = front[k].other
          BY <2>1, <3>1, <3>2, <3>3, Stepped
    <3>5. QED BY <3>2, <3>4
  <2>7. StackOf(s, gs)
        BY <1>3, <1>5, <1>7, <1>9, <2>2, <2>6, StackLeaves
  <2>8. ~reentered => FreshCalls(gs)
    <3>1. \A k \in 1 .. n - 1 : k \in DOMAIN fs /\ \A j \in 1 .. k - 1 : j \in 1 .. n - 1
          BY <1>9
    <3>2. QED BY <1>7, <2>6, <3>1 DEF FreshCalls
  <2>9. start = <<gs[1].array, gs[1].other>>
    <3>1. 1 \in 1 .. n - 1
          BY <1>9, <1>13
    <3>2. QED BY <1>7, <2>6, <3>1
  <2>10. Going'
        BY <1>6, <2>3, <2>4, <2>5, <2>7, <2>8, <2>9 DEF Going
  <2>11. EqualIsAlike' /\ NoRunaway'
        BY <2>3, VerdictAssumption DEF EqualIsAlike, NoRunaway
  <2>12. QED BY <1>11, <2>10, <2>11 DEF CompareIInv
<1>14. QED BY <1>12, <1>13

-----------------------------------------------------------------------------
\* The invariant is inductive.
LEMMA CompareKeeps ==
    ASSUME CompareIInv, [CompareNext]_compareVars
    PROVE  CompareIInv'
<1>1. CASE CompareElement
      BY <1>1, ElementGoes
<1>2. CASE LeaveArrays
      BY <1>2, LeaveGoes
<1>3. CASE UNCHANGED compareVars
  <2>1. /\ start' = start /\ heap' = heap /\ frames' = frames /\ stack' = stack
        /\ verdict' = verdict /\ crossed' = crossed /\ reentered' = reentered
        BY <1>3 DEF compareVars
  <2>2. Alike' = Alike
        BY <2>1 DEF Alike, Kept
  <2>3. Going' <=> Going
        BY <2>1 DEF Going
  <2>4. (EqualIsAlike' <=> EqualIsAlike) /\ (NoRunaway' <=> NoRunaway)
        BY <2>1, <2>2 DEF EqualIsAlike, NoRunaway
  <2>5. QED BY <2>1, <2>3, <2>4 DEF CompareIInv
<1>4. QED BY <1>1, <1>2, <1>3 DEF CompareNext

\* isEqual takes two arrays for equal only if no path of indices tells them apart,
\* and for different only if one does or it met an array while inside it beside
\* another one: for any arrays that contain one another and themselves, although it
\* takes a pair that it is inside of for equal (baseIsEqualDeep, equalArrays).
THEOREM ComparedAlike == CompareSpec => []EqualIsAlike
<1>1. OfArrays(heap) /\ (\E array, other \in DOMAIN heap : CompareInit(heap, array, other)) => CompareIInv
      BY CompareStarts
<1>2. CompareIInv /\ [CompareNext]_compareVars => CompareIInv'
      BY CompareKeeps
<1>3. CompareIInv => EqualIsAlike
      BY DEF CompareIInv
<1>4. QED BY <1>1, <1>2, <1>3, PTL DEF CompareSpec

\* If the call stack has room for a call for each of the arrays, isEqual comes to
\* the end of it only after it went inside an array it was inside of, with a Stack
\* that had become a MapCache (stackSet, mapCacheDelete).
THEOREM NoRunawayOfFew == CompareSpec /\ FewArrays(heap) => []NoRunaway
<1>1. OfArrays(heap) /\ (\E array, other \in DOMAIN heap : CompareInit(heap, array, other)) => CompareIInv
      BY CompareStarts
<1>2. CompareIInv /\ [CompareNext]_compareVars => CompareIInv'
      BY CompareKeeps
<1>3. FewArrays(heap) /\ [CompareNext]_compareVars => FewArrays(heap)'
  <2>1. [CompareNext]_compareVars => heap' = heap
        BY DEF CompareNext, CompareElement, LeaveArrays, compareVars
  <2>2. QED BY <2>1 DEF FewArrays
<1>4. CompareIInv /\ FewArrays(heap) => NoRunaway
      BY DEF CompareIInv
<1>5. QED BY <1>1, <1>2, <1>3, <1>4, PTL DEF CompareSpec

\* Without a Map in the engine the Stack stays a list.
LEMMA ListStays ==
    ASSUME ~hasMap, NEW s, NEW fs, ListOf(s.data, fs), NEW array, NEW other
    PROVE  Entered(s, array, other).data.kind = "list"
<1> DEFINE s1 == stackSet(hasMap, s, array, other)
           s2 == stackSet(hasMap, s1, other, array)
<1>1. \A held : OfData(held).data = held
      BY DEF OfData
<1>2. s.data.kind = "list" /\ DOMAIN s.data = {"kind", "data", "size"}
      BY DEF ListOf, Fields
<1>3. s1.data = [s.data EXCEPT !.data = Append(@, <<array, other>>), !.size = @ + 1]
      BY <1>1, <1>2 DEF stackSet
<1>4. s1.data.kind = "list" /\ DOMAIN s1.data = {"kind", "data", "size"}
      BY <1>2, <1>3
<1> HIDE DEF s1
<1>5. s2.data = [s1.data EXCEPT !.data = Append(@, <<other, array>>), !.size = @ + 1]
      BY <1>1, <1>4 DEF stackSet
<1>6. s2.data.kind = "list"
      BY <1>4, <1>5
<1>7. QED BY <1>6 DEF Entered, s1

\* listCacheDelete leaves a list.
LEMMA DeletedKind ==
    ASSUME NEW s, DOMAIN s.data = {"kind", "data", "size"}, s.data.kind = "list", NEW key
    PROVE  /\ stackDelete(s, key).data.kind = "list"
           /\ DOMAIN stackDelete(s, key).data = {"kind", "data", "size"}
<1>1. \A held : OfData(held).data = held
      BY DEF OfData
<1>2. stackDelete(s, key).data = listCacheDelete(s.data, key)
      BY <1>1 DEF stackDelete
<1>3. QED BY <1>2 DEF listCacheDelete

NoMap == ~hasMap => ~reentered /\ stack.data.kind = "list"

\* Without a Map the list is added to, however long it is (stackSet).
LEMMA NoMapKept ==
    ASSUME CompareIInv, NoMap, [CompareNext]_compareVars
    PROVE  NoMap'
<1>1. CASE CompareElement
  <2>1. PICK v : v = At(heap[Top.array], Top.index)
        OBVIOUS
  <2>2. PICK w : w = At(heap[Top.other], Top.index)
        OBVIOUS
  <2>3. verdict = Undefined /\ hasMap' = hasMap
        BY <1>1 DEF CompareElement
  <2>4. stack' = Entered(stack, v, w) \/ stack' = stack
        BY <1>1, <2>1, <2>2 DEF CompareElement
  <2>5. ~hasMap => stack'.data.kind = "list"
    <3>1. SUFFICES ASSUME ~hasMap PROVE stack'.data.kind = "list"
          OBVIOUS
    <3>2. stack.data.kind = "list"
          BY <3>1 DEF NoMap
    <3>3. ListOf(stack.data, frames)
          BY <2>3, <3>2 DEF CompareIInv, Going, StackOf, MapOf
    <3>4. Entered(stack, v, w).data.kind = "list"
          BY <3>1, <3>3, ListStays
    <3>5. QED BY <2>4, <3>2, <3>4
  <2>6. reentered' => reentered \/ stack'.data.kind = "map"
        BY <1>1 DEF CompareElement
  <2>7. QED BY <2>3, <2>5, <2>6 DEF NoMap
<1>2. CASE LeaveArrays
  <2>1. /\ verdict = Undefined /\ hasMap' = hasMap /\ reentered' = reentered
        /\ stack' = stackDelete(stackDelete(stack, Top.array), Top.other)
        BY <1>2 DEF LeaveArrays
  <2>2. ~hasMap => stack'.data.kind = "list"
    <3>1. SUFFICES ASSUME ~hasMap PROVE stack'.data.kind = "list"
          OBVIOUS
    <3>2. stack.data.kind = "list"
          BY <3>1 DEF NoMap
    <3>3. DOMAIN stack.data = {"kind", "data", "size"}
          BY <2>1, <3>2 DEF CompareIInv, Going, StackOf, MapOf, ListOf, Fields
    <3>4. PICK s1 : s1 = stackDelete(stack, Top.array)
          OBVIOUS
    <3>5. s1.data.kind = "list" /\ DOMAIN s1.data = {"kind", "data", "size"}
          BY <3>2, <3>3, <3>4, DeletedKind
    <3>6. QED BY <2>1, <3>4, <3>5, DeletedKind
  <2>3. QED BY <2>1, <2>2 DEF NoMap
<1>3. CASE UNCHANGED compareVars
      BY <1>3 DEF compareVars, NoMap
<1>4. QED BY <1>1, <1>2, <1>3 DEF CompareNext

\* In an engine without a Map isEqual never comes to the end of the call stack if
\* that has room for a call for each of the arrays: the Stack stays a ListCache.
THEOREM EndsWithoutMap ==
    CompareSpec /\ FewArrays(heap) => [](~hasMap => verdict # "overflow")
<1> DEFINE Starts == OfArrays(heap) /\ \E array, other \in DOMAIN heap : CompareInit(heap, array, other)
<1>1. Starts => CompareIInv /\ NoMap
  <2> SUFFICES ASSUME OfArrays(heap), NEW array \in DOMAIN heap, NEW other \in DOMAIN heap,
                      CompareInit(heap, array, other)
               PROVE  CompareIInv /\ NoMap
      OBVIOUS
  <2>1. CompareIInv
        BY CompareStarts
  <2>2. ~hasMap => stack.data.kind = "list"
    <3>1. SUFFICES ASSUME ~hasMap PROVE stack.data.kind = "list"
          OBVIOUS
    <3>2. PICK none : none = <<>>
          OBVIOUS
    <3>3. ListOf(Stack.data, none)
          BY <3>2, EmptyStack
    <3>4. QED BY <3>1, <3>3, ListStays DEF CompareInit
  <2>3. ~reentered
        BY DEF CompareInit
  <2>4. QED BY <2>1, <2>2, <2>3 DEF NoMap
<1>2. CompareIInv /\ NoMap /\ [CompareNext]_compareVars => (CompareIInv /\ NoMap)'
      BY CompareKeeps, NoMapKept
<1>3. FewArrays(heap) /\ [CompareNext]_compareVars => FewArrays(heap)'
  <2>1. [CompareNext]_compareVars => heap' = heap
        BY DEF CompareNext, CompareElement, LeaveArrays, compareVars
  <2>2. QED BY <2>1 DEF FewArrays
<1>4. CompareIInv /\ NoMap /\ FewArrays(heap) => (~hasMap => verdict # "overflow")
      BY DEF CompareIInv, NoRunaway, NoMap
<1>5. QED BY <1>1, <1>2, <1>3, <1>4, PTL DEF CompareSpec, Starts

-----------------------------------------------------------------------------
(* Sorting                                                                 *)

\* A comparer that does not contradict itself on the values of an array.
IsComparer(comparer, array) ==
    LET NotAfter(i, j) == comparer[<<array[i], array[j]>>] <= 0
    IN  /\ \A i, j \in DOMAIN array : i # j => NotAfter(i, j) \/ NotAfter(j, i)
        /\ \A i, j, k \in DOMAIN array :
              i # j /\ j # k /\ i # k /\ NotAfter(i, j) /\ NotAfter(j, k) => NotAfter(i, k)

\* sorted has the first m values of the array, at the places p, in the order of
\* the comparer, and as they stood if that does not tell them apart.
SortedAt(sorted, p, array, m, T, comparer) ==
    /\ sorted \in Seq(T) /\ Len(sorted) = m
    /\ p \in [1 .. m -> 1 .. m]
    /\ \A i \in 1 .. m : sorted[i] = array[p[i]]
    /\ \A i, j \in 1 .. m : p[i] = p[j] => i = j
    /\ \A i, j \in 1 .. m : i < j => comparer[<<sorted[i], sorted[j]>>] <= 0
    /\ \A i, j \in 1 .. m : i < j /\ comparer[<<sorted[j], sorted[i]>>] <= 0 => p[i] < p[j]

\* One round of the insertion sort.
InsertedBy(sorted, value, comparer) ==
    InsertAt(sorted, 1 + GreatestOr({j \in DOMAIN sorted : comparer[<<sorted[j], value>>] <= 0}, 0), value)

\* What InsertAt does.
LEMMA InsertedAt ==
    ASSUME NEW T, NEW s \in Seq(T), NEW at \in 1 .. Len(s) + 1, NEW e \in T
    PROVE  /\ InsertAt(s, at, e) \in Seq(T)
           /\ Len(InsertAt(s, at, e)) = Len(s) + 1
           /\ \A i \in 1 .. Len(s) + 1 :
                 InsertAt(s, at, e)[i] = IF i < at THEN s[i] ELSE IF i = at THEN e ELSE s[i - 1]
<1> DEFINE n == Len(s)
<1> PICK q \in 0 .. Len(s) : at = 1 + q
  <2>1. at - 1 \in 0 .. Len(s) /\ at = 1 + (at - 1)
        OBVIOUS
  <2>2. QED BY <2>1
<1>0. PICK t : t = InsertAt(s, at, e)
      OBVIOUS
<1>1. n \in Nat /\ DOMAIN s = 1 .. n /\ q \in Nat /\ q <= n
      OBVIOUS
<1>2. PICK a : a = SubSeq(s, 1, q)
      OBVIOUS
<1>3. PICK b : b = SubSeq(s, q + 1, n)
      OBVIOUS
<1>4. a \in Seq(T) /\ Len(a) = q /\ \A i \in 1 .. q : a[i] = s[i]
      BY <1>1, <1>2
<1>5. b \in Seq(T) /\ Len(b) = n - q /\ \A i \in 1 .. n - q : b[i] = s[i + q]
  <2>1. b \in Seq(T)
        BY <1>1, <1>3
  <2>2. Len(b) = n - q
        BY <1>3
  <2>3. \A i \in 1 .. n - q : b[i] = s[i + q]
        BY <1>1, <1>3
  <2>4. QED BY <2>1, <2>2, <2>3
<1>6. t = (a \o <<e>>) \o b
  <2>1. (1 + q) - 1 = q /\ 1 + q = q + 1
        BY <1>1
  <2>2. QED BY <1>0, <1>2, <1>3, <2>1 DEF InsertAt
<1>7. PICK u : u = a \o <<e>>
      OBVIOUS
<1>8. /\ u \in Seq(T) /\ Len(u) = q + 1 /\ u[q + 1] = e
      /\ \A i \in 1 .. q : u[i] = s[i]
      BY <1>1, <1>4, <1>7
<1>9. /\ t \in Seq(T) /\ Len(t) = (q + 1) + (n - q)
      /\ \A i \in 1 .. q + 1 : t[i] = u[i]
      /\ \A i \in 1 .. n - q : t[(q + 1) + i] = b[i]
  <2>1. t = u \o b /\ u \in Seq(T) /\ b \in Seq(T) /\ Len(u) = q + 1 /\ Len(b) = n - q
        BY <1>5, <1>6, <1>7, <1>8
  <2>2. /\ u \o b \in Seq(T) /\ Len(u \o b) = Len(u) + Len(b)
        /\ \A i \in 1 .. Len(u) + Len(b) :
              (u \o b)[i] = IF i <= Len(u) THEN u[i] ELSE b[i - Len(u)]
    <3>1. u \in Seq(T) /\ b \in Seq(T)
          BY <2>1
    <3>2. QED BY <3>1
  <2>3. /\ t \in Seq(T) /\ Len(t) = (q + 1) + (n - q)
        /\ \A i \in 1 .. (q + 1) + (n - q) :
              t[i] = IF i <= q + 1 THEN u[i] ELSE b[i - (q + 1)]
        BY <2>1, <2>2
  <2>4. ASSUME NEW i \in 1 .. q + 1 PROVE t[i] = u[i]
    <3>1. i \in 1 .. (q + 1) + (n - q) /\ i <= q + 1
          BY <1>1
    <3>2. QED BY <2>3, <3>1
  <2>5. ASSUME NEW i \in 1 .. n - q PROVE t[(q + 1) + i] = b[i]
    <3>1. /\ (q + 1) + i \in 1 .. (q + 1) + (n - q) /\ ~((q + 1) + i <= q + 1)
          /\ ((q + 1) + i) - (q + 1) = i
          BY <1>1
    <3>2. QED BY <2>3, <3>1
  <2>6. QED BY <2>3, <2>4, <2>5
<1>10. Len(t) = n + 1
      BY <1>1, <1>9
<1>11. ASSUME NEW i \in 1 .. n + 1
       PROVE  t[i] = IF i <= q THEN s[i] ELSE IF i = q + 1 THEN e ELSE s[i - 1]
  <2>1. CASE i <= q
        BY <1>1, <1>8, <1>9, <2>1
  <2>2. CASE i = q + 1
        BY <1>1, <1>8, <1>9, <2>2
  <2>3. CASE i > q + 1
    <3>1. PICK k \in 1 .. n - q : i = (q + 1) + k
      <4>1. i - (q + 1) \in 1 .. n - q /\ i = (q + 1) + (i - (q + 1))
            BY <1>1, <2>3
      <4>2. QED BY <4>1
    <3>2. t[i] = s[k + q]
          BY <1>5, <1>9, <3>1
    <3>3. k + q = i - 1 /\ ~(i <= q) /\ i # q + 1
          BY <1>1, <3>1
    <3>4. QED BY <3>2, <3>3
  <2>4. QED BY <1>1, <2>1, <2>2, <2>3
<1>12. ASSUME NEW i \in 1 .. n + 1
       PROVE  t[i] = IF i < at THEN s[i] ELSE IF i = at THEN e ELSE s[i - 1]
  <2>1. (i <= q <=> i < at) /\ (i = q + 1 <=> i = at)
        BY <1>1
  <2>2. QED BY <1>11, <2>1
<1>13. QED BY <1>0, <1>9, <1>10, <1>12

\* One more value is inserted behind those the comparer has before it.
LEMMA SortInserts ==
    ASSUME NEW T, NEW comparer, NEW n \in Nat, NEW array \in [1 .. n -> T],
           IsComparer(comparer, array), NEW m \in Nat, m + 1 <= n,
           NEW sorted, NEW p, SortedAt(sorted, p, array, m, T, comparer),
           NEW new, new = InsertedBy(sorted, array[m + 1], comparer)
    PROVE  \E r : SortedAt(new, r, array, m + 1, T, comparer)
<1> DEFINE value == array[m + 1]
           before == {j \in DOMAIN sorted : comparer[<<sorted[j], value>>] <= 0}
           q == GreatestOr(before, 0)
<1>1. /\ sorted \in Seq(T) /\ Len(sorted) = m /\ DOMAIN sorted = 1 .. m
      /\ \A i \in 1 .. m : sorted[i] \in T
      BY DEF SortedAt
<1>2. value \in T
      OBVIOUS
<1>3. /\ q \in 0 .. m
      /\ \A i \in 1 .. m : i <= q => comparer[<<sorted[i], value>>] <= 0
      /\ \A i \in 1 .. m : i > q => ~(comparer[<<sorted[i], value>>] <= 0)
  <2>1. before \subseteq 0 .. m
        BY <1>1
  <2>2. CASE before = {}
    <3>1. q = 0
          BY <2>2 DEF GreatestOr
    <3>2. \A i \in 1 .. m : ~(comparer[<<sorted[i], value>>] <= 0)
          BY <1>1, <2>2
    <3>3. \A i \in 1 .. m : ~(i <= 0)
          OBVIOUS
    <3> HIDE DEF q, before, value
    <3>4. 0 \in 0 .. m
          OBVIOUS
    <3>5. QED BY <3>1, <3>2, <3>3, <3>4
  <2>3. CASE before # {}
    <3>1. q = Max(before)
          BY <2>3 DEF GreatestOr
    <3>2. q \in before /\ \A j \in before : j <= q
          BY <2>1, <2>3, <3>1, GreatestIn
    <3>3. q \in 1 .. m /\ comparer[<<sorted[q], value>>] <= 0
          BY <1>1, <3>2
    <3> HIDE DEF q, value
    <3>4. \A i \in 1 .. m : i > q => ~(comparer[<<sorted[i], value>>] <= 0)
      <4> SUFFICES ASSUME NEW i \in 1 .. m, i > q, comparer[<<sorted[i], value>>] <= 0 PROVE FALSE
          OBVIOUS
      <4>1. i \in before
            BY <1>1
      <4>2. i <= q
            BY <3>2, <4>1
      <4>3. QED BY <3>3, <4>2
    <3>5. \A i \in 1 .. m : i <= q => comparer[<<sorted[i], value>>] <= 0
      <4> SUFFICES ASSUME NEW i \in 1 .. m, i <= q PROVE comparer[<<sorted[i], value>>] <= 0
          OBVIOUS
      <4>1. CASE i = q
            BY <3>3, <4>1
      <4>2. CASE i < q
        <5>1. comparer[<<sorted[i], sorted[q]>>] <= 0
              BY <3>3, <4>2 DEF SortedAt
        <5>a. /\ p \in [1 .. m -> 1 .. m]
              /\ \A k, l \in 1 .. m : p[k] = p[l] => k = l
              BY DEF SortedAt
        <5>2. p[i] \in 1 .. m /\ p[q] \in 1 .. m /\ p[i] # p[q]
          <6>1. p[i] \in 1 .. m /\ p[q] \in 1 .. m
                BY <3>3, <5>a
          <6>2. i # q
                BY <3>3, <4>2
          <6>3. QED BY <3>3, <5>a, <6>1, <6>2
        <5>3. /\ p[i] \in DOMAIN array /\ p[q] \in DOMAIN array /\ m + 1 \in DOMAIN array
              /\ p[i] # m + 1 /\ p[q] # m + 1
              BY <5>2
        <5>4. sorted[i] = array[p[i]] /\ sorted[q] = array[p[q]]
              BY <3>3 DEF SortedAt
        <5>5. QED BY <3>3, <5>1, <5>2, <5>3, <5>4 DEF IsComparer, value
      <4>3. QED BY <3>3, <4>1, <4>2
    <3>6. q \in 0 .. m
          BY <3>3
    <3>7. QED BY <3>4, <3>5, <3>6
  <2>4. QED BY <2>2, <2>3
<1>4. new = InsertAt(sorted, 1 + q, value)
      BY DEF InsertedBy
<1> HIDE DEF q, before, value
<1>5. /\ new \in Seq(T) /\ Len(new) = m + 1
      /\ \A i \in 1 .. m + 1 :
            new[i] = IF i <= q THEN sorted[i] ELSE IF i = q + 1 THEN value ELSE sorted[i - 1]
  <2>1. PICK at \in 1 .. Len(sorted) + 1 : at = 1 + q
        BY <1>1, <1>3
  <2>2. /\ InsertAt(sorted, at, value) \in Seq(T)
        /\ Len(InsertAt(sorted, at, value)) = Len(sorted) + 1
        /\ \A i \in 1 .. Len(sorted) + 1 :
              InsertAt(sorted, at, value)[i] =
                 IF i < at THEN sorted[i] ELSE IF i = at THEN value ELSE sorted[i - 1]
    <3>1. PICK e \in T : e = value
          BY <1>2
    <3>2. sorted \in Seq(T) /\ at \in 1 .. Len(sorted) + 1
          BY <1>1, <2>1
    <3>3. InsertAt(sorted, at, e) \in Seq(T) /\ Len(InsertAt(sorted, at, e)) = Len(sorted) + 1
          BY <3>1, <3>2, InsertedAt
    <3>4. \A i \in 1 .. Len(sorted) + 1 :
             InsertAt(sorted, at, e)[i] = IF i < at THEN sorted[i] ELSE IF i = at THEN e ELSE sorted[i - 1]
          BY <3>1, <3>2, InsertedAt
    <3>5. QED BY <3>1, <3>3, <3>4
  <2>3. new = InsertAt(sorted, at, value)
        BY <1>4, <2>1
  <2>4. \A i \in 1 .. m + 1 : (i < at <=> i <= q) /\ (i = at <=> i = q + 1)
        BY <1>3, <2>1
  <2>5. QED BY <1>1, <2>2, <2>3, <2>4
<1> DEFINE r == [i \in 1 .. m + 1 |-> IF i <= q THEN p[i] ELSE IF i = q + 1 THEN m + 1 ELSE p[i - 1]]
<1>6. \A i \in 1 .. m + 1 :
          \/ i <= q /\ i \in 1 .. m /\ r[i] = p[i] /\ new[i] = sorted[i]
          \/ i = q + 1 /\ r[i] = m + 1 /\ new[i] = value
          \/ i > q + 1 /\ i - 1 \in 1 .. m /\ i - 1 > q /\ r[i] = p[i - 1] /\ new[i] = sorted[i - 1]
  <2> SUFFICES ASSUME NEW i \in 1 .. m + 1
               PROVE  \/ i <= q /\ i \in 1 .. m /\ r[i] = p[i] /\ new[i] = sorted[i]
                      \/ i = q + 1 /\ r[i] = m + 1 /\ new[i] = value
                      \/ i > q + 1 /\ i - 1 \in 1 .. m /\ i - 1 > q /\ r[i] = p[i - 1] /\ new[i] = sorted[i - 1]
      OBVIOUS
  <2>1. CASE i <= q
        BY <1>3, <1>5, <2>1
  <2>2. CASE i = q + 1
        BY <1>3, <1>5, <2>2
  <2>3. CASE i > q + 1
        BY <1>3, <1>5, <2>3
  <2>4. QED BY <1>3, <2>1, <2>2, <2>3
<1>7. \A i \in 1 .. m : p[i] \in 1 .. m
      BY DEF SortedAt
<1>8. r \in [1 .. m + 1 -> 1 .. m + 1]
  <2>1. \A i \in 1 .. m + 1 : r[i] \in 1 .. m + 1
        BY <1>6, <1>7
  <2>2. QED BY <2>1
<1> HIDE DEF r
<1>9. \A i \in 1 .. m + 1 : new[i] = array[r[i]]
      BY <1>6 DEF SortedAt, value
<1>10. \A i, j \in 1 .. m + 1 : r[i] = r[j] => i = j
  <2> SUFFICES ASSUME NEW i \in 1 .. m + 1, NEW j \in 1 .. m + 1, i < j PROVE r[i] # r[j]
    <3>1. ASSUME \A i, j \in 1 .. m + 1 : i < j => r[i] # r[j]
          PROVE  \A i, j \in 1 .. m + 1 : r[i] = r[j] => i = j
      <4> SUFFICES ASSUME NEW i \in 1 .. m + 1, NEW j \in 1 .. m + 1, i # j PROVE r[i] # r[j]
          OBVIOUS
      <4>1. i < j \/ j < i
            OBVIOUS
      <4>2. QED BY <3>1, <4>1
    <3>2. QED BY <3>1
  <2>1. \A k, l \in 1 .. m : k # l => p[k] # p[l]
        BY DEF SortedAt
  <2>2. \A k \in 1 .. m : p[k] # m + 1
        BY <1>7
  <2>3. CASE i <= q
    <3> i \in 1 .. m /\ r[i] = p[i]
        BY <1>3, <1>6, <2>3
    <3>1. CASE j <= q
      <4>1. j \in 1 .. m /\ r[j] = p[j]
            BY <1>3, <1>6, <3>1
      <4>2. QED BY <2>1, <4>1
    <3>2. CASE j = q + 1
      <4>1. r[j] = m + 1
            BY <1>3, <1>6, <3>2
      <4>2. QED BY <2>2, <4>1
    <3>3. CASE j > q + 1
      <4>1. j - 1 \in 1 .. m /\ r[j] = p[j - 1] /\ j - 1 # i
            BY <1>3, <1>6, <2>3, <3>3
      <4>2. QED BY <2>1, <4>1
    <3>4. QED BY <1>3, <3>1, <3>2, <3>3
  <2>4. CASE i = q + 1
    <3>1. j > q + 1
          BY <2>4
    <3>2. QED BY <1>3, <1>6, <2>2, <2>4, <3>1
  <2>5. CASE i > q + 1
    <3>1. j > q + 1 /\ i - 1 # j - 1
          BY <1>3, <2>5
    <3>2. QED BY <1>3, <1>6, <2>1, <2>5, <3>1
  <2>6. QED BY <1>3, <2>3, <2>4, <2>5
<1>11. ASSUME NEW i \in 1 .. m + 1, NEW j \in 1 .. m + 1, i < j
       PROVE  /\ comparer[<<new[i], new[j]>>] <= 0
              /\ comparer[<<new[j], new[i]>>] <= 0 => r[i] < r[j]
  <2>1. CASE j <= q
    <3>1. i <= q
          BY <1>3, <1>11, <2>1
    <3>2. /\ i \in 1 .. m /\ r[i] = p[i] /\ new[i] = sorted[i]
          /\ j \in 1 .. m /\ r[j] = p[j] /\ new[j] = sorted[j]
          BY <1>3, <1>6, <2>1, <3>1
    <3>3. QED BY <1>11, <3>2 DEF SortedAt
  <2>2. CASE j = q + 1
    <3>1. i <= q
          BY <1>3, <1>11, <2>2
    <3>2. /\ i \in 1 .. m /\ r[i] = p[i] /\ new[i] = sorted[i]
          /\ r[j] = m + 1 /\ new[j] = value
          BY <1>3, <1>6, <2>2, <3>1
    <3>3. r[i] < r[j]
          BY <1>7, <3>2
    <3>4. QED BY <1>3, <3>1, <3>2, <3>3
  <2>3. CASE j > q + 1
    <3>1. PICK k \in 1 .. m : k = j - 1 /\ k > q /\ r[j] = p[k] /\ new[j] = sorted[k]
          BY <1>3, <1>6, <2>3
    <3>2. CASE i <= q
      <4>1. i \in 1 .. m /\ r[i] = p[i] /\ new[i] = sorted[i]
            BY <1>3, <1>6, <3>2
      <4>2. i < k
            BY <1>3, <3>1, <3>2
      <4>3. QED BY <3>1, <4>1, <4>2 DEF SortedAt
    <3>3. CASE i = q + 1
      <4>1. r[i] = m + 1 /\ new[i] = value
            BY <1>3, <1>6, <3>3
      <4>2. ~(comparer[<<sorted[k], value>>] <= 0)
            BY <1>3, <3>1
      <4>3. comparer[<<value, sorted[k]>>] <= 0
        <5>1. p[k] \in DOMAIN array /\ m + 1 \in DOMAIN array /\ p[k] # m + 1
              BY <1>7
        <5>2. sorted[k] = array[p[k]]
              BY DEF SortedAt
        <5>3. QED BY <4>2, <5>1, <5>2 DEF IsComparer, value
      <4>4. QED BY <3>1, <4>1, <4>2, <4>3
    <3>4. CASE i > q + 1
      <4>1. PICK l \in 1 .. m : l = i - 1 /\ r[i] = p[l] /\ new[i] = sorted[l]
            BY <1>3, <1>6, <3>4
      <4>2. l < k
            BY <1>11, <3>1, <4>1
      <4>3. QED BY <3>1, <4>1, <4>2 DEF SortedAt
    <3>5. QED BY <1>3, <3>2, <3>3, <3>4
  <2>4. QED BY <1>3, <2>1, <2>2, <2>3
<1>12. SortedAt(new, r, array, m + 1, T, comparer)
      BY <1>5, <1>8, <1>9, <1>10, <1>11 DEF SortedAt
<1>13. QED BY <1>12

\* sorts[s] is what becomes of an empty array when the values with the indices
\* in s, up to n, are inserted.
Sorts(sorts, array, comparer, n) ==
    sorts = [s \in SUBSET (1 .. n) |->
                IF s = {} THEN <<>>
                ELSE InsertedBy(sorts[s \ {Max(s)}], array[Max(s)], comparer)]

\* There is such a function.
LEMMA SortsExists ==
    ASSUME NEW array, NEW comparer, NEW n \in Nat
    PROVE  \E sorts : Sorts(sorts, array, comparer, n)
<1> DEFINE S == {m \in Nat : \E sorts : Sorts(sorts, array, comparer, m)}
<1>1. 0 \in S
  <2> DEFINE sorts == [s \in SUBSET (1 .. 0) |-> <<>>]
  <2>1. \A s \in SUBSET (1 .. 0) : s = {}
        OBVIOUS
  <2>2. Sorts(sorts, array, comparer, 0)
        BY <2>1 DEF Sorts
  <2>3. QED BY <2>2
<1>2. ASSUME NEW m \in Nat, m \in S PROVE m + 1 \in S
  <2>1. PICK sorts : Sorts(sorts, array, comparer, m)
        BY <1>2
  <2> DEFINE Value(s) == InsertedBy(sorts[s \ {m + 1}], array[m + 1], comparer)
             next == [s \in SUBSET (1 .. m + 1) |-> IF m + 1 \in s THEN Value(s) ELSE sorts[s]]
             Entry(s) == IF s = {} THEN <<>>
                         ELSE InsertedBy(next[s \ {Max(s)}], array[Max(s)], comparer)
  <2>2. \A s \in SUBSET (1 .. m) : s \in SUBSET (1 .. m + 1) /\ next[s] = sorts[s]
        OBVIOUS
  <2>3. ASSUME NEW s \in SUBSET (1 .. m + 1) PROVE next[s] = Entry(s)
    <3>1. CASE m + 1 \in s
      <4>1. Max(s) = m + 1
        <5>1. \A x \in s : x \in Int /\ x <= m + 1
              OBVIOUS
        <5>2. m + 1 \in Int
              OBVIOUS
        <5>3. QED BY <3>1, <5>1, <5>2, GreatestOf
      <4>2. s \ {m + 1} \in SUBSET (1 .. m)
            OBVIOUS
      <4>3. next[s] = Value(s) /\ next[s \ {m + 1}] = sorts[s \ {m + 1}]
            BY <2>2, <3>1, <4>2
      <4>4. s # {}
            BY <3>1
      <4> HIDE DEF next
      <4>5. QED BY <4>1, <4>3, <4>4
    <3>2. CASE m + 1 \notin s
      <4>1. s \in SUBSET (1 .. m) /\ next[s] = sorts[s]
            BY <2>2, <3>2
      <4>2. s \ {Max(s)} \in SUBSET (1 .. m) /\ next[s \ {Max(s)}] = sorts[s \ {Max(s)}]
            BY <2>2, <4>1
      <4>3. sorts[s] = IF s = {} THEN <<>>
                       ELSE InsertedBy(sorts[s \ {Max(s)}], array[Max(s)], comparer)
            BY <2>1, <4>1 DEF Sorts
      <4> HIDE DEF next
      <4>4. QED BY <4>1, <4>2, <4>3
    <3>3. QED BY <3>1, <3>2
  <2>4. next = [s \in SUBSET (1 .. m + 1) |-> next[s]]
        OBVIOUS
  <2> HIDE DEF next
  <2>5. next = [s \in SUBSET (1 .. m + 1) |-> Entry(s)]
        BY <2>3, <2>4
  <2>6. Sorts(next, array, comparer, m + 1)
        BY <2>5 DEF Sorts
  <2>7. QED BY <2>6
<1>3. QED BY <1>1, <1>2, Successors

\* What ArraySort folds is this function.
LEMMA ArraySorts ==
    ASSUME NEW array, NEW comparer, NEW n \in Nat, DOMAIN array = 1 .. n
    PROVE  \E sorts : Sorts(sorts, array, comparer, n) /\ ArraySort(array, comparer) = sorts[1 .. n]
<1>1. ArraySort(array, comparer) = (CHOOSE sorts : Sorts(sorts, array, comparer, n))[1 .. n]
      BY DEF ArraySort, FoldLeft, MapThenFoldSet, Sorts, InsertedBy
<1>2. QED BY <1>1, SortsExists

\* With a comparer that does not contradict itself, array.sort returns the
\* values of the array, each as often as it was there, in the order of the
\* comparer, and those that it does not tell apart in the order they had.
THEOREM SortIsStable ==
    ASSUME NEW T, NEW array \in Seq(T), NEW comparer, IsComparer(comparer, array)
    PROVE  \E p : SortedAt(ArraySort(array, comparer), p, array, Len(array), T, comparer)
<1> DEFINE n == Len(array)
<1>1. n \in Nat /\ DOMAIN array = 1 .. n /\ array \in [1 .. n -> T]
      OBVIOUS
<1>2. PICK sorts : Sorts(sorts, array, comparer, n) /\ ArraySort(array, comparer) = sorts[1 .. n]
      BY <1>1, ArraySorts
<1> HIDE DEF n
<1> DEFINE Good(m) == \E p : SortedAt(sorts[1 .. m], p, array, m, T, comparer)
           S == {m \in Nat : m <= n => Good(m)}
<1>3. 0 \in S
  <2>1. 1 .. 0 = {} /\ {} \in SUBSET (1 .. n)
        OBVIOUS
  <2>2. sorts[1 .. 0] = <<>>
        BY <1>2, <2>1 DEF Sorts
  <2>3. SortedAt(<<>>, [i \in 1 .. 0 |-> i], array, 0, T, comparer)
    <3>1. <<>> \in Seq(T) /\ Len(<<>>) = 0 /\ \A i \in 1 .. 0 : FALSE
          OBVIOUS
    <3>2. [i \in 1 .. 0 |-> i] \in [1 .. 0 -> 1 .. 0]
          OBVIOUS
    <3>3. QED BY <3>1, <3>2 DEF SortedAt
  <2>4. Good(0)
        BY <2>2, <2>3
  <2>5. QED BY <2>4
<1>4. ASSUME NEW m \in Nat, m \in S PROVE m + 1 \in S
  <2>1. SUFFICES ASSUME m + 1 <= n PROVE Good(m + 1)
        OBVIOUS
  <2>2. PICK p : SortedAt(sorts[1 .. m], p, array, m, T, comparer)
    <3>1. m <= n
          BY <1>1, <2>1
    <3> HIDE DEF Good
    <3>2. Good(m)
          BY <1>4, <3>1
    <3>3. QED BY <3>2 DEF Good
  <2>3. Max(1 .. m + 1) = m + 1
    <3>1. /\ m + 1 \in 1 .. m + 1 /\ m + 1 \in Int
          /\ \A x \in 1 .. m + 1 : x \in Int /\ x <= m + 1
          OBVIOUS
    <3>2. QED BY <3>1, GreatestOf
  <2>4. (1 .. m + 1) \ {m + 1} = 1 .. m
        BY OneLess
  <2>5. 1 .. m + 1 \in SUBSET (1 .. n) /\ 1 .. m + 1 # {}
    <3>1. \A i \in 1 .. m + 1 : i \in 1 .. n
          BY <1>1, <2>1
    <3>2. m + 1 \in 1 .. m + 1
          OBVIOUS
    <3>3. QED BY <3>1, <3>2
  <2>6. sorts[1 .. m + 1] = InsertedBy(sorts[1 .. m], array[m + 1], comparer)
    <3>1. sorts[1 .. m + 1] =
             InsertedBy(sorts[(1 .. m + 1) \ {Max(1 .. m + 1)}], array[Max(1 .. m + 1)], comparer)
          BY <1>2, <2>5 DEF Sorts
    <3>2. QED BY <2>3, <2>4, <3>1
  <2>7. PICK new : new = sorts[1 .. m + 1]
        OBVIOUS
  <2>8. \E r : SortedAt(new, r, array, m + 1, T, comparer)
    <3>1. new = InsertedBy(sorts[1 .. m], array[m + 1], comparer)
          BY <2>6, <2>7
    <3>2. QED BY <1>1, <2>1, <2>2, <3>1, SortInserts
  <2>9. QED BY <2>7, <2>8
<1>5. Good(n)
  <2>1. \A m \in Nat : m \in S
        BY <1>3, <1>4, Successors
  <2> HIDE DEF Good
  <2>2. QED BY <1>1, <2>1
<1>6. QED BY <1>2, <1>5 DEF n

-----------------------------------------------------------------------------
(* The hosts of a chart                                                    *)

\* SetToSeq lists each element of a finite set once.
LEMMA Listed ==
    ASSUME NEW S, IsFiniteSet(S)
    PROVE  /\ Cardinality(S) \in Nat
           /\ SetToSeq(S) \in [1 .. Cardinality(S) -> S]
           /\ \A i, j \in 1 .. Cardinality(S) : SetToSeq(S)[i] = SetToSeq(S)[j] => i = j
           /\ \A x \in S : \E i \in 1 .. Cardinality(S) : SetToSeq(S)[i] = x
<1> DEFINE n == Cardinality(S)
           I == {f \in [1 .. n -> S] : IsInjective(f)}
<1>1. n \in Nat /\ ExistsBijection(1 .. n, S)
      BY FS_CardinalityType
<1>2. \E f : f \in I
      BY <1>1 DEF ExistsBijection, Bijection, Injection
<1>3. PICK f : f = SetToSeq(S)
      OBVIOUS
<1>4. f = (CHOOSE g \in [1 .. n -> S] : IsInjective(g))
      BY <1>3 DEF SetToSeq
<1>5. f \in [1 .. n -> S] /\ IsInjective(f)
      BY <1>2, <1>4
<1>6. f \in Injection(1 .. n, S)
      BY <1>5 DEF Injection
<1>7. IsFiniteSet(1 .. n) /\ Cardinality(1 .. n) = n
      BY <1>1, FS_Interval
<1>8. f \in Surjection(1 .. n, S)
      BY <1>6, <1>7, FS_Injection
<1>9. \A x \in S : \E i \in 1 .. n : f[i] = x
      BY <1>8 DEF Surjection
<1>10. \A i, j \in 1 .. n : f[i] = f[j] => i = j
      BY <1>5 DEF IsInjective
<1>11. QED BY <1>1, <1>3, <1>5, <1>9, <1>10

\* An injection of an interval in itself leaves nothing out.
LEMMA Permuted ==
    ASSUME NEW n \in Nat, NEW p \in [1 .. n -> 1 .. n], \A i, j \in 1 .. n : p[i] = p[j] => i = j
    PROVE  \A k \in 1 .. n : \E i \in 1 .. n : p[i] = k
<1>1. p \in Injection(1 .. n, 1 .. n)
      BY DEF Injection, IsInjective
<1>2. IsFiniteSet(1 .. n)
      BY FS_Interval
<1>3. p \in Surjection(1 .. n, 1 .. n)
      BY <1>1, <1>2, FS_Injection
<1>4. QED BY <1>3 DEF Surjection

-----------------------------------------------------------------------------
\* What a page can be made for: hosts and their points.
IsChartData(d) ==
    /\ IsFiniteSet(DOMAIN d)
    /\ \A h \in DOMAIN d :
          /\ \E T : d[h] \in Seq(T)
          /\ \A k \in DOMAIN d[h] : d[h][k].value \in Int

\* Every host has a point: drawing throws if one has none.
HasPoints(d) == \A h \in DOMAIN d : d[h] # <<>>

\* The value a host is ranked by is the one of its last point.
LEMMA LastValues ==
    ASSUME NEW d, IsChartData(d), HasPoints(d), NEW h \in DOMAIN d
    PROVE  LastValue(d[h]) \in Int
<1>1. PICK points : points = d[h]
      OBVIOUS
<1>2. PICK T : points \in Seq(T)
      BY <1>1 DEF IsChartData
<1>3. points # <<>> /\ \A k \in DOMAIN points : points[k].value \in Int
      BY <1>1 DEF IsChartData, HasPoints
<1>4. Len(points) \in Nat /\ Len(points) > 0 /\ DOMAIN points = 1 .. Len(points)
      BY <1>2, <1>3
<1>5. Len(points) - 1 \in 0 .. Len(points) - 1 /\ (Len(points) - 1) + 1 = Len(points)
      BY <1>4
<1>6. At(points, Len(points) - 1) = points[Len(points)]
      BY <1>5 DEF At
<1>7. QED BY <1>1, <1>3, <1>4, <1>6 DEF LastValue

\* sortNumber ranks the hosts by it.
LEMMA ByLastValue ==
    ASSUME NEW d, IsChartData(d), HasPoints(d)
    PROVE  /\ \A n \in Nat : \A hosts \in [1 .. n -> DOMAIN d] : IsComparer(sortNumber(d), hosts)
           /\ \A g, h \in DOMAIN d : sortNumber(d)[<<g, h>>] = LastValue(d[h]) - LastValue(d[g])
<1>1. \A h \in DOMAIN d : LastValue(d[h]) \in Int
      BY LastValues
<1> DEFINE LastOf(h) == LastValue(d[h])
<1>2. \A h \in DOMAIN d : LastOf(h) \in Int
      BY <1>1
<1>3. \A g, h \in DOMAIN d : sortNumber(d)[<<g, h>>] = LastOf(h) - LastOf(g)
      BY DEF sortNumber
<1> HIDE DEF LastOf
<1>4. ASSUME NEW n \in Nat, NEW hosts \in [1 .. n -> DOMAIN d]
      PROVE  IsComparer(sortNumber(d), hosts)
  <2>1. \A i \in 1 .. n : hosts[i] \in DOMAIN d
        OBVIOUS
  <2>2. \A i, j \in 1 .. n :
           sortNumber(d)[<<hosts[i], hosts[j]>>] <= 0 <=> LastOf(hosts[j]) <= LastOf(hosts[i])
        BY <1>2, <1>3, <2>1
  <2>3. DOMAIN hosts = 1 .. n /\ \A i \in 1 .. n : LastOf(hosts[i]) \in Int
        BY <1>2, <2>1
  <2>4. \A i, j \in 1 .. n :
           \/ sortNumber(d)[<<hosts[i], hosts[j]>>] <= 0
           \/ sortNumber(d)[<<hosts[j], hosts[i]>>] <= 0
        BY <2>2, <2>3
  <2>5. \A i, j, k \in 1 .. n :
           /\ sortNumber(d)[<<hosts[i], hosts[j]>>] <= 0
           /\ sortNumber(d)[<<hosts[j], hosts[k]>>] <= 0
           => sortNumber(d)[<<hosts[i], hosts[k]>>] <= 0
        BY <2>2, <2>3
  <2>6. QED BY <2>3, <2>4, <2>5 DEF IsComparer
<1>5. QED BY <1>3, <1>4 DEF LastOf

\* The hosts, those with the greatest last values first.
IsRanking(ranking, d) ==
    LET n == Cardinality(DOMAIN d)
    IN  /\ ranking \in [1 .. n -> DOMAIN d]
        /\ Len(ranking) = n
        /\ \A i, j \in 1 .. n : ranking[i] = ranking[j] => i = j
        /\ \A h \in DOMAIN d : \E i \in 1 .. n : ranking[i] = h
        /\ \A i, j \in 1 .. n : i < j => LastValue(d[ranking[i]]) >= LastValue(d[ranking[j]])

\* The sort in showTopN makes a ranking.
LEMMA Ranked ==
    ASSUME NEW d, IsChartData(d), HasPoints(d)
    PROVE  IsRanking(ArraySort(SetToSeq(DOMAIN d), sortNumber(d)), d)
<1> DEFINE D == DOMAIN d
           n == Cardinality(D)
<1>1. PICK hosts : hosts = SetToSeq(D)
      OBVIOUS
<1>2. IsFiniteSet(D)
      BY DEF IsChartData
<1>3. /\ n \in Nat /\ hosts \in [1 .. n -> D]
      /\ \A i, j \in 1 .. n : hosts[i] = hosts[j] => i = j
      /\ \A h \in D : \E i \in 1 .. n : hosts[i] = h
      BY <1>1, <1>2, Listed
<1> HIDE DEF n
<1>4. hosts \in Seq(D) /\ Len(hosts) = n
      BY <1>3
<1>5. IsComparer(sortNumber(d), hosts)
      BY <1>3, ByLastValue
<1>6. PICK ranking : ranking = ArraySort(hosts, sortNumber(d))
      OBVIOUS
<1>7. PICK p : SortedAt(ranking, p, hosts, n, D, sortNumber(d))
      BY <1>4, <1>5, <1>6, SortIsStable
<1>8. /\ ranking \in Seq(D) /\ Len(ranking) = n /\ p \in [1 .. n -> 1 .. n]
      /\ \A i \in 1 .. n : ranking[i] = hosts[p[i]]
      /\ \A i, j \in 1 .. n : p[i] = p[j] => i = j
      /\ \A i, j \in 1 .. n : i < j => sortNumber(d)[<<ranking[i], ranking[j]>>] <= 0
      BY <1>7 DEF SortedAt
<1>9. ranking \in [1 .. n -> D]
      BY <1>3, <1>8
<1>10. \A i, j \in 1 .. n : ranking[i] = ranking[j] => i = j
      BY <1>3, <1>8
<1>11. \A h \in D : \E i \in 1 .. n : ranking[i] = h
  <2>1. \A k \in 1 .. n : \E i \in 1 .. n : p[i] = k
    <3>1. n \in Nat /\ p \in [1 .. n -> 1 .. n] /\ \A i, j \in 1 .. n : p[i] = p[j] => i = j
          BY <1>3, <1>8
    <3>2. QED BY <3>1, Permuted
  <2>2. QED BY <1>3, <1>8, <2>1
<1>12. ASSUME NEW i \in 1 .. n, NEW j \in 1 .. n, i < j
       PROVE  LastValue(d[ranking[i]]) >= LastValue(d[ranking[j]])
  <2>1. ranking[i] \in D /\ ranking[j] \in D
        BY <1>9
  <2>2. sortNumber(d)[<<ranking[i], ranking[j]>>] = LastValue(d[ranking[j]]) - LastValue(d[ranking[i]])
        BY <2>1, ByLastValue
  <2>3. LastValue(d[ranking[i]]) \in Int /\ LastValue(d[ranking[j]]) \in Int
        BY <2>1, LastValues
  <2>4. sortNumber(d)[<<ranking[i], ranking[j]>>] <= 0
        BY <1>8, <1>12
  <2>5. QED BY <2>2, <2>3, <2>4
<1>13. IsRanking(ranking, d)
      BY <1>8, <1>9, <1>10, <1>11, <1>12 DEF IsRanking, n
<1>14. QED BY <1>1, <1>6, <1>13

\* Of the places of some hosts in the ranking.
LEMMA CountRanked ==
    ASSUME NEW d, IsFiniteSet(DOMAIN d), NEW ranking, IsRanking(ranking, d), NEW m \in Nat
    PROVE  /\ \A S \in SUBSET (DOMAIN d) :
                 (\A h \in S : \E i \in 1 .. m : i \in DOMAIN ranking /\ ranking[i] = h)
                 => Cardinality(S) <= m
           /\ \A S \in SUBSET (DOMAIN d) :
                 m <= Cardinality(DOMAIN d) /\ (\A i \in 1 .. m : ranking[i] \in S)
                 => Cardinality(S) >= m
<1> DEFINE D == DOMAIN d
           n == Cardinality(D)
<1>1. /\ n \in Nat /\ ranking \in [1 .. n -> D]
      /\ \A i, j \in 1 .. n : ranking[i] = ranking[j] => i = j
      BY FS_CardinalityType DEF IsRanking
<1> HIDE DEF n
<1>2. IsFiniteSet(1 .. m) /\ Cardinality(1 .. m) = m
      BY FS_Interval
<1>3. ASSUME NEW S \in SUBSET D,
             \A h \in S : \E i \in 1 .. m : i \in DOMAIN ranking /\ ranking[i] = h
      PROVE  Cardinality(S) <= m
  <2> DEFINE place == [h \in S |-> CHOOSE i \in 1 .. m : i \in DOMAIN ranking /\ ranking[i] = h]
  <2>1. \A h \in S : place[h] \in 1 .. m /\ ranking[place[h]] = h
        BY <1>3
  <2>2. place \in Injection(S, 1 .. m)
    <3>1. place \in [S -> 1 .. m]
          BY <2>1
    <3>2. \A g, h \in S : place[g] = place[h] => g = h
          BY <2>1
    <3> HIDE DEF place
    <3>3. QED BY <3>1, <3>2 DEF Injection, IsInjective
  <2>3. Cardinality(S) <= Cardinality(1 .. m)
        BY <1>2, <2>2, FS_Injection
  <2>4. QED BY <1>2, <2>3
<1>4. ASSUME NEW S \in SUBSET D, m <= n, \A i \in 1 .. m : ranking[i] \in S
      PROVE  Cardinality(S) >= m
  <2> DEFINE first == [i \in 1 .. m |-> ranking[i]]
  <2>1. first \in Injection(1 .. m, S)
    <3>1. first \in [1 .. m -> S]
          BY <1>4
    <3>2. \A i, j \in 1 .. m : first[i] = first[j] => i = j
      <4>1. \A i \in 1 .. m : i \in 1 .. n /\ first[i] = ranking[i]
            BY <1>1, <1>4
      <4> HIDE DEF first
      <4>2. QED BY <1>1, <4>1
    <3> HIDE DEF first
    <3>3. QED BY <3>1, <3>2 DEF Injection, IsInjective
  <2>2. IsFiniteSet(S) /\ Cardinality(S) \in Nat
        BY FS_Subset, FS_CardinalityType
  <2>3. Cardinality(1 .. m) <= Cardinality(S)
        BY <2>1, <2>2, FS_Injection
  <2>4. QED BY <1>2, <2>2, <2>3
<1>5. QED BY <1>3, <1>4 DEF n

\* The hosts that exceed one.
Above(d, h) == {g \in DOMAIN d : LastValue(d[g]) > LastValue(d[h])}

\* showTopN hides the hosts that at least n others exceed.
THEOREM TopNHides ==
    ASSUME NEW d, IsChartData(d), HasPoints(d), NEW n \in Nat \ {0}
    PROVE  DOMAIN showTopN(d, n) = {h \in DOMAIN d : Cardinality(Above(d, h)) < n}
<1> DEFINE D == DOMAIN d
           c == Cardinality(D)
<1>1. PICK ranking : ranking = ArraySort(SetToSeq(D), sortNumber(d))
      OBVIOUS
<1>2. IsRanking(ranking, d)
      BY <1>1, Ranked
<1>3. IsFiniteSet(D) /\ c \in Nat
      BY FS_CardinalityType DEF IsChartData
<1>4. /\ ranking \in [1 .. c -> D] /\ Len(ranking) = c
      /\ \A h \in D : \E i \in 1 .. c : ranking[i] = h
      /\ \A i, j \in 1 .. c : i < j => LastValue(d[ranking[i]]) >= LastValue(d[ranking[j]])
      BY <1>2 DEF IsRanking
<1>5. \A h \in D : LastValue(d[h]) \in Int
      BY LastValues
<1> DEFINE least == LastValue(d[ranking[n]])
           hidden == {h \in D : Len(ranking) >= n /\ LastValue(d[h]) < least}
<1>6. DOMAIN showTopN(d, n) = D \ hidden
      BY <1>1 DEF showTopN
<1>7. ASSUME NEW h \in D PROVE Cardinality(Above(d, h)) \in Nat /\ Above(d, h) \in SUBSET D
  <2>1. Above(d, h) \in SUBSET D
        BY DEF Above
  <2>2. QED BY <1>3, <2>1, FS_Subset, FS_CardinalityType
<1> HIDE DEF c
<1>8. ASSUME NEW h \in D, h \in hidden PROVE Cardinality(Above(d, h)) >= n
  <2>1. n <= c /\ n \in 1 .. c /\ LastValue(d[h]) < least
        BY <1>3, <1>4, <1>8
  <2>2. ASSUME NEW i \in 1 .. n PROVE ranking[i] \in Above(d, h)
    <3>1. i \in 1 .. c /\ (i < n \/ i = n)
          BY <1>3, <2>1
    <3>2. ranking[i] \in D /\ ranking[n] \in D
          BY <1>4, <2>1, <3>1
    <3>3. LastValue(d[ranking[i]]) \in Int /\ LastValue(d[h]) \in Int /\ least \in Int
          BY <1>5, <3>2
    <3>4. LastValue(d[ranking[i]]) >= least
          BY <1>4, <2>1, <3>1, <3>3
    <3>5. LastValue(d[ranking[i]]) > LastValue(d[h])
          BY <2>1, <3>3, <3>4
    <3>6. QED BY <3>2, <3>5 DEF Above
  <2>3. QED BY <1>2, <1>3, <1>7, <2>1, <2>2, CountRanked DEF c
<1>9. ASSUME NEW h \in D, h \notin hidden PROVE Cardinality(Above(d, h)) < n
  <2>1. CASE n > c
    <3>1. h \notin Above(d, h)
          BY <1>5 DEF Above
    <3>2. Cardinality(Above(d, h)) <= c
          BY <1>3, <1>7, FS_Subset DEF c
    <3>3. QED BY <1>3, <1>7, <2>1, <3>2
  <2>2. CASE n <= c
    <3>1. n \in 1 .. c /\ ranking[n] \in D /\ n - 1 \in Nat
          BY <1>3, <1>4, <2>2
    <3>2. LastValue(d[h]) >= least /\ LastValue(d[h]) \in Int /\ least \in Int
      <4>1. LastValue(d[h]) \in Int /\ least \in Int
            BY <1>5, <3>1
      <4>2. ~(LastValue(d[h]) < least)
            BY <1>3, <1>4, <1>9, <2>2
      <4>3. QED BY <4>1, <4>2
    <3>3. ASSUME NEW g \in Above(d, h)
          PROVE  \E i \in 1 .. n - 1 : i \in DOMAIN ranking /\ ranking[i] = g
      <4>1. g \in D /\ LastValue(d[g]) > LastValue(d[h])
            BY <3>3 DEF Above
      <4>2. PICK i \in 1 .. c : ranking[i] = g
            BY <1>4, <4>1
      <4>3. LastValue(d[ranking[i]]) \in Int /\ LastValue(d[ranking[i]]) > least
            BY <1>5, <3>2, <4>1, <4>2
      <4>4. ~(n < i) /\ n # i
        <5>1. ~(least >= LastValue(d[ranking[i]]))
              BY <3>2, <4>3
        <5>2. n # i
              BY <3>2, <4>3
        <5>3. QED BY <1>4, <3>1, <4>2, <5>1, <5>2
      <4>5. i \in 1 .. n - 1
            BY <1>3, <3>1, <4>2, <4>4
      <4>6. QED BY <1>4, <4>2, <4>5
    <3>4. Cardinality(Above(d, h)) <= n - 1
          BY <1>2, <1>3, <1>7, <3>1, <3>3, CountRanked
    <3>5. QED BY <1>7, <3>1, <3>4
  <2>3. QED BY <1>3, <2>1, <2>2
<1> HIDE DEF hidden
<1>10. ASSUME NEW h \in D PROVE h \in hidden <=> ~(Cardinality(Above(d, h)) < n)
  <2>1. h \in hidden => Cardinality(Above(d, h)) >= n
        BY <1>8
  <2>2. h \notin hidden => Cardinality(Above(d, h)) < n
        BY <1>9
  <2>3. QED BY <1>7, <2>1, <2>2
<1>11. QED BY <1>6, <1>10

-----------------------------------------------------------------------------
\* A page for any of the data D: the specification of the runs, which have
\* the data of the module.
ChartSpec(D) == (\E d \in D : ChartInit(d)) /\ [][ChartNext]_chartVars

\* What there is of a chart is what Draw makes of the data.
ChartInvariant(D) ==
    /\ data \in D
    /\ page = "opening" => chart = Undefined
    /\ chart # Undefined => HasPoints(data) /\ chart \in Draw(data)

\* The invariant is inductive.
LEMMA ChartInvariance ==
    ASSUME NEW D
    PROVE  ChartSpec(D) => []ChartInvariant(D)
<1>1. (\E d \in D : ChartInit(d)) => ChartInvariant(D)
      BY DEF ChartInit, ChartInvariant
<1>2. ChartInvariant(D) /\ [ChartNext]_chartVars => ChartInvariant(D)'
  <2> SUFFICES ASSUME ChartInvariant(D), [ChartNext]_chartVars PROVE ChartInvariant(D)'
      OBVIOUS
  <2>1. CASE PageOpened
    <3>1. /\ data' = data /\ page' = "open"
          /\ chart' = Undefined \/ (HasPoints(data) /\ chart' \in Draw(data))
          BY <2>1 DEF PageOpened, Charts, HasPoints
    <3>2. QED BY <3>1 DEF ChartInvariant
  <2>2. CASE PageFailed
        BY <2>2 DEF PageFailed, ChartInvariant
  <2>3. CASE Posted
        BY <2>3 DEF Posted, ChartInvariant
  <2>4. CASE Exit
        BY <2>4 DEF Exit, ChartInvariant
  <2>5. CASE UNCHANGED chartVars
        BY <2>5 DEF chartVars, ChartInvariant
  <2>6. QED BY <2>1, <2>2, <2>3, <2>4, <2>5 DEF ChartNext
<1>3. QED BY <1>1, <1>2, PTL DEF ChartSpec

\* Whatever the hosts and their points, the chart shows those hosts that fewer
\* than TopN exceed.
THEOREM TopHosts ==
    ASSUME NEW D, \A d \in D : IsChartData(d)
    PROVE  ChartSpec(D) => []TopHostsShown
<1>1. ChartInvariant(D) => TopHostsShown
  <2> SUFFICES ASSUME ChartInvariant(D), chart # Undefined
               PROVE  LET shown == DOMAIN chart.series
                          hidden == DOMAIN data \ shown
                      IN  /\ \A h \in shown : Cardinality(Above(data, h)) < TopN
                          /\ \A h \in hidden : Cardinality(Above(data, h)) >= TopN
      BY DEF TopHostsShown, Above
  <2>1. IsChartData(data) /\ HasPoints(data) /\ chart \in Draw(data)
        BY DEF ChartInvariant
  <2>2. DOMAIN chart.series = DOMAIN showTopN(data, TopN)
        BY <2>1 DEF Draw
  <2>3. DOMAIN showTopN(data, TopN) = {h \in DOMAIN data : Cardinality(Above(data, h)) < TopN}
        BY <2>1, TopNAssumption, TopNHides
  <2>4. \A h \in DOMAIN data : Cardinality(Above(data, h)) \in Nat
    <3> SUFFICES ASSUME NEW h \in DOMAIN data PROVE Cardinality(Above(data, h)) \in Nat
        OBVIOUS
    <3>1. Above(data, h) \in SUBSET (DOMAIN data) /\ IsFiniteSet(DOMAIN data)
          BY <2>1 DEF Above, IsChartData
    <3>2. QED BY <3>1, FS_Subset, FS_CardinalityType
  <2>5. QED BY <2>2, <2>3, <2>4, TopNAssumption
<1>2. QED BY <1>1, ChartInvariance, PTL

-----------------------------------------------------------------------------
(* What folds make                                                         *)

\* The function that a fold goes by: folded[s] is what the steps with the
\* indices in s, up to n, make of base.
IsFold(folded, T, base, step, n) ==
    /\ folded \in [SUBSET (1 .. n) -> T]
    /\ \A s \in SUBSET (1 .. n) :
          folded[s] = IF s = {} THEN base ELSE step[Max(s)][folded[s \ {Max(s)}]]

\* There is such a function, if each step stays among the values of T.
LEMMA FoldExists ==
    ASSUME NEW T, NEW base \in T, NEW n \in Nat, NEW step \in [1 .. n -> [T -> T]]
    PROVE  \E folded : IsFold(folded, T, base, step, n)
<1> DEFINE Entry(folded, s) == IF s = {} THEN base ELSE step[Max(s)][folded[s \ {Max(s)}]]
           Good(m) == \E folded : IsFold(folded, T, base, step, m)
           S == {m \in Nat : m <= n => Good(m)}
<1>1. 0 \in S
  <2> DEFINE folded == [s \in SUBSET (1 .. 0) |-> base]
  <2>1. \A s \in SUBSET (1 .. 0) : s = {}
        OBVIOUS
  <2>2. folded \in [SUBSET (1 .. 0) -> T] /\ \A s \in SUBSET (1 .. 0) : folded[s] = Entry(folded, s)
        BY <2>1
  <2>3. Good(0)
        BY <2>2 DEF IsFold
  <2>4. QED BY <2>3
<1>2. ASSUME NEW m \in Nat, m \in S PROVE m + 1 \in S
  <2>1. SUFFICES ASSUME m + 1 <= n PROVE Good(m + 1)
        OBVIOUS
  <2>2. PICK folded : /\ folded \in [SUBSET (1 .. m) -> T]
                      /\ \A s \in SUBSET (1 .. m) : folded[s] = Entry(folded, s)
    <3>1. m <= n
          BY <2>1
    <3> HIDE DEF Good
    <3>2. Good(m)
          BY <1>2, <3>1
    <3>3. QED BY <3>2 DEF Good, IsFold
  <2> DEFINE Value(s) == step[m + 1][folded[s \ {m + 1}]]
             next == [s \in SUBSET (1 .. m + 1) |-> IF m + 1 \in s THEN Value(s) ELSE folded[s]]
  <2>3. \A s \in SUBSET (1 .. m) : s \in SUBSET (1 .. m + 1) /\ next[s] = folded[s] /\ folded[s] \in T
        BY <2>2
  <2>4. \A s \in SUBSET (1 .. m + 1) : s \ {m + 1} \in SUBSET (1 .. m)
        OBVIOUS
  <2>5. m + 1 \in 1 .. n /\ step[m + 1] \in [T -> T]
        BY <2>1
  <2>6. next \in [SUBSET (1 .. m + 1) -> T]
    <3>1. ASSUME NEW s \in SUBSET (1 .. m + 1) PROVE next[s] \in T
      <4>1. folded[s \ {m + 1}] \in T
            BY <2>3, <2>4
      <4>2. Value(s) \in T
            BY <2>5, <4>1
      <4>3. CASE m + 1 \in s
            BY <4>2, <4>3
      <4>4. CASE m + 1 \notin s
        <5>1. s \in SUBSET (1 .. m)
              BY <4>4
        <5>2. QED BY <2>3, <5>1
      <4>5. QED BY <4>3, <4>4
    <3>2. QED BY <3>1
  <2>7. ASSUME NEW s \in SUBSET (1 .. m + 1) PROVE next[s] = Entry(next, s)
    <3>1. CASE m + 1 \in s
      <4>1. Max(s) = m + 1
        <5>1. \A x \in s : x \in Int /\ x <= m + 1
              OBVIOUS
        <5>2. m + 1 \in Int
              OBVIOUS
        <5>3. QED BY <3>1, <5>1, <5>2, GreatestOf
      <4>2. next[s] = Value(s) /\ next[s \ {m + 1}] = folded[s \ {m + 1}]
            BY <2>3, <2>4, <3>1
      <4>3. s # {}
            BY <3>1
      <4> HIDE DEF next
      <4>4. QED BY <4>1, <4>2, <4>3
    <3>2. CASE m + 1 \notin s
      <4>1. s \in SUBSET (1 .. m) /\ next[s] = folded[s]
            BY <2>3, <3>2
      <4>2. s \ {Max(s)} \in SUBSET (1 .. m) /\ next[s \ {Max(s)}] = folded[s \ {Max(s)}]
            BY <2>3, <4>1
      <4>3. folded[s] = Entry(folded, s)
            BY <2>2, <4>1
      <4> HIDE DEF next
      <4>4. QED BY <4>1, <4>2, <4>3
    <3>3. QED BY <3>1, <3>2
  <2> HIDE DEF next
  <2>8. IsFold(next, T, base, step, m + 1)
        BY <2>6, <2>7 DEF IsFold
  <2>9. QED BY <2>8
<1>3. Good(n)
  <2>1. \A m \in Nat : m \in S
        BY <1>1, <1>2, Successors
  <2> HIDE DEF Good
  <2>2. QED BY <2>1
<1>4. QED BY <1>3

\* Its last step.
LEMMA FoldStep ==
    ASSUME NEW n \in Nat, NEW m \in Nat, m + 1 <= n
    PROVE  /\ 1 .. m + 1 \in SUBSET (1 .. n) /\ 1 .. m + 1 # {}
           /\ Max(1 .. m + 1) = m + 1
           /\ (1 .. m + 1) \ {m + 1} = 1 .. m
<1>1. /\ m + 1 \in 1 .. m + 1 /\ m + 1 \in Int
      /\ \A x \in 1 .. m + 1 : x \in Int /\ x <= m + 1
      OBVIOUS
<1>2. Max(1 .. m + 1) = m + 1
      BY <1>1, GreatestOf
<1>3. \A x \in 1 .. m + 1 : x \in 1 .. n
      OBVIOUS
<1>4. QED BY <1>1, <1>2, <1>3, OneLess

-----------------------------------------------------------------------------
(* Uniq                                                                    *)

\* One round of createSet.
Grown(set, value) == IF value \in ToSet(set) THEN set ELSE Append(set, value)

\* seen[m] has the different ones of the first m values.
Seens(seen, array, V) ==
    /\ seen \in [0 .. Len(array) -> Seq(V)]
    /\ seen[0] = <<>>
    /\ \A m \in 0 .. Len(array) - 1 : seen[m + 1] = Grown(seen[m], array[m + 1])

\* The function that createSet goes by.
SetFold(folded, array, n) ==
    folded = [s \in SUBSET (1 .. n) |->
                IF s = {} THEN <<>> ELSE Grown(folded[s \ {Max(s)}], array[Max(s)])]

\* There is such a function.
LEMMA SetFoldExists ==
    ASSUME NEW V, NEW n \in Nat, NEW array \in [1 .. n -> V]
    PROVE  \E folded : SetFold(folded, array, n)
<1> DEFINE T == Seq(V)
           step == [k \in 1 .. n |-> [set \in T |-> Grown(set, array[k])]]
<1>1. step \in [1 .. n -> [T -> T]]
  <2>1. ASSUME NEW k \in 1 .. n, NEW set \in T PROVE Grown(set, array[k]) \in T
    <3>1. array[k] \in V
          OBVIOUS
    <3>2. QED BY <3>1 DEF Grown
  <2>2. QED BY <2>1
<1>2. <<>> \in T
      OBVIOUS
<1>3. \A k \in 1 .. n : \A set \in T : step[k][set] = Grown(set, array[k])
      OBVIOUS
<1> HIDE DEF T, step
<1>4. PICK folded : /\ folded \in [SUBSET (1 .. n) -> T]
                    /\ \A s \in SUBSET (1 .. n) :
                          folded[s] = IF s = {} THEN <<>> ELSE step[Max(s)][folded[s \ {Max(s)}]]
  <2>1. \E folded : IsFold(folded, T, <<>>, step, n)
        BY <1>1, <1>2, FoldExists
  <2>2. QED BY <2>1 DEF IsFold
<1>5. ASSUME NEW s \in SUBSET (1 .. n)
      PROVE  folded[s] = IF s = {} THEN <<>> ELSE Grown(folded[s \ {Max(s)}], array[Max(s)])
  <2>1. CASE s = {}
        BY <1>4, <2>1
  <2>2. CASE s # {}
    <3>1. s \subseteq 0 .. n
          OBVIOUS
    <3>2. Max(s) \in s
          BY <2>2, <3>1, GreatestIn
    <3>3. Max(s) \in 1 .. n /\ folded[s \ {Max(s)}] \in T
          BY <1>4, <3>2
    <3>4. QED BY <1>3, <1>4, <2>2, <3>3
  <2>3. QED BY <2>1, <2>2
<1>6. folded = [s \in SUBSET (1 .. n) |-> folded[s]]
      BY <1>4
<1>7. SetFold(folded, array, n)
      BY <1>5, <1>6 DEF SetFold
<1>8. QED BY <1>7

\* createSet has the values of the last round.
LEMMA CreatesSet ==
    ASSUME NEW V, NEW array \in Seq(V)
    PROVE  \E seen : Seens(seen, array, V) /\ createSet(array) = seen[Len(array)]
<1> DEFINE n == Len(array)
<1>1. n \in Nat /\ DOMAIN array = 1 .. n /\ array \in [1 .. n -> V]
      OBVIOUS
<1>2. createSet(array) = (CHOOSE folded : SetFold(folded, array, n))[1 .. n]
      BY <1>1 DEF createSet, FoldLeft, MapThenFoldSet, SetFold, Grown
<1> HIDE DEF n
<1>3. PICK folded : SetFold(folded, array, n) /\ createSet(array) = folded[1 .. n]
      BY <1>1, <1>2, SetFoldExists
<1> DEFINE seen == [m \in 0 .. n |-> folded[1 .. m]]
<1>4. seen[0] = <<>>
  <2>1. 1 .. 0 = {} /\ {} \in SUBSET (1 .. n) /\ 0 \in 0 .. n
        BY <1>1
  <2>2. QED BY <1>3, <2>1 DEF SetFold
<1>5. ASSUME NEW m \in 0 .. n - 1 PROVE seen[m + 1] = Grown(seen[m], array[m + 1])
  <2>1. m \in Nat /\ m + 1 <= n /\ m \in 0 .. n /\ m + 1 \in 0 .. n
        BY <1>1
  <2>2. /\ 1 .. m + 1 \in SUBSET (1 .. n) /\ 1 .. m + 1 # {}
        /\ Max(1 .. m + 1) = m + 1 /\ (1 .. m + 1) \ {m + 1} = 1 .. m
        BY <1>1, <2>1, FoldStep
  <2>3. folded[1 .. m + 1] =
           Grown(folded[(1 .. m + 1) \ {Max(1 .. m + 1)}], array[Max(1 .. m + 1)])
        BY <1>3, <2>2 DEF SetFold
  <2>4. QED BY <2>1, <2>2, <2>3
<1>6. seen[n] = folded[1 .. n] /\ seen = [m \in 0 .. n |-> seen[m]]
      BY <1>1
<1> HIDE DEF seen
<1>7. \A m \in 0 .. n : seen[m] \in Seq(V)
  <2> DEFINE S == {m \in Nat : m <= n => seen[m] \in Seq(V)}
  <2>1. 0 \in S
    <3>1. <<>> \in Seq(V)
          OBVIOUS
    <3>2. QED BY <1>4, <3>1
  <2>2. ASSUME NEW m \in Nat, m \in S PROVE m + 1 \in S
    <3>1. SUFFICES ASSUME m + 1 <= n PROVE seen[m + 1] \in Seq(V)
          OBVIOUS
    <3>2. seen[m] \in Seq(V) /\ m \in 0 .. n - 1 /\ array[m + 1] \in V
          BY <1>1, <2>2, <3>1
    <3>3. seen[m + 1] = seen[m] \/ seen[m + 1] = Append(seen[m], array[m + 1])
          BY <1>5, <3>2 DEF Grown
    <3>4. Append(seen[m], array[m + 1]) \in Seq(V)
          BY <3>2
    <3>5. QED BY <3>2, <3>3, <3>4
  <2>3. Nat \subseteq S
        BY <2>1, <2>2, Successors
  <2>4. QED BY <1>1, <2>3
<1>8. Seens(seen, array, V)
      BY <1>4, <1>5, <1>6, <1>7 DEF Seens, n
<1>9. QED BY <1>3, <1>6, <1>8 DEF n

\* The least of some numbers.
LEMMA LeastIn ==
    ASSUME NEW S, S \subseteq Nat, S # {}
    PROVE  Min(S) \in S /\ \A y \in S : Min(S) <= y
<1>1. PICK m \in S : \A k \in Nat : k < m => k \notin S
      BY Least
<1>2. \A y \in S : m <= y
      BY <1>1
<1>3. QED BY <1>1, <1>2 DEF Min

\* The loops that compare with === find NaN as well.
LEMMA InCommonIsIn ==
    ASSUME NEW V, NEW array \in Seq(V), NEW computed
    PROVE  InCommon(array, computed) <=> computed \in ToSet(array)
<1>1. Len(array) \in Nat /\ DOMAIN array = 1 .. Len(array)
      OBVIOUS
<1>2. CASE computed # NaN
      BY <1>2 DEF InCommon, StrictEq, baseIsNaN, ToSet
<1>3. CASE computed = NaN
  <2> DEFINE found == {i \in Indices(array) : AreNaN(array)[At(array, i)]}
             from == {i \in found : i >= 0}
  <2>1. InCommon(array, computed) <=> LeastOr(from, -1) > -1
        BY <1>3 DEF InCommon, baseIsNaN, arrayIncludes, baseIndexOf, baseFindIndex
  <2>2. \A i \in 0 .. Len(array) - 1 :
           i + 1 \in DOMAIN array /\ At(array, i) = array[i + 1]
        BY <1>1 DEF At
  <2>3. \A i \in 0 .. Len(array) - 1 : AreNaN(array)[At(array, i)] <=> array[i + 1] = NaN
        BY <2>2 DEF AreNaN, ToSet, baseIsNaN
  <2>4. from = {i \in 0 .. Len(array) - 1 : array[i + 1] = NaN}
        BY <1>1, <2>3 DEF Indices
  <2> HIDE DEF from
  <2>5. LeastOr(from, -1) > -1 <=> from # {}
    <3>1. CASE from = {}
          BY <3>1 DEF LeastOr
    <3>2. CASE from # {}
      <4>1. from \subseteq Nat
            BY <1>1, <2>4
      <4>2. Min(from) \in Nat
            BY <3>2, <4>1, LeastIn
      <4>3. QED BY <3>2, <4>2 DEF LeastOr
    <3>3. QED BY <3>1, <3>2
  <2>6. from # {} <=> \E j \in DOMAIN array : array[j] = NaN
    <3>1. ASSUME NEW j \in DOMAIN array, array[j] = NaN PROVE from # {}
      <4>1. j - 1 \in 0 .. Len(array) - 1 /\ (j - 1) + 1 = j
            BY <1>1
      <4>2. j - 1 \in from
            BY <2>4, <3>1, <4>1
      <4>3. QED BY <4>2
    <3>2. ASSUME NEW i \in from PROVE \E j \in DOMAIN array : array[j] = NaN
          BY <2>2, <2>4
    <3>3. QED BY <3>1, <3>2
  <2>7. QED BY <1>3, <2>1, <2>5, <2>6 DEF ToSet
<1>4. QED BY <1>2, <1>3

\* One round of the loop of baseUniq.
UniqAdd(acc, value, iteratee, comparator, large) ==
    LET computed == Computed(iteratee, value)
    IN  IF IF comparator # Undefined THEN arrayIncludesWith(acc.seen, computed, comparator)
           ELSE IF large THEN cacheHas(SetCache(acc.seen), computed)
           ELSE InCommon(acc.seen, computed)
        THEN acc
        ELSE [seen |-> Append(acc.seen, computed), result |-> Append(acc.result, value)]

\* The function that the loop of baseUniq goes by.
UniqFold(folded, array, n, iteratee, comparator) ==
    folded = [s \in SUBSET (1 .. n) |->
                IF s = {} THEN [seen |-> <<>>, result |-> <<>>]
                ELSE UniqAdd(folded[s \ {Max(s)}], array[Max(s)], iteratee, comparator,
                             comparator = Undefined /\ Len(array) >= LARGE_ARRAY_SIZE)]

\* Of an array, what was seen is what is returned.
LEMMA UniqAdds ==
    ASSUME NEW V, NEW set \in Seq(V), NEW value \in V, NEW large \in BOOLEAN
    PROVE  UniqAdd([seen |-> set, result |-> set], value, Undefined, Undefined, large) =
              [seen |-> Grown(set, value), result |-> Grown(set, value)]
<1>1. Computed(Undefined, value) = value
      BY DEF Computed
<1>2. InCommon(set, value) <=> value \in ToSet(set)
      BY InCommonIsIn
<1>3. cacheHas(SetCache(set), value) <=> value \in ToSet(set)
      BY DEF cacheHas, SetCache
<1> DEFINE acc == [seen |-> set, result |-> set]
<1>4. acc.seen = set /\ acc.result = set
      OBVIOUS
<1>5. UniqAdd(acc, value, Undefined, Undefined, large) =
         IF value \in ToSet(set) THEN acc
         ELSE [seen |-> Append(set, value), result |-> Append(set, value)]
      BY <1>1, <1>2, <1>3, <1>4 DEF UniqAdd
<1>6. QED BY <1>5 DEF Grown

\* There is such a function.
LEMMA UniqFoldExists ==
    ASSUME NEW V, NEW array \in Seq(V)
    PROVE  \E folded : UniqFold(folded, array, Len(array), Undefined, Undefined)
<1> DEFINE n == Len(array)
           large == Undefined = Undefined /\ Len(array) >= LARGE_ARRAY_SIZE
           Add(acc, value) == UniqAdd(acc, value, Undefined, Undefined, large)
           T == {[seen |-> set, result |-> set] : set \in Seq(V)}
           base == [seen |-> <<>>, result |-> <<>>]
           step == [k \in 1 .. n |-> [acc \in T |-> Add(acc, array[k])]]
<1>1. n \in Nat /\ DOMAIN array = 1 .. n /\ \A k \in 1 .. n : array[k] \in V
      OBVIOUS
<1>2. base \in T
  <2>1. <<>> \in Seq(V)
        OBVIOUS
  <2>2. QED BY <2>1
<1>3. ASSUME NEW acc \in T, NEW k \in 1 .. n PROVE Add(acc, array[k]) \in T
  <2>1. PICK set \in Seq(V) : acc = [seen |-> set, result |-> set]
        OBVIOUS
  <2>2. large \in BOOLEAN /\ array[k] \in V
        BY <1>1
  <2> HIDE DEF large
  <2>3. Add(acc, array[k]) = [seen |-> Grown(set, array[k]), result |-> Grown(set, array[k])]
        BY <2>1, <2>2, UniqAdds
  <2>4. Grown(set, array[k]) \in Seq(V)
        BY <2>2 DEF Grown
  <2>5. QED BY <2>3, <2>4
<1> HIDE DEF Add, n, T, base
<1>4. step \in [1 .. n -> [T -> T]]
      BY <1>3
<1>5. \A k \in 1 .. n : \A acc \in T : step[k][acc] = Add(acc, array[k])
      OBVIOUS
<1> HIDE DEF step
<1>6. PICK folded : /\ folded \in [SUBSET (1 .. n) -> T]
                    /\ \A s \in SUBSET (1 .. n) :
                          folded[s] = IF s = {} THEN base ELSE step[Max(s)][folded[s \ {Max(s)}]]
  <2>1. \E folded : IsFold(folded, T, base, step, n)
        BY <1>1, <1>2, <1>4, FoldExists
  <2>2. QED BY <2>1 DEF IsFold
<1>7. ASSUME NEW s \in SUBSET (1 .. n)
      PROVE  folded[s] = IF s = {} THEN base ELSE Add(folded[s \ {Max(s)}], array[Max(s)])
  <2>1. CASE s = {}
        BY <1>6, <2>1
  <2>2. CASE s # {}
    <3>1. s \subseteq 0 .. n
          BY <1>1
    <3>2. Max(s) \in s
          BY <1>1, <2>2, <3>1, GreatestIn
    <3>3. Max(s) \in 1 .. n /\ folded[s \ {Max(s)}] \in T
          BY <1>6, <3>2
    <3>4. QED BY <1>5, <1>6, <2>2, <3>3
  <2>3. QED BY <2>1, <2>2
<1>8. folded = [s \in SUBSET (1 .. n) |-> folded[s]]
      BY <1>6
<1>9. folded = [s \in SUBSET (1 .. n) |->
                   IF s = {} THEN base ELSE Add(folded[s \ {Max(s)}], array[Max(s)])]
      BY <1>7, <1>8
<1>10. UniqFold(folded, array, n, Undefined, Undefined)
      BY <1>9 DEF UniqFold, Add, base
<1>11. QED BY <1>10 DEF n

\* uniq returns the same for short and for long arrays: the values in the order
\* they are first seen.
THEOREM UniqOnEitherPath ==
    ASSUME NEW V, NEW array \in Seq(V)
    PROVE  uniq(array) = createSet(array)
<1> DEFINE n == Len(array)
           large == Undefined = Undefined /\ Len(array) >= LARGE_ARRAY_SIZE
<1>1. n \in Nat /\ DOMAIN array = 1 .. n /\ \A k \in 1 .. n : array[k] \in V
      OBVIOUS
<1>2. CASE Len(array) >= LARGE_ARRAY_SIZE
  <2>1. large
        BY <1>2
  <2>2. uniq(array) = baseUniq(array, Undefined, Undefined)
        BY Zenon DEF uniq
  <2>3. QED BY <2>1, <2>2, Zenon DEF baseUniq, setToArray
<1>3. CASE ~(Len(array) >= LARGE_ARRAY_SIZE)
  <2>1. uniq(array) = (CHOOSE folded : UniqFold(folded, array, n, Undefined, Undefined))[1 .. n].result
        BY <1>1, <1>3 DEF uniq, baseUniq, FoldLeft, MapThenFoldSet, UniqFold, UniqAdd
  <2>2. PICK folded : /\ UniqFold(folded, array, n, Undefined, Undefined)
                      /\ uniq(array) = folded[1 .. n].result
        BY <2>1, UniqFoldExists
  <2>3. PICK seen : Seens(seen, array, V) /\ createSet(array) = seen[n]
        BY CreatesSet
  <2> DEFINE Good(m) == folded[1 .. m] = [seen |-> seen[m], result |-> seen[m]]
             S == {m \in Nat : m <= n => Good(m)}
  <2> HIDE DEF n
  <2>4. 0 \in S
    <3>1. 1 .. 0 = {} /\ {} \in SUBSET (1 .. n)
          OBVIOUS
    <3>2. folded[1 .. 0] = [seen |-> <<>>, result |-> <<>>]
          BY <2>2, <3>1 DEF UniqFold
    <3>3. seen[0] = <<>>
          BY <2>3 DEF Seens
    <3>4. QED BY <3>2, <3>3
  <2>5. ASSUME NEW m \in Nat, m \in S PROVE m + 1 \in S
    <3>1. SUFFICES ASSUME m + 1 <= n PROVE Good(m + 1)
          OBVIOUS
    <3>2. Good(m) /\ m \in 0 .. n - 1 /\ m \in 0 .. n /\ array[m + 1] \in V
          BY <1>1, <2>5, <3>1
    <3>3. /\ 1 .. m + 1 \in SUBSET (1 .. n) /\ 1 .. m + 1 # {}
          /\ Max(1 .. m + 1) = m + 1 /\ (1 .. m + 1) \ {m + 1} = 1 .. m
          BY <1>1, <3>1, FoldStep
    <3>4. folded[1 .. m + 1] =
             UniqAdd(folded[(1 .. m + 1) \ {Max(1 .. m + 1)}], array[Max(1 .. m + 1)],
                     Undefined, Undefined, large)
          BY <2>2, <3>3 DEF UniqFold
    <3>5. folded[1 .. m + 1] =
             UniqAdd([seen |-> seen[m], result |-> seen[m]], array[m + 1], Undefined, Undefined, large)
          BY <3>2, <3>3, <3>4
    <3>6. seen[m] \in Seq(V) /\ seen[m + 1] = Grown(seen[m], array[m + 1])
          BY <2>3, <3>2 DEF Seens, n
    <3>7. large \in BOOLEAN
          OBVIOUS
    <3> HIDE DEF large
    <3>8. QED BY <3>2, <3>5, <3>6, <3>7, UniqAdds
  <2>6. Good(n)
    <3>1. \A m \in Nat : m \in S
          BY <2>4, <2>5, Successors
    <3> HIDE DEF Good
    <3>2. QED BY <1>1, <3>1
  <2>7. QED BY <2>2, <2>3, <2>6 DEF n
<1>4. QED BY <1>2, <1>3

\* No value occurs twice in w.
Distinct(w) == \A i, j \in DOMAIN w : w[i] = w[j] => i = j

\* set has the first k values of w.
IsFront(set, w, k) == Len(set) = k /\ \A i \in 1 .. k : set[i] = w[i]

\* An array each of whose values is the next one of w or one of those before
\* has, if it gets to the end, the values of w.
LEMMA UniqOf ==
    ASSUME NEW V, NEW w \in Seq(V), Distinct(w), NEW array \in Seq(V),
           NEW l \in [0 .. Len(array) -> 0 .. Len(w)], l[0] = 0, l[Len(array)] = Len(w),
           \A m \in 0 .. Len(array) - 1 :
              \/ l[m + 1] = l[m] /\ \E i \in 1 .. l[m] : array[m + 1] = w[i]
              \/ l[m + 1] = l[m] + 1 /\ array[m + 1] = w[l[m] + 1]
    PROVE  uniq(array) = w
<1> DEFINE n == Len(array)
<1>1. n \in Nat /\ DOMAIN array = 1 .. n /\ \A k \in 1 .. n : array[k] \in V
      OBVIOUS
<1>2. PICK seen : Seens(seen, array, V) /\ createSet(array) = seen[n]
      BY CreatesSet
<1> DEFINE Good(m) == IsFront(seen[m], w, l[m])
           S == {m \in Nat : m <= n => Good(m)}
<1> HIDE DEF n
<1>3. 0 \in S
  <2>1. seen[0] = <<>>
        BY <1>2 DEF Seens
  <2>2. Good(0)
        BY <2>1 DEF IsFront
  <2>3. QED BY <2>2
<1>4. ASSUME NEW m \in Nat, m \in S PROVE m + 1 \in S
  <2>1. SUFFICES ASSUME m + 1 <= n PROVE Good(m + 1)
        OBVIOUS
  <2>2. Good(m) /\ m \in 0 .. n - 1 /\ m \in 0 .. n /\ m + 1 \in 0 .. n /\ array[m + 1] \in V
        BY <1>1, <1>4, <2>1
  <2>3. PICK set : set = seen[m]
        OBVIOUS
  <2>4. /\ set \in Seq(V) /\ Len(set) = l[m] /\ DOMAIN set = 1 .. l[m]
        /\ \A i \in 1 .. l[m] : set[i] = w[i]
    <3>1. set \in Seq(V)
          BY <1>2, <2>2, <2>3 DEF Seens, n
    <3>2. IsFront(set, w, l[m])
          BY <2>2, <2>3
    <3>3. Len(set) = l[m] /\ \A i \in 1 .. l[m] : set[i] = w[i]
          BY <3>2 DEF IsFront
    <3>4. DOMAIN set = 1 .. Len(set)
          BY <3>1
    <3>5. QED BY <3>1, <3>3, <3>4
  <2>5. seen[m + 1] = Grown(set, array[m + 1])
        BY <1>2, <2>2, <2>3 DEF Seens, n
  <2>6. CASE l[m + 1] = l[m] /\ \E i \in 1 .. l[m] : array[m + 1] = w[i]
    <3>1. array[m + 1] \in ToSet(set)
          BY <2>4, <2>6 DEF ToSet
    <3>2. seen[m + 1] = set
          BY <2>5, <3>1 DEF Grown
    <3>3. QED BY <2>4, <2>6, <3>2 DEF IsFront
  <2>7. CASE l[m + 1] = l[m] + 1 /\ array[m + 1] = w[l[m] + 1]
    <3> DEFINE k == l[m]
    <3>1. k \in Nat /\ k + 1 \in DOMAIN w /\ \A i \in 1 .. k : i \in DOMAIN w /\ i # k + 1
      <4>1. l[m] \in 0 .. Len(w) /\ l[m + 1] \in 0 .. Len(w)
            BY <2>2 DEF n
      <4>2. DOMAIN w = 1 .. Len(w) /\ Len(w) \in Nat
            OBVIOUS
      <4>3. QED BY <2>7, <4>1, <4>2
    <3>2. array[m + 1] \notin ToSet(set)
          BY <2>4, <2>7, <3>1 DEF ToSet, Distinct
    <3>3. seen[m + 1] = Append(set, array[m + 1])
          BY <2>5, <3>2 DEF Grown
    <3>4. /\ Len(Append(set, array[m + 1])) = k + 1
          /\ Append(set, array[m + 1])[k + 1] = array[m + 1]
          /\ \A i \in 1 .. k : Append(set, array[m + 1])[i] = set[i]
          BY <2>2, <2>4, Appended
    <3> HIDE DEF k
    <3>5. \A i \in 1 .. k + 1 : i \in 1 .. k \/ i = k + 1
          BY <3>1
    <3>6. \A i \in 1 .. k + 1 : seen[m + 1][i] = w[i]
          BY <2>4, <2>7, <3>3, <3>4, <3>5 DEF k
    <3>7. QED BY <2>7, <3>3, <3>4, <3>6 DEF IsFront, k
  <2>8. QED BY <2>2, <2>6, <2>7 DEF n
<1>5. Good(n)
  <2>1. \A m \in Nat : m \in S
        BY <1>3, <1>4, Successors
  <2> HIDE DEF Good
  <2>2. QED BY <1>1, <2>1
<1>6. PICK set : set = seen[n]
      OBVIOUS
<1>7. set = w
  <2>1. set \in Seq(V)
    <3>1. seen \in [0 .. n -> Seq(V)]
          BY <1>2 DEF Seens, n
    <3>2. n \in 0 .. n
          BY <1>1
    <3>3. QED BY <1>6, <3>1, <3>2
  <2>2. Len(set) = Len(w) /\ \A i \in 1 .. Len(w) : set[i] = w[i]
        BY <1>5, <1>6 DEF IsFront, n
  <2>3. /\ set = [i \in 1 .. Len(set) |-> set[i]]
        /\ w = [i \in 1 .. Len(w) |-> w[i]]
        BY <2>1
  <2>4. QED BY <2>2, <2>3
<1>8. uniq(array) = set
      BY <1>2, <1>6, UniqOnEitherPath
<1>9. QED BY <1>7, <1>8

-----------------------------------------------------------------------------
(* The axis of a chart                                                     *)

\* The function that a level of baseFlatten goes by.
FlattenFold(folded, array, n, isStrict) ==
    folded = [s \in SUBSET (1 .. n) |->
                IF s = {} THEN <<>>
                ELSE IF isFlattenable(array[Max(s)]) THEN arrayPush(folded[s \ {Max(s)}], array[Max(s)])
                ELSE IF isStrict THEN folded[s \ {Max(s)}]
                ELSE Append(folded[s \ {Max(s)}], array[Max(s)])]

\* Two arrays flattened are one behind the other.
LEMMA TwoArrays ==
    ASSUME NEW V, NEW x \in Seq(V), NEW c \in Seq(V), x \notin Atoms, c \notin Atoms
    PROVE  Arrays(<<x, c>>) = x \o c
<1> DEFINE two == <<x, c>>
<1>1. DOMAIN two = 1 .. 2 /\ two[1] = x /\ two[2] = c
      OBVIOUS
<1> HIDE DEF two
<1>2. \A k \in 1 .. 2 : isFlattenable(two[k]) /\ two[k] \in Seq(V)
  <2>1. \A k \in 1 .. 2 : k = 1 \/ k = 2
        OBVIOUS
  <2>2. QED BY <1>1, <2>1 DEF isFlattenable
<1>3. flattenLevel(two, TRUE) = x \o c
  <2>1. flattenLevel(two, TRUE) = (CHOOSE folded : FlattenFold(folded, two, 2, TRUE))[1 .. 2]
        BY <1>1 DEF flattenLevel, FoldLeft, MapThenFoldSet, FlattenFold
  <2>2. \E folded : FlattenFold(folded, two, 2, TRUE)
    <3> DEFINE T == Seq(V)
               step == [k \in 1 .. 2 |-> [result \in T |-> arrayPush(result, two[k])]]
    <3>1. step \in [1 .. 2 -> [T -> T]]
          BY <1>2 DEF arrayPush
    <3>2. <<>> \in T /\ 2 \in Nat
          OBVIOUS
    <3>3. \A k \in 1 .. 2 : \A result \in T : step[k][result] = arrayPush(result, two[k])
          OBVIOUS
    <3> HIDE DEF T, step
    <3>4. PICK folded : /\ folded \in [SUBSET (1 .. 2) -> T]
                        /\ \A s \in SUBSET (1 .. 2) :
                              folded[s] = IF s = {} THEN <<>> ELSE step[Max(s)][folded[s \ {Max(s)}]]
      <4>1. \E folded : IsFold(folded, T, <<>>, step, 2)
            BY <3>1, <3>2, FoldExists
      <4>2. QED BY <4>1 DEF IsFold
    <3>5. ASSUME NEW s \in SUBSET (1 .. 2)
          PROVE  folded[s] = IF s = {} THEN <<>>
                    ELSE IF isFlattenable(two[Max(s)]) THEN arrayPush(folded[s \ {Max(s)}], two[Max(s)])
                    ELSE IF TRUE THEN folded[s \ {Max(s)}]
                    ELSE Append(folded[s \ {Max(s)}], two[Max(s)])
      <4>1. CASE s = {}
            BY <3>4, <4>1
      <4>2. CASE s # {}
        <5>1. s \subseteq 0 .. 2
              OBVIOUS
        <5>2. Max(s) \in s
              BY <3>2, <4>2, <5>1, GreatestIn
        <5>3. Max(s) \in 1 .. 2 /\ folded[s \ {Max(s)}] \in T
              BY <3>4, <5>2
        <5>4. QED BY <1>2, <3>3, <3>4, <4>2, <5>3
      <4>3. QED BY <4>1, <4>2
    <3>6. folded = [s \in SUBSET (1 .. 2) |-> folded[s]]
          BY <3>4
    <3>7. FlattenFold(folded, two, 2, TRUE)
          BY <3>5, <3>6 DEF FlattenFold
    <3>8. QED BY <3>7
  <2>3. PICK folded : FlattenFold(folded, two, 2, TRUE) /\ flattenLevel(two, TRUE) = folded[1 .. 2]
        BY <2>1, <2>2
  <2>4. ASSUME NEW m \in {0, 1} PROVE folded[1 .. m + 1] = folded[1 .. m] \o two[m + 1]
    <3>1. m \in Nat /\ m + 1 <= 2 /\ 2 \in Nat /\ m + 1 \in 1 .. 2
          OBVIOUS
    <3>2. /\ 1 .. m + 1 \in SUBSET (1 .. 2) /\ 1 .. m + 1 # {}
          /\ Max(1 .. m + 1) = m + 1 /\ (1 .. m + 1) \ {m + 1} = 1 .. m
          BY <3>1, FoldStep
    <3>3. folded[1 .. m + 1] =
             arrayPush(folded[(1 .. m + 1) \ {Max(1 .. m + 1)}], two[Max(1 .. m + 1)])
          BY <1>2, <2>3, <3>1, <3>2 DEF FlattenFold
    <3>4. QED BY <3>2, <3>3 DEF arrayPush
  <2>5. folded[1 .. 0] = <<>>
    <3>1. 1 .. 0 = {} /\ {} \in SUBSET (1 .. 2)
          OBVIOUS
    <3>2. QED BY <2>3, <3>1 DEF FlattenFold
  <2>6. folded[1 .. 1] = <<>> \o x
    <3>1. folded[1 .. 0 + 1] = folded[1 .. 0] \o two[0 + 1]
          BY <2>4
    <3>2. 0 + 1 = 1
          OBVIOUS
    <3>3. QED BY <1>1, <2>5, <3>1, <3>2
  <2>7. <<>> \o x = x
        OBVIOUS
  <2>8. folded[1 .. 2] = x \o c
    <3>1. folded[1 .. 1 + 1] = folded[1 .. 1] \o two[1 + 1]
          BY <2>4
    <3>2. 1 + 1 = 2
          OBVIOUS
    <3>3. QED BY <1>1, <2>6, <2>7, <3>1, <3>2
  <2>9. QED BY <2>3, <2>8
<1>4. baseFlatten(two, 1, TRUE) = flattenLevel(two, TRUE)
  <2> DEFINE Levels(level) ==
                level = [n \in 0 .. 1 |-> IF n = 0 THEN two ELSE flattenLevel(level[n - 1], TRUE)]
  <2>1. baseFlatten(two, 1, TRUE) = (CHOOSE level : Levels(level))[1]
        BY DEF baseFlatten
  <2>2. \E level : Levels(level)
    <3> DEFINE level == [n \in 0 .. 1 |-> IF n = 0 THEN two ELSE flattenLevel(two, TRUE)]
    <3>1. level[0] = two /\ \A n \in 0 .. 1 : n # 0 => n - 1 = 0
          OBVIOUS
    <3>2. Levels(level)
          BY <3>1
    <3>3. QED BY <3>2
  <2>3. PICK level : Levels(level) /\ baseFlatten(two, 1, TRUE) = level[1]
        BY <2>1, <2>2
  <2>4. level[0] = two /\ level[1] = flattenLevel(level[0], TRUE)
    <3>1. \A n \in 0 .. 1 : level[n] = IF n = 0 THEN two ELSE flattenLevel(level[n - 1], TRUE)
          BY <2>3
    <3>2. 0 \in 0 .. 1 /\ 1 \in 0 .. 1 /\ 1 # 0 /\ 1 - 1 = 0
          OBVIOUS
    <3>3. QED BY <3>1, <3>2
  <2>5. QED BY <2>3, <2>4
<1>5. QED BY <1>3, <1>4 DEF Arrays, two

\* What IsPrefix says, value by value.
LEMMA Prefix ==
    ASSUME NEW V, NEW x \in Seq(V), NEW w \in Seq(V)
    PROVE  IsPrefix(x, w) <=> Len(x) <= Len(w) /\ \A i \in 1 .. Len(x) : x[i] = w[i]
<1>1. Len(x) \in Nat /\ Len(w) \in Nat /\ DOMAIN x = 1 .. Len(x) /\ DOMAIN w = 1 .. Len(w)
      OBVIOUS
<1>2. PICK s : s = SubSeq(x, 1, Len(x))
      OBVIOUS
<1>3. s \in Seq(V) /\ Len(s) = Len(x) /\ \A i \in 1 .. Len(x) : s[i] = x[i]
      BY <1>2
<1>4. ASSUME Len(x) <= Len(w)
      PROVE  /\ SubSeq(w, 1, Len(x)) \in Seq(V)
             /\ Len(SubSeq(w, 1, Len(x))) = Len(x)
             /\ \A i \in 1 .. Len(x) : SubSeq(w, 1, Len(x))[i] = w[i]
      BY <1>1, <1>4
<1>5. PICK t : t = SubSeq(w, 1, Len(x))
      OBVIOUS
<1>6. ASSUME Len(x) <= Len(w) PROVE s = t <=> \A i \in 1 .. Len(x) : x[i] = w[i]
  <2>1. t \in Seq(V) /\ Len(t) = Len(x) /\ \A i \in 1 .. Len(x) : t[i] = w[i]
        BY <1>4, <1>5, <1>6
  <2>2. ASSUME s = t, NEW i \in 1 .. Len(x) PROVE x[i] = w[i]
        BY <1>3, <2>1, <2>2
  <2>3. ASSUME \A i \in 1 .. Len(x) : x[i] = w[i] PROVE s = t
    <3>1. \A i \in 1 .. Len(x) : s[i] = t[i]
          BY <1>3, <2>1, <2>3
    <3>2. QED BY <1>3, <2>1, <3>1
  <2>4. QED BY <2>2, <2>3
<1>7. QED BY <1>2, <1>5, <1>6 DEF IsPrefix

\* Of two arrays of which one has the values of the other and then perhaps more,
\* the union is that one.
LEMMA UnionOfFronts ==
    ASSUME NEW V, NEW x \in Seq(V), NEW c \in Seq(V), x \notin Atoms, c \notin Atoms,
           NEW w \in Seq(V), w = x \/ w = c, Distinct(w), IsPrefix(x, w), IsPrefix(c, w)
    PROVE  union(<<x, c>>) = w
<1> DEFINE a == Len(x)
           b == Len(c)
<1>1. PICK array : array = x \o c
      OBVIOUS
<1>2. /\ array \in Seq(V) /\ Len(array) = a + b
      /\ \A i \in 1 .. a + b : array[i] = IF i <= a THEN x[i] ELSE c[i - a]
      BY <1>1
<1>3. a \in Nat /\ b \in Nat /\ Len(w) \in Nat
      OBVIOUS
<1>4. a <= Len(w) /\ \A i \in 1 .. a : x[i] = w[i]
      BY Prefix
<1>5. b <= Len(w) /\ \A i \in 1 .. b : c[i] = w[i]
      BY Prefix
<1>6. Len(w) = a \/ Len(w) = b
      OBVIOUS
<1> HIDE DEF a, b
<1> DEFINE l == [m \in 0 .. a + b |-> IF m <= a THEN m ELSE IF m - a <= a THEN a ELSE m - a]
<1>7. ASSUME NEW m \in 0 .. a + b
      PROVE  /\ l[m] \in 0 .. Len(w)
             /\ m <= a => l[m] = m
             /\ m > a /\ m <= a + a => l[m] = a
             /\ m > a + a => l[m] = m - a
  <2>1. l[m] = IF m <= a THEN m ELSE IF m - a <= a THEN a ELSE m - a
        OBVIOUS
  <2> HIDE DEF l
  <2>2. QED BY <1>3, <1>4, <1>5, <2>1
<1>8. l \in [0 .. a + b -> 0 .. Len(w)]
  <2>1. l = [m \in 0 .. a + b |-> l[m]]
        OBVIOUS
  <2> HIDE DEF l
  <2>2. QED BY <1>7, <2>1
<1> HIDE DEF l
<1>9. l[0] = 0
      BY <1>3, <1>7
<1>10. l[a + b] = Len(w)
  <2>1. a + b \in 0 .. a + b
        BY <1>3
  <2>2. CASE b = 0
        BY <1>3, <1>4, <1>6, <1>7, <2>1, <2>2
  <2>3. CASE b > 0 /\ b <= a
        BY <1>3, <1>4, <1>6, <1>7, <2>1, <2>3
  <2>4. CASE b > a
        BY <1>3, <1>5, <1>6, <1>7, <2>1, <2>4
  <2>5. QED BY <1>3, <2>2, <2>3, <2>4
<1>11. ASSUME NEW m \in 0 .. a + b - 1
       PROVE  \/ l[m + 1] = l[m] /\ \E i \in 1 .. l[m] : array[m + 1] = w[i]
              \/ l[m + 1] = l[m] + 1 /\ array[m + 1] = w[l[m] + 1]
  <2>1. m \in 0 .. a + b /\ m + 1 \in 0 .. a + b /\ m + 1 \in 1 .. a + b
        BY <1>3
  <2>2. CASE m + 1 <= a
    <3>1. l[m + 1] = m + 1 /\ l[m] = m /\ m + 1 \in 1 .. a
          BY <1>3, <1>7, <2>1, <2>2
    <3>2. array[m + 1] = x[m + 1]
          BY <1>2, <2>1, <2>2
    <3>3. QED BY <1>4, <3>1, <3>2
  <2>3. CASE ~(m + 1 <= a)
    <3>1. PICK k \in 1 .. b : k = m + 1 - a
          BY <1>3, <2>1, <2>3
    <3>2. array[m + 1] = w[k]
      <4>1. (m + 1) - a = k
            BY <1>3, <3>1
      <4>2. array[m + 1] = c[k]
            BY <1>2, <2>1, <2>3, <4>1
      <4>3. QED BY <1>5, <4>2
    <3>3. CASE k <= a
      <4>1. l[m + 1] = a /\ l[m] = a
            BY <1>3, <1>7, <2>1, <2>3, <3>1, <3>3
      <4>2. k \in 1 .. a
            BY <1>3, <3>3
      <4>3. QED BY <3>2, <4>1, <4>2
    <3>4. CASE ~(k <= a)
      <4>1. l[m + 1] = k
            BY <1>3, <1>7, <2>1, <2>3, <3>1, <3>4
      <4>2. l[m] = k - 1 /\ (k - 1) + 1 = k
            BY <1>3, <1>7, <2>1, <2>3, <3>1, <3>4
      <4>3. QED BY <3>2, <4>1, <4>2
    <3>5. QED BY <3>3, <3>4
  <2>4. QED BY <2>2, <2>3
<1>12. uniq(array) = w
  <2>1. /\ l \in [0 .. Len(array) -> 0 .. Len(w)] /\ l[0] = 0 /\ l[Len(array)] = Len(w)
        /\ \A m \in 0 .. Len(array) - 1 :
              \/ l[m + 1] = l[m] /\ \E i \in 1 .. l[m] : array[m + 1] = w[i]
              \/ l[m + 1] = l[m] + 1 /\ array[m + 1] = w[l[m] + 1]
    <3>1. Len(array) = a + b /\ a \in Nat /\ b \in Nat
          BY <1>2, <1>3
    <3>2. QED BY <1>8, <1>9, <1>10, <1>11, <3>1
  <2>2. QED BY <1>2, <2>1, UniqOf
<1>13. Arrays(<<x, c>>) = array
       BY <1>1, TwoArrays
<1>14. union(<<x, c>>) = uniq(array)
       BY <1>13 DEF union, uniq
<1>15. QED BY <1>12, <1>14

-----------------------------------------------------------------------------
\* An array of arrays: none of them is one of the values without inside.
NoneAnAtom(V) == \A s \in Seq(V) : s \notin Atoms

\* The union of two arrays has values of theirs.
LEMMA UnionTyped ==
    ASSUME NEW V, NoneAnAtom(V), NEW x \in Seq(V), NEW c \in Seq(V)
    PROVE  union(<<x, c>>) \in Seq(V)
<1>1. PICK array : array = x \o c
      OBVIOUS
<1>2. array \in Seq(V)
      BY <1>1
<1>3. Arrays(<<x, c>>) = array
  <2>1. x \notin Atoms /\ c \notin Atoms
        BY DEF NoneAnAtom
  <2>2. QED BY <1>1, <2>1, TwoArrays
<1>4. union(<<x, c>>) = createSet(array)
      BY <1>2, <1>3, UniqOnEitherPath DEF union, uniq
<1>5. PICK seen : Seens(seen, array, V) /\ createSet(array) = seen[Len(array)]
      BY <1>2, CreatesSet
<1>6. seen \in [0 .. Len(array) -> Seq(V)] /\ Len(array) \in 0 .. Len(array)
      BY <1>2, <1>5 DEF Seens
<1>7. QED BY <1>4, <1>5, <1>6

\* A set that a value is added to keeps the values it has, each once.
LEMMA GrownKeeps ==
    ASSUME NEW V, NEW set \in Seq(V), NEW value \in V, Distinct(set)
    PROVE  /\ Grown(set, value) \in Seq(V) /\ Distinct(Grown(set, value))
           /\ Len(set) <= Len(Grown(set, value))
           /\ \A i \in 1 .. Len(set) : Grown(set, value)[i] = set[i]
<1>1. Len(set) \in Nat /\ DOMAIN set = 1 .. Len(set)
      OBVIOUS
<1>2. CASE value \in ToSet(set)
      BY <1>1, <1>2 DEF Grown
<1>3. CASE value \notin ToSet(set)
  <2>1. PICK more : more = Append(set, value)
        OBVIOUS
  <2>2. /\ more \in Seq(V) /\ Len(more) = Len(set) + 1 /\ more[Len(set) + 1] = value
        /\ \A i \in 1 .. Len(set) : more[i] = set[i]
        /\ DOMAIN more = 1 .. Len(set) + 1
        BY <1>1, <2>1, Appended
  <2>3. \A i \in 1 .. Len(set) : set[i] # value
        BY <1>1, <1>3 DEF ToSet
  <2>4. Distinct(more)
    <3>1. SUFFICES ASSUME NEW i \in 1 .. Len(set) + 1, NEW j \in 1 .. Len(set) + 1, more[i] = more[j]
                   PROVE  i = j
          BY <2>2 DEF Distinct
    <3>2. /\ i \in 1 .. Len(set) \/ i = Len(set) + 1
          /\ j \in 1 .. Len(set) \/ j = Len(set) + 1
          BY <1>1
    <3>3. CASE i \in 1 .. Len(set) /\ j \in 1 .. Len(set)
          BY <1>1, <2>2, <3>1, <3>3 DEF Distinct
    <3>4. QED BY <2>2, <2>3, <3>1, <3>2, <3>3
  <2>5. Grown(set, value) = more
        BY <1>3, <2>1 DEF Grown
  <2>6. QED BY <1>1, <2>2, <2>4, <2>5
<1>4. QED BY <1>2, <1>3

\* After m rounds, set has the values of x first, or those there were so far.
Keeps(set, x, m) ==
    /\ Distinct(set)
    /\ m <= Len(x) => IsFront(set, x, m)
    /\ m > Len(x) => Len(x) <= Len(set) /\ \A i \in 1 .. Len(x) : set[i] = x[i]

\* A union has the values of the first array first, if they are distinct, and
\* each value once.
LEMMA UnionKeeps ==
    ASSUME NEW V, NoneAnAtom(V), NEW x \in Seq(V), NEW c \in Seq(V), Distinct(x)
    PROVE  /\ union(<<x, c>>) \in Seq(V) /\ Distinct(union(<<x, c>>))
           /\ IsPrefix(x, union(<<x, c>>))
<1> DEFINE a == Len(x)
           n == Len(x) + Len(c)
<1>1. PICK array : array = x \o c
      OBVIOUS
<1>2. /\ array \in Seq(V) /\ Len(array) = n
      /\ \A i \in 1 .. a : array[i] = x[i]
      /\ \A i \in 1 .. n : array[i] \in V
      BY <1>1
<1>3. a \in Nat /\ n \in Nat /\ a <= n /\ DOMAIN x = 1 .. a
      OBVIOUS
<1>4. union(<<x, c>>) = createSet(array)
  <2>1. x \notin Atoms /\ c \notin Atoms
        BY DEF NoneAnAtom
  <2>2. Arrays(<<x, c>>) = array
        BY <1>1, <2>1, TwoArrays
  <2>3. union(<<x, c>>) = uniq(array)
        BY <2>2 DEF union, uniq
  <2>4. QED BY <1>2, <2>3, UniqOnEitherPath
<1>5. PICK seen : Seens(seen, array, V) /\ createSet(array) = seen[Len(array)]
      BY <1>2, CreatesSet
<1> HIDE DEF a, n
<1>6. /\ seen \in [0 .. n -> Seq(V)] /\ seen[0] = <<>>
      /\ \A m \in 0 .. n - 1 : seen[m + 1] = Grown(seen[m], array[m + 1])
      BY <1>2, <1>5 DEF Seens
<1> DEFINE S == {m \in Nat : m <= n => Keeps(seen[m], x, m)}
<1>7. 0 \in S
  <2>1. Distinct(<<>>) /\ IsFront(<<>>, x, 0)
        BY DEF Distinct, IsFront
  <2>2. QED BY <1>3, <1>6, <2>1 DEF Keeps, a
<1>8. ASSUME NEW m \in Nat, m \in S PROVE m + 1 \in S
  <2>1. SUFFICES ASSUME m + 1 <= n PROVE Keeps(seen[m + 1], x, m + 1)
        OBVIOUS
  <2>2. Keeps(seen[m], x, m) /\ m \in 0 .. n - 1 /\ m \in 0 .. n /\ m + 1 \in 1 .. n
        BY <1>3, <1>8, <2>1
  <2>3. PICK set \in Seq(V) : set = seen[m]
        BY <1>6, <2>2
  <2>4. PICK value \in V : value = array[m + 1]
        BY <1>2, <2>2
  <2>5. PICK next : next = Grown(set, value)
        OBVIOUS
  <2>6. seen[m + 1] = next
        BY <1>6, <2>2, <2>3, <2>4, <2>5
  <2>7. /\ next \in Seq(V) /\ Distinct(next) /\ Len(set) <= Len(next)
        /\ \A i \in 1 .. Len(set) : next[i] = set[i]
        BY <2>2, <2>3, <2>5, GrownKeeps DEF Keeps
  <2>8. CASE m + 1 <= a
    <3>1. Len(set) = m /\ (\A i \in 1 .. m : set[i] = x[i]) /\ DOMAIN set = 1 .. m
      <4>1. IsFront(set, x, m)
            BY <1>3, <2>2, <2>3, <2>8 DEF Keeps, a
      <4>2. QED BY <4>1 DEF IsFront
    <3>2. m + 1 \in 1 .. a /\ value = x[m + 1]
          BY <1>2, <1>3, <2>4, <2>8
    <3>3. value \notin ToSet(set)
      <4>1. SUFFICES ASSUME NEW i \in 1 .. m, set[i] = value PROVE FALSE
            BY <3>1 DEF ToSet
      <4>2. i \in 1 .. a /\ x[i] = x[m + 1] /\ i # m + 1
            BY <1>3, <2>8, <3>1, <3>2, <4>1
      <4>3. QED BY <1>3, <3>2, <4>2 DEF Distinct
    <3>4. next = Append(set, value)
          BY <2>5, <3>3 DEF Grown
    <3>5. Len(next) = m + 1 /\ next[m + 1] = value
          BY <3>1, <3>4, Appended
    <3>6. \A i \in 1 .. m + 1 : next[i] = x[i]
      <4>1. \A i \in 1 .. m + 1 : i \in 1 .. m \/ i = m + 1
            OBVIOUS
      <4>2. QED BY <2>7, <3>1, <3>2, <3>5, <4>1
    <3>7. IsFront(next, x, m + 1)
          BY <3>5, <3>6 DEF IsFront
    <3>8. QED BY <1>3, <2>6, <2>7, <2>8, <3>7 DEF Keeps, a
  <2>9. CASE ~(m + 1 <= a)
    <3>1. a <= Len(set) /\ \A i \in 1 .. a : set[i] = x[i]
      <4>1. CASE m = a
        <5>1. IsFront(set, x, a)
              BY <1>3, <2>2, <2>3, <4>1 DEF Keeps, a
        <5>2. QED BY <1>3, <5>1 DEF IsFront
      <4>2. CASE m # a
        <5>1. m > a
              BY <1>3, <2>9, <4>2
        <5>2. QED BY <2>2, <2>3, <5>1 DEF Keeps, a
      <4>3. QED BY <4>1, <4>2
    <3>2. Len(set) \in Nat /\ Len(next) \in Nat
          BY <2>7
    <3>3. a <= Len(next) /\ \A i \in 1 .. a : next[i] = x[i]
      <4>1. a <= Len(next)
            BY <1>3, <2>7, <3>1, <3>2
      <4>2. ASSUME NEW i \in 1 .. a PROVE next[i] = x[i]
        <5>1. i \in 1 .. Len(set)
              BY <1>3, <3>1, <3>2
        <5>2. QED BY <2>7, <3>1, <5>1
      <4>3. QED BY <4>1, <4>2
    <3>4. m + 1 > a
          BY <1>3, <2>9
    <3>5. Keeps(next, x, m + 1)
          BY <1>3, <2>7, <3>3, <3>4 DEF Keeps, a
    <3>6. QED BY <2>6, <3>5
  <2>10. QED BY <2>8, <2>9
<1>9. Keeps(seen[n], x, n)
  <2>1. \A m \in Nat : m \in S
        BY <1>7, <1>8, Successors
  <2>2. QED BY <1>3, <2>1
<1>10. PICK set \in Seq(V) : set = seen[n]
  <2>1. n \in 0 .. n
        BY <1>3
  <2>2. QED BY <1>6, <2>1
<1>11. a <= Len(set) /\ \A i \in 1 .. a : set[i] = x[i]
  <2>1. CASE n <= a
    <3>1. n = a
          BY <1>3, <2>1
    <3>2. IsFront(set, x, n)
          BY <1>9, <1>10, <2>1 DEF Keeps, a
    <3>3. QED BY <1>3, <3>1, <3>2 DEF IsFront
  <2>2. CASE ~(n <= a)
        BY <1>3, <1>9, <1>10, <2>2 DEF Keeps, a
  <2>3. QED BY <2>1, <2>2
<1>12. IsPrefix(x, set)
       BY <1>11, Prefix DEF a
<1>13. Distinct(set)
       BY <1>9, <1>10 DEF Keeps
<1>14. union(<<x, c>>) = set
       BY <1>2, <1>4, <1>5, <1>10
<1>15. QED BY <1>12, <1>13, <1>14

\* No host has two values of one date.
IsDated(d, Days) ==
    \A h \in DOMAIN d :
        Column(d[h], "date") \in Seq(Days) /\ Distinct(Column(d[h], "date"))

\* The function that the loop over the hosts goes by.
AxisFold(folded, shown, hostList, n) ==
    folded = [s \in SUBSET (1 .. n) |->
                IF s = {} THEN <<>>
                ELSE union(<<folded[s \ {Max(s)}], Column(shown[hostList[Max(s)]], "date")>>)]

HasAxisFold(shown, hostList, n) ==
    \E folded : AxisFold(folded, shown, hostList, n) /\ Axis(shown, hostList) = folded[1 .. n]

\* What Axis folds is this function.
LEMMA AxisFolds ==
    ASSUME NEW V, NoneAnAtom(V), NEW shown, NEW n \in Nat, NEW hostList \in [1 .. n -> DOMAIN shown],
           IsDated(shown, V)
    PROVE  HasAxisFold(shown, hostList, n)
<1> DEFINE T == Seq(V)
           Dated(k) == Column(shown[hostList[k]], "date")
           step == [k \in 1 .. n |-> [x \in T |-> union(<<x, Dated(k)>>)]]
<1>1. \A k \in 1 .. n : Dated(k) \in T
      BY DEF IsDated
<1> HIDE DEF Dated
<1>2. step \in [1 .. n -> [T -> T]]
  <2>1. ASSUME NEW k \in 1 .. n, NEW x \in T PROVE union(<<x, Dated(k)>>) \in T
        BY <1>1, UnionTyped
  <2>2. QED BY <2>1
<1>3. <<>> \in T
      OBVIOUS
<1>4. \A k \in 1 .. n : \A x \in T : step[k][x] = union(<<x, Dated(k)>>)
      OBVIOUS
<1> HIDE DEF T, step
<1>5. PICK folded : /\ folded \in [SUBSET (1 .. n) -> T]
                    /\ \A s \in SUBSET (1 .. n) :
                          folded[s] = IF s = {} THEN <<>> ELSE step[Max(s)][folded[s \ {Max(s)}]]
  <2>1. \E folded : IsFold(folded, T, <<>>, step, n)
        BY <1>2, <1>3, FoldExists
  <2>2. QED BY <2>1 DEF IsFold
<1>6. ASSUME NEW s \in SUBSET (1 .. n)
      PROVE  folded[s] = IF s = {} THEN <<>> ELSE union(<<folded[s \ {Max(s)}], Dated(Max(s))>>)
  <2>1. CASE s = {}
        BY <1>5, <2>1
  <2>2. CASE s # {}
    <3>1. s \subseteq 0 .. n
          OBVIOUS
    <3>2. Max(s) \in s
          BY <2>2, <3>1, GreatestIn
    <3>3. Max(s) \in 1 .. n /\ folded[s \ {Max(s)}] \in T
          BY <1>5, <3>2
    <3>4. QED BY <1>4, <1>5, <2>2, <3>3
  <2>3. QED BY <2>1, <2>2
<1>7. folded = [s \in SUBSET (1 .. n) |-> folded[s]]
      BY <1>5
<1>8. \E f : AxisFold(f, shown, hostList, n)
  <2>1. AxisFold(folded, shown, hostList, n)
        BY <1>6, <1>7 DEF AxisFold, Dated
  <2>2. QED BY <2>1
<1>9. DOMAIN hostList = 1 .. n
      OBVIOUS
<1>10. Axis(shown, hostList) = (CHOOSE f : AxisFold(f, shown, hostList, n))[1 .. n]
       BY <1>9 DEF Axis, FoldLeft, MapThenFoldSet, AxisFold
<1>11. QED BY <1>8, <1>10 DEF HasAxisFold

\* One of two arrays has the values of the other first.
Comparable(x, y) == IsPrefix(x, y) \/ IsPrefix(y, x)

LEMMA PrefixOrder ==
    ASSUME NEW V, NEW x \in Seq(V), NEW y \in Seq(V), NEW z \in Seq(V)
    PROVE  /\ IsPrefix(x, x) /\ IsPrefix(<<>>, x)
           /\ IsPrefix(x, y) /\ IsPrefix(y, z) => IsPrefix(x, z)
           /\ IsPrefix(x, z) /\ IsPrefix(y, z) => Comparable(x, y)
<1>1. Len(x) \in Nat /\ Len(y) \in Nat /\ Len(z) \in Nat
      OBVIOUS
<1>2. IsPrefix(x, x)
      BY <1>1, Prefix
<1>3. IsPrefix(<<>>, x)
  <2>1. <<>> \in Seq(V)
        OBVIOUS
  <2>2. Len(<<>>) <= Len(x) /\ \A i \in 1 .. Len(<<>>) : <<>>[i] = x[i]
        BY <1>1
  <2>3. QED BY <2>1, <2>2, Prefix
<1>4. ASSUME IsPrefix(x, y), IsPrefix(y, z) PROVE IsPrefix(x, z)
  <2>1. Len(x) <= Len(y) /\ \A i \in 1 .. Len(x) : x[i] = y[i]
        BY <1>4, Prefix
  <2>2. Len(y) <= Len(z) /\ \A i \in 1 .. Len(y) : y[i] = z[i]
        BY <1>4, Prefix
  <2>3. Len(x) <= Len(z) /\ \A i \in 1 .. Len(x) : x[i] = z[i]
        BY <1>1, <2>1, <2>2
  <2>4. QED BY <2>3, Prefix
<1>5. ASSUME IsPrefix(x, z), IsPrefix(y, z) PROVE Comparable(x, y)
  <2>1. Len(x) <= Len(z) /\ \A i \in 1 .. Len(x) : x[i] = z[i]
        BY <1>5, Prefix
  <2>2. Len(y) <= Len(z) /\ \A i \in 1 .. Len(y) : y[i] = z[i]
        BY <1>5, Prefix
  <2>3. CASE Len(x) <= Len(y)
    <3>1. \A i \in 1 .. Len(x) : x[i] = y[i]
          BY <1>1, <2>1, <2>2, <2>3
    <3>2. QED BY <2>3, <3>1, Prefix DEF Comparable
  <2>4. CASE Len(y) <= Len(x)
    <3>1. \A i \in 1 .. Len(y) : y[i] = x[i]
          BY <1>1, <2>1, <2>2, <2>4
    <3>2. QED BY <2>4, <3>1, Prefix DEF Comparable
  <2>5. QED BY <1>1, <2>3, <2>4
<1>6. QED BY <1>2, <1>3, <1>4, <1>5

\* What is in step with d stays so when dates in step with d are added, and has
\* the dates of d first once it or they have.
LEMMA Joined ==
    ASSUME NEW V, NoneAnAtom(V), NEW x \in Seq(V), NEW c \in Seq(V), NEW d \in Seq(V),
           Distinct(x), Distinct(c), Comparable(x, d),
           Comparable(c, d) \/ IsPrefix(d, x)
    PROVE  /\ union(<<x, c>>) \in Seq(V) /\ Distinct(union(<<x, c>>))
           /\ Comparable(union(<<x, c>>), d)
           /\ IsPrefix(d, x) \/ IsPrefix(d, c) => IsPrefix(d, union(<<x, c>>))
<1>1. PICK u : u = union(<<x, c>>)
      OBVIOUS
<1>2. u \in Seq(V) /\ Distinct(u) /\ IsPrefix(x, u)
      BY <1>1, UnionKeeps
<1>3. CASE IsPrefix(d, x)
  <2>1. IsPrefix(d, u)
        BY <1>2, <1>3, PrefixOrder
  <2>2. QED BY <1>1, <1>2, <2>1 DEF Comparable
<1>4. CASE ~IsPrefix(d, x)
  <2>1. IsPrefix(x, d)
        BY <1>4 DEF Comparable
  <2>2. Comparable(x, c)
    <3>1. CASE IsPrefix(c, d)
          BY <2>1, <3>1, PrefixOrder
    <3>2. CASE IsPrefix(d, c)
      <4>1. IsPrefix(x, c)
            BY <2>1, <3>2, PrefixOrder
      <4>2. QED BY <4>1 DEF Comparable
    <3>3. QED BY <1>4, <3>1, <3>2 DEF Comparable
  <2>3. ASSUME NEW w \in {x, c}, IsPrefix(x, w), IsPrefix(c, w) PROVE u = w
    <3>1. x \notin Atoms /\ c \notin Atoms /\ Distinct(w) /\ w \in Seq(V)
          BY DEF NoneAnAtom
    <3>2. QED BY <1>1, <2>3, <3>1, UnionOfFronts
  <2>4. IsPrefix(x, x) /\ IsPrefix(c, c)
        BY PrefixOrder
  <2>5. u = c \/ (u = x /\ IsPrefix(c, x))
        BY <2>2, <2>3, <2>4 DEF Comparable
  <2>6. CASE u = c
        BY <1>1, <1>2, <1>4, <2>6 DEF Comparable
  <2>7. CASE u = x /\ IsPrefix(c, x)
    <3>1. ASSUME IsPrefix(d, c) PROVE FALSE
      <4>1. IsPrefix(d, x)
            BY <2>7, <3>1, PrefixOrder
      <4>2. QED BY <1>4, <4>1
    <3>2. QED BY <1>1, <1>2, <1>4, <2>1, <2>7, <3>1 DEF Comparable
  <2>8. QED BY <2>5, <2>6, <2>7
<1>5. QED BY <1>3, <1>4

\* The axis has the dates of a host first if all hosts before it are in step
\* with it; so it always has those of the first host.
LEMMA AxisOf ==
    ASSUME NEW V, NoneAnAtom(V), NEW shown, NEW n \in Nat, NEW hostList \in [1 .. n -> DOMAIN shown],
           IsDated(shown, V), NEW k \in 1 .. n,
           \A i \in 1 .. n : i < k =>
              Comparable(Column(shown[hostList[i]], "date"), Column(shown[hostList[k]], "date"))
    PROVE  /\ Axis(shown, hostList) \in Seq(V)
           /\ IsPrefix(Column(shown[hostList[k]], "date"), Axis(shown, hostList))
<1>1. PICK folded : AxisFold(folded, shown, hostList, n) /\ Axis(shown, hostList) = folded[1 .. n]
  <2>1. HasAxisFold(shown, hostList, n)
        BY AxisFolds
  <2>2. QED BY <2>1 DEF HasAxisFold
<1> DEFINE Dated(i) == Column(shown[hostList[i]], "date")
<1>2. \A i \in 1 .. n : Dated(i) \in Seq(V) /\ Distinct(Dated(i))
      BY DEF IsDated
<1>3. \A i \in 1 .. n : i < k => Comparable(Dated(i), Dated(k))
      OBVIOUS
<1>4. ASSUME NEW m \in Nat, m + 1 <= n
      PROVE  folded[1 .. m + 1] = union(<<folded[1 .. m], Dated(m + 1)>>)
  <2>1. /\ 1 .. m + 1 \in SUBSET (1 .. n) /\ 1 .. m + 1 # {}
        /\ Max(1 .. m + 1) = m + 1 /\ (1 .. m + 1) \ {m + 1} = 1 .. m
        BY <1>4, FoldStep
  <2>2. folded[1 .. m + 1] =
           union(<<folded[(1 .. m + 1) \ {Max(1 .. m + 1)}], Dated(Max(1 .. m + 1))>>)
        BY <1>1, <2>1 DEF AxisFold
  <2> HIDE DEF Dated
  <2>3. QED BY <2>1, <2>2
<1>5. folded[1 .. 0] = <<>>
  <2>1. 1 .. 0 = {} /\ {} \in SUBSET (1 .. n)
        OBVIOUS
  <2>2. QED BY <1>1, <2>1 DEF AxisFold
<1>6. PICK d : d = Dated(k)
      OBVIOUS
<1>7. d \in Seq(V) /\ k \in Nat /\ k <= n /\ 0 < k
      BY <1>2, <1>6
<1> DEFINE InOrder(x, m) == /\ x \in Seq(V) /\ Distinct(x) /\ Comparable(x, d)
                            /\ m >= k => IsPrefix(d, x)
           S == {m \in Nat : m <= n => InOrder(folded[1 .. m], m)}
<1> HIDE DEF Dated
<1>8. 0 \in S
  <2>1. <<>> \in Seq(V)
        OBVIOUS
  <2>2. Distinct(<<>>)
        BY DEF Distinct
  <2>3. IsPrefix(<<>>, d)
        BY <1>7, PrefixOrder
  <2>4. ~(0 >= k)
        BY <1>7
  <2>5. QED BY <1>5, <2>1, <2>2, <2>3, <2>4 DEF Comparable
<1>9. ASSUME NEW m \in Nat, m \in S PROVE m + 1 \in S
  <2>1. SUFFICES ASSUME m + 1 <= n PROVE InOrder(folded[1 .. m + 1], m + 1)
        OBVIOUS
  <2>2. PICK x : x = folded[1 .. m]
        OBVIOUS
  <2>3. InOrder(x, m)
        BY <1>9, <2>1, <2>2
  <2>4. m + 1 \in 1 .. n
        BY <2>1
  <2>5. PICK c : c = Dated(m + 1)
        OBVIOUS
  <2>6. c \in Seq(V) /\ Distinct(c)
        BY <1>2, <2>4, <2>5
  <2>7. IsPrefix(d, d)
        BY <1>7, PrefixOrder
  <2>8. Comparable(c, d) \/ IsPrefix(d, x)
    <3>1. m + 1 < k \/ m + 1 = k \/ m >= k
          BY <1>7
    <3>2. QED BY <1>3, <1>6, <2>3, <2>4, <2>5, <2>7, <3>1 DEF Comparable
  <2>9. m + 1 >= k => IsPrefix(d, x) \/ IsPrefix(d, c)
    <3>1. m + 1 >= k => m + 1 = k \/ m >= k
          BY <1>7
    <3>2. QED BY <1>6, <2>3, <2>5, <2>7, <3>1
  <2>10. PICK u : u = union(<<x, c>>)
         OBVIOUS
  <2>11. /\ u \in Seq(V) /\ Distinct(u) /\ Comparable(u, d)
         /\ IsPrefix(d, x) \/ IsPrefix(d, c) => IsPrefix(d, u)
         BY <1>7, <2>3, <2>6, <2>8, <2>10, Joined
  <2>12. folded[1 .. m + 1] = u
         BY <1>4, <2>1, <2>2, <2>5, <2>10
  <2>13. QED BY <2>9, <2>11, <2>12
<1>10. InOrder(folded[1 .. n], n)
  <2>1. \A m \in Nat : m \in S
        BY <1>8, <1>9, Successors
  <2> HIDE DEF InOrder
  <2>2. QED BY <2>1
<1>11. QED BY <1>1, <1>6, <1>7, <1>10 DEF Dated

\* Any host of a list comes first in another list of the same hosts.
LEMMA FirstOf ==
    ASSUME NEW T, IsFiniteSet(T), NEW hostList \in SetToSeqs(T), NEW k \in 1 .. Cardinality(T)
    PROVE  \E other \in SetToSeqs(T) : other[1] = hostList[k]
<1>1. PICK n \in Nat : n = Cardinality(T)
      BY FS_CardinalityType
<1>2. hostList \in [1 .. n -> T] /\ \A i, j \in 1 .. n : i # j => hostList[i] # hostList[j]
      BY <1>1 DEF SetToSeqs
<1>3. 1 \in 1 .. n /\ k \in 1 .. n
      BY <1>1
<1> DEFINE from == [i \in 1 .. n |-> IF i = 1 THEN k ELSE IF i = k THEN 1 ELSE i]
           other == [i \in 1 .. n |-> hostList[from[i]]]
<1>4. /\ from \in [1 .. n -> 1 .. n] /\ from[1] = k
      /\ \A i, j \in 1 .. n : i # j => from[i] # from[j]
      BY <1>3
<1> HIDE DEF from
<1>5. other \in [1 .. n -> T] /\ other[1] = hostList[k]
      BY <1>2, <1>3, <1>4
<1>6. ASSUME NEW i \in 1 .. n, NEW j \in 1 .. n, i # j PROVE other[i] # other[j]
  <2>1. from[i] \in 1 .. n /\ from[j] \in 1 .. n /\ from[i] # from[j]
        BY <1>4, <1>6
  <2>2. other[i] = hostList[from[i]] /\ other[j] = hostList[from[j]]
        OBVIOUS
  <2>3. QED BY <1>2, <2>1, <2>2
<1> HIDE DEF other
<1>7. other \in SetToSeqs(T)
      BY <1>1, <1>5, <1>6 DEF SetToSeqs
<1>8. QED BY <1>5, <1>7

\* The values of a host are drawn at their own dates, in whatever order the hosts
\* come, if and only if of it and any other host shown one has the dates of the
\* other and then perhaps more: whatever the hosts and their points, provided no
\* host has two values for one date.
THEOREM ValuesAtDates ==
    ASSUME NEW D, NEW Days, NoneAnAtom(Days), \A d \in D : IsChartData(d) /\ IsDated(d, Days)
    PROVE  ChartSpec(D) => []ValuesAtTheirDates
<1>1. ChartInvariant(D) => ValuesAtTheirDates
  <2> SUFFICES ASSUME ChartInvariant(D), chart # Undefined, NEW h \in DOMAIN chart.series
               PROVE  IF InStep(h)
                      THEN IsPrefix(Dates(h), chart.axis)
                      ELSE \E c \in Charts(data) : ~IsPrefix(Dates(h), c.axis)
      BY DEF ValuesAtTheirDates
  <2>1. IsChartData(data) /\ IsDated(data, Days) /\ HasPoints(data) /\ chart \in Draw(data)
        BY DEF ChartInvariant
  <2>2. PICK shown : shown = showTopN(data, TopN)
        OBVIOUS
  <2>3. PICK hostList \in SetToSeqs(DOMAIN shown) :
               DOMAIN chart.series = DOMAIN shown /\ chart.axis = Axis(shown, hostList)
        BY <2>1, <2>2 DEF Draw
  <2>4. DOMAIN shown \subseteq DOMAIN data /\ \A g \in DOMAIN shown : shown[g] = data[g]
        BY <2>2 DEF showTopN
  <2>5. PICK n : n = Cardinality(DOMAIN shown)
        OBVIOUS
  <2>6. IsFiniteSet(DOMAIN shown) /\ n \in Nat
        BY <2>1, <2>4, <2>5, FS_Subset, FS_CardinalityType DEF IsChartData
  <2>7. \A list \in SetToSeqs(DOMAIN shown) :
            /\ list \in [1 .. n -> DOMAIN shown]
            /\ \A i, j \in 1 .. n : i # j => list[i] # list[j]
        BY <2>5 DEF SetToSeqs
  <2>8. \A g \in DOMAIN shown : \E i \in 1 .. n : hostList[i] = g
    <3>1. hostList \in Injection(1 .. n, DOMAIN shown)
          BY <2>3, <2>7 DEF Injection, IsInjective
    <3>2. IsFiniteSet(1 .. n) /\ Cardinality(1 .. n) = n
          BY <2>6, FS_Interval
    <3>3. hostList \in Surjection(1 .. n, DOMAIN shown)
          BY <2>5, <2>6, <3>1, <3>2, FS_Injection
    <3>4. QED BY <3>3 DEF Surjection
  <2>9. IsDated(shown, Days)
        BY <2>1, <2>4 DEF IsDated
  <2>10. \A g \in DOMAIN shown : Dates(g) = Column(shown[g], "date") /\ Dates(g) \in Seq(Days)
         BY <2>4, <2>9 DEF Dates, IsDated
  <2>11. h \in DOMAIN shown
         BY <2>3
  <2>12. PICK k \in 1 .. n : hostList[k] = h
         BY <2>8, <2>11
  <2>13. CASE InStep(h)
    <3>1. \A g \in DOMAIN shown : Comparable(Column(shown[g], "date"), Column(shown[h], "date"))
          BY <2>3, <2>10, <2>11, <2>13 DEF InStep, Comparable
    <3>2. \A i \in 1 .. n : hostList[i] \in DOMAIN shown
          BY <2>3, <2>7
    <3>3. \A i \in 1 .. n : i < k =>
              Comparable(Column(shown[hostList[i]], "date"), Column(shown[hostList[k]], "date"))
          BY <2>12, <3>1, <3>2
    <3>4. IsPrefix(Column(shown[hostList[k]], "date"), Axis(shown, hostList))
          BY <2>3, <2>6, <2>7, <2>9, <3>3, AxisOf
    <3>5. QED BY <2>3, <2>10, <2>11, <2>12, <2>13, <3>4
  <2>14. CASE ~InStep(h)
    <3>1. PICK g \in DOMAIN shown : ~Comparable(Dates(g), Dates(h))
          BY <2>3, <2>14 DEF InStep, Comparable
    <3>2. PICK j \in 1 .. n : hostList[j] = g
          BY <2>8
    <3>3. PICK other \in SetToSeqs(DOMAIN shown) : other[1] = g
          BY <2>3, <2>5, <2>6, <3>2, FirstOf
    <3>4. PICK axis : axis = Axis(shown, other)
          OBVIOUS
    <3>5. axis \in Seq(Days) /\ IsPrefix(Dates(g), axis)
      <4>1. 1 \in 1 .. n /\ \A i \in 1 .. n : ~(i < 1)
            BY <2>6, <3>2
      <4>2. other \in [1 .. n -> DOMAIN shown]
            BY <2>7
      <4>3. /\ Axis(shown, other) \in Seq(Days)
            /\ IsPrefix(Column(shown[other[1]], "date"), Axis(shown, other))
            BY <2>6, <2>9, <4>1, <4>2, AxisOf
      <4>4. QED BY <2>10, <3>3, <3>4, <4>3
    <3>6. ~IsPrefix(Dates(h), axis)
          BY <2>10, <2>11, <3>1, <3>5, PrefixOrder
    <3>7. PICK c \in Draw(data) : c.axis = axis
      <4> DEFINE c == [series |-> [g1 \in DOMAIN shown |-> Column(shown[g1], "value")],
                       axis |-> Axis(shown, other)]
      <4>1. c \in Draw(data)
            BY <2>2 DEF Draw
      <4>2. c.axis = axis
            BY <3>4
      <4>3. QED BY <4>1, <4>2
    <3>8. Charts(data) = Draw(data)
          BY <2>1 DEF Charts, HasPoints
    <3>9. QED BY <2>14, <3>6, <3>7, <3>8
  <2>15. QED BY <2>13, <2>14
<1>2. QED BY <1>1, ChartInvariance, PTL

-----------------------------------------------------------------------------
(* What orderBy promises                                                   *)

\* What criteria may be: numbers, and the three values that are ordered behind
\* them.
Criteria == (Int \ Atoms) \cup {NaN, Null, Undefined}

\* Numbers, null, undefined, NaN.
Class(x) == IF x \notin Atoms THEN 0 ELSE IF x = Null THEN 1 ELSE IF x = Undefined THEN 2 ELSE 3

\* x does not stand behind y.
NotBehind(x, y) ==
    \/ Class(x) < Class(y)
    \/ Class(x) = Class(y) /\ (Class(x) = 0 => x <= y)

\* compareAscending orders criteria by class, numbers by value.
LEMMA Ascends ==
    ASSUME NEW x \in Criteria, NEW y \in Criteria, x # NaN \/ y # NaN
    PROVE  /\ compareAscending(x, y) \in {-1, 0, 1}
           /\ compareAscending(x, y) <= 0 <=> NotBehind(x, y)
           /\ compareAscending(y, x) = -compareAscending(x, y)
<1> USE DEF compareAscending, StrictEq, baseGt, baseLt, IsNumber, baseIsNaN, Class, NotBehind
<1>1. CASE x \in Int \ Atoms /\ y \in Int \ Atoms
      BY <1>1, AtomsAssumption
<1>2. CASE x \in Int \ Atoms /\ y \in {NaN, Null, Undefined}
      BY <1>2, AtomsAssumption
<1>3. CASE x \in {NaN, Null, Undefined} /\ y \in Int \ Atoms
      BY <1>3, AtomsAssumption
<1>4. CASE x \in {NaN, Null, Undefined} /\ y \in {NaN, Null, Undefined}
      BY <1>4, AtomsAssumption
<1>5. QED BY <1>1, <1>2, <1>3, <1>4 DEF Criteria

\* One NaN among criteria does not disturb the order.
LEMMA AscendsOn ==
    ASSUME NEW x \in Criteria, NEW y \in Criteria, NEW z \in Criteria,
           x # NaN \/ y # NaN, y # NaN \/ z # NaN, x # NaN \/ z # NaN,
           compareAscending(x, y) <= 0, compareAscending(y, z) <= 0
    PROVE  compareAscending(x, z) <= 0
<1>1. \A v \in Criteria : Class(v) \in 0 .. 3 /\ (Class(v) = 0 => v \in Int)
      BY AtomsAssumption DEF Criteria, Class
<1>2. NotBehind(x, y) /\ NotBehind(y, z)
      BY Ascends
<1>3. NotBehind(x, z)
      BY <1>1, <1>2 DEF NotBehind
<1>4. QED BY <1>3, Ascends

\* The verdict of one criterion, by its direction.
Directed(order, result) == IF order = "desc" THEN -result ELSE result

\* compareMultiple goes by the first criterion that differs, then by position.
LEMMA Multiple ==
    ASSUME NEW object, NEW other, NEW orders \in {"asc", "desc"} \X {"asc", "desc"},
           NEW v \in Int, NEW w \in Int, object.index \in Int, other.index \in Int,
           DOMAIN object.criteria = 1 .. 2,
           v = compareAscending(object.criteria[1], other.criteria[1]),
           w = compareAscending(object.criteria[2], other.criteria[2])
    PROVE  compareMultiple(object, other, orders) =
              IF v # 0 THEN Directed(orders[1], v)
              ELSE IF w # 0 THEN Directed(orders[2], w)
              ELSE object.index - other.index
<1> DEFINE Result(i) == compareAscending(object.criteria[i], other.criteria[i])
           differ == {i \in DOMAIN object.criteria : Result(i) # 0}
<1>1. compareMultiple(object, other, orders) =
         IF differ = {} THEN object.index - other.index
         ELSE IF Min(differ) <= Len(orders) /\ orders[Min(differ)] = "desc" THEN -Result(Min(differ))
         ELSE Result(Min(differ))
      BY DEF compareMultiple
<1>2. Result(1) = v /\ Result(2) = w
      OBVIOUS
<1>3. differ \subseteq 1 .. 2 /\ (1 \in differ <=> v # 0) /\ (2 \in differ <=> w # 0)
      BY <1>2
<1>s. differ \subseteq Nat
      BY <1>3
<1>4. Len(orders) = 2
      OBVIOUS
<1> HIDE DEF Result, differ
<1>5. CASE v # 0
  <2>1. 1 \in differ /\ differ # {}
        BY <1>3, <1>5
  <2>2. Min(differ) = 1
    <3>1. \A i \in differ : Min(differ) <= i
          BY <1>s, <2>1, LeastIn
    <3>2. Min(differ) \in differ
          BY <1>s, <2>1, LeastIn
    <3>3. Min(differ) \in 1 .. 2 /\ Min(differ) <= 1
          BY <1>3, <2>1, <3>1, <3>2
    <3>4. QED BY <3>3
  <2>3. QED BY <1>1, <1>2, <1>4, <1>5, <2>1, <2>2 DEF Directed
<1>6. CASE v = 0 /\ w # 0
  <2>1. differ = {2}
    <3>1. \A i \in differ : i = 2
          BY <1>3, <1>6
    <3>2. 2 \in differ
          BY <1>3, <1>6
    <3>3. QED BY <3>1, <3>2
  <2>2. Min(differ) = 2
    <3>1. Min(differ) \in differ
          BY <1>s, <2>1, LeastIn
    <3>2. QED BY <2>1, <3>1
  <2>3. QED BY <1>1, <1>2, <1>4, <1>6, <2>1, <2>2 DEF Directed
<1>7. CASE v = 0 /\ w = 0
  <2>1. differ = {}
        BY <1>3, <1>7
  <2>2. QED BY <1>1, <1>7, <2>1
<1>8. QED BY <1>5, <1>6, <1>7

\* The verdict of one criterion on two positions.
Way(order, key, i, j) == Directed(order, compareAscending(key[i], key[j]))

\* The verdicts of one criterion do not contradict each other.
IsOrder(order, key, n) ==
    /\ \A i, j \in 1 .. n : i # j =>
          /\ compareAscending(key[i], key[j]) \in -1 .. 1
          /\ Way(order, key, i, j) \in -1 .. 1
          /\ Way(order, key, j, i) = -Way(order, key, i, j)
    /\ \A i, j, k \in 1 .. n :
          /\ i # j /\ j # k /\ i # k
          /\ Way(order, key, i, j) <= 0 /\ Way(order, key, j, k) <= 0
          => Way(order, key, i, k) <= 0

\* In either direction, if there is no second NaN.
LEMMA EitherWay ==
    ASSUME NEW n \in Nat, NEW key \in [1 .. n -> Criteria],
           \A i, j \in 1 .. n : i # j => key[i] # NaN \/ key[j] # NaN,
           NEW order \in {"asc", "desc"}
    PROVE  IsOrder(order, key, n)
<1> DEFINE C(i, j) == compareAscending(key[i], key[j])
<1>1. \A i \in 1 .. n : key[i] \in Criteria
      OBVIOUS
<1>2. \A i, j \in 1 .. n : i # j => C(i, j) \in {-1, 0, 1} /\ C(j, i) = -C(i, j)
  <2> SUFFICES ASSUME NEW i \in 1 .. n, NEW j \in 1 .. n, i # j
               PROVE  C(i, j) \in {-1, 0, 1} /\ C(j, i) = -C(i, j)
      OBVIOUS
  <2>1. PICK x \in Criteria : x = key[i]
        BY <1>1
  <2>2. PICK y \in Criteria : y = key[j]
        BY <1>1
  <2>3. x # NaN \/ y # NaN
        BY <2>1, <2>2
  <2>4. compareAscending(x, y) \in {-1, 0, 1} /\ compareAscending(y, x) = -compareAscending(x, y)
        BY <2>3, Ascends
  <2>5. QED BY <2>1, <2>2, <2>4
<1>3. \A i, j, k \in 1 .. n :
         i # j /\ j # k /\ i # k /\ C(i, j) <= 0 /\ C(j, k) <= 0 => C(i, k) <= 0
  <2> SUFFICES ASSUME NEW i \in 1 .. n, NEW j \in 1 .. n, NEW k \in 1 .. n,
                      i # j, j # k, i # k, C(i, j) <= 0, C(j, k) <= 0
               PROVE  C(i, k) <= 0
      OBVIOUS
  <2>1. key[i] # NaN \/ key[j] # NaN
        OBVIOUS
  <2>2. key[j] # NaN \/ key[k] # NaN
        OBVIOUS
  <2>3. key[i] # NaN \/ key[k] # NaN
        OBVIOUS
  <2>4. QED BY <1>1, <2>1, <2>2, <2>3, AscendsOn
<1> HIDE DEF C
<1>4. CASE order = "asc"
  <2>1. \A i, j : Way(order, key, i, j) = C(i, j)
        BY <1>4 DEF Way, Directed, C
  <2>2. QED BY <1>2, <1>3, <2>1 DEF IsOrder, C
<1>5. CASE order = "desc"
  <2>1. \A i, j : Way(order, key, i, j) = -C(i, j)
        BY <1>5 DEF Way, Directed, C
  <2>2. ASSUME NEW i \in 1 .. n, NEW j \in 1 .. n, NEW k \in 1 .. n, i # j, j # k, i # k,
               -C(i, j) <= 0, -C(j, k) <= 0
        PROVE  -C(i, k) <= 0
    <3>1. C(j, i) <= 0 /\ C(k, j) <= 0
          BY <1>2, <2>2
    <3>2. C(k, i) <= 0
          BY <1>3, <2>2, <3>1
    <3>3. QED BY <1>2, <2>2, <3>2
  <2>3. \A i, j \in 1 .. n : i # j =>
           C(i, j) \in -1 .. 1 /\ -C(i, j) \in -1 .. 1 /\ -C(j, i) = -(-C(i, j))
        BY <1>2
  <2>4. QED BY <2>1, <2>2, <2>3 DEF IsOrder, C
<1>6. QED BY <1>4, <1>5

\* The verdict of two criteria and of the position.
Verdict(orders, key1, key2, i, j) ==
    IF Way(orders[1], key1, i, j) # 0 THEN Way(orders[1], key1, i, j)
    ELSE IF Way(orders[2], key2, i, j) # 0 THEN Way(orders[2], key2, i, j)
    ELSE i - j

\* The comparer goes by them.
GoesBy(comparer, array, orders, key1, key2, n) ==
    \A i, j \in 1 .. n : i # j =>
        comparer[<<array[i], array[j]>>] = Verdict(orders, key1, key2, i, j)

\* One criterion after the other is a comparer.
LEMMA OneAfterAnother ==
    ASSUME NEW n \in Nat, NEW orders, NEW key1, NEW key2,
           IsOrder(orders[1], key1, n), IsOrder(orders[2], key2, n),
           NEW array, DOMAIN array = 1 .. n, NEW comparer,
           GoesBy(comparer, array, orders, key1, key2, n)
    PROVE  IsComparer(comparer, array)
<1> DEFINE W(i, j) == Way(orders[1], key1, i, j)
           X(i, j) == Way(orders[2], key2, i, j)
           V(i, j) == IF W(i, j) # 0 THEN W(i, j) ELSE IF X(i, j) # 0 THEN X(i, j) ELSE i - j
<1>1. \A i, j \in 1 .. n : i # j => W(i, j) \in -1 .. 1 /\ W(j, i) = -W(i, j)
      BY DEF IsOrder
<1>2. \A i, j \in 1 .. n : i # j => X(i, j) \in -1 .. 1 /\ X(j, i) = -X(i, j)
      BY DEF IsOrder
<1>3. \A i, j, k \in 1 .. n :
         i # j /\ j # k /\ i # k /\ W(i, j) <= 0 /\ W(j, k) <= 0 => W(i, k) <= 0
      BY DEF IsOrder
<1>4. \A i, j, k \in 1 .. n :
         i # j /\ j # k /\ i # k /\ X(i, j) <= 0 /\ X(j, k) <= 0 => X(i, k) <= 0
      BY DEF IsOrder
<1>5. \A i, j \in 1 .. n : i # j => comparer[<<array[i], array[j]>>] = V(i, j)
      BY DEF GoesBy, Verdict
<1> HIDE DEF W, X
<1>6. ASSUME NEW i \in 1 .. n, NEW j \in 1 .. n, i # j
      PROVE  V(i, j) <= 0 \/ V(j, i) <= 0
      BY <1>1, <1>2, <1>6
<1>7. ASSUME NEW i \in 1 .. n, NEW j \in 1 .. n, NEW k \in 1 .. n, i # j, j # k, i # k,
             V(i, j) <= 0, V(j, k) <= 0
      PROVE  V(i, k) <= 0
  <2>1. W(i, j) <= 0 /\ W(j, k) <= 0
        BY <1>1, <1>7
  <2>2. W(i, k) <= 0
        BY <1>3, <1>7, <2>1
  <2>3. CASE W(i, k) # 0
        BY <2>2, <2>3
  <2>4. CASE W(i, k) = 0
    <3>1. W(k, i) <= 0 /\ W(k, i) = 0
          BY <1>1, <1>7, <2>4
    <3>2. W(j, i) <= 0 /\ W(k, j) <= 0
      <4>1. W(j, i) <= 0
            BY <1>3, <1>7, <2>1, <3>1
      <4>2. W(k, j) <= 0
            BY <1>3, <1>7, <2>1, <3>1
      <4>3. QED BY <4>1, <4>2
    <3>3. W(i, j) = 0 /\ W(j, k) = 0
          BY <1>1, <1>7, <2>1, <3>2
    <3>4. X(i, j) <= 0 /\ X(j, k) <= 0
          BY <1>2, <1>7, <3>3
    <3>5. X(i, k) <= 0
          BY <1>4, <1>7, <3>4
    <3>6. CASE X(i, k) # 0
          BY <2>4, <3>5, <3>6
    <3>7. CASE X(i, k) = 0
      <4>1. X(k, i) <= 0
            BY <1>2, <1>7, <3>7
      <4>2. X(j, i) <= 0
            BY <1>4, <1>7, <3>4, <4>1
      <4>3. X(k, j) <= 0
            BY <1>4, <1>7, <3>4, <4>1
      <4>4. X(i, j) = 0 /\ X(j, k) = 0
            BY <1>2, <1>7, <3>4, <4>2, <4>3
      <4>5. i - j <= 0 /\ j - k <= 0
            BY <1>7, <3>3, <4>4
      <4>6. QED BY <2>4, <3>7, <4>5
    <3>8. QED BY <3>6, <3>7
  <2>5. QED BY <2>3, <2>4
<1> HIDE DEF V
<1>8. QED BY <1>5, <1>6, <1>7 DEF IsComparer

\* A value that is there at most once.
LEMMA AtMostOnce ==
    ASSUME NEW n \in Nat, NEW w, DOMAIN w = 1 .. n, NEW x, Count(w, x) <= 1,
           NEW i \in 1 .. n, NEW j \in 1 .. n, i # j
    PROVE  w[i] # x \/ w[j] # x
<1> DEFINE S == {k \in 1 .. n : w[k] = x}
<1>1. SUFFICES ASSUME i \in S, j \in S PROVE FALSE
      OBVIOUS
<1>2. Cardinality(S) <= 1
      BY DEF Count
<1>3. IsFiniteSet(S)
  <2>1. S \subseteq 1 .. n /\ IsFiniteSet(1 .. n)
        BY FS_Interval
  <2>2. QED BY <2>1, FS_Subset
<1> HIDE DEF S
<1>4. Cardinality({i, j}) = 2
  <2>1. IsFiniteSet({i}) /\ Cardinality({i}) = 1
        BY FS_Singleton
  <2>2. {i, j} = {i} \cup {j} /\ j \notin {i}
        OBVIOUS
  <2>3. Cardinality({i} \cup {j}) = Cardinality({i}) + 1
        BY <2>1, <2>2, FS_AddElement
  <2>4. Cardinality({i, j}) = Cardinality({i}) + 1
        BY <2>2, <2>3, Zenon
  <2>5. QED BY <2>1, <2>4
<1>5. Cardinality({i, j}) <= Cardinality(S) /\ Cardinality(S) \in Nat
  <2>1. {i, j} \subseteq S
        BY <1>1
  <2>2. QED BY <1>3, <2>1, FS_Subset, FS_CardinalityType
<1>6. QED BY <1>2, <1>4, <1>5

\* u has the values of w at other places.
Rearranged(u, w, p, n) ==
    /\ DOMAIN u = 1 .. n /\ DOMAIN w = 1 .. n
    /\ p \in [1 .. n -> 1 .. n]
    /\ \A i, j \in 1 .. n : p[i] = p[j] => i = j
    /\ \A k \in 1 .. n : u[k] = w[p[k]]

\* It has each as often.
LEMMA AsOften ==
    ASSUME NEW n \in Nat, NEW p, NEW w, NEW u, Rearranged(u, w, p, n), NEW x
    PROVE  Count(u, x) = Count(w, x)
<1> DEFINE S == {k \in 1 .. n : u[k] = x}
           T == {k \in 1 .. n : w[k] = x}
           q == [k \in S |-> p[k]]
<1>0. /\ DOMAIN u = 1 .. n /\ DOMAIN w = 1 .. n /\ p \in [1 .. n -> 1 .. n]
      /\ \A i, j \in 1 .. n : p[i] = p[j] => i = j
      /\ \A k \in 1 .. n : u[k] = w[p[k]]
      BY DEF Rearranged
<1>1. IsFiniteSet(S)
  <2>1. S \subseteq 1 .. n /\ IsFiniteSet(1 .. n)
        BY FS_Interval
  <2>2. QED BY <2>1, FS_Subset
<1>2. q \in [S -> T]
      BY <1>0
<1>3. \A i, j \in S : q[i] = q[j] => i = j
      BY <1>0
<1>p. \A k \in 1 .. n : \E i \in 1 .. n : p[i] = k
      BY <1>0, Permuted
<1>4. \A t \in T : \E k \in S : q[k] = t
  <2> SUFFICES ASSUME NEW t \in T PROVE \E k \in S : q[k] = t
      OBVIOUS
  <2>1. PICK k \in 1 .. n : p[k] = t
        BY <1>p
  <2>2. k \in S
        BY <1>0, <2>1
  <2>3. QED BY <2>1, <2>2
<1> HIDE DEF q, S, T
<1>5. q \in Bijection(S, T)
      BY <1>2, <1>3, <1>4 DEF Bijection, Injection, Surjection, IsInjective
<1>6. Cardinality(T) = Cardinality(S)
  <2>1. ExistsBijection(S, T)
        BY <1>5 DEF ExistsBijection
  <2>2. QED BY <1>1, <2>1, FS_Bijection
<1>7. Count(u, x) = Cardinality(S) /\ Count(w, x) = Cardinality(T)
      BY <1>0 DEF Count, S, T
<1>8. QED BY <1>6, <1>7

\* The results of an iteratee.
Criterion(f, a) == [i \in DOMAIN a |-> f[a[i]]]

\* What orderBy sorts.
Sorted(a, f, g) ==
    [i \in DOMAIN a |-> [criteria |-> <<f[a[i]], g[a[i]]>>, index |-> i - 1, value |-> a[i]]]

\* The comparer that orderBy sorts by.
Sorter(a, f, g, orders) ==
    [pair \in ToSet(Sorted(a, f, g)) \X ToSet(Sorted(a, f, g)) |->
        compareMultiple(pair[1], pair[2], orders)]

\* orderBy sorts the values with their criteria, and returns the values.
LEMMA OrdersBy ==
    ASSUME NEW a, NEW f, NEW g, NEW orders
    PROVE  LET sorted == ArraySort(Sorted(a, f, g), Sorter(a, f, g, orders))
           IN  orderBy(a, <<f, g>>, orders) = [k \in DOMAIN sorted |-> sorted[k].value]
<1>1. <<f, g>> # <<>> /\ \A v : [k \in DOMAIN <<f, g>> |-> <<f, g>>[k][v]] = <<f[v], g[v]>>
      OBVIOUS
<1> DEFINE objects == [i \in DOMAIN a |->
               [criteria |-> IF <<f, g>> = <<>> THEN <<a[i]>>
                             ELSE [k \in DOMAIN <<f, g>> |-> <<f, g>>[k][a[i]]],
                index |-> i - 1, value |-> a[i]]]
<1>2. objects = Sorted(a, f, g)
      BY <1>1 DEF Sorted
<1>3. orderBy(a, <<f, g>>, orders) =
         baseSortBy(objects, [pair \in ToSet(objects) \X ToSet(objects) |->
                                 compareMultiple(pair[1], pair[2], orders)])
      BY DEF orderBy, baseOrderBy
<1> HIDE DEF objects
<1>4. orderBy(a, <<f, g>>, orders) = baseSortBy(Sorted(a, f, g), Sorter(a, f, g, orders))
      BY <1>2, <1>3 DEF Sorter
<1>5. QED BY <1>4 DEF baseSortBy

\* Positions are compared by one criterion, then the other, then by where they are.
LEMMA SorterIs ==
    ASSUME NEW n \in Nat, NEW a, DOMAIN a = 1 .. n, NEW f, NEW g,
           NEW orders \in {"asc", "desc"} \X {"asc", "desc"},
           IsOrder(orders[1], Criterion(f, a), n), IsOrder(orders[2], Criterion(g, a), n)
    PROVE  GoesBy(Sorter(a, f, g, orders), Sorted(a, f, g), orders,
                  Criterion(f, a), Criterion(g, a), n)
<1>k. PICK key1 : key1 = Criterion(f, a)
      OBVIOUS
<1>l. PICK key2 : key2 = Criterion(g, a)
      OBVIOUS
<1>m. IsOrder(orders[1], key1, n) /\ IsOrder(orders[2], key2, n)
      BY <1>k, <1>l
<1> SUFFICES ASSUME NEW i \in 1 .. n, NEW j \in 1 .. n, i # j
             PROVE  Sorter(a, f, g, orders)[<<Sorted(a, f, g)[i], Sorted(a, f, g)[j]>>]
                       = Verdict(orders, key1, key2, i, j)
    BY <1>k, <1>l DEF GoesBy
<1>1. PICK objects : objects = Sorted(a, f, g)
      OBVIOUS
<1>2. \A k \in 1 .. n : objects[k].criteria = <<f[a[k]], g[a[k]]>> /\ objects[k].index = k - 1
      BY <1>1 DEF Sorted
<1>3. DOMAIN objects = 1 .. n
      BY <1>1 DEF Sorted
<1>4. Sorter(a, f, g, orders)[<<objects[i], objects[j]>>] =
         compareMultiple(objects[i], objects[j], orders)
  <2>1. objects[i] \in ToSet(objects) /\ objects[j] \in ToSet(objects)
        BY <1>3 DEF ToSet
  <2>2. QED BY <1>1, <2>1 DEF Sorter
<1>5. PICK object : object = objects[i]
      OBVIOUS
<1>6. PICK other : other = objects[j]
      OBVIOUS
<1>7. /\ DOMAIN object.criteria = 1 .. 2 /\ object.index = i - 1
      /\ object.criteria[1] = key1[i] /\ object.criteria[2] = key2[i]
  <2>1. object.criteria = <<f[a[i]], g[a[i]]>> /\ object.index = i - 1
        BY <1>2, <1>5
  <2>2. key1[i] = f[a[i]] /\ key2[i] = g[a[i]]
        BY <1>k, <1>l DEF Criterion
  <2>3. QED BY <2>1, <2>2
<1>8. other.index = j - 1 /\ other.criteria[1] = key1[j] /\ other.criteria[2] = key2[j]
  <2>1. other.criteria = <<f[a[j]], g[a[j]]>> /\ other.index = j - 1
        BY <1>2, <1>6
  <2>2. key1[j] = f[a[j]] /\ key2[j] = g[a[j]]
        BY <1>k, <1>l DEF Criterion
  <2>3. QED BY <2>1, <2>2
<1>9. PICK v \in Int : v = compareAscending(key1[i], key1[j])
  <2>1. compareAscending(key1[i], key1[j]) \in -1 .. 1
        BY <1>m DEF IsOrder
  <2>2. QED BY <2>1
<1>10. PICK w \in Int : w = compareAscending(key2[i], key2[j])
  <2>1. compareAscending(key2[i], key2[j]) \in -1 .. 1
        BY <1>m DEF IsOrder
  <2>2. QED BY <2>1
<1>11. compareMultiple(object, other, orders) =
          IF v # 0 THEN Directed(orders[1], v)
          ELSE IF w # 0 THEN Directed(orders[2], w)
          ELSE object.index - other.index
  <2>1. object.index \in Int /\ other.index \in Int
        BY <1>7, <1>8
  <2>2. v = compareAscending(object.criteria[1], other.criteria[1])
        BY <1>7, <1>8, <1>9
  <2>3. w = compareAscending(object.criteria[2], other.criteria[2])
        BY <1>7, <1>8, <1>10
  <2>4. QED BY <1>7, <2>1, <2>2, <2>3, Multiple
<1>12. object.index - other.index = i - j
      BY <1>7, <1>8
<1>13. /\ Way(orders[1], key1, i, j) = Directed(orders[1], v)
       /\ Way(orders[2], key2, i, j) = Directed(orders[2], w)
      BY <1>9, <1>10 DEF Way
<1>14. (v # 0 <=> Directed(orders[1], v) # 0) /\ (w # 0 <=> Directed(orders[2], w) # 0)
      BY DEF Directed
<1>15. compareMultiple(object, other, orders) = Verdict(orders, key1, key2, i, j)
      BY <1>11, <1>12, <1>13, <1>14 DEF Verdict
<1>16. QED BY <1>1, <1>4, <1>5, <1>6, <1>15

\* What orderBy returns is in order, and is the array's values.
LEMMA OrdersStably ==
    ASSUME NEW n \in Nat, NEW a \in [1 .. n -> Elements], NEW f \in Iteratees, NEW g \in Iteratees,
           NEW orders \in {"asc", "desc"} \X {"asc", "desc"},
           Count(map(a, f), NaN) <= 1, Count(map(a, g), NaN) <= 1,
           NEW result, result = orderBy(a, <<f, g>>, orders)
    PROVE  /\ \A v : Count(result, v) = Count(a, v)
           /\ \A i, j \in DOMAIN result :
                 i < j => MayPrecede(a, f, g, orders, result[i], result[j])
<1>k. PICK key1 : key1 = Criterion(f, a)
      OBVIOUS
<1>l. PICK key2 : key2 = Criterion(g, a)
      OBVIOUS
<1>o. PICK objects : objects = Sorted(a, f, g)
      OBVIOUS
<1>c. PICK comparer : comparer = Sorter(a, f, g, orders)
      OBVIOUS
<1> DEFINE T == {objects[i] : i \in 1 .. n}
<1>1. DOMAIN a = 1 .. n /\ Len(a) = n /\ \A i \in 1 .. n : a[i] \in Elements
      OBVIOUS
<1>2. /\ key1 \in [1 .. n -> Criteria] /\ map(a, f) = key1
      /\ key2 \in [1 .. n -> Criteria] /\ map(a, g) = key2
  <2>1. /\ f # Undefined /\ f \in [Elements -> Criteria]
        /\ g # Undefined /\ g \in [Elements -> Criteria]
        BY IterateesAssumption DEF Criteria
  <2>2. \A i \in 1 .. n : f[a[i]] \in Criteria /\ g[a[i]] \in Criteria
        BY <1>1, <2>1
  <2>3. map(a, f) = key1 /\ map(a, g) = key2
        BY <1>k, <1>l, <1>1, <2>1 DEF map, Mapped, arrayMap, Criterion
  <2>4. QED BY <1>k, <1>l, <1>1, <2>2, <2>3 DEF Criterion
<1>3. \A i, j \in 1 .. n : i # j => key1[i] # NaN \/ key1[j] # NaN
  <2>1. Count(key1, NaN) <= 1 /\ DOMAIN key1 = 1 .. n
        BY <1>2
  <2>2. QED BY <2>1, AtMostOnce
<1>4. \A i, j \in 1 .. n : i # j => key2[i] # NaN \/ key2[j] # NaN
  <2>1. Count(key2, NaN) <= 1 /\ DOMAIN key2 = 1 .. n
        BY <1>2
  <2>2. QED BY <2>1, AtMostOnce
<1>5. IsOrder(orders[1], key1, n) /\ IsOrder(orders[2], key2, n)
  <2>1. orders[1] \in {"asc", "desc"} /\ orders[2] \in {"asc", "desc"}
        OBVIOUS
  <2>2. IsOrder(orders[1], key1, n)
        BY <1>2, <1>3, <2>1, EitherWay
  <2>3. IsOrder(orders[2], key2, n)
        BY <1>2, <1>4, <2>1, EitherWay
  <2>4. QED BY <2>2, <2>3
<1>6. GoesBy(comparer, objects, orders, key1, key2, n)
  <2>1. IsOrder(orders[1], Criterion(f, a), n) /\ IsOrder(orders[2], Criterion(g, a), n)
        BY <1>k, <1>l, <1>5
  <2>2. GoesBy(Sorter(a, f, g, orders), Sorted(a, f, g), orders, Criterion(f, a), Criterion(g, a), n)
        BY <1>1, <2>1, SorterIs
  <2>3. QED BY <1>k, <1>l, <1>o, <1>c, <2>2
<1>7. /\ DOMAIN objects = 1 .. n /\ objects \in [1 .. n -> T]
      /\ \A i \in 1 .. n : objects[i].value = a[i]
      BY <1>1, <1>o DEF Sorted
<1> HIDE DEF T
<1>8. IsComparer(comparer, objects)
      BY <1>5, <1>6, <1>7, OneAfterAnother
<1>9. PICK sorted : sorted = ArraySort(objects, comparer)
      OBVIOUS
<1>10. PICK p : SortedAt(sorted, p, objects, n, T, comparer)
  <2>1. objects \in Seq(T) /\ Len(objects) = n
        BY <1>7
  <2>2. QED BY <1>8, <1>9, <2>1, SortIsStable
<1>11. /\ DOMAIN sorted = 1 .. n /\ p \in [1 .. n -> 1 .. n]
       /\ \A i \in 1 .. n : sorted[i] = objects[p[i]]
       /\ \A i, j \in 1 .. n : p[i] = p[j] => i = j
       /\ \A i, j \in 1 .. n : i < j => comparer[<<sorted[i], sorted[j]>>] <= 0
       BY <1>10 DEF SortedAt
<1>12. result = [k \in 1 .. n |-> sorted[k].value]
  <2>1. result = [k \in DOMAIN sorted |-> sorted[k].value]
        BY <1>o, <1>c, <1>9, OrdersBy
  <2>2. QED BY <1>11, <2>1
<1>13. DOMAIN result = 1 .. n /\ \A k \in 1 .. n : result[k] = a[p[k]]
  <2>1. DOMAIN result = 1 .. n /\ \A k \in 1 .. n : result[k] = sorted[k].value
        BY <1>12
  <2>2. ASSUME NEW k \in 1 .. n PROVE result[k] = a[p[k]]
    <3>1. PICK l \in 1 .. n : l = p[k]
          BY <1>11
    <3>2. sorted[k] = objects[l]
          BY <1>11, <3>1
    <3>3. result[k] = objects[l].value
          BY <2>1, <3>2
    <3>4. QED BY <1>7, <3>1, <3>3
  <2>3. QED BY <2>1, <2>2
<1>14. ASSUME NEW v PROVE Count(result, v) = Count(a, v)
  <2>1. Rearranged(result, a, p, n)
        BY <1>1, <1>11, <1>13 DEF Rearranged
  <2>2. QED BY <2>1, AsOften
<1>15. ASSUME NEW i \in DOMAIN result, NEW j \in DOMAIN result, i < j
       PROVE  MayPrecede(a, f, g, orders, result[i], result[j])
  <2>1. PICK k \in 1 .. n : k = p[i]
        BY <1>11, <1>13
  <2>2. PICK l \in 1 .. n : l = p[j]
        BY <1>11, <1>13
  <2>3. k # l
        BY <1>11, <1>13, <1>15, <2>1, <2>2
  <2>4. result[i] = a[k] /\ result[j] = a[l]
        BY <1>13, <2>1, <2>2
  <2>5. Verdict(orders, key1, key2, k, l) <= 0
    <3>1. comparer[<<sorted[i], sorted[j]>>] <= 0
          BY <1>11, <1>13, <1>15
    <3>2. sorted[i] = objects[k] /\ sorted[j] = objects[l]
          BY <1>11, <1>13, <2>1, <2>2
    <3>3. QED BY <1>6, <2>3, <3>1, <3>2 DEF GoesBy
  <2> DEFINE v == Way(orders[1], key1, k, l)
             w == Way(orders[2], key2, k, l)
  <2>6. v \in -1 .. 1 /\ w \in -1 .. 1
        BY <1>5, <2>3 DEF IsOrder
  <2>7. \/ v < 0
        \/ v = 0 /\ w < 0
        \/ v = 0 /\ w = 0 /\ k <= l
        BY <2>5, <2>6 DEF Verdict
  <2>8. v = IF orders[1] = "asc" THEN compareAscending(f[a[k]], f[a[l]])
            ELSE compareAscending(f[a[l]], f[a[k]])
    <3>1. key1[k] = f[a[k]] /\ key1[l] = f[a[l]]
          BY <1>1, <1>k DEF Criterion
    <3>2. key1[k] \in Criteria /\ key1[l] \in Criteria /\ (key1[k] # NaN \/ key1[l] # NaN)
          BY <1>2, <1>3, <2>3
    <3>3. compareAscending(key1[l], key1[k]) = -compareAscending(key1[k], key1[l])
          BY <3>2, Ascends
    <3>4. orders[1] \in {"asc", "desc"}
          OBVIOUS
    <3>5. QED BY <3>1, <3>3, <3>4 DEF Way, Directed
  <2>9. w = IF orders[2] = "asc" THEN compareAscending(g[a[k]], g[a[l]])
            ELSE compareAscending(g[a[l]], g[a[k]])
    <3>1. key2[k] = g[a[k]] /\ key2[l] = g[a[l]]
          BY <1>1, <1>l DEF Criterion
    <3>2. key2[k] \in Criteria /\ key2[l] \in Criteria /\ (key2[k] # NaN \/ key2[l] # NaN)
          BY <1>2, <1>4, <2>3
    <3>3. compareAscending(key2[l], key2[k]) = -compareAscending(key2[k], key2[l])
          BY <3>2, Ascends
    <3>4. orders[2] \in {"asc", "desc"}
          OBVIOUS
    <3>5. QED BY <3>1, <3>3, <3>4 DEF Way, Directed
  <2>10. k <= l => \E x \in DOMAIN a : \E y \in x .. Len(a) : a[x] = a[k] /\ a[y] = a[l]
    <3> SUFFICES ASSUME k <= l
                 PROVE  \E x \in DOMAIN a : \E y \in x .. Len(a) : a[x] = a[k] /\ a[y] = a[l]
        OBVIOUS
    <3>1. k \in DOMAIN a /\ l \in k .. Len(a)
          BY <1>1
    <3>2. QED BY <3>1
  <2> HIDE DEF v, w
  <2>11. QED BY <2>4, <2>7, <2>8, <2>9, <2>10 DEF MayPrecede
<1>16. QED BY <1>14, <1>15

\* Arguments do not change.
LawsSpec == LawsInit /\ [][UNCHANGED given]_given

\* orderBy sorts stably by two criteria, each in its direction, unless there are
\* two NaNs among the values of one: for any arrays and iteratees.
THEOREM OrderByIsStable == LawsSpec => []OrderByStable
<1>1. LawsInit => given \in Arguments
      BY DEF LawsInit
<1>2. given \in Arguments => OrderByStable
  <2> SUFFICES ASSUME given \in Arguments PROVE OrderByStable
      OBVIOUS
  <2>1. PICK n \in 0 .. MaxLength : given.array \in [1 .. n -> Elements]
        BY DEF Arguments
  <2>2. n \in Nat
        OBVIOUS
  <2>3. PICK a \in [1 .. n -> Elements] : a = given.array
        BY <2>1
  <2>4. ASSUME NEW f \in Iteratees, NEW g \in Iteratees,
               NEW orders \in {"asc", "desc"} \X {"asc", "desc"},
               Count(map(a, f), NaN) <= 1, Count(map(a, g), NaN) <= 1
        PROVE  LET result == orderBy(a, <<f, g>>, orders)
               IN  /\ \A v \in Elements : Count(result, v) = Count(a, v)
                   /\ \A i, j \in DOMAIN result :
                         i < j => MayPrecede(a, f, g, orders, result[i], result[j])
    <3>1. PICK result : result = orderBy(a, <<f, g>>, orders)
          OBVIOUS
    <3>2. /\ \A v : Count(result, v) = Count(a, v)
          /\ \A i, j \in DOMAIN result :
                i < j => MayPrecede(a, f, g, orders, result[i], result[j])
          BY <2>2, <2>4, <3>1, OrdersStably
    <3>3. QED BY <3>1, <3>2
  <2>5. SUFFICES ASSUME NEW f \in Iteratees, NEW g \in Iteratees,
                        NEW orders \in {"asc", "desc"} \X {"asc", "desc"},
                        Count(map(given.array, f), NaN) <= 1, Count(map(given.array, g), NaN) <= 1
                 PROVE  LET result == orderBy(given.array, <<f, g>>, orders)
                        IN  /\ \A v \in Elements : Count(result, v) = Count(given.array, v)
                            /\ \A i, j \in DOMAIN result :
                                  i < j => MayPrecede(given.array, f, g, orders, result[i], result[j])
        BY Zenon DEF OrderByStable
  <2>6. Count(map(a, f), NaN) <= 1 /\ Count(map(a, g), NaN) <= 1
        BY <2>3, <2>5
  <2>7. QED BY <2>3, <2>4, <2>6
<1>3. given \in Arguments /\ [UNCHANGED given]_given => (given \in Arguments)'
      OBVIOUS
<1>4. QED BY <1>1, <1>2, <1>3, PTL DEF LawsSpec
=============================================================================
