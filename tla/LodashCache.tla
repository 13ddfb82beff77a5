------------------------------ MODULE LodashCache ------------------------------
(***************************************************************************)
(* The caches of lodash.js.  A ListCache is a list of pairs; a MapCache    *)
(* keeps strings and other simple values in a Hash each and objects in a   *)
(* Map; a Stack, which comparing and cloning keep visited objects in, is a *)
(* ListCache that grows into a MapCache.  memoize keeps results in a       *)
(* MapCache, and memoizeCapped, of which property paths are parsed,        *)
(* empties it when it is full.                                             *)
(*                                                                         *)
(* The cache of the functions below is the value of this; they return what *)
(* becomes of it.  A Hash has no prototype (nativeCreate).  Map is         *)
(* JavaScript's, kept as a ListCache; an old engine has none (hasMap).     *)
(***************************************************************************)
EXTENDS LodashBase

CONSTANTS
    Strings, Simple, Objects,   \* keys: strings; numbers, null ..; the others
    Values,                     \* Undefined may be one
    HASH_UNDEFINED,             \* kept in place of undefined
    MAX_MEMOIZE_SIZE            \* 500

ASSUME KeysAssumption ==
    Strings \cap Simple = {} /\ Strings \cap Objects = {} /\ Simple \cap Objects = {}

Keys == Strings \cup Simple \cup Objects

ASSUME MemoizeAssumption == MAX_MEMOIZE_SIZE \in Nat \ {0}

\* Nobody keeps the string that stands for undefined, and no function returns it.
ASSUME HashUndefinedAssumption ==
    /\ HASH_UNDEFINED # Undefined
    /\ HASH_UNDEFINED \notin Values /\ HASH_UNDEFINED \notin Objects
    /\ \A key \in Keys : HASH_UNDEFINED # <<key>>

VARIABLES
    cache,      \* a MapCache
    kept,       \* history: what was set and not deleted since, a function
    memo,       \* the cache of a function memoized by memoizeCapped
    results     \* history: what the last call of each key returned

cacheVars == <<cache, kept, memo, results>>

Without(f, key) == [k \in DOMAIN f \ {key} |-> f[k]]

With(f, key, value) ==
    [k \in DOMAIN f \cup {key} |-> IF k = key THEN value ELSE f[k]]

-----------------------------------------------------------------------------
(* Hash: data is a function from its keys                                  *)

Hash == [kind |-> "hash", data |-> <<>>, size |-> 0]

hashHas(hash, key) == key \in DOMAIN hash.data /\ hash.data[key] # Undefined

hashGet(hash, key) ==
    IF key \notin DOMAIN hash.data \/ hash.data[key] = HASH_UNDEFINED THEN Undefined
    ELSE hash.data[key]

\* Faulty variant: undefined is kept as such.
hashSetPlain(hash, key, value) ==
    [hash EXCEPT !.size = @ + (IF hashHas(hash, key) THEN 0 ELSE 1),
                 !.data = With(@, key, value)]

hashSet(hash, key, value) ==
    [hash EXCEPT !.size = @ + (IF hashHas(hash, key) THEN 0 ELSE 1),
                 !.data = With(@, key, IF value = Undefined THEN HASH_UNDEFINED ELSE value)]

hashDelete(hash, key) ==
    IF hashHas(hash, key)
    THEN [hash EXCEPT !.data = Without(@, key), !.size = @ - 1]
    ELSE hash

-----------------------------------------------------------------------------
(* ListCache: data is a sequence of <<key, value>>                         *)

ListCache == [kind |-> "list", data |-> <<>>, size |-> 0]

\* From the end.
assocIndexOf(array, key) ==
    GreatestOr({i \in Indices(array) : eq(At(array, i)[1], key)}, -1)

listCacheHas(list, key) == assocIndexOf(list.data, key) > -1

listCacheGet(list, key) ==
    LET index == assocIndexOf(list.data, key)
    IN  IF index < 0 THEN Undefined ELSE At(list.data, index)[2]

listCacheSet(list, key, value) ==
    LET index == assocIndexOf(list.data, key)
    IN  IF index < 0
        THEN [list EXCEPT !.size = @ + 1, !.data = Append(@, <<key, value>>)]
        ELSE [list EXCEPT !.data[index + 1][2] = value]

listCacheDelete(list, key) ==
    LET index == assocIndexOf(list.data, key)
    IN  IF index < 0 THEN list
        ELSE [list EXCEPT !.data = RemoveAt(@, index + 1), !.size = @ - 1]

-----------------------------------------------------------------------------
(* MapCache                                                                *)

mapCacheClear ==
    [kind |-> "map", data |-> [hash |-> Hash, map |-> ListCache, string |-> Hash], size |-> 0]

isKeyable(key) == key \in Strings \cup Simple

\* The member of data that has the key.
getMapData(key) ==
    IF ~isKeyable(key) THEN "map" ELSE IF key \in Strings THEN "string" ELSE "hash"

mapCacheHas(map, key) ==
    LET data == map.data[getMapData(key)]
    IN  IF isKeyable(key) THEN hashHas(data, key) ELSE listCacheHas(data, key)

mapCacheGet(map, key) ==
    LET data == map.data[getMapData(key)]
    IN  IF isKeyable(key) THEN hashGet(data, key) ELSE listCacheGet(data, key)

mapCacheSet(map, key, value) ==
    LET data == map.data[getMapData(key)]
        new == IF isKeyable(key) THEN hashSet(data, key, value)
               ELSE listCacheSet(data, key, value)
    IN  [map EXCEPT !.data[getMapData(key)] = new,
                    !.size = @ + (IF new.size = data.size THEN 0 ELSE 1)]

mapCacheDelete(map, key) ==
    LET data == map.data[getMapData(key)]
        new == IF isKeyable(key) THEN hashDelete(data, key) ELSE listCacheDelete(data, key)
    IN  [map EXCEPT !.data[getMapData(key)] = new,
                    !.size = @ - (IF mapCacheHas(map, key) THEN 1 ELSE 0)]

MapCache(entries) ==
    FoldLeft(LAMBDA map, entry : mapCacheSet(map, entry[1], entry[2]),
             mapCacheClear, entries)

-----------------------------------------------------------------------------
(* Stack: data is a ListCache or a MapCache                                *)

Stack == [data |-> ListCache, size |-> 0]

OfData(data) == [data |-> data, size |-> data.size]

stackGet(s, key) ==
    IF s.data.kind = "list" THEN listCacheGet(s.data, key) ELSE mapCacheGet(s.data, key)

\* Faulty variant: a key that is there gets a new value.
stackSetOver(hasMap, s, key, value) ==
    OfData(IF s.data.kind = "list" THEN listCacheSet(s.data, key, value)
           ELSE mapCacheSet(s.data, key, value))

\* A list is added to without a look for the key.
stackSet(hasMap, s, key, value) ==
    IF s.data.kind = "list" /\ (~hasMap \/ Len(s.data.data) < LARGE_ARRAY_SIZE - 1)
    THEN OfData([s.data EXCEPT !.data = Append(@, <<key, value>>), !.size = @ + 1])
    ELSE OfData(mapCacheSet(IF s.data.kind = "list" THEN MapCache(s.data.data) ELSE s.data,
                            key, value))

stackDelete(s, key) ==
    OfData(IF s.data.kind = "list" THEN listCacheDelete(s.data, key)
           ELSE mapCacheDelete(s.data, key))

-----------------------------------------------------------------------------
CacheInit ==
    /\ cache = mapCacheClear
    /\ kept = <<>>
    /\ memo = mapCacheClear
    /\ results = <<>>

CacheSet(key, value) ==
    /\ cache' = mapCacheSet(cache, key, value)
    /\ kept' = With(kept, key, value)
    /\ UNCHANGED <<memo, results>>

CacheDelete(key) ==
    /\ cache' = mapCacheDelete(cache, key)
    /\ kept' = Without(kept, key)
    /\ UNCHANGED <<memo, results>>

CacheClear ==
    /\ cache' = mapCacheClear
    /\ kept' = <<>>
    /\ UNCHANGED <<memo, results>>

\* Faulty variant: emptied only when it holds more than it should.
memoizedLate(key) ==
    LET resolved == IF memo.size > MAX_MEMOIZE_SIZE THEN mapCacheClear ELSE memo
        has == mapCacheHas(resolved, key)
    IN  /\ memo' = IF has THEN resolved ELSE mapCacheSet(resolved, key, <<key>>)
        /\ results' = With(results, key, IF has THEN mapCacheGet(resolved, key) ELSE <<key>>)
        /\ UNCHANGED <<cache, kept>>

\* A call; func returns <<key>> for a key.  The resolver of memoizeCapped
\* empties the cache before it is looked into.
memoized(key) ==
    LET resolved == IF memo.size = MAX_MEMOIZE_SIZE THEN mapCacheClear ELSE memo
        has == mapCacheHas(resolved, key)
    IN  /\ memo' = IF has THEN resolved ELSE mapCacheSet(resolved, key, <<key>>)
        /\ results' = With(results, key, IF has THEN mapCacheGet(resolved, key) ELSE <<key>>)
        /\ UNCHANGED <<cache, kept>>

CacheNext ==
    \/ \E key \in Keys, value \in Values : CacheSet(key, value)
    \/ \E key \in Keys : CacheDelete(key)
    \/ CacheClear

MemoNext == \E key \in Keys : memoized(key)

-----------------------------------------------------------------------------
\* A cache holds what was set last for each key and not deleted since, undefined
\* among it, whichever of its three parts a key belongs to; its size is their
\* number.
CacheIsMap ==
    /\ cache.size = Cardinality(DOMAIN kept)
    /\ \A key \in Keys :
        /\ mapCacheHas(cache, key) <=> key \in DOMAIN kept
        /\ mapCacheGet(cache, key) = IF key \in DOMAIN kept THEN kept[key] ELSE Undefined

\* A memoized function returns what the function returns, before and after its
\* cache was emptied, and remembers no more than MAX_MEMOIZE_SIZE results.
MemoizeIsTransparent ==
    /\ \A key \in DOMAIN results : results[key] = <<key>>
    /\ memo.size <= MAX_MEMOIZE_SIZE
    /\ memo.size = Cardinality({key \in Keys : mapCacheHas(memo, key)})

=============================================================================
