------------------------------ MODULE LruCache ------------------------------
(***************************************************************************)
(* CacheState of audio/tts.rs: synthesized PCM by cache key.  A cache is a *)
(* record of the keys that have a value and the queue that orders them for *)
(* eviction; the values themselves are determined by their keys and left   *)
(* out.  The two fields are kept in step by hand in the code.              *)
(***************************************************************************)
EXTENDS Naturals, FiniteSets, SequencesExt

CONSTANT Capacity       \* CACHE_CAPACITY

ASSUME CapacityAssumption == Capacity \in Nat \ {0}

EmptyCache == [values |-> {}, order |-> <<>>]

\* Mutant: key is appended and stays where it was.
MoveToBackKeeps(order, key) == Append(order, key)

\* The first position of key is removed from the queue and key is appended.
MoveToBack(order, key) == Append(RemoveFirst(order, key), key)

\* CacheState::get of a key that has a value.
CacheGet(cache, key) ==
    [cache EXCEPT !.order = MoveToBack(@, key)]

\* CacheState::insert: refresh, or evict the head of the queue when full.
CacheInsert(cache, key) ==
    IF key \in cache.values
    THEN CacheGet(cache, key)
    ELSE IF Cardinality(cache.values) >= Capacity /\ cache.order # <<>>
    THEN [values |-> (cache.values \ {Head(cache.order)}) \cup {key},
          order  |-> Append(Tail(cache.order), key)]
    ELSE [values |-> cache.values \cup {key},
          order  |-> Append(cache.order, key)]
=============================================================================
