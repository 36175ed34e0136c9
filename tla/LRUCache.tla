------------------------------ MODULE LRUCache ------------------------------
(***************************************************************************)
(* LRUCache of mem.cpp: what has been read of whole maps, in a hash table, *)
(* with a list of their keys and sizes, the most recently used first.      *)
(***************************************************************************)
EXTENDS Integers, Sequences, SequencesExt

CONSTANT CACHE_CAPACITY  \* the most pages the cache may hold

ASSUME CapacityAssumption == CACHE_CAPACITY \in Nat

VARIABLES
  d_cache_list,  \* a sequence of [key, size], the front first
  d_cache,       \* the values by key
  d_size,        \* the sum of the sizes, as the code keeps it
  recent         \* auxiliary: every key ever used, the last used first

cacheVars == <<d_cache_list, d_cache, d_size, recent>>

Keys(list) == {list[i].key : i \in DOMAIN list}
SizeOf(list) ==
  LET sum[n \in 0 .. Len(list)] == IF n = 0 THEN 0 ELSE sum[n - 1] + list[n].size
  IN sum[Len(list)]

\* Where the iterator in the hash table points.
Place(list, key) == CHOOSE i \in DOMAIN list : list[i].key = key

Without(list, key) ==
  IF key \in Keys(list) THEN RemoveAt(list, Place(list, key)) ELSE list

\* The keys in the order of use, once `key' has been used.
Used(key) ==
  <<key>> \o (IF \E i \in DOMAIN recent : recent[i] = key
                THEN RemoveAt(recent, CHOOSE i \in DOMAIN recent : recent[i] = key)
                ELSE recent)

CacheInit ==
  /\ d_cache_list = <<>>
  /\ d_cache = <<>>
  /\ d_size = 0
  /\ recent = <<>>

exists(key) == key \in DOMAIN d_cache
can_fit(size) == CACHE_CAPACITY >= size

\* How many nodes of `list' the eviction loop may leave at the front for a value
\* of that size to fit.  With none to choose from the loop runs off the list.
Room(list, size) ==
  {n \in 0 .. Len(list) :
     d_size - SizeOf(SubSeq(list, n + 1, Len(list))) + size <= CACHE_CAPACITY}

\* Mutant of PutThenGet: an evicted size is not taken off d_size.
PutThenGetSizeDrifts(key, value) ==
  LET list == Without(d_cache_list, key)
      kept == Max(Room(list, Len(value)))
      evicted == SubSeq(list, kept + 1, Len(list))
  IN /\ can_fit(Len(value))
     /\ Room(list, Len(value)) # {}
     /\ d_cache_list' = <<[key |-> key, size |-> Len(value)]>> \o SubSeq(list, 1, kept)
     /\ d_cache' = [k \in (DOMAIN d_cache \ Keys(evicted)) \cup {key} |->
                     IF k = key THEN value ELSE d_cache[k]]
     /\ d_size' = d_size + Len(value)
     /\ recent' = Used(key)

\* A value under a key that is there already replaces it, but its size stays in
\* d_size.  The value then becomes the front, and get returns it.
PutThenGet(key, value) ==
  LET list == Without(d_cache_list, key)
      kept == Max(Room(list, Len(value)))
      evicted == SubSeq(list, kept + 1, Len(list))
  IN /\ can_fit(Len(value))
     /\ Room(list, Len(value)) # {}
     /\ d_cache_list' = <<[key |-> key, size |-> Len(value)]>> \o SubSeq(list, 1, kept)
     /\ d_cache' = [k \in (DOMAIN d_cache \ Keys(evicted)) \cup {key} |->
                     IF k = key THEN value ELSE d_cache[k]]
     /\ d_size' = d_size - SizeOf(evicted) + Len(value)
     /\ recent' = Used(key)

\* Mutant of Get: the node is left where it is.
GetInPlace(key) ==
  /\ exists(key)
  /\ recent' = Used(key)
  /\ UNCHANGED <<d_cache, d_cache_list, d_size>>

\* get moves the node to the front of the list.
Get(key) ==
  /\ exists(key)
  /\ d_cache_list' = <<d_cache_list[Place(d_cache_list, key)]>> \o Without(d_cache_list, key)
  /\ recent' = Used(key)
  /\ UNCHANGED <<d_cache, d_size>>
=============================================================================
