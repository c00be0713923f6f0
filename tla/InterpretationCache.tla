------------------------ MODULE InterpretationCache ------------------------
(***************************************************************************)
(* The LRU cache of src/app/llm/cache.py.  The OrderedDict is the sequence *)
(* of its keys, least recently used first, and the value of each of them.  *)
(* get and put run without an await, so each is one action.                *)
(***************************************************************************)
EXTENDS Integers, Sequences

CONSTANTS
    CacheKeys,   \* the digests cache_key returns
    Values,      \* note assemblies
    None,        \* what get returns on a miss
    MaxSize      \* max_size; the cache stores nothing when it is not positive

ASSUME CacheAssumption ==
    /\ MaxSize \in Int
    /\ None \notin Values

VARIABLES
    order,   \* the keys of _store, least recently used first
    content  \* their values (None for a key that is not stored)

cacheVars == <<order, content>>

Elements(s) == {s[i] : i \in DOMAIN s}

Stored == Elements(order)

(* s without its i-th element *)
Without(s, i) == [j \in 1 .. Len(s) - 1 |-> IF j < i THEN s[j] ELSE s[j + 1]]

Position(s, k) == CHOOSE i \in DOMAIN s : s[i] = k

(* s after k has been moved, or appended, to its end: move_to_end *)
MovedToEnd(s, k) ==
    Append(IF k \in Elements(s) THEN Without(s, Position(s, k)) ELSE s, k)

(* Mutant: a hit that does not renew the key.                               *)
TouchNothing(k) == UNCHANGED cacheVars

(* What get(k) returns; Touch(k) is what it does to the cache. *)
Lookup(k) == content[k]

Touch(k) ==
    /\ order' = IF k \in Stored THEN MovedToEnd(order, k) ELSE order
    /\ UNCHANGED content

(* Mutant: one entry too many is kept. *)
EvictingLate(s) == IF Len(s) > MaxSize + 1 THEN Tail(s) ELSE s

(* put(k, v): store, move to the end, then evict from the front while the   *)
(* store is too long, which is at most once because put added one key.      *)
Evicting(s) == IF Len(s) > MaxSize THEN Tail(s) ELSE s

(* Mutants: put without its guard on max_size; a put that keeps the older   *)
(* value of a key; one that stores the value where the key belongs.         *)
PutUnguarded(k, v) ==
    /\ order' = Evicting(MovedToEnd(order, k))
    /\ content' = [c \in CacheKeys |-> IF c = k THEN v
                                       ELSE IF c \in Stored' THEN content[c]
                                       ELSE None]
PutIfAbsent(k, v) == PutUnguarded(k, IF content[k] = None THEN v ELSE content[k])
PutSwapped(k, v) ==
    /\ order' = Evicting(MovedToEnd(order, v))
    /\ UNCHANGED content

Put(k, v) ==
    \/ /\ MaxSize <= 0
       /\ UNCHANGED cacheVars
    \/ /\ MaxSize > 0
       /\ order' = Evicting(MovedToEnd(order, k))
       /\ content' = [c \in CacheKeys |-> IF c = k THEN v
                                          ELSE IF c \in Stored' THEN content[c]
                                          ELSE None]

Init ==
    /\ order = << >>
    /\ content = [k \in CacheKeys |-> None]

Next == \E k \in CacheKeys : Touch(k) \/ \E v \in Values : Put(k, v)

Spec == Init /\ [][Next]_cacheVars

TypeOK ==
    /\ order \in Seq(CacheKeys)
    /\ content \in [CacheKeys -> Values \cup {None}]

(* The store never outgrows max_size, no key is in it twice, and exactly    *)
(* the stored keys have a value (cache.py:41-53).                           *)
Bounded == Len(order) <= IF MaxSize > 0 THEN MaxSize ELSE 0

NoDuplicates == \A i, j \in DOMAIN order : order[i] = order[j] => i = j

ValuesAreOfStoredKeys == \A k \in CacheKeys : content[k] # None <=> k \in Stored

StoreConsistent == Bounded /\ NoDuplicates /\ ValuesAreOfStoredKeys
=============================================================================
