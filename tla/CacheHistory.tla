---------------------------- MODULE CacheHistory ----------------------------
(***************************************************************************)
(* InterpretationCache with two history variables, to state what "LRU"     *)
(* promises over a whole run: the last value put under each key, and all   *)
(* keys ever put in the order of their last use.                           *)
(***************************************************************************)
EXTENDS InterpretationCache

VARIABLES
    latest,  \* the last value put under each key, None if it was never put
    uses     \* every key ever put, least recently used first

historyVars == <<order, content, latest, uses>>

Use(k) == uses' = MovedToEnd(uses, k)

HistoryInit == Init /\ latest = [k \in CacheKeys |-> None] /\ uses = << >>

Getting(k) ==
    /\ Touch(k)
    /\ IF Lookup(k) # None THEN Use(k) ELSE UNCHANGED uses
    /\ UNCHANGED latest

Putting(k, v) == Put(k, v) /\ Use(k) /\ latest' = [latest EXCEPT ![k] = v]

HistoryNext == \E k \in CacheKeys : Getting(k) \/ \E v \in Values : Putting(k, v)

HistorySpec == HistoryInit /\ [][HistoryNext]_historyVars

(* The keys of the store are the max_size most recently used of all keys    *)
(* ever put: nothing is evicted while a less recently used key stays        *)
(* (cache.py:44 and 51-53).                                                 *)
KeepsMostRecent ==
    LET n == IF MaxSize > 0 THEN MaxSize ELSE 0
        l == Len(uses)
    IN  order = SubSeq(uses, IF l > n THEN l - n + 1 ELSE 1, l)

(* A hit returns the value of the last put under that key, never an older   *)
(* one (cache.py:45 and 50).                                                *)
HitIsLatest == \A k \in CacheKeys : Lookup(k) \in {None, latest[k]}
=============================================================================
