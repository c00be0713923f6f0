----------------------------- MODULE CacheProofs -----------------------------
(***************************************************************************)
(* Proofs about InterpretationCache and CacheHistory, for any set of keys  *)
(* and any max_size, zero and negative ones included: the store is bounded *)
(* and holds no key twice, a hit returns the value of the latest put, and  *)
(* the keys stored are the most recently used ones.                        *)
(***************************************************************************)
EXTENDS CacheHistory, TLAPS

Distinct(s) == \A i, j \in DOMAIN s : s[i] = s[j] => i = j

CacheInv == TypeOK /\ StoreConsistent

-----------------------------------------------------------------------------
(* Lemmas about sequences of distinct keys. *)

(* Removing the i-th element leaves the others, each once. *)
LEMMA WithoutFacts ==
    ASSUME NEW s \in Seq(CacheKeys), Distinct(s), NEW i \in DOMAIN s
    PROVE  /\ Without(s, i) \in Seq(CacheKeys)
           /\ Len(Without(s, i)) = Len(s) - 1
           /\ Distinct(Without(s, i))
           /\ Elements(Without(s, i)) = Elements(s) \ {s[i]}
<1> DEFINE r == Without(s, i)
<1>1. /\ Len(s) \in Nat \ {0}
      /\ DOMAIN s = 1 .. Len(s)
      /\ i \in 1 .. Len(s)
      /\ \A j \in 1 .. Len(s) : s[j] \in CacheKeys
  OBVIOUS
<1>2. r = [j \in 1 .. Len(s) - 1 |-> IF j < i THEN s[j] ELSE s[j + 1]]
  BY DEF Without
<1>3. /\ DOMAIN r = 1 .. Len(s) - 1
      /\ \A j \in 1 .. Len(s) - 1 : r[j] = IF j < i THEN s[j] ELSE s[j + 1]
  BY <1>2
<1>4. \A j \in 1 .. Len(s) - 1 : r[j] \in CacheKeys
  BY <1>1, <1>3
<1>5. r \in Seq(CacheKeys) /\ Len(r) = Len(s) - 1
  <2>1. Len(s) - 1 \in Nat
    BY <1>1
  <2> QED BY <1>1, <1>2, <1>4, <2>1
<1>6. Distinct(r)
  BY <1>1, <1>3 DEF Distinct
<1>7. Elements(r) \subseteq Elements(s) \ {s[i]}
  BY <1>1, <1>3, SMTT(20) DEF Distinct, Elements
<1>8. Elements(s) \ {s[i]} \subseteq Elements(r)
  <2> SUFFICES ASSUME NEW j \in 1 .. Len(s), j # i
               PROVE  s[j] \in Elements(r)
    BY <1>1 DEF Elements
  <2>1. CASE j < i
    BY <1>1, <1>3, <2>1 DEF Elements
  <2>2. CASE j > i
    <3>1. j - 1 \in DOMAIN r /\ r[j - 1] = s[j]
      BY <1>1, <1>3, <2>2
    <3> QED BY <3>1 DEF Elements
  <2> QED BY <1>1, <2>1, <2>2
<1> QED BY <1>5, <1>6, <1>7, <1>8

(* Appending a new element. *)
LEMMA AppendFacts ==
    ASSUME NEW s \in Seq(CacheKeys), Distinct(s), NEW k \in CacheKeys, k \notin Elements(s)
    PROVE  /\ Append(s, k) \in Seq(CacheKeys)
           /\ Len(Append(s, k)) = Len(s) + 1
           /\ Append(s, k)[Len(s) + 1] = k
           /\ Distinct(Append(s, k))
           /\ Elements(Append(s, k)) = Elements(s) \cup {k}
<1> DEFINE r == Append(s, k)
<1>1. /\ r \in Seq(CacheKeys) /\ Len(r) = Len(s) + 1 /\ r[Len(s) + 1] = k
      /\ Len(s) \in Nat /\ DOMAIN s = 1 .. Len(s) /\ DOMAIN r = 1 .. Len(s) + 1
      /\ \A j \in 1 .. Len(s) : r[j] = s[j]
  OBVIOUS
<1> HIDE DEF r
<1>2. Distinct(r)
  BY <1>1 DEF Distinct, Elements
<1>3. Elements(r) = Elements(s) \cup {k}
  BY <1>1 DEF Elements
<1> QED BY <1>1, <1>2, <1>3 DEF r

(* move_to_end keeps the keys, adds k if it is new, and puts it last. *)
LEMMA MovedToEndFacts ==
    ASSUME NEW s \in Seq(CacheKeys), Distinct(s), NEW k \in CacheKeys
    PROVE  /\ MovedToEnd(s, k) \in Seq(CacheKeys)
           /\ Distinct(MovedToEnd(s, k))
           /\ Elements(MovedToEnd(s, k)) = Elements(s) \cup {k}
           /\ Len(MovedToEnd(s, k)) = IF k \in Elements(s) THEN Len(s) ELSE Len(s) + 1
           /\ MovedToEnd(s, k)[Len(MovedToEnd(s, k))] = k
<1>1. CASE k \notin Elements(s)
  BY <1>1, AppendFacts DEF MovedToEnd
<1>2. CASE k \in Elements(s)
  <2> DEFINE i == Position(s, k)
  <2> DEFINE w == Without(s, i)
  <2>1. i \in DOMAIN s /\ s[i] = k
    BY <1>2 DEF Position, Elements
  <2> HIDE DEF i
  <2>2. /\ w \in Seq(CacheKeys) /\ Len(w) = Len(s) - 1 /\ Distinct(w)
        /\ Elements(w) = Elements(s) \ {k}
    BY <2>1, WithoutFacts
  <2>3. MovedToEnd(s, k) = Append(w, k)
    BY <1>2 DEF MovedToEnd, i
  <2> HIDE DEF w
  <2>4. /\ Append(w, k) \in Seq(CacheKeys)
        /\ Len(Append(w, k)) = Len(w) + 1
        /\ Append(w, k)[Len(w) + 1] = k
        /\ Distinct(Append(w, k))
        /\ Elements(Append(w, k)) = Elements(w) \cup {k}
    BY <2>2, AppendFacts
  <2>5. Len(w) + 1 = Len(s)
    BY <2>2
  <2> QED BY <1>2, <2>2, <2>3, <2>4, <2>5
<1> QED BY <1>1, <1>2

(* Evicting the oldest key makes room for one, and keeps the last. *)
LEMMA EvictingFacts ==
    ASSUME NEW s \in Seq(CacheKeys), Distinct(s), s # << >>, MaxSize > 0,
           Len(s) <= MaxSize + 1
    PROVE  /\ Evicting(s) \in Seq(CacheKeys)
           /\ Distinct(Evicting(s))
           /\ Len(Evicting(s)) <= MaxSize
           /\ Elements(Evicting(s)) \subseteq Elements(s)
           /\ s[Len(s)] \in Elements(Evicting(s))
<1> USE CacheAssumption
<1>1. /\ Len(s) \in Nat \ {0}
      /\ DOMAIN s = 1 .. Len(s)
  OBVIOUS
<1>2. CASE Len(s) <= MaxSize
  BY <1>1, <1>2 DEF Evicting, Elements
<1>3. CASE Len(s) > MaxSize
  <2> DEFINE r == Tail(s)
  <2>1. /\ r \in Seq(CacheKeys) /\ Len(r) = Len(s) - 1 /\ DOMAIN r = 1 .. Len(s) - 1
        /\ \A j \in 1 .. Len(s) - 1 : r[j] = s[j + 1]
    BY <1>1
  <2>2. Evicting(s) = r
    BY <1>3 DEF Evicting
  <2> HIDE DEF r
  <2>3. \A j \in 1 .. Len(s) - 1 : j + 1 \in DOMAIN s /\ r[j] = s[j + 1]
    BY <1>1, <2>1
  <2>4. Distinct(r)
    <3> SUFFICES ASSUME NEW a \in DOMAIN r, NEW b \in DOMAIN r, r[a] = r[b]
                 PROVE  a = b
      BY DEF Distinct
    <3>1. /\ a + 1 \in DOMAIN s /\ b + 1 \in DOMAIN s /\ s[a + 1] = s[b + 1]
          /\ a \in Int /\ b \in Int
      BY <1>1, <2>1, <2>3
    <3>2. a + 1 = b + 1
      BY <3>1 DEF Distinct
    <3> QED BY <3>1, <3>2
  <2>5. Elements(r) \subseteq Elements(s)
    <3> SUFFICES ASSUME NEW j \in DOMAIN r
                 PROVE  r[j] \in Elements(s)
      BY DEF Elements
    <3>1. j + 1 \in DOMAIN s /\ r[j] = s[j + 1]
      BY <2>1, <2>3
    <3> QED BY <3>1 DEF Elements
  <2>6. s[Len(s)] \in Elements(r)
    <3>1. Len(s) - 1 \in DOMAIN r /\ r[Len(s) - 1] = s[Len(s)]
      BY <1>1, <1>3, <2>1
    <3> QED BY <3>1 DEF Elements
  <2> QED BY <1>1, <2>1, <2>2, <2>4, <2>5, <2>6
<1> QED BY <1>1, <1>2, <1>3

-----------------------------------------------------------------------------
(* The store. *)

LEMMA InitInv == Init => CacheInv
BY CacheAssumption DEF Init, CacheInv, TypeOK, StoreConsistent, Bounded, NoDuplicates,
                       ValuesAreOfStoredKeys, Stored, Elements

LEMMA TouchKeepsInv ==
    ASSUME CacheInv, NEW k \in CacheKeys, Touch(k)
    PROVE  CacheInv'
<1> USE DEF CacheInv, StoreConsistent
<1>1. CASE k \notin Stored
  BY <1>1 DEF Touch, TypeOK, Bounded, NoDuplicates, ValuesAreOfStoredKeys, Stored
<1>2. CASE k \in Stored
  <2>1. order \in Seq(CacheKeys) /\ Distinct(order)
    BY DEF TypeOK, NoDuplicates, Distinct
  <2>2. order' = MovedToEnd(order, k) /\ content' = content
    BY <1>2 DEF Touch
  <2>3. /\ order' \in Seq(CacheKeys)
        /\ Distinct(order')
        /\ Elements(order') = Elements(order)
        /\ Len(order') = Len(order)
    <3>1. /\ MovedToEnd(order, k) \in Seq(CacheKeys)
          /\ Distinct(MovedToEnd(order, k))
          /\ Elements(MovedToEnd(order, k)) = Elements(order) \cup {k}
          /\ Len(MovedToEnd(order, k)) = IF k \in Elements(order) THEN Len(order)
                                                                  ELSE Len(order) + 1
      BY <2>1, MovedToEndFacts
    <3> QED BY <1>2, <2>2, <3>1 DEF Stored
  <2>4. TypeOK' /\ Bounded'
    BY <2>2, <2>3 DEF TypeOK, Bounded
  <2>5. NoDuplicates'
    BY <2>3 DEF NoDuplicates, Distinct
  <2>6. ValuesAreOfStoredKeys'
    BY <2>2, <2>3 DEF ValuesAreOfStoredKeys, Stored
  <2> QED BY <2>4, <2>5, <2>6
<1> QED BY <1>1, <1>2

LEMMA PutKeepsInv ==
    ASSUME CacheInv, NEW k \in CacheKeys, NEW v \in Values, Put(k, v)
    PROVE  CacheInv'
<1> USE CacheAssumption DEF CacheInv, StoreConsistent
<1>1. CASE MaxSize <= 0
  BY <1>1 DEF Put, cacheVars, TypeOK, Bounded, NoDuplicates, ValuesAreOfStoredKeys, Stored
<1>2. CASE MaxSize > 0
  <2> DEFINE moved == MovedToEnd(order, k)
  <2>1. order \in Seq(CacheKeys) /\ Distinct(order) /\ Len(order) <= MaxSize
    BY <1>2 DEF TypeOK, NoDuplicates, Distinct, Bounded
  <2>2. /\ order' = Evicting(moved)
        /\ content' = [c \in CacheKeys |-> IF c = k THEN v
                                           ELSE IF c \in Stored' THEN content[c]
                                           ELSE None]
    BY <1>2 DEF Put
  <2>3. /\ moved \in Seq(CacheKeys)
        /\ Distinct(moved)
        /\ Elements(moved) = Elements(order) \cup {k}
        /\ Len(moved) <= MaxSize + 1
        /\ moved[Len(moved)] = k
    <3>1. /\ moved \in Seq(CacheKeys)
          /\ Distinct(moved)
          /\ Elements(moved) = Elements(order) \cup {k}
          /\ Len(moved) = IF k \in Elements(order) THEN Len(order) ELSE Len(order) + 1
          /\ moved[Len(moved)] = k
      BY <2>1, MovedToEndFacts
    <3> HIDE DEF moved
    <3> QED BY <1>2, <2>1, <3>1
  <2> HIDE DEF moved
  <2>4. moved # << >>
    BY <2>3 DEF Elements
  <2>5. /\ order' \in Seq(CacheKeys)
        /\ Distinct(order')
        /\ Len(order') <= MaxSize
        /\ Elements(order') \subseteq Elements(order) \cup {k}
        /\ k \in Elements(order')
    BY <1>2, <2>2, <2>3, <2>4, EvictingFacts
  <2>6. TypeOK' /\ Bounded'
    BY <1>2, <2>2, <2>5 DEF TypeOK, Bounded
  <2>7. NoDuplicates'
    BY <2>5 DEF NoDuplicates, Distinct
  <2>8. ValuesAreOfStoredKeys'
    BY <2>2, <2>5 DEF ValuesAreOfStoredKeys, Stored
  <2> QED BY <2>6, <2>7, <2>8
<1> QED BY <1>1, <1>2

(* A cache with room for every sequence of different keys evicts nothing.   *)
LEMMA PutEvictsNothing ==
    ASSUME CacheInv, \A s \in Seq(CacheKeys) : Distinct(s) => Len(s) <= MaxSize,
           NEW k \in CacheKeys, NEW v \in Values, Put(k, v)
    PROVE  \A c \in CacheKeys \ {k} : content'[c] = content[c]
<1> USE CacheAssumption DEF CacheInv, StoreConsistent
<1>1. CASE MaxSize <= 0
  BY <1>1 DEF Put, cacheVars
<1>2. CASE MaxSize > 0
  <2> DEFINE moved == MovedToEnd(order, k)
  <2>1. /\ order' = Evicting(moved)
        /\ content' = [c \in CacheKeys |-> IF c = k THEN v
                                           ELSE IF c \in Stored' THEN content[c]
                                           ELSE None]
    BY <1>2 DEF Put
  <2>2. /\ moved \in Seq(CacheKeys)
        /\ Distinct(moved)
        /\ Elements(moved) = Elements(order) \cup {k}
    <3>1. order \in Seq(CacheKeys) /\ Distinct(order)
      BY DEF TypeOK, NoDuplicates, Distinct
    <3> QED BY <3>1, MovedToEndFacts
  <2> HIDE DEF moved
  <2>3. order' = moved
    BY <2>1, <2>2 DEF Evicting
  <2>4. ASSUME NEW c \in CacheKeys \ {k}, c \notin Stored'
        PROVE  content[c] = None
    BY <2>2, <2>3, <2>4 DEF ValuesAreOfStoredKeys, Stored
  <2> QED BY <2>1, <2>4
<1> QED BY <1>1, <1>2

LEMMA NextKeepsInv == CacheInv /\ [Next]_cacheVars => CacheInv'
<1> SUFFICES ASSUME CacheInv, [Next]_cacheVars PROVE CacheInv'
  OBVIOUS
<1>1. CASE Next
  BY <1>1, TouchKeepsInv, PutKeepsInv DEF Next
<1>2. CASE UNCHANGED cacheVars
  BY <1>2 DEF cacheVars, CacheInv, TypeOK, StoreConsistent, Bounded, NoDuplicates,
              ValuesAreOfStoredKeys, Stored
<1> QED BY <1>1, <1>2

(* The store keeps its types and its three parts of consistency.            *)
THEOREM CacheInvariant == Spec => []CacheInv
<1>1. Init => CacheInv
  BY InitInv
<1>2. CacheInv /\ [Next]_cacheVars => CacheInv'
  BY NextKeepsInv
<1> QED BY <1>1, <1>2, PTL DEF Spec

(* The store never outgrows max_size, whatever that is, holds no key twice, *)
(* and has a value for exactly its keys (cache.py:41-53).                   *)
THEOREM StoreStaysConsistent == Spec => []StoreConsistent
<1>1. CacheInv => StoreConsistent
  BY DEF CacheInv
<1> QED BY <1>1, CacheInvariant, PTL

(* get and put keep the store an ordered list of keys, and what it holds    *)
(* the readings that were put, or nothing (cache.py:36-53).                 *)
THEOREM CacheTypes == Spec => []TypeOK
<1>1. CacheInv => TypeOK
  BY DEF CacheInv
<1> QED BY <1>1, CacheInvariant, PTL

-----------------------------------------------------------------------------
(* Hits, with the history. *)

HistoryInv == CacheInv /\ latest \in [CacheKeys -> Values \cup {None}] /\ HitIsLatest

LEMMA HistoryStepKeepsInv == HistoryInv /\ [HistoryNext]_historyVars => HistoryInv'
<1> SUFFICES ASSUME HistoryInv, [HistoryNext]_historyVars PROVE HistoryInv'
  OBVIOUS
<1> USE DEF HistoryInv, HitIsLatest, Lookup
<1>1. ASSUME NEW k \in CacheKeys, Getting(k) PROVE HistoryInv'
  <2>1. CacheInv'
    BY <1>1, TouchKeepsInv DEF Getting
  <2>2. content' = content /\ latest' = latest
    BY <1>1 DEF Getting, Touch
  <2> QED BY <2>1, <2>2
<1>2. ASSUME NEW k \in CacheKeys, NEW v \in Values, Putting(k, v) PROVE HistoryInv'
  <2>1. CacheInv'
    BY <1>2, PutKeepsInv DEF Putting
  <2>2. latest' = [latest EXCEPT ![k] = v]
    BY <1>2 DEF Putting
  <2>3. CASE MaxSize <= 0
    <3>1. \A c \in CacheKeys : content[c] = None
      <4>1. Len(order) <= 0 /\ order \in Seq(CacheKeys)
        BY <2>3, CacheAssumption DEF CacheInv, StoreConsistent, Bounded, TypeOK
      <4>2. Stored = {}
        BY <4>1 DEF Stored, Elements
      <4> QED BY <4>2 DEF CacheInv, StoreConsistent, ValuesAreOfStoredKeys
    <3>2. content' = content
      BY <1>2, <2>3, CacheAssumption DEF Putting, Put, cacheVars
    <3> QED BY <2>1, <2>2, <3>1, <3>2
  <2>4. CASE MaxSize > 0
    <3>1. content' = [c \in CacheKeys |-> IF c = k THEN v
                                          ELSE IF c \in Stored' THEN content[c]
                                          ELSE None]
      BY <1>2, <2>4, CacheAssumption DEF Putting, Put
    <3> QED BY <2>1, <2>2, <3>1
  <2> QED BY <2>3, <2>4, CacheAssumption
<1>3. CASE UNCHANGED historyVars
  BY <1>3 DEF historyVars, CacheInv, TypeOK, StoreConsistent, Bounded, NoDuplicates,
              ValuesAreOfStoredKeys, Stored
<1> QED BY <1>1, <1>2, <1>3 DEF HistoryNext

(* A hit returns the value of the last put under its key (cache.py:41-53):  *)
(* evictions and renewals never bring an older value back.                  *)
THEOREM HitsAreLatest == HistorySpec => []HitIsLatest
<1>1. HistoryInit => HistoryInv
  BY InitInv DEF HistoryInit, HistoryInv, HitIsLatest, Lookup, Init
<1>2. HistoryInv /\ [HistoryNext]_historyVars => HistoryInv'
  BY HistoryStepKeepsInv
<1>3. HistoryInv => HitIsLatest
  BY DEF HistoryInv
<1> QED BY <1>1, <1>2, <1>3, PTL DEF HistorySpec

-----------------------------------------------------------------------------
(* The store holds the most recently used keys. *)

Capacity == IF MaxSize > 0 THEN MaxSize ELSE 0

IsSuffix(s, u) ==
    Len(s) <= Len(u) /\ \A i \in 1 .. Len(s) : s[i] = u[Len(u) - Len(s) + i]

(* What move_to_end does to each place: those after the key move up by one. *)
LEMMA MovedPlaces ==
    ASSUME NEW s \in Seq(CacheKeys), Distinct(s), NEW k \in CacheKeys, k \in Elements(s),
           NEW p \in DOMAIN s, s[p] = k
    PROVE  /\ Len(MovedToEnd(s, k)) = Len(s)
           /\ MovedToEnd(s, k)[Len(s)] = k
           /\ \A j \in 1 .. Len(s) - 1 :
                 MovedToEnd(s, k)[j] = IF j < p THEN s[j] ELSE s[j + 1]
<1> DEFINE w == Without(s, p)
<1>1. Position(s, k) = p
  BY DEF Position, Distinct
<1>2. w \in Seq(CacheKeys) /\ Len(w) = Len(s) - 1
  BY WithoutFacts
<1>3. \A j \in 1 .. Len(s) - 1 : w[j] = IF j < p THEN s[j] ELSE s[j + 1]
  BY DEF Without
<1>4. MovedToEnd(s, k) = Append(w, k)
  BY <1>1 DEF MovedToEnd
<1> HIDE DEF w
<1>5. /\ Len(Append(w, k)) = Len(w) + 1
      /\ Append(w, k)[Len(w) + 1] = k
      /\ \A j \in 1 .. Len(w) : Append(w, k)[j] = w[j]
  BY <1>2
<1>6. Len(s) \in Nat
  OBVIOUS
<1> QED BY <1>2, <1>3, <1>4, <1>5, <1>6

LEMMA AppendedPlaces ==
    ASSUME NEW s \in Seq(CacheKeys), NEW k \in CacheKeys, k \notin Elements(s)
    PROVE  /\ Len(MovedToEnd(s, k)) = Len(s) + 1
           /\ MovedToEnd(s, k)[Len(s) + 1] = k
           /\ \A j \in 1 .. Len(s) : MovedToEnd(s, k)[j] = s[j]
BY DEF MovedToEnd

(* A store that is a suffix of the history remains one when the same key is *)
(* moved to the end of both, wherever it was in them.                       *)
LEMMA MovingKeepsSuffix ==
    ASSUME NEW s \in Seq(CacheKeys), NEW u \in Seq(CacheKeys), Distinct(s), Distinct(u),
           IsSuffix(s, u), NEW k \in CacheKeys
    PROVE  IsSuffix(MovedToEnd(s, k), MovedToEnd(u, k))
<1> DEFINE ms == MovedToEnd(s, k)
           mu == MovedToEnd(u, k)
           d  == Len(u) - Len(s)
<1>1. /\ Len(s) \in Nat /\ Len(u) \in Nat /\ d \in Nat
      /\ DOMAIN s = 1 .. Len(s) /\ DOMAIN u = 1 .. Len(u)
      /\ \A i \in 1 .. Len(s) : s[i] = u[d + i]
  BY DEF IsSuffix
<1>2. CASE k \in Elements(s)
  <2>1. PICK p \in 1 .. Len(s) : s[p] = k
    BY <1>1, <1>2 DEF Elements
  <2>2. d + p \in DOMAIN u /\ u[d + p] = k
    BY <1>1, <2>1
  <2>3. k \in Elements(u)
    BY <2>2 DEF Elements
  <2>4. /\ Len(ms) = Len(s) /\ ms[Len(s)] = k
        /\ \A j \in 1 .. Len(s) - 1 : ms[j] = IF j < p THEN s[j] ELSE s[j + 1]
    BY <1>1, <1>2, <2>1, MovedPlaces
  <2>5. /\ Len(mu) = Len(u) /\ mu[Len(u)] = k
        /\ \A j \in 1 .. Len(u) - 1 : mu[j] = IF j < d + p THEN u[j] ELSE u[j + 1]
    BY <2>2, <2>3, MovedPlaces
  <2> HIDE DEF ms, mu
  <2>6. ASSUME NEW i \in 1 .. Len(s) PROVE ms[i] = mu[d + i]
    <3>1. CASE i = Len(s)
      BY <1>1, <2>4, <2>5, <3>1
    <3>2. CASE i < Len(s)
      <4>1. i \in 1 .. Len(s) - 1 /\ d + i \in 1 .. Len(u) - 1
            /\ i + 1 \in 1 .. Len(s) /\ (i < p <=> d + i < d + p)
        BY <1>1, <2>1, <3>2
      <4>2. s[i] = u[d + i] /\ s[i + 1] = u[d + i + 1]
        BY <1>1, <4>1
      <4> HIDE DEF d
      <4> QED BY <2>4, <2>5, <4>1, <4>2
    <3>3. i = Len(s) \/ i < Len(s)
      <4>1. Len(s) \in Nat
        OBVIOUS
      <4> QED BY <4>1
    <3> QED BY <3>1, <3>2, <3>3
  <2> QED BY <1>1, <2>4, <2>5, <2>6 DEF IsSuffix, ms, mu
<1>3. CASE k \notin Elements(u)
  <2>1. k \notin Elements(s)
    <3> SUFFICES ASSUME NEW i \in 1 .. Len(s), s[i] = k PROVE FALSE
      BY <1>1 DEF Elements
    <3>1. d + i \in DOMAIN u /\ u[d + i] = k
      BY <1>1
    <3> QED BY <1>3, <3>1 DEF Elements
  <2>2. Len(ms) = Len(s) + 1 /\ ms[Len(s) + 1] = k /\ \A j \in 1 .. Len(s) : ms[j] = s[j]
    BY <2>1, AppendedPlaces
  <2>3. Len(mu) = Len(u) + 1 /\ mu[Len(u) + 1] = k /\ \A j \in 1 .. Len(u) : mu[j] = u[j]
    BY <1>3, AppendedPlaces
  <2> HIDE DEF ms, mu
  <2>4. ASSUME NEW i \in 1 .. Len(s) + 1 PROVE ms[i] = mu[d + i]
    <3>1. CASE i = Len(s) + 1
      BY <1>1, <2>2, <2>3, <3>1
    <3>2. CASE i \in 1 .. Len(s)
      BY <1>1, <2>2, <2>3, <3>2
    <3> QED BY <1>1, <3>1, <3>2
  <2> QED BY <1>1, <2>2, <2>3, <2>4 DEF IsSuffix, ms, mu
<1>4. CASE k \in Elements(u) /\ k \notin Elements(s)
  <2>1. PICK q \in 1 .. Len(u) : u[q] = k
    BY <1>1, <1>4 DEF Elements
  <2>2. q <= d
    <3> SUFFICES ASSUME q > d PROVE FALSE
      BY <1>1, <2>1
    <3>1. q - d \in DOMAIN s /\ s[q - d] = u[d + (q - d)] /\ d + (q - d) = q
      BY <1>1, <2>1
    <3> QED BY <1>4, <2>1, <3>1 DEF Elements
  <2>3. Len(ms) = Len(s) + 1 /\ ms[Len(s) + 1] = k /\ \A j \in 1 .. Len(s) : ms[j] = s[j]
    BY <1>4, AppendedPlaces
  <2>4. /\ Len(mu) = Len(u) /\ mu[Len(u)] = k
        /\ \A j \in 1 .. Len(u) - 1 : mu[j] = IF j < q THEN u[j] ELSE u[j + 1]
    BY <1>1, <1>4, <2>1, MovedPlaces
  <2> HIDE DEF ms, mu
  <2>5. ASSUME NEW i \in 1 .. Len(s) + 1 PROVE ms[i] = mu[d - 1 + i]
    <3>1. CASE i = Len(s) + 1
      BY <1>1, <2>3, <2>4, <3>1
    <3>2. CASE i \in 1 .. Len(s)
      <4>1. /\ d - 1 + i \in 1 .. Len(u) - 1 /\ ~(d - 1 + i < q)
            /\ (d - 1 + i) + 1 = d + i
        BY <1>1, <2>1, <2>2, <3>2
      <4>2. mu[d - 1 + i] = u[(d - 1 + i) + 1]
        BY <2>4, <4>1
      <4> QED BY <1>1, <2>3, <3>2, <4>1, <4>2
    <3> QED BY <1>1, <3>1, <3>2
  <2> QED BY <1>1, <2>1, <2>2, <2>3, <2>4, <2>5 DEF IsSuffix, ms, mu
<1> QED BY <1>2, <1>3, <1>4

(* Evicting takes from the front, and leaves the store as long as it may be.*)
LEMMA EvictingKeepsSuffix ==
    ASSUME NEW s \in Seq(CacheKeys), NEW u \in Seq(CacheKeys), IsSuffix(s, u),
           MaxSize > 0, s # << >>, Len(s) <= MaxSize + 1
    PROVE  /\ IsSuffix(Evicting(s), u)
           /\ Len(Evicting(s)) = IF Len(s) > MaxSize THEN MaxSize ELSE Len(s)
<1> USE CacheAssumption
<1>1. Len(s) \in Nat \ {0} /\ Len(u) \in Nat
  OBVIOUS
<1>2. CASE Len(s) <= MaxSize
  BY <1>1, <1>2 DEF Evicting
<1>3. CASE Len(s) > MaxSize
  <2> DEFINE r == Tail(s)
  <2>1. Len(r) = Len(s) - 1 /\ \A j \in 1 .. Len(s) - 1 : r[j] = s[j + 1]
    BY <1>1
  <2>2. Evicting(s) = r
    BY <1>3 DEF Evicting
  <2> HIDE DEF r
  <2>3. ASSUME NEW j \in 1 .. Len(r) PROVE r[j] = u[Len(u) - Len(r) + j]
    <3>1. j \in 1 .. Len(s) - 1 /\ j + 1 \in 1 .. Len(s)
          /\ Len(u) - Len(s) + (j + 1) = Len(u) - Len(r) + j
      BY <1>1, <2>1
    <3> QED BY <2>1, <3>1 DEF IsSuffix
  <2>4. Len(r) = MaxSize /\ Len(r) <= Len(u)
    BY <1>1, <1>3, <2>1 DEF IsSuffix
  <2>5. IsSuffix(r, u)
    BY <2>3, <2>4 DEF IsSuffix
  <2> QED BY <1>3, <2>2, <2>4, <2>5
<1> QED BY <1>1, <1>2, <1>3

RecentInv ==
    /\ CacheInv
    /\ uses \in Seq(CacheKeys) /\ Distinct(uses)
    /\ IsSuffix(order, uses)
    /\ Len(order) = IF Len(uses) > Capacity THEN Capacity ELSE Len(uses)

(* As long as the store is the whole history, every key used is stored.     *)
LEMMA KeysNotStored ==
    ASSUME RecentInv, NEW k \in Elements(uses), k \notin Elements(order)
    PROVE  Len(uses) > Capacity
<1> SUFFICES ASSUME Len(uses) <= Capacity PROVE FALSE
  BY CacheAssumption DEF RecentInv, Capacity
<1>1. PICK i \in DOMAIN uses : uses[i] = k
  BY DEF Elements
<1>2. /\ Len(order) = Len(uses) /\ Len(uses) \in Nat
      /\ order \in Seq(CacheKeys) /\ uses \in Seq(CacheKeys)
  BY CacheAssumption DEF RecentInv, Capacity, CacheInv, TypeOK
<1>3. i \in 1 .. Len(order) /\ i \in DOMAIN order /\ Len(uses) - Len(order) + i = i
  BY <1>1, <1>2
<1>4. order[i] = k
  BY <1>1, <1>3 DEF RecentInv, IsSuffix
<1> QED BY <1>3, <1>4 DEF Elements

LEMMA GettingKeepsRecent ==
    ASSUME RecentInv, NEW k \in CacheKeys, Getting(k)
    PROVE  RecentInv'
<1>1. CacheInv'
  BY TouchKeepsInv DEF RecentInv, Getting
<1>2. Lookup(k) # None <=> k \in Stored
  BY DEF RecentInv, CacheInv, StoreConsistent, ValuesAreOfStoredKeys, Lookup
<1>3. CASE k \notin Stored
  <2>1. order' = order /\ uses' = uses
    BY <1>2, <1>3 DEF Getting, Touch
  <2> QED BY <1>1, <2>1 DEF RecentInv
<1>4. CASE k \in Stored
  <2>1. order' = MovedToEnd(order, k) /\ uses' = MovedToEnd(uses, k)
    BY <1>2, <1>4 DEF Getting, Touch, Use
  <2>2. /\ order \in Seq(CacheKeys) /\ Distinct(order)
        /\ uses \in Seq(CacheKeys) /\ Distinct(uses) /\ IsSuffix(order, uses)
    BY DEF RecentInv, CacheInv, TypeOK, StoreConsistent, NoDuplicates, Distinct
  <2>3. k \in Elements(uses)
    <3>1. PICK i \in DOMAIN order : order[i] = k
      BY <1>4 DEF Stored, Elements
    <3>2. Len(uses) - Len(order) + i \in DOMAIN uses /\ uses[Len(uses) - Len(order) + i] = k
      BY <2>2, <3>1 DEF IsSuffix
    <3> QED BY <3>2 DEF Elements
  <2>4. Len(MovedToEnd(order, k)) = Len(order)
    BY <1>4, <2>2, MovedToEndFacts DEF Stored
  <2>5. /\ MovedToEnd(uses, k) \in Seq(CacheKeys) /\ Distinct(MovedToEnd(uses, k))
        /\ Len(MovedToEnd(uses, k)) = Len(uses)
    BY <2>2, <2>3, MovedToEndFacts
  <2>6. IsSuffix(MovedToEnd(order, k), MovedToEnd(uses, k))
    BY <2>2, MovingKeepsSuffix
  <2> QED BY <1>1, <2>1, <2>4, <2>5, <2>6 DEF RecentInv
<1> QED BY <1>3, <1>4

LEMMA PuttingKeepsRecent ==
    ASSUME RecentInv, NEW k \in CacheKeys, NEW v \in Values, Putting(k, v)
    PROVE  RecentInv'
<1> USE CacheAssumption
<1> DEFINE ms == MovedToEnd(order, k)
           mu == MovedToEnd(uses, k)
<1>1. CacheInv'
  BY PutKeepsInv DEF RecentInv, Putting
<1>2. uses' = mu
  BY DEF Putting, Use
<1>3. /\ order \in Seq(CacheKeys) /\ Distinct(order)
      /\ uses \in Seq(CacheKeys) /\ Distinct(uses) /\ IsSuffix(order, uses)
      /\ Len(order) = IF Len(uses) > Capacity THEN Capacity ELSE Len(uses)
      /\ Len(order) \in Nat /\ Len(uses) \in Nat
  BY DEF RecentInv, CacheInv, TypeOK, StoreConsistent, NoDuplicates, Distinct
<1>4. /\ mu \in Seq(CacheKeys) /\ Distinct(mu)
      /\ Len(mu) = IF k \in Elements(uses) THEN Len(uses) ELSE Len(uses) + 1
  BY <1>3, MovedToEndFacts
<1>5. /\ ms \in Seq(CacheKeys)
      /\ Len(ms) = IF k \in Elements(order) THEN Len(order) ELSE Len(order) + 1
  BY <1>3, MovedToEndFacts
<1>6. IsSuffix(ms, mu)
  BY <1>3, MovingKeepsSuffix
<1>7. k \in Elements(order) => k \in Elements(uses)
  <2> SUFFICES ASSUME NEW i \in DOMAIN order, order[i] = k PROVE k \in Elements(uses)
    BY DEF Elements
  <2>1. Len(uses) - Len(order) + i \in DOMAIN uses /\ uses[Len(uses) - Len(order) + i] = k
    BY <1>3 DEF IsSuffix
  <2> QED BY <2>1 DEF Elements
<1>8. k \in Elements(uses) /\ k \notin Elements(order) => Len(uses) > Capacity
  BY KeysNotStored
<1>9. CASE MaxSize <= 0
  <2>1. order' = order
    BY <1>9 DEF Putting, Put, cacheVars
  <2>2. Capacity = 0 /\ Len(order) = 0
    BY <1>3, <1>9 DEF Capacity
  <2> HIDE DEF mu
  <2>3. Len(mu) \in Nat
    BY <1>4
  <2>4. IsSuffix(order, mu)
    BY <2>2, <2>3 DEF IsSuffix
  <2> QED BY <1>1, <1>2, <1>4, <2>1, <2>2, <2>3, <2>4 DEF RecentInv
<1>10. CASE MaxSize > 0
  <2>1. order' = Evicting(ms) /\ Capacity = MaxSize
    BY <1>10 DEF Putting, Put, Capacity
  <2> HIDE DEF ms, mu
  <2>2. ms # << >> /\ Len(ms) <= MaxSize + 1
    <3>1. Len(ms) # 0
      <4>1. CASE k \in Elements(order)
        <5>1. Len(order) # 0
          BY <1>3, <4>1 DEF Elements
        <5> QED BY <1>5, <4>1, <5>1
      <4> QED BY <1>3, <1>5, <4>1
    <3> QED BY <1>3, <1>5, <2>1, <3>1
  <2>3. /\ IsSuffix(Evicting(ms), mu)
        /\ Len(Evicting(ms)) = IF Len(ms) > MaxSize THEN MaxSize ELSE Len(ms)
    BY <1>4, <1>5, <1>6, <1>10, <2>2, EvictingKeepsSuffix
  <2>4. Len(Evicting(ms)) = IF Len(mu) > Capacity THEN Capacity ELSE Len(mu)
    BY <1>3, <1>4, <1>5, <1>7, <1>8, <1>10, <2>1, <2>3
  <2> QED BY <1>1, <1>2, <1>4, <2>1, <2>3, <2>4 DEF RecentInv
<1> QED BY <1>9, <1>10

LEMMA RecentImpliesProperty == RecentInv => KeepsMostRecent
<1> SUFFICES ASSUME RecentInv PROVE KeepsMostRecent
  OBVIOUS
<1> USE CacheAssumption
<1> DEFINE l == Len(uses)
           a == IF l > Capacity THEN l - Capacity + 1 ELSE 1
<1>1. /\ order \in Seq(CacheKeys) /\ uses \in Seq(CacheKeys) /\ l \in Nat
      /\ Len(order) = IF l > Capacity THEN Capacity ELSE l
      /\ Capacity \in Nat
  BY DEF RecentInv, CacheInv, TypeOK, Capacity
<1>2. a \in 1 .. l + 1 /\ Len(order) = l - a + 1
  BY <1>1
<1>3. \A i \in 1 .. Len(order) : order[i] = uses[i + a - 1]
  <2> TAKE i \in 1 .. Len(order)
  <2>1. l - Len(order) + i = i + a - 1
    BY <1>1, <1>2
  <2> QED BY <2>1 DEF RecentInv, IsSuffix
<1>4. order = [i \in 1 .. Len(order) |-> order[i]]
  BY <1>1
<1>5. SubSeq(uses, a, l) = [i \in 1 .. l - a + 1 |-> uses[i + a - 1]]
  <2> HIDE DEF a
  <2> QED BY <1>1, <1>2
<1>6. order = SubSeq(uses, a, l)
  <2> HIDE DEF a, l
  <2> QED BY <1>2, <1>3, <1>4, <1>5
<1> QED BY <1>6 DEF KeepsMostRecent, Capacity

(* Nothing is evicted while a less recently used key stays, whatever the    *)
(* mix of hits, overwrites and new keys (cache.py:44 and 51-53): the store  *)
(* is the end of the list of all keys ever put, by last use.                *)
THEOREM MostRecentAreKept == HistorySpec => []KeepsMostRecent
<1>1. HistoryInit => RecentInv
  <2> SUFFICES ASSUME HistoryInit PROVE RecentInv
    OBVIOUS
  <2>1. order = << >> /\ uses = << >> /\ CacheInv
    BY InitInv DEF HistoryInit, Init
  <2>2. Capacity >= 0 /\ Capacity \in Int
    BY CacheAssumption DEF Capacity
  <2> QED BY <2>1, <2>2 DEF RecentInv, IsSuffix, Distinct
<1>2. RecentInv /\ [HistoryNext]_historyVars => RecentInv'
  <2> SUFFICES ASSUME RecentInv, [HistoryNext]_historyVars PROVE RecentInv'
    OBVIOUS
  <2>1. CASE UNCHANGED historyVars
    BY <2>1 DEF historyVars, RecentInv, CacheInv, TypeOK, StoreConsistent, Bounded,
                NoDuplicates, ValuesAreOfStoredKeys, Stored
  <2> QED BY <2>1, GettingKeepsRecent, PuttingKeepsRecent DEF HistoryNext
<1> QED BY <1>1, <1>2, RecentImpliesProperty, PTL DEF HistorySpec
=============================================================================
