------------------------- MODULE GeminiClientProofs -------------------------
(***************************************************************************)
(* Proofs about GeminiClient: for any number of keys, models and           *)
(* concurrent callers, every open call accounts for each key exactly once, *)
(* and a model is given up on only when every key is parked or has         *)
(* answered 429.                                                           *)
(***************************************************************************)
EXTENDS GeminiClient, Integers, WellFoundedInduction, TLAPS

(* What the invariant says of one frame: an open call has started at some   *)
(* key and accounts for each key once; one that ended in a rate limit has   *)
(* had every key skipped or refused.                                        *)
Accounted(f) ==
    /\ f.key \in Keys
    /\ Keys = f.skipped \cup f.refused \cup {f.key} \cup f.untried
    /\ f.key \notin f.untried \cup f.refused \cup f.skipped
    /\ f.untried \cap (f.refused \cup f.skipped) = {}
    /\ f.refused \cap f.skipped = {}

GivenUp(f) == NKeys > 0 /\ f.skipped \cup f.refused = Keys

FrameOK(f) ==
    /\ f.first <= NKeys
    /\ f.pc # "idle" => Accounted(f)
    /\ f.pc = "idle" => f.left = 0
    /\ f.pc = "idle" /\ f.out = "rateLimited" => GivenUp(f)

(* The inductive invariant. *)
ClientInv == TypeOK /\ \A t \in Tasks : FrameOK(call[t])

-----------------------------------------------------------------------------
(* Lemmas about the helpers. *)

(* Every nonempty set of natural numbers has a least element. *)
LEMMA LeastNatural ==
    ASSUME NEW T, T \subseteq Nat, T # {}
    PROVE  \E x \in T : \A y \in T : x <= y
<1> DEFINE R == OpToRel(<, Nat)
<1>1. IsWellFoundedOn(R, Nat)
  BY NatLessThanWellFounded
<1>2. PICK x \in T : \A y \in T : ~(<<y, x>> \in R)
  <2> HIDE DEF R
  <2> QED BY <1>1, WFMin
<1>3. \A y \in T : ~(y < x)
  BY <1>2 DEF OpToRel
<1> HIDE DEF R
<1> QED BY <1>3

(* A function into the naturals takes its least value on a nonempty set. *)
LEMMA LeastArgument ==
    ASSUME NEW S, S # {}, NEW f, \A k \in S : f[k] \in Nat
    PROVE  \E k \in S : \A j \in S : f[k] <= f[j]
<1> DEFINE T == {f[k] : k \in S}
<1>1. PICK x \in T : \A y \in T : x <= y
  BY LeastNatural
<1> QED BY <1>1

(* The next key is one of the keys that are left. *)
LEMMA NextKeyIsLeft ==
    ASSUME NEW S \in SUBSET Keys, S # {}, NEW first \in 0 .. NKeys
    PROVE  NextKey(S, first) \in S
<1> USE ClientAssumption
<1> DEFINE f == [k \in S |-> Offset(k, first)]
<1>1. \A k \in S : f[k] \in Nat
  BY DEF Offset, Keys
<1>2. \E k \in S : \A j \in S : f[k] <= f[j]
  <2> HIDE DEF f
  <2> QED BY <1>1, LeastArgument
<1>3. \E k \in S : \A j \in S : Offset(k, first) <= Offset(j, first)
  BY <1>2
<1> QED BY <1>3 DEF NextKey

(* The shortest park is that of some key. *)
LEMMA ShortestParkIsOfAKey ==
    ASSUME TypeOK, NKeys > 0, NEW m \in Models
    PROVE  \E k \in Keys : ShortestPark(m) = parked[m][k]
<1> USE ClientAssumption
<1> DEFINE f == [k \in Keys |-> parked[m][k]]
<1>1. \A k \in Keys : f[k] \in Nat
  BY DEF TypeOK
<1>2. Keys # {}
  <2>1. 0 \in Keys
    BY DEF Keys
  <2> QED BY <2>1
<1>3. \E k \in Keys : \A j \in Keys : f[k] <= f[j]
  <2> HIDE DEF f
  <2> QED BY <1>1, <1>2, LeastArgument
<1>4. \E k \in Keys : \A j \in Keys : parked[m][k] <= parked[m][j]
  BY <1>3
<1> QED BY <1>4 DEF ShortestPark

LEMMA EndedIsFrame ==
    ASSUME NEW f \in Frames, NEW out \in Outcomes, NEW w \in Int
    PROVE  /\ Ended(f, out, w) \in Frames
           /\ Ended(f, out, w).pc = "idle"
           /\ Ended(f, out, w).out = out
           /\ Ended(f, out, w).wait = w
           /\ Ended(f, out, w).first = 0
           /\ Ended(f, out, w).left = 0
           /\ Ended(f, out, w).model = f.model
           /\ Ended(f, out, w).skipped = f.skipped
           /\ Ended(f, out, w).refused = f.refused
BY DEF Ended, Frames

LEMMA AskingIsFrame ==
    ASSUME NEW f \in Frames, f.first <= NKeys, NEW S \in SUBSET Keys, S # {}
    PROVE  /\ Asking(f, S) \in Frames
           /\ Asking(f, S).pc = "sent"
           /\ Asking(f, S).key \in S
           /\ Asking(f, S).untried = S \ {Asking(f, S).key}
           /\ Asking(f, S).first = f.first
           /\ Asking(f, S).model = f.model
           /\ Asking(f, S).out = f.out
           /\ Asking(f, S).skipped = f.skipped
           /\ Asking(f, S).refused = f.refused
<1> DEFINE k == NextKey(S, f.first)
<1>1. f.first \in 0 .. NKeys
  BY ClientAssumption DEF Frames
<1>2. k \in S
  BY <1>1, NextKeyIsLeft
<1>3. WaitFor(f.timeout) \in Nat
  BY ClientAssumption DEF WaitFor, Frames
<1> HIDE DEF k
<1>4. k \in Int
  BY <1>2, ClientAssumption DEF Keys
<1>5. Asking(f, S) = [f EXCEPT !.pc = "sent", !.key = k, !.untried = S \ {k},
                               !.left = WaitFor(f.timeout)]
  BY DEF Asking, k
<1> QED BY <1>2, <1>3, <1>4, <1>5, ZenonT(30) DEF Frames

LEMMA NewFrameIsFrame ==
    ASSUME NEW m \in Models
    PROVE  NewFrame(m) \in Frames
BY DEF NewFrame, Frames, Outcomes, NoDelay

LEMMA OpeningIsFrame ==
    ASSUME TypeOK, NEW m \in Models, NEW timeout \in Nat, NEW think \in BOOLEAN
    PROVE  /\ Opening(m, timeout, think) \in Frames
           /\ Opening(m, timeout, think).first = rr
           /\ Opening(m, timeout, think).out = "none"
           /\ Opening(m, timeout, think).skipped = Parked(m)
           /\ Opening(m, timeout, think).refused = {}
BY DEF Opening, Frames, TypeOK, Parked, Outcomes, NoDelay

(* A step that gives one task a good frame keeps the invariant. *)
LEMMA FrameUpdate ==
    ASSUME ClientInv, NEW t \in Tasks, NEW f \in Frames, FrameOK(f),
           call' = [call EXCEPT ![t] = f],
           parked' \in [Models -> [Keys -> Nat]],
           noThinking' \subseteq Models,
           rr' \in Nat, NKeys > 0 => rr' < NKeys
    PROVE  ClientInv'
<1>1. call' \in [Tasks -> Frames]
  BY DEF ClientInv, TypeOK
<1>2. TypeOK'
  BY <1>1 DEF TypeOK
<1>3. ASSUME NEW u \in Tasks PROVE FrameOK(call'[u])
  <2>1. CASE u = t
    BY <2>1 DEF ClientInv, TypeOK
  <2>2. CASE u # t
    <3>1. call'[u] = call[u]
      BY <2>2 DEF ClientInv, TypeOK
    <3> QED BY <3>1 DEF ClientInv
  <2> QED BY <2>1, <2>2
<1>4. \A u \in Tasks : FrameOK(call[u])'
  BY <1>3 DEF FrameOK, Accounted, GivenUp
<1> QED BY <1>2, <1>4 DEF ClientInv

(* A call that ends with any outcome but a rate limit keeps the invariant. *)
LEMMA ReturnKeepsInv ==
    ASSUME ClientInv, NEW t \in Tasks, NEW out \in Outcomes \ {"rateLimited"},
           Return(t, out), UNCHANGED <<parked, noThinking, rr>>
    PROVE  ClientInv'
<1> DEFINE g == Ended(call[t], out, NoDelay)
<1>1. call[t] \in Frames
  BY DEF ClientInv, TypeOK
<1>2. NoDelay \in Int
  BY DEF NoDelay
<1>3. g \in Frames /\ g.pc = "idle" /\ g.out = out /\ g.first = 0 /\ g.left = 0
  BY <1>1, <1>2, EndedIsFrame
<1>4. call' = [call EXCEPT ![t] = g]
  BY DEF Return
<1> HIDE DEF g
<1>5. FrameOK(g)
  BY <1>3, ClientAssumption DEF FrameOK
<1> QED BY <1>3, <1>4, <1>5, FrameUpdate DEF ClientInv, TypeOK

-----------------------------------------------------------------------------
(* Every action keeps the invariant. *)

LEMMA BeginKeepsInv ==
    ASSUME ClientInv, NEW t \in Tasks, NEW m \in Models, NEW timeout \in Nat,
           NEW think \in BOOLEAN, Begin(t, m, timeout, think)
    PROVE  ClientInv'
<1> DEFINE f == Opening(m, timeout, think)
<1>1. TypeOK /\ UNCHANGED <<parked, noThinking>>
  BY DEF ClientInv, Begin
<1>2. /\ f \in Frames /\ f.first = rr /\ f.out = "none"
      /\ f.skipped = Parked(m) /\ f.refused = {}
  BY <1>1, OpeningIsFrame
<1> HIDE DEF f
<1>3. Parked(m) \in SUBSET Keys
  BY DEF Parked
<1>4. CASE NKeys = 0
  <2> DEFINE g == Ended(NewFrame(m), "auth", NoDelay)
  <2>1. call' = [call EXCEPT ![t] = g] /\ UNCHANGED rr
    BY <1>4 DEF Begin
  <2>2. g \in Frames /\ g.pc = "idle" /\ g.out = "auth" /\ g.first = 0 /\ g.left = 0
    <3>1. "auth" \in Outcomes /\ NoDelay \in Int
      BY DEF Outcomes, NoDelay
    <3>2. NewFrame(m) \in Frames
      BY NewFrameIsFrame
    <3> QED BY <3>1, <3>2, EndedIsFrame
  <2> HIDE DEF g
  <2>3. FrameOK(g)
    BY <2>2, ClientAssumption DEF FrameOK
  <2> QED BY <1>1, <2>1, <2>2, <2>3, FrameUpdate DEF TypeOK
<1>5. CASE NKeys > 0 /\ Parked(m) = Keys
  <2> DEFINE g == Ended(f, "rateLimited", ShortestPark(m))
  <2>1. call' = [call EXCEPT ![t] = g] /\ rr' = IF rr + 1 = NKeys THEN 0 ELSE rr + 1
    BY <1>5 DEF Begin, f
  <2>2. ShortestPark(m) \in Int
    BY <1>1, <1>5, ShortestParkIsOfAKey DEF TypeOK
  <2>3. /\ g \in Frames /\ g.pc = "idle" /\ g.first = 0 /\ g.left = 0
        /\ g.skipped = Parked(m) /\ g.refused = {}
    <3>1. "rateLimited" \in Outcomes
      BY DEF Outcomes
    <3> QED BY <1>2, <2>2, <3>1, EndedIsFrame
  <2> HIDE DEF g
  <2>4. FrameOK(g)
    BY <1>5, <2>3, ClientAssumption DEF FrameOK, GivenUp
  <2>5. rr' \in Nat /\ (NKeys > 0 => rr' < NKeys)
    BY <1>1, <1>5, <2>1, ClientAssumption DEF TypeOK
  <2> QED BY <1>1, <2>1, <2>3, <2>4, <2>5, FrameUpdate DEF TypeOK
<1>6. CASE NKeys > 0 /\ Parked(m) # Keys
  <2> DEFINE S == Keys \ Parked(m)
             g == Asking(f, S)
  <2>1. call' = [call EXCEPT ![t] = g] /\ rr' = IF rr + 1 = NKeys THEN 0 ELSE rr + 1
    BY <1>6 DEF Begin, f
  <2>2. S \in SUBSET Keys /\ S # {}
    BY <1>3, <1>6
  <2>3. f.first <= NKeys
    BY <1>1, <1>2, <1>6, ClientAssumption DEF TypeOK
  <2> HIDE DEF S
  <2>4. /\ g \in Frames /\ g.pc = "sent" /\ g.key \in S /\ g.untried = S \ {g.key}
        /\ g.first = rr /\ g.skipped = Parked(m) /\ g.refused = {}
    BY <1>2, <2>2, <2>3, AskingIsFrame
  <2> HIDE DEF g
  <2>5. Accounted(g)
    BY <1>3, <2>4 DEF Accounted, S
  <2>6. FrameOK(g)
    BY <1>2, <2>3, <2>4, <2>5 DEF FrameOK
  <2>7. rr' \in Nat /\ (NKeys > 0 => rr' < NKeys)
    BY <1>1, <1>6, <2>1, ClientAssumption DEF TypeOK
  <2> QED BY <1>1, <2>1, <2>4, <2>6, <2>7, FrameUpdate DEF TypeOK
<1>7. NKeys = 0 \/ NKeys > 0
  BY ClientAssumption
<1> QED BY <1>4, <1>5, <1>6, <1>7

LEMMA Receive429KeepsInv ==
    ASSUME ClientInv, NEW t \in Tasks, NEW d \in RetryDelays, Receive429(t, d)
    PROVE  ClientInv'
<1> DEFINE f == [call[t] EXCEPT !.refused = @ \cup {call[t].key}]
<1>1. call[t] \in Frames /\ FrameOK(call[t]) /\ Accounted(call[t]) /\ TypeOK
  BY DEF ClientInv, TypeOK, Receive429, InFlight, FrameOK
<1>2. /\ f \in Frames /\ f.key = call[t].key /\ f.model = call[t].model
      /\ f.first = call[t].first /\ f.untried = call[t].untried
      /\ f.skipped = call[t].skipped
      /\ f.refused = call[t].refused \cup {call[t].key}
  BY <1>1 DEF Frames, Accounted
<1>3. parked' = [parked EXCEPT ![f.model][f.key] = ParkFor(d)]
  BY DEF Receive429
<1>4. UNCHANGED <<noThinking, rr>>
  BY DEF Receive429
<1>5. CASE f.untried = {} /\ call' = [call EXCEPT ![t] = Ended(f, "rateLimited", d)]
  <2> HIDE DEF f
  <2> DEFINE g == Ended(f, "rateLimited", d)
  <2>1. d \in Int
    BY ClientAssumption DEF NoDelay
  <2>2. /\ g \in Frames /\ g.pc = "idle" /\ g.first = 0 /\ g.left = 0
        /\ g.skipped = f.skipped /\ g.refused = f.refused
    <3>1. "rateLimited" \in Outcomes
      BY DEF Outcomes
    <3> QED BY <1>2, <2>1, <3>1, EndedIsFrame
  <2>3. call' = [call EXCEPT ![t] = g]
    BY <1>5
  <2> HIDE DEF g
  <2>4. NKeys > 0
    BY <1>1, ClientAssumption DEF Accounted, Keys
  <2>5. g.skipped \cup g.refused = Keys
    BY <1>1, <1>2, <1>5, <2>2 DEF Accounted
  <2>6. FrameOK(g)
    BY <2>2, <2>4, <2>5, ClientAssumption DEF FrameOK, GivenUp
  <2>7. parked' \in [Models -> [Keys -> Nat]]
    BY <1>1, <1>2, <1>3, ClientAssumption DEF TypeOK, Frames, Accounted, ParkFor, NoDelay
  <2> QED BY <1>1, <1>4, <2>2, <2>3, <2>6, <2>7, FrameUpdate DEF TypeOK
<1>6. CASE f.untried # {} /\ call' = [call EXCEPT ![t] = Asking(f, f.untried)]
  <2> HIDE DEF f
  <2> DEFINE g == Asking(f, f.untried)
  <2>1. f.untried \in SUBSET Keys /\ f.first <= NKeys
    BY <1>1, <1>2 DEF Frames, FrameOK
  <2>2. /\ g \in Frames /\ g.pc = "sent" /\ g.key \in f.untried
        /\ g.untried = f.untried \ {g.key} /\ g.first = f.first
        /\ g.skipped = f.skipped /\ g.refused = f.refused
    BY <1>2, <1>6, <2>1, AskingIsFrame
  <2>3. call' = [call EXCEPT ![t] = g]
    BY <1>6
  <2> HIDE DEF g
  <2>4. Accounted(g)
    BY <1>1, <1>2, <2>1, <2>2 DEF Accounted
  <2>5. FrameOK(g)
    BY <2>1, <2>2, <2>4 DEF FrameOK
  <2>6. parked' \in [Models -> [Keys -> Nat]]
    BY <1>1, <1>2, <1>3, ClientAssumption DEF TypeOK, Frames, Accounted, ParkFor, NoDelay
  <2> QED BY <1>1, <1>4, <2>2, <2>3, <2>5, <2>6, FrameUpdate DEF TypeOK
<1>7. \/ f.untried = {} /\ call' = [call EXCEPT ![t] = Ended(f, "rateLimited", d)]
      \/ f.untried # {} /\ call' = [call EXCEPT ![t] = Asking(f, f.untried)]
  BY DEF Receive429
<1> QED BY <1>5, <1>6, <1>7

LEMMA Receive400KeepsInv ==
    ASSUME ClientInv, NEW t \in Tasks, Receive400(t)
    PROVE  ClientInv'
<1>1. call[t] \in Frames /\ FrameOK(call[t]) /\ Accounted(call[t]) /\ TypeOK
  BY DEF ClientInv, TypeOK, Receive400, InFlight, FrameOK
<1>2. CASE Thinks(t)
  <2> DEFINE g == [call[t] EXCEPT !.pc = "plain", !.left = WaitFor(call[t].timeout)]
  <2>1. call' = [call EXCEPT ![t] = g] /\ UNCHANGED <<parked, rr>>
    BY <1>2 DEF Receive400, TypeOK, ClientInv
  <2>2. noThinking' \subseteq Models
    BY <1>1, <1>2 DEF Receive400, TypeOK, Frames
  <2>3. WaitFor(call[t].timeout) \in Nat
    BY <1>1, ClientAssumption DEF WaitFor, Frames
  <2>4. /\ g \in Frames /\ g.pc = "plain" /\ g.key = call[t].key
        /\ g.untried = call[t].untried /\ g.first = call[t].first
        /\ g.skipped = call[t].skipped /\ g.refused = call[t].refused
    BY <1>1, <2>3 DEF Frames
  <2> HIDE DEF g
  <2>5. FrameOK(g)
    BY <1>1, <2>4 DEF FrameOK, Accounted
  <2> QED BY <1>1, <2>1, <2>2, <2>4, <2>5, FrameUpdate DEF TypeOK
<1>3. CASE ~Thinks(t)
  <2>1. Return(t, "invalid") /\ UNCHANGED <<parked, noThinking, rr>>
    BY <1>3 DEF Receive400
  <2> QED BY <2>1, ReturnKeepsInv DEF Outcomes
<1> QED BY <1>2, <1>3

LEMMA TickKeepsInv ==
    ASSUME ClientInv, ClientTick
    PROVE  ClientInv'
<1>1. TypeOK /\ UNCHANGED <<noThinking, rr>>
  BY DEF ClientInv, ClientTick
<1>2. \A n \in Nat : Minus1(n) \in Nat
  BY DEF Minus1
<1>3. parked' \in [Models -> [Keys -> Nat]]
  BY <1>1, <1>2 DEF ClientTick, TypeOK
<1>4. ASSUME NEW t \in Tasks
      PROVE  call'[t] \in Frames /\ FrameOK(call'[t])
  <2> DEFINE g == [call[t] EXCEPT !.left = Minus1(@)]
  <2>1. call[t] \in Frames /\ FrameOK(call[t])
    BY DEF ClientInv, TypeOK
  <2>2. Minus1(call[t].left) \in Nat
    BY <1>2, <2>1 DEF Frames
  <2>3. /\ g \in Frames /\ g.pc = call[t].pc /\ g.out = call[t].out
        /\ g.key = call[t].key /\ g.untried = call[t].untried
        /\ g.first = call[t].first /\ g.skipped = call[t].skipped
        /\ g.refused = call[t].refused /\ (call[t].left = 0 => g.left = 0)
    BY <2>1, <2>2 DEF Frames, Minus1
  <2>4. call'[t] = g
    BY DEF ClientTick
  <2> HIDE DEF g
  <2>5. FrameOK(g)
    BY <2>1, <2>3 DEF FrameOK, Accounted, GivenUp
  <2> QED BY <2>3, <2>4, <2>5
<1>5. call' \in [Tasks -> Frames]
  BY <1>4 DEF ClientTick
<1>6. TypeOK'
  BY <1>1, <1>3, <1>5 DEF TypeOK
<1>7. \A t \in Tasks : FrameOK(call[t])'
  BY <1>4 DEF FrameOK, Accounted, GivenUp
<1> QED BY <1>6, <1>7 DEF ClientInv

LEMMA NextKeepsInv == ClientInv /\ [Next]_clientVars => ClientInv'
<1> SUFFICES ASSUME ClientInv, [Next]_clientVars PROVE ClientInv'
  OBVIOUS
<1>1. ASSUME NEW t \in Tasks, NEW m \in Models, NEW timeout \in Timeouts,
             NEW think \in BOOLEAN, Begin(t, m, timeout, think)
      PROVE  ClientInv'
  <2>1. timeout \in Nat
    BY ClientAssumption
  <2> QED BY <1>1, <2>1, BeginKeepsInv
<1>2. ASSUME NEW t \in Tasks, Resume(t) PROVE ClientInv'
  <2>1. ASSUME NEW out \in {"result", "truncated", "safety", "schema", "auth", "transient",
                            "invalid"}
        PROVE  out \in Outcomes \ {"rateLimited"}
    BY DEF Outcomes
  <2>2. ASSUME ReceiveBody(t) PROVE ClientInv'
    <3>1. PICK out \in {"result", "truncated", "safety", "schema"} : Return(t, out)
      BY <2>2 DEF ReceiveBody
    <3> QED BY <2>1, <2>2, <3>1, ReturnKeepsInv DEF ReceiveBody
  <2>3. ASSUME NEW d \in RetryDelays, Receive429(t, d) PROVE ClientInv'
    BY <2>3, Receive429KeepsInv
  <2>4. ASSUME Receive400(t) PROVE ClientInv'
    BY <2>4, Receive400KeepsInv
  <2>5. ASSUME ReceiveAuthError(t) PROVE ClientInv'
    BY <2>1, <2>5, ReturnKeepsInv DEF ReceiveAuthError
  <2>6. ASSUME ReceiveServerError(t) PROVE ClientInv'
    BY <2>1, <2>6, ReturnKeepsInv DEF ReceiveServerError
  <2>7. ASSUME TimeOut(t) PROVE ClientInv'
    BY <2>1, <2>7, ReturnKeepsInv DEF TimeOut
  <2> QED BY <1>2, <2>2, <2>3, <2>4, <2>5, <2>6, <2>7 DEF Resume
<1>3. CASE ClientTick
  BY <1>3, TickKeepsInv
<1>4. CASE UNCHANGED clientVars
  BY <1>4 DEF clientVars, ClientInv, TypeOK, FrameOK, Accounted, GivenUp
<1> QED BY <1>1, <1>2, <1>3, <1>4 DEF Next

LEMMA NoFrameIsOK == NoFrame \in Frames /\ FrameOK(NoFrame)
<1> DEFINE m == CHOOSE m \in Models : TRUE
<1>1. m \in Models
  BY ClientAssumption
<1>2. NoFrame = NewFrame(m)
  BY DEF NoFrame
<1> HIDE DEF m
<1>3. NoFrame \in Frames
  BY <1>1, <1>2, NewFrameIsFrame
<1>4. FrameOK(NewFrame(m))
  BY ClientAssumption DEF NewFrame, FrameOK
<1> QED BY <1>2, <1>3, <1>4

LEMMA InitInv == Init => ClientInv
<1> SUFFICES ASSUME Init PROVE ClientInv
  OBVIOUS
<1>1. TypeOK
  BY NoFrameIsOK, ClientAssumption DEF Init, TypeOK
<1>2. \A t \in Tasks : FrameOK(call[t])
  BY NoFrameIsOK DEF Init
<1> QED BY <1>1, <1>2 DEF ClientInv

-----------------------------------------------------------------------------
(* The theorems. *)

(* ClientInv is an invariant of the client with any number of callers. *)
THEOREM ClientInvariant == Spec => []ClientInv
BY InitInv, NextKeepsInv, PTL DEF Spec

(* The state of the client (gemini_client.py:53-60) and the locals of _call *)
(* keep their types.                                                        *)
THEOREM ClientTypes == Spec => []TypeOK
<1>1. ClientInv => TypeOK
  BY DEF ClientInv
<1> QED BY <1>1, ClientInvariant, PTL

(* No call ever asks a key twice or forgets one (gemini_client.py:115-134), *)
(* whatever the other callers do to the parks and the rotation meanwhile.   *)
THEOREM EveryKeyAccounted == Spec => []KeysAccounted
<1>1. ClientInv => KeysAccounted
  BY DEF ClientInv, KeysAccounted, FrameOK, Accounted, InFlight
<1> QED BY <1>1, ClientInvariant, PTL

(* A model is given up on only when each key was parked when the call began *)
(* or has answered 429 to it (gemini_client.py:116-118 and 121-136).        *)
THEOREM GivenUpForAReason == Spec => []GivenUpOnlyWhenEveryKeyRefused
<1>1. ClientInv => GivenUpOnlyWhenEveryKeyRefused
  BY DEF ClientInv, GivenUpOnlyWhenEveryKeyRefused, FrameOK, GivenUp, InFlight
<1> QED BY <1>1, ClientInvariant, PTL

(* What a call reports as its wait is the park of some key of its model, so *)
(* long as no 429 suggests a delay of zero, which parks the key for the     *)
(* default and reports zero.                                                *)
LEMMA ReportsAPark ==
    ASSUME 0 \notin RetryDelays, ClientInv, [Next]_clientVars,
           NEW t \in Tasks, Raises(t, "rateLimited")
    PROVE  \E k \in Keys : parked'[call'[t].model][k] <= ReportedWait(call'[t].wait)
<1>1. TypeOK /\ call[t] \in Frames /\ FrameOK(call[t])
  BY DEF ClientInv, TypeOK
<1>2. ~UNCHANGED call[t]
  BY DEF Raises, InFlight
<1>3. ASSUME NEW u \in Tasks, NEW f, call' = [call EXCEPT ![u] = f]
      PROVE  u = t /\ f.pc = "idle" /\ f.out = "rateLimited" /\ call'[t] = f
  BY <1>1, <1>2, <1>3 DEF Raises, TypeOK
<1>4. ASSUME NEW u \in Tasks, NEW out \in Outcomes \ {"rateLimited"}, Return(u, out)
      PROVE  FALSE
  <2>1. call[u] \in Frames /\ NoDelay \in Int
    BY <1>1 DEF TypeOK, NoDelay
  <2>2. Ended(call[u], out, NoDelay).out = out
    BY <2>1, EndedIsFrame
  <2> QED BY <1>3, <1>4, <2>2 DEF Return
<1>5. ASSUME NEW out \in {"result", "truncated", "safety", "schema", "auth", "transient",
                          "invalid"}
      PROVE  out \in Outcomes \ {"rateLimited"}
  BY DEF Outcomes
<1>6. ASSUME NEW u \in Tasks, NEW m \in Models, NEW timeout \in Timeouts,
             NEW think \in BOOLEAN, Begin(u, m, timeout, think)
      PROVE  \E k \in Keys : parked'[call'[t].model][k] <= ReportedWait(call'[t].wait)
  <2> DEFINE f == Opening(m, timeout, think)
             w == ShortestPark(m)
  <2>1. f \in Frames /\ f.model = m /\ f.first = rr
    <3>1. timeout \in Nat
      BY ClientAssumption
    <3>2. f \in Frames /\ f.first = rr
      BY <1>1, <3>1, OpeningIsFrame
    <3> QED BY <3>2 DEF Opening
  <2>2. NKeys # 0
    <3>1. SUFFICES ASSUME NKeys = 0 PROVE FALSE
      OBVIOUS
    <3>2. call' = [call EXCEPT ![u] = Ended(NewFrame(m), "auth", NoDelay)]
      BY <1>6, <3>1 DEF Begin
    <3>3. "auth" \in Outcomes /\ NoDelay \in Int
      BY DEF Outcomes, NoDelay
    <3>4. Ended(NewFrame(m), "auth", NoDelay).out = "auth"
      BY <3>3, NewFrameIsFrame, EndedIsFrame
    <3> QED BY <1>3, <3>2, <3>4
  <2>3. NKeys > 0
    BY <2>2, ClientAssumption
  <2>4. Parked(m) = Keys
    <3>1. SUFFICES ASSUME Parked(m) # Keys PROVE FALSE
      OBVIOUS
    <3>2. call' = [call EXCEPT ![u] = Asking(f, Keys \ Parked(m))]
      BY <1>6, <2>3, <3>1 DEF Begin
    <3>3. Keys \ Parked(m) \in SUBSET Keys /\ Keys \ Parked(m) # {}
      BY <3>1 DEF Parked
    <3>4. f.first <= NKeys
      BY <1>1, <2>1, <2>3, ClientAssumption DEF TypeOK
    <3> HIDE DEF f
    <3>5. Asking(f, Keys \ Parked(m)).pc = "sent"
      BY <2>1, <3>3, <3>4, AskingIsFrame
    <3> QED BY <1>3, <3>2, <3>5
  <2>5. call' = [call EXCEPT ![u] = Ended(f, "rateLimited", w)] /\ parked' = parked
    BY <1>6, <2>3, <2>4 DEF Begin
  <2>6. PICK k \in Keys : w = parked[m][k]
    BY <1>1, <2>3, ShortestParkIsOfAKey
  <2>7. w \in Nat
    BY <1>1, <2>6 DEF TypeOK
  <2> HIDE DEF f, w
  <2>8. call'[t] = Ended(f, "rateLimited", w)
    BY <1>3, <2>5
  <2>9. call'[t].model = m /\ call'[t].wait = w
    <3>1. "rateLimited" \in Outcomes
      BY DEF Outcomes
    <3> QED BY <2>1, <2>7, <2>8, <3>1, EndedIsFrame
  <2>10. ReportedWait(w) = w
    BY <2>7 DEF ReportedWait, NoDelay
  <2> QED BY <2>5, <2>6, <2>7, <2>9, <2>10
<1>7. ASSUME NEW u \in Tasks, NEW d \in RetryDelays, Receive429(u, d)
      PROVE  \E k \in Keys : parked'[call'[t].model][k] <= ReportedWait(call'[t].wait)
  <2> DEFINE f == [call[u] EXCEPT !.refused = @ \cup {call[u].key}]
  <2>1. call[u] \in Frames /\ FrameOK(call[u]) /\ Accounted(call[u])
    BY <1>7 DEF ClientInv, TypeOK, Receive429, InFlight, FrameOK
  <2>2. /\ f \in Frames /\ f.key = call[u].key /\ f.model = call[u].model
        /\ f.first = call[u].first /\ f.untried = call[u].untried
    BY <2>1 DEF Frames, Accounted
  <2>3. parked' = [parked EXCEPT ![f.model][f.key] = ParkFor(d)]
    BY <1>7 DEF Receive429
  <2>4. \/ f.untried = {} /\ call' = [call EXCEPT ![u] = Ended(f, "rateLimited", d)]
        \/ f.untried # {} /\ call' = [call EXCEPT ![u] = Asking(f, f.untried)]
    BY <1>7 DEF Receive429
  <2> HIDE DEF f
  <2>5. call' # [call EXCEPT ![u] = Asking(f, f.untried)] \/ f.untried = {}
    <3>1. SUFFICES ASSUME call' = [call EXCEPT ![u] = Asking(f, f.untried)], f.untried # {}
                   PROVE FALSE
      OBVIOUS
    <3>2. f.untried \in SUBSET Keys /\ f.first <= NKeys
      BY <2>1, <2>2 DEF Frames, FrameOK
    <3>3. Asking(f, f.untried).pc = "sent"
      BY <2>2, <3>1, <3>2, AskingIsFrame
    <3> QED BY <1>3, <3>1, <3>3
  <2>6. call'[t] = Ended(f, "rateLimited", d)
    BY <1>3, <2>4, <2>5
  <2>7. call'[t].model = f.model /\ call'[t].wait = d
    <3>1. "rateLimited" \in Outcomes /\ d \in Int
      BY ClientAssumption DEF Outcomes, NoDelay
    <3> QED BY <2>2, <2>6, <3>1, EndedIsFrame
  <2>8. ParkFor(d) = ReportedWait(d) /\ ParkFor(d) \in Nat
    BY ClientAssumption DEF ParkFor, ReportedWait, NoDelay
  <2>9. parked'[f.model][f.key] = ParkFor(d) /\ f.key \in Keys
    BY <1>1, <2>1, <2>2, <2>3 DEF TypeOK, Frames, Accounted
  <2> QED BY <2>7, <2>8, <2>9
<1>8. ASSUME NEW u \in Tasks, Receive400(u) PROVE FALSE
  <2>1. CASE Thinks(u)
    <3> DEFINE f == [call[u] EXCEPT !.pc = "plain", !.left = WaitFor(call[u].timeout)]
    <3>1. call' = [call EXCEPT ![u] = f]
      BY <1>1, <1>8, <2>1 DEF Receive400, TypeOK
    <3>2. f.pc = "plain"
      BY <1>1 DEF TypeOK, Frames
    <3> HIDE DEF f
    <3> QED BY <1>3, <3>1, <3>2
  <2>2. CASE ~Thinks(u)
    BY <1>4, <1>5, <1>8, <2>2 DEF Receive400
  <2> QED BY <2>1, <2>2
<1>9. ASSUME ClientTick PROVE FALSE
  <2>1. call'[t] = [call[t] EXCEPT !.left = Minus1(@)]
    BY <1>9 DEF ClientTick
  <2>2. call'[t].pc = call[t].pc
    BY <1>1, <2>1 DEF Frames
  <2>3. call[t].left = 0
    BY <1>1, <2>2 DEF FrameOK, Raises
  <2>4. [call[t] EXCEPT !.left = 0] = call[t]
    BY <1>1, <2>3 DEF Frames
  <2> QED BY <1>2, <2>1, <2>3, <2>4 DEF Minus1
<1>10. ~UNCHANGED clientVars
  BY <1>2 DEF clientVars
<1>11. ASSUME NEW u \in Tasks, Resume(u)
       PROVE  \E d \in RetryDelays : Receive429(u, d)
  BY <1>4, <1>5, <1>8, <1>11 DEF Resume, ReceiveBody, ReceiveAuthError, ReceiveServerError, TimeOut
<1> QED BY <1>6, <1>7, <1>9, <1>10, <1>11 DEF Next

(* The wait that a rate-limited call reports is never shorter than the park *)
(* of every key (gemini_client.py:117-118 and 131-136): the caller that     *)
(* sleeps that long finds a key free, unless another call parks it again.   *)
THEOREM ReportedWaitSuffices ==
    ASSUME 0 \notin RetryDelays
    PROVE  Spec => WaitSuffices
<1>1. ClientInv /\ [Next]_clientVars =>
        [\A t \in Tasks : Raises(t, "rateLimited") =>
          \E k \in Keys : parked'[call'[t].model][k] <= ReportedWait(call'[t].wait)]_clientVars
  BY ReportsAPark
<1> QED BY <1>1, ClientInvariant, PTL DEF Spec, WaitSuffices
-----------------------------------------------------------------------------
(* Parked keys. *)

LEMMA EndedWait ==
    ASSUME NEW f, NEW out, NEW w
    PROVE  Ended(f, out, w).wait = w /\ Ended(f, out, w).pc = "idle"
BY DEF Ended

(* Only the first request of a call opens it, to the model it is for. *)
LEMMA BeginAsks ==
    ASSUME ClientInv, NEW t \in Tasks, NEW m \in Models, NEW timeout \in Nat,
           NEW think \in BOOLEAN, Begin(t, m, timeout, think), call'[t].pc # "idle"
    PROVE  /\ call'[t].model = m
           /\ parked' = parked
           /\ \A k \in call'[t].untried \cup {call'[t].key} : parked[m][k] = 0
<1> DEFINE f == Opening(m, timeout, think)
           S == Keys \ Parked(m)
<1>1. TypeOK /\ call \in [Tasks -> Frames]
  BY DEF ClientInv, TypeOK
<1>2. f \in Frames /\ f.first = rr /\ f.model = m
  BY <1>1, OpeningIsFrame DEF Opening
<1> HIDE DEF f
<1>3. NKeys > 0 /\ Parked(m) # Keys
  <2>1. \A out, g, w : call' # [call EXCEPT ![t] = Ended(g, out, w)]
    <3>1. SUFFICES ASSUME NEW out, NEW g, NEW w, call' = [call EXCEPT ![t] = Ended(g, out, w)]
                   PROVE  FALSE
      OBVIOUS
    <3>2. call'[t] = Ended(g, out, w)
      BY <1>1, <3>1
    <3> QED BY <3>2, EndedWait
  <2> QED BY <2>1 DEF Begin
<1>4. call'[t] = Asking(f, S) /\ parked' = parked
  BY <1>1, <1>3 DEF Begin, f
<1>5. S \in SUBSET Keys /\ S # {}
  BY <1>3 DEF Parked
<1>6. \A k \in S : parked[m][k] = 0
  BY <1>1 DEF Parked, TypeOK
<1> HIDE DEF S
<1>7. /\ Asking(f, S).key \in S
      /\ Asking(f, S).untried = S \ {Asking(f, S).key}
      /\ Asking(f, S).model = m
  <2>1. rr <= NKeys
    BY <1>1, <1>3, ClientAssumption DEF TypeOK
  <2> QED BY <1>2, <1>5, <2>1, AskingIsFrame
<1> QED BY <1>4, <1>6, <1>7

(* A request to a parked key is that of an open call, and not to a key that *)
(* was parked when the call began.                                          *)
LEMMA AsksFromItsList ==
    ASSUME ClientInv, [Next]_clientVars, NEW t \in Tasks, Sends(t),
           parked[call'[t].model][call'[t].key] > 0
    PROVE  InFlight(t) /\ call'[t].key \notin call[t].skipped
<1>1. TypeOK /\ call \in [Tasks -> Frames] /\ call[t] \in Frames /\ FrameOK(call[t])
  BY DEF ClientInv, TypeOK
<1>2. ~UNCHANGED call[t] /\ call'[t].pc # "idle"
  BY DEF Sends
<1>3. ASSUME NEW u \in Tasks, NEW f, call' = [call EXCEPT ![u] = f]
      PROVE  u = t /\ call'[t] = f
  BY <1>1, <1>2, <1>3
<1>4. ASSUME NEW u \in Tasks, NEW out, Return(u, out) PROVE FALSE
  BY <1>2, <1>3, <1>4, EndedWait DEF Return
<1>5. ASSUME NEW u \in Tasks, NEW m \in Models, NEW timeout \in Timeouts,
             NEW think \in BOOLEAN, Begin(u, m, timeout, think)
      PROVE  FALSE
  <2>1. u = t
    BY <1>3, <1>5 DEF Begin
  <2>2. timeout \in Nat
    BY ClientAssumption
  <2>3. call'[t].model = m /\ parked[m][call'[t].key] = 0
    BY <1>2, <1>5, <2>1, <2>2, BeginAsks
  <2> QED BY <2>3
<1>6. ASSUME NEW u \in Tasks, NEW d \in RetryDelays, Receive429(u, d)
      PROVE  InFlight(t) /\ call'[t].key \notin call[t].skipped
  <2> DEFINE f == [call[u] EXCEPT !.refused = @ \cup {call[u].key}]
  <2>1. \/ call' = [call EXCEPT ![u] = Ended(f, "rateLimited", d)]
        \/ f.untried # {} /\ call' = [call EXCEPT ![u] = Asking(f, f.untried)]
    BY <1>6 DEF Receive429
  <2>2. ASSUME call' = [call EXCEPT ![u] = Ended(f, "rateLimited", d)] PROVE FALSE
    <3> HIDE DEF f
    <3> QED BY <1>2, <1>3, <2>2, EndedWait
  <2>3. u = t /\ call'[t] = Asking(f, f.untried) /\ f.untried # {}
    <3> HIDE DEF f
    <3> QED BY <1>3, <2>1, <2>2
  <2>4. InFlight(t) /\ Accounted(call[t])
    BY <1>1, <1>6, <2>3 DEF Receive429, InFlight, FrameOK
  <2>5. /\ f \in Frames /\ f.untried = call[t].untried /\ f.first <= NKeys
        /\ f.untried \in SUBSET Keys
    BY <1>1, <2>3, <2>4 DEF Frames, FrameOK, Accounted
  <2> HIDE DEF f
  <2>6. call'[t].key \in f.untried
    BY <2>3, <2>5, AskingIsFrame
  <2> QED BY <2>4, <2>5, <2>6 DEF Accounted
<1>7. ASSUME NEW u \in Tasks, Receive400(u)
      PROVE  InFlight(t) /\ call'[t].key \notin call[t].skipped
  <2>1. Thinks(u)
    BY <1>4, <1>7 DEF Receive400
  <2> DEFINE f == [call[u] EXCEPT !.pc = "plain", !.left = WaitFor(call[u].timeout)]
  <2>2. call' = [call EXCEPT ![u] = f]
    BY <1>1, <1>7, <2>1 DEF Receive400
  <2>3. u = t /\ call'[t].key = call[t].key
    BY <1>1, <1>3, <2>2 DEF Frames
  <2>4. InFlight(t) /\ Accounted(call[t])
    BY <1>1, <1>7, <2>3 DEF Receive400, InFlight, FrameOK
  <2> QED BY <2>3, <2>4 DEF Accounted
<1>8. ASSUME ClientTick PROVE FALSE
  <2>1. call'[t] = [call[t] EXCEPT !.left = Minus1(@)]
    BY <1>8 DEF ClientTick
  <2>2. call'[t].pc = call[t].pc /\ call'[t].key = call[t].key
    BY <1>1, <2>1 DEF Frames
  <2> QED BY <2>2 DEF Sends
<1>9. ~UNCHANGED clientVars
  BY <1>2 DEF clientVars
<1>10. ASSUME NEW u \in Tasks, Resume(u)
       PROVE  Receive400(u) \/ \E d \in RetryDelays : Receive429(u, d)
  BY <1>4, <1>10 DEF Resume, ReceiveBody, ReceiveAuthError, ReceiveServerError, TimeOut
<1> QED BY <1>5, <1>6, <1>7, <1>8, <1>9, <1>10 DEF Next

(* "A key that returned 429 is parked until the server-suggested retryDelay *)
(* has passed" (gemini_client.py:7) as far as it is kept: with any number   *)
(* of callers, keys and models, a call never asks a key that was parked     *)
(* when it began, and a key parked meanwhile is asked only by a call whose  *)
(* list of available keys (line 115) is older than the park.                *)
THEOREM OnlyOldListsAskParkedKeys == Spec => ParkedKeyAskedFromOldList
<1> DEFINE Asks == \A t \in Tasks : Sends(t) /\ parked[call'[t].model][call'[t].key] > 0
                       => InFlight(t) /\ call'[t].key \notin call[t].skipped
<1>1. ClientInv /\ [Next]_clientVars => [Asks]_clientVars
  BY AsksFromItsList
<1> QED BY <1>1, ClientInvariant, PTL DEF Spec, ParkedKeyAskedFromOldList
=============================================================================
