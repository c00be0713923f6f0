---------------------------- MODULE GeminiClient ----------------------------
(***************************************************************************)
(* The Gemini client of src/app/llm/gemini_client.py: several API keys,    *)
(* a park timer per key and model, the memory of models that reject a      *)
(* thinking config, and the calls that concurrent note tasks have open.    *)
(*                                                                         *)
(* The client runs on one asyncio loop: a task runs from one await to the  *)
(* next without interruption, so each action is what happens between two   *)
(* awaits of _call.  Every timer is kept as the time it has left (the code *)
(* only compares monotonic deadlines with the current time), so no clock   *)
(* variable is needed and the state is finite.                             *)
(***************************************************************************)
EXTENDS Integers

CONSTANTS
    NKeys,        \* number of configured API keys (0: not configured)
    Models,       \* model names of the chain
    Tasks,        \* coroutines that may call the client concurrently
    Timeouts,     \* the values timeout_s may have at a call
    RetryDelays,  \* the delays a 429 may suggest, NoDelay when it has none
    DefaultPark,  \* time a key is parked when no delay was suggested
    MinWait       \* the least time wait_for is given: half a second

NoDelay == -1

ASSUME ClientAssumption ==
    /\ NKeys \in Nat
    /\ Models # {}
    /\ Timeouts \subseteq Nat
    /\ RetryDelays \subseteq Nat \cup {NoDelay}
    /\ DefaultPark \in Nat \ {0}
    /\ MinWait \in Nat \ {0}

Keys == 0 .. NKeys - 1

VARIABLES
    parked,      \* [model][key]: time left before the key may be asked again
    noThinking,  \* models known to reject a thinking config
    rr,          \* round-robin start index
    call         \* per task: the frame of its _call coroutine

clientVars == <<parked, noThinking, rr, call>>

Outcomes == {"none", "result", "truncated", "safety", "schema",
             "rateLimited", "auth", "invalid", "transient"}

(* The locals of _call that live across its awaits.  pc is "sent" while the *)
(* request of line 124 is in flight, "plain" while the one of line 130 is,  *)
(* which carries no thinking config.  skipped and refused are history: the  *)
(* keys that were parked when the call began and those that answered 429.   *)
Frames == [pc      : {"idle", "sent", "plain"},
           model   : Models,
           think   : BOOLEAN,       \* thinking_budget is not None
           timeout : Nat,           \* timeout_s
           first   : Nat,           \* the rotation of this call
           key     : Int,           \* key of the request in flight
           untried : SUBSET Keys,   \* available keys the loop has not reached
           left    : Nat,           \* what wait_for still grants the request
           out     : Outcomes,      \* how the last call ended
           wait    : Int,           \* retry_after_s of a rateLimited outcome
           skipped : SUBSET Keys,
           refused : SUBSET Keys]

NewFrame(m) == [pc |-> "idle", model |-> m, think |-> FALSE, timeout |-> 0,
                first |-> 0, key |-> -1, untried |-> {}, left |-> 0,
                out |-> "none", wait |-> NoDelay, skipped |-> {}, refused |-> {}]

InFlight(t) == call[t].pc # "idle"

(* The request in flight carries a thinking config. *)
Thinks(t) == call[t].pc = "sent" /\ call[t].think

(* The time wait_for grants a request: max(0.5, timeout_s). *)
WaitFor(timeout) == IF timeout < MinWait THEN MinWait ELSE timeout

(* Mutants: the default is forgotten, or always used. *)
ParkForSuggested(d) == d
ParkForDefault(d) == DefaultPark

(* retry_after_s or 10.0: None and 0 are both falsy. *)
ParkFor(d) == IF d \in {NoDelay, 0} THEN DefaultPark ELSE d

(* order visits the keys from index first on, wrapping round. *)
Offset(k, first) == IF k >= first THEN k - first ELSE k - first + NKeys

NextKey(S, first) == CHOOSE k \in S : \A j \in S : Offset(k, first) <= Offset(j, first)

(* Mutant: the last unit of a park does not count. *)
ParkedLong(m) == {k \in Keys : parked[m][k] > 1}

Parked(m) == {k \in Keys : parked[m][k] > 0}

(* min over the keys of the time left, for a model with every key parked *)
ShortestPark(m) ==
    LET k == CHOOSE k \in Keys : \A j \in Keys : parked[m][k] <= parked[m][j]
    IN  parked[m][k]

-----------------------------------------------------------------------------
(* Steps of a call. *)

(* The call of task t ends; the frame keeps only what the caller sees. *)
Ended(f, out, wait) ==
    [pc |-> "idle", model |-> f.model, think |-> FALSE, timeout |-> 0,
     first |-> 0, key |-> -1, untried |-> {}, left |-> 0,
     out |-> out, wait |-> wait, skipped |-> f.skipped, refused |-> f.refused]

Return(t, out) == call' = [call EXCEPT ![t] = Ended(call[t], out, NoDelay)]

(* Mutants: the key asked stays in the list; only one key is ever tried. *)
AskingAgain(f, S) ==
    [f EXCEPT !.pc = "sent", !.key = NextKey(S, f.first), !.untried = S,
              !.left = WaitFor(f.timeout)]
AskingOnlyOne(f, S) == [AskingAgain(f, S) EXCEPT !.untried = {}]

(* The loop moves to the next key of S: a request is sent to it. *)
Asking(f, S) ==
    LET k == NextKey(S, f.first)
    IN  [f EXCEPT !.pc = "sent", !.key = k, !.untried = S \ {k},
                  !.left = WaitFor(f.timeout)]

(* The locals of _call before its loop over the keys. *)
Opening(m, timeout, think) ==
    [pc |-> "idle", model |-> m, think |-> think /\ m \notin noThinking,
     timeout |-> timeout, first |-> rr, key |-> -1, untried |-> {}, left |-> 0,
     out |-> "none", wait |-> NoDelay, skipped |-> Parked(m), refused |-> {}]

(* _call up to its first await. *)
Begin(t, m, timeout, think) ==
    /\ ~InFlight(t)
    /\ UNCHANGED <<parked, noThinking>>
    /\ \/ /\ NKeys = 0
          /\ call' = [call EXCEPT ![t] = Ended(NewFrame(m), "auth", NoDelay)]
          /\ UNCHANGED rr
       \/ /\ NKeys > 0
          /\ rr' = IF rr + 1 = NKeys THEN 0 ELSE rr + 1
          /\ LET f == Opening(m, timeout, think)
             IN  call' = [call EXCEPT ![t] =
                            IF Parked(m) = Keys
                            THEN Ended(f, "rateLimited", ShortestPark(m))
                            ELSE Asking(f, Keys \ Parked(m))]

(* A response body arrives; generate reads finish_reason and parses it. *)
ReceiveBody(t) ==
    /\ InFlight(t)
    /\ \E out \in {"result", "truncated", "safety", "schema"} : Return(t, out)
    /\ UNCHANGED <<parked, noThinking, rr>>

(* 429: the key is parked and the next available one is asked, if any. *)
Receive429(t, d) ==
    LET f == [call[t] EXCEPT !.refused = @ \cup {call[t].key}]
    IN  /\ InFlight(t)
        /\ parked' = [parked EXCEPT ![f.model][f.key] = ParkFor(d)]
        /\ \/ /\ f.untried = {}
              /\ call' = [call EXCEPT ![t] = Ended(f, "rateLimited", d)]
           \/ /\ f.untried # {}
              /\ call' = [call EXCEPT ![t] = Asking(f, f.untried)]
        /\ UNCHANGED <<noThinking, rr>>

(* 400: a request with a thinking config is sent again to the same key      *)
(* without it and the model is remembered; any other 400 ends the call.     *)
Receive400(t) ==
    /\ InFlight(t)
    /\ \/ /\ Thinks(t)
          /\ noThinking' = noThinking \cup {call[t].model}
          /\ call' = [call EXCEPT ![t].pc = "plain",
                                  ![t].left = WaitFor(call[t].timeout)]
       \/ /\ ~Thinks(t)
          /\ Return(t, "invalid")
          /\ UNCHANGED noThinking
    /\ UNCHANGED <<parked, rr>>

(* 401, 403 or 404 *)
ReceiveAuthError(t) ==
    /\ InFlight(t)
    /\ Return(t, "auth")
    /\ UNCHANGED <<parked, noThinking, rr>>

(* 5xx, a connection reset, any other exception *)
ReceiveServerError(t) ==
    /\ InFlight(t)
    /\ Return(t, "transient")
    /\ UNCHANGED <<parked, noThinking, rr>>

(* wait_for gives the request up. *)
TimeOut(t) ==
    /\ InFlight(t)
    /\ call[t].left = 0
    /\ Return(t, "transient")
    /\ UNCHANGED <<parked, noThinking, rr>>

Resume(t) ==
    \/ ReceiveBody(t)
    \/ \E d \in RetryDelays : Receive429(t, d)
    \/ Receive400(t)
    \/ ReceiveAuthError(t)
    \/ ReceiveServerError(t)
    \/ TimeOut(t)

(* Mutant: a missing delay counts as none at all. *)
ReportedWaitZero(w) == IF w = NoDelay THEN 0 ELSE w

(* How long the caller thinks a rate-limited call asks it to wait.          *)
ReportedWait(w) == IF w = NoDelay THEN DefaultPark ELSE w

(* The caller has dealt with the outcome; nothing of the call is left. *)
NoFrame == NewFrame(CHOOSE m \in Models : TRUE)

Forget(t) ==
    /\ call' = [call EXCEPT ![t] = NoFrame]
    /\ UNCHANGED <<parked, noThinking, rr>>

(* A unit of time passes; no timer of wait_for is overdue. *)
Minus1(n) == IF n > 0 THEN n - 1 ELSE 0

ClientTick ==
    /\ \A t \in Tasks : InFlight(t) => call[t].left > 0
    /\ parked' = [m \in Models |-> [k \in Keys |-> Minus1(parked[m][k])]]
    /\ call' = [t \in Tasks |-> [call[t] EXCEPT !.left = Minus1(@)]]
    /\ UNCHANGED <<noThinking, rr>>

-----------------------------------------------------------------------------
Init ==
    /\ parked = [m \in Models |-> [k \in Keys |-> 0]]
    /\ noThinking = {}
    /\ rr = 0
    /\ call = [t \in Tasks |-> NoFrame]

(* The client alone: any task may call with any model and any timeout. *)
Next ==
    \/ \E t \in Tasks, m \in Models, timeout \in Timeouts, think \in BOOLEAN :
          Begin(t, m, timeout, think)
    \/ \E t \in Tasks : Resume(t)
    \/ ClientTick

Spec == Init /\ [][Next]_clientVars

(* Time passes and an overdue timer fires; nothing is assumed of Gemini. *)
FairSpec == Spec /\ WF_clientVars(ClientTick)
                 /\ \A t \in Tasks : WF_clientVars(TimeOut(t))

-----------------------------------------------------------------------------
TypeOK ==
    /\ parked \in [Models -> [Keys -> Nat]]
    /\ noThinking \subseteq Models
    /\ rr \in Nat /\ (NKeys > 0 => rr < NKeys)
    /\ call \in [Tasks -> Frames]

(* While a call is open every key is accounted for exactly once: parked     *)
(* when the call began, refused by a 429, being asked, or still to be asked *)
(* (gemini_client.py:115-134).  Nobody is asked twice, nobody is forgotten. *)
KeysAccounted ==
    \A t \in Tasks : InFlight(t) =>
        LET f == call[t] IN
        /\ f.key \in Keys
        /\ Keys = f.skipped \cup f.refused \cup {f.key} \cup f.untried
        /\ f.key \notin f.untried \cup f.refused \cup f.skipped
        /\ f.untried \cap (f.refused \cup f.skipped) = {}
        /\ f.refused \cap f.skipped = {}

(* "a 429 on one key is retried immediately on the next key before the      *)
(* model is given up on" (gemini_client.py:5-6): a call reports             *)
(* rate-limiting only when each key was parked or has answered 429.         *)
GivenUpOnlyWhenEveryKeyRefused ==
    \A t \in Tasks : call[t].out = "rateLimited" /\ ~InFlight(t) =>
        NKeys > 0 /\ call[t].skipped \cup call[t].refused = Keys

(* task t sends a request in this step *)
Sends(t) ==
    /\ call'[t].pc # "idle"
    /\ <<call[t].pc, call[t].key>> # <<call'[t].pc, call'[t].key>>

Raises(t, out) == (InFlight(t) \/ call[t] # call'[t]) /\ call'[t].pc = "idle" /\ call'[t].out = out

(* "A key that returned 429 is parked until the server-suggested retryDelay *)
(* has passed" (gemini_client.py:7): no request goes to a parked key.       *)
ParkedKeyNotAsked ==
    [][\A t \in Tasks : Sends(t) => parked[call'[t].model][call'[t].key] = 0]_clientVars

(* "remember it for that model and never send a thinking config to it       *)
(* again" (gemini_client.py:8-9).                                           *)
ThinkingNotSentAgain ==
    [][\A t \in Tasks : Sends(t) /\ call'[t].pc = "sent" /\ call'[t].think
                           => call'[t].model \notin noThinking]_clientVars

(* As far as the code keeps it: a call that begins asks no parked key, and  *)
(* an open call asks one only from a list that has grown old, of keys that  *)
(* were free when the call began: another call's 429 has parked it since    *)
(* (gemini_client.py:115 and 121).                                          *)
ParkedKeyAskedFromOldList ==
    [][\A t \in Tasks : Sends(t) /\ parked[call'[t].model][call'[t].key] > 0
          => InFlight(t) /\ call'[t].key \notin call[t].skipped]_clientVars

(* The wait a rate-limited call reports is long enough: when it has passed  *)
(* some key's park is over (gemini_client.py:117-118 and 131-136).          *)
WaitSuffices ==
    [][\A t \in Tasks : Raises(t, "rateLimited") =>
          \E k \in Keys : parked'[call'[t].model][k] <= ReportedWait(call'[t].wait)]_clientVars

(* A park lasts as long as Gemini asked for: no later answer shortens it    *)
(* (gemini_client.py:132).  It does not hold.                               *)
ParkNeverShortened ==
    [][\A m \in Models, k \in Keys :
          parked'[m][k] < parked[m][k] => ClientTick]_clientVars

(* Every call returns to its caller, whatever Gemini does. *)
CallReturns == \A t \in Tasks : InFlight(t) ~> ~InFlight(t)
=============================================================================
