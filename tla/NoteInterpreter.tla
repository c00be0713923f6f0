-------------------------- MODULE NoteInterpreter --------------------------
(***************************************************************************)
(* NoteInterpreter of src/app/llm/interpreter.py: one coroutine per        *)
(* operator note tries the models of the chain, asks for repairs of what   *)
(* the guardrails refuse, waits once when every model was rate-limited,    *)
(* and ends in a degraded reading when no model gave an acceptable one.    *)
(* The coroutines of all requests share the client, the breakers and the   *)
(* cache.                                                                  *)
(*                                                                         *)
(* running is the coroutine that holds the event loop: until it reaches an *)
(* await, no other coroutine runs and no time passes.                      *)
(***************************************************************************)
EXTENDS ProviderChain, FiniteSets

CONSTANTS
    Requests,      \* concurrent requests; each may be sent again and again
    CacheKeys,     \* cache keys of their notes
    RequestOf,     \* task -> the request its note belongs to
    KeyOf,         \* task -> the cache key of its note
    MaxCache,      \* llm_cache_size
    MaxRepairs,    \* llm_max_repairs
    Thinking,      \* a thinking budget is configured
    RuleFallback,  \* enable_rule_fallback
    RuleReads,     \* the keys whose note rule_interpret can read
    Correctable,   \* tasks whose note the pipeline may have corrected
    TotalTime,     \* request_deadline_s
    WaitSlack,     \* the 6.0 s that must remain after a rate-limit wait
    NoTask

ASSUME InterpreterAssumption ==
    /\ RequestOf \in [Tasks -> Requests]
    /\ KeyOf \in [Tasks -> CacheKeys]
    /\ MaxCache \in Int
    /\ MaxRepairs \in Nat
    /\ Thinking \in BOOLEAN
    /\ RuleFallback \in BOOLEAN
    /\ RuleReads \subseteq CacheKeys
    /\ Correctable \subseteq Tasks
    /\ TotalTime \in Nat
    /\ WaitSlack \in Nat
    /\ NoTask \notin Tasks

VARIABLES
    order, content,  \* the cache
    remaining,       \* request -> deadline.remaining()
    phase,           \* request -> how far its interpretation has come
    job,             \* task -> the frame of its note's coroutine
    running

(* A note's reading: by a model of the chain, by the rule interpreter, or   *)
(* the safe no_op ("none").  soft: accepted with guardrail issues left.     *)
Assemblies == [by : {"model", "rule", "none"}, model : Models \cup {0},
               soft : BOOLEAN, degraded : BOOLEAN]

NoAssembly == [by |-> "nothing", model |-> 0, soft |-> FALSE, degraded |-> FALSE]

Cache == INSTANCE InterpretationCache
             WITH Values <- Assemblies, None <- NoAssembly, MaxSize <- MaxCache

cacheVars == <<order, content>>
interpreterVars == <<chainVars, cacheVars, remaining, phase, job, running>>

Phases == {"idle", "interpreting", "interpreted", "correcting"}

Jobs == [pc      : {"idle", "ready", "models", "attempt", "calling", "sleeping", "done"},
         kind    : {"interpret", "correct"},
         at      : Nat,               \* place in the chain
         repairs : Nat,               \* repairs_left
         retried : BOOLEAN,           \* attempt = 1 in _call_and_validate
         wait    : Int,               \* min(rate_waits), NoDelay if there is none
         nap     : Nat,               \* time asyncio.sleep still takes
         result  : Assemblies \cup {NoAssembly}]

NewJob(kind, result) ==
    [pc |-> "ready", kind |-> kind, at |-> 1, repairs |-> 0, retried |-> FALSE,
     wait |-> NoDelay, nap |-> 0, result |-> result]

NoJob == [NewJob("interpret", NoAssembly) EXCEPT !.pc = "idle"]

TasksOf(r) == {t \in Tasks : RequestOf[t] = r}
TimeLeft(t) == remaining[RequestOf[t]]
Expired(t) == TimeLeft(t) = 0

-----------------------------------------------------------------------------
(* The coroutine of a note. *)

(* Mutant: every reading is cached, a degraded one too. *)
FinishCaching(t, a) ==
    /\ job' = [job EXCEPT ![t].pc = "done", ![t].result = a, ![t].at = 1,
                          ![t].repairs = 0, ![t].retried = FALSE, ![t].wait = NoDelay]
    /\ running' = NoTask
    /\ Cache!Put(KeyOf[t], a)

(* The coroutine is over; a reading that is not degraded is cached, a       *)
(* corrected one never is.                                                  *)
Finish(t, a) ==
    /\ job' = [job EXCEPT ![t].pc = "done", ![t].result = a, ![t].at = 1,
                          ![t].repairs = 0, ![t].retried = FALSE, ![t].wait = NoDelay]
    /\ running' = NoTask
    /\ IF job[t].kind = "interpret" /\ ~a.degraded
       THEN Cache!Put(KeyOf[t], a)
       ELSE UNCHANGED cacheVars

(* Mutant: the cache is not consulted. *)
StartNoteAfresh(t) ==
    /\ running = NoTask
    /\ job[t].pc = "ready"
    /\ job' = [job EXCEPT ![t].pc = "models"]
    /\ running' = t
    /\ UNCHANGED <<chainVars, cacheVars, remaining, phase>>

(* _interpret_one, or correct_note, up to the loop over the models *)
StartNote(t) ==
    /\ running = NoTask
    /\ job[t].pc = "ready"
    /\ \/ /\ job[t].kind = "interpret"
          /\ Cache!Lookup(KeyOf[t]) # NoAssembly
          /\ Cache!Touch(KeyOf[t])
          /\ job' = [job EXCEPT ![t].pc = "done", ![t].result = Cache!Lookup(KeyOf[t])]
          /\ UNCHANGED running
       \/ /\ job[t].kind = "interpret" => Cache!Lookup(KeyOf[t]) = NoAssembly
          /\ job' = [job EXCEPT ![t].pc = "models"]
          /\ running' = t
          /\ UNCHANGED cacheVars
    /\ UNCHANGED <<chainVars, remaining, phase>>

(* Mutant: the breakers are not consulted. *)
PickAnyModel(t) ==
    /\ running = t
    /\ job[t].pc = "models"
    /\ job[t].at <= NModels
    /\ ~Expired(t)
    /\ job' = [job EXCEPT ![t].pc = "attempt", ![t].repairs = MaxRepairs]
    /\ UNCHANGED <<chainVars, cacheVars, remaining, phase, running>>

(* One turn of the loop over the models: the model is skipped, or it gets   *)
(* its first attempt.                                                       *)
PickModel(t) ==
    /\ running = t
    /\ job[t].pc = "models"
    /\ job[t].at <= NModels
    /\ \/ /\ IsDisabled(job[t].at)
          /\ job' = [job EXCEPT ![t].at = @ + 1]
       \/ /\ ~IsDisabled(job[t].at)
          /\ ~Expired(t)
          /\ job' = [job EXCEPT ![t].pc = "attempt", ![t].repairs = MaxRepairs]
    /\ UNCHANGED <<chainVars, cacheVars, remaining, phase, running>>

(* Mutant: the same model again. *)
SameModel(j) == [j EXCEPT !.pc = "models", !.repairs = 0]

NextModel(j) == [j EXCEPT !.pc = "models", !.at = @ + 1, !.repairs = 0]

Attempt(t) ==
    /\ running = t
    /\ job[t].pc = "attempt"
    /\ \/ /\ OutOfTime(job[t].at, TimeLeft(t))
          /\ job' = [job EXCEPT ![t] = NextModel(@)]
          /\ UNCHANGED <<chainVars, running>>
       \/ /\ CallModel(t, job[t].at, TimeLeft(t), Thinking)
          /\ job' = [job EXCEPT ![t].pc = "calling"]
          /\ running' = IF call'[t].pc = "idle" THEN t ELSE NoTask
    /\ UNCHANGED <<cacheVars, remaining, phase>>

(* Gemini, or wait_for, wakes the client; the caller goes on if the call    *)
(* has ended.                                                               *)
Wake(t) ==
    /\ running = NoTask
    /\ job[t].pc = "calling"
    /\ ChainResume(t)
    /\ running' = IF call'[t].pc = "idle" THEN t ELSE NoTask
    /\ UNCHANGED <<cacheVars, remaining, phase, job>>

Answered(t) == running = t /\ job[t].pc = "calling"

Shorter(w, v) == IF w = NoDelay \/ v < w THEN v ELSE w

WaitNoted(t) ==
    IF call[t].out = "rateLimited" THEN Shorter(job[t].wait, ReportedWait(call[t].wait))
                                   ELSE job[t].wait

(* Any error sends the note to the next model; a rate limit is noted. *)
HandleError(t) ==
    /\ Answered(t)
    /\ call[t].out # "result"
    /\ TripBreaker(t)
    /\ job' = [job EXCEPT ![t] = [NextModel(@) EXCEPT !.wait = WaitNoted(t)]]
    /\ Forget(t)
    /\ UNCHANGED <<cacheVars, remaining, phase, running>>

(* What normalize and validate say of the model's reading: it cannot be     *)
(* normalized, it breaks G1, G5 or G9, it breaks another rule, or none.     *)
Verdicts == {"normError", "blocking", "soft", "clean"}

HandleReading(t, verdict) ==
    /\ Answered(t)
    /\ call[t].out = "result"
    /\ \/ /\ verdict # "clean"
          /\ job[t].repairs > 0
          /\ job' = [job EXCEPT ![t].pc = "attempt", ![t].repairs = @ - 1]
          /\ UNCHANGED <<cacheVars, running>>
       \/ /\ verdict \in {"normError", "blocking"}
          /\ job[t].repairs = 0
          /\ job' = [job EXCEPT ![t] = NextModel(@)]
          /\ UNCHANGED <<cacheVars, running>>
       \/ /\ verdict = "clean" \/ (verdict = "soft" /\ job[t].repairs = 0)
          /\ Finish(t, [by |-> "model", model |-> job[t].at,
                        soft |-> verdict = "soft", degraded |-> FALSE])
    /\ Forget(t)
    /\ UNCHANGED <<openFor, remaining, phase>>

(* No model is left to try, or no time is. *)
Exhausted(t) ==
    /\ running = t
    /\ job[t].pc = "models"
    /\ job[t].at \in Models => ~IsDisabled(job[t].at) /\ Expired(t)

(* Mutant: no time is kept for the attempt after the wait. *)
WorthWaitingToTheEnd(t) ==
    ~job[t].retried /\ job[t].wait # NoDelay /\ job[t].wait < TimeLeft(t)

WorthWaiting(t) ==
    ~job[t].retried /\ job[t].wait # NoDelay /\ job[t].wait + WaitSlack < TimeLeft(t)

(* asyncio.sleep(min_wait + 0.2), the fraction rounded up *)
Sleep(t) ==
    /\ Exhausted(t)
    /\ WorthWaiting(t)
    /\ job' = [job EXCEPT ![t].pc = "sleeping", ![t].nap = job[t].wait + 1,
                          ![t].retried = TRUE, ![t].wait = NoDelay, ![t].at = 1]
    /\ running' = NoTask
    /\ UNCHANGED <<chainVars, cacheVars, remaining, phase>>

WakeUp(t) ==
    /\ running = NoTask
    /\ job[t].pc = "sleeping"
    /\ job[t].nap = 0
    /\ job' = [job EXCEPT ![t].pc = "models"]
    /\ running' = t
    /\ UNCHANGED <<chainVars, cacheVars, remaining, phase>>

(* Mutant: a correction that fails leaves nothing of the previous reading.  *)
FallbackForgetting(t) ==
    IF RuleFallback /\ KeyOf[t] \in RuleReads
    THEN [by |-> "rule", model |-> 0, soft |-> FALSE, degraded |-> TRUE]
    ELSE [by |-> "none", model |-> 0, soft |-> FALSE, degraded |-> TRUE]

(* The degraded reading of a note, or the previous one of a correction.     *)
Fallback(t) ==
    IF job[t].kind = "correct" THEN job[t].result
    ELSE IF RuleFallback /\ KeyOf[t] \in RuleReads
         THEN [by |-> "rule", model |-> 0, soft |-> FALSE, degraded |-> TRUE]
         ELSE [by |-> "none", model |-> 0, soft |-> FALSE, degraded |-> TRUE]

GiveUp(t) ==
    /\ Exhausted(t)
    /\ ~WorthWaiting(t)
    /\ Finish(t, Fallback(t))
    /\ UNCHANGED <<chainVars, remaining, phase>>

NoteStep(t) ==
    \/ StartNote(t) \/ PickModel(t) \/ Attempt(t) \/ Wake(t) \/ HandleError(t)
    \/ \E verdict \in Verdicts : HandleReading(t, verdict)
    \/ Sleep(t) \/ WakeUp(t) \/ GiveUp(t)

-----------------------------------------------------------------------------
(* Requests. *)

(* A request begins: gather makes a task of each of its notes. *)
Arrive(r) ==
    /\ running = NoTask
    /\ phase[r] = "idle"
    /\ phase' = [phase EXCEPT ![r] = "interpreting"]
    /\ remaining' = [remaining EXCEPT ![r] = TotalTime]
    /\ job' = [t \in Tasks |-> IF t \in TasksOf(r) THEN NewJob("interpret", NoAssembly)
                                                   ELSE job[t]]
    /\ UNCHANGED <<chainVars, cacheVars, running>>

(* Mutant: the request goes on when one note is done. *)
AnyDone(r) == \E t \in TasksOf(r) : job[t].pc = "done"

AllDone(r) == \A t \in TasksOf(r) : job[t].pc \in {"done", "idle"}

(* gather, or the await of one correct_note, returns. *)
Gather(r) ==
    /\ running = NoTask
    /\ phase[r] \in {"interpreting", "correcting"}
    /\ AllDone(r)
    /\ phase' = [phase EXCEPT ![r] = "interpreted"]
    /\ UNCHANGED <<chainVars, cacheVars, remaining, job, running>>

(* The pipeline asks for one more reading of a note of r. *)
Correct(t) ==
    /\ running = NoTask
    /\ t \in Correctable
    /\ phase[RequestOf[t]] = "interpreted"
    /\ phase' = [phase EXCEPT ![RequestOf[t]] = "correcting"]
    /\ job' = [job EXCEPT ![t] = NewJob("correct", job[t].result)]
    /\ UNCHANGED <<chainVars, cacheVars, remaining, running>>

(* The pipeline has what it needs; the request may be sent again. *)
Complete(r) ==
    /\ running = NoTask
    /\ phase[r] = "interpreted"
    /\ phase' = [phase EXCEPT ![r] = "idle"]
    /\ job' = [t \in Tasks |-> IF t \in TasksOf(r) THEN NoJob ELSE job[t]]
    /\ remaining' = [remaining EXCEPT ![r] = 0]
    /\ UNCHANGED <<chainVars, cacheVars, running>>

(* Time passes only while every coroutine awaits something still to come. *)
Tick ==
    /\ running = NoTask
    /\ \A t \in Tasks : job[t].pc # "ready" /\ ~(job[t].pc = "sleeping" /\ job[t].nap = 0)
    /\ \A r \in Requests : phase[r] \in {"interpreting", "correcting"} => ~AllDone(r)
    /\ ChainTick
    /\ remaining' = [r \in Requests |-> Minus1(remaining[r])]
    /\ job' = [t \in Tasks |-> [job[t] EXCEPT !.nap = Minus1(@)]]
    /\ UNCHANGED <<cacheVars, phase, running>>

NoteInit ==
    /\ ChainInit
    /\ Cache!Init
    /\ remaining = [r \in Requests |-> 0]
    /\ phase = [r \in Requests |-> "idle"]
    /\ job = [t \in Tasks |-> NoJob]
    /\ running = NoTask

NoteNext ==
    \/ \E t \in Tasks : NoteStep(t) \/ Correct(t)
    \/ \E r \in Requests : Arrive(r) \/ Gather(r) \/ Complete(r)
    \/ Tick

NoteSpec == NoteInit /\ [][NoteNext]_interpreterVars

(* Coroutines that can run do run, timers fire, time passes.  Nothing is    *)
(* assumed of Gemini: no answer has to come.                                *)
NoteFairness ==
    /\ WF_interpreterVars(Tick)
    /\ \A r \in Requests : WF_interpreterVars(Gather(r))
    /\ \A t \in Tasks :
          /\ WF_interpreterVars(StartNote(t))
          /\ WF_interpreterVars(WakeUp(t))
          /\ WF_interpreterVars(Wake(t) /\ TimeOut(t))
          /\ WF_interpreterVars(running = t /\ NoteStep(t))

FairNoteSpec == NoteSpec /\ NoteFairness

-----------------------------------------------------------------------------
NoteTypeOK ==
    /\ ChainTypeOK
    /\ Cache!TypeOK
    /\ remaining \in [Requests -> Nat]
    /\ phase \in [Requests -> Phases]
    /\ job \in [Tasks -> Jobs]
    /\ running \in Tasks \cup {NoTask}

(* An open call belongs to a note that awaits it, in a request that has not *)
(* been answered, and a coroutine that holds the loop awaits nothing: no    *)
(* answer of Gemini can reach a note that no longer wants it.               *)
CallsBelongToNotes ==
    \A t \in Tasks :
        /\ InFlight(t) => job[t].pc = "calling" /\ running # t
        /\ job[t].pc = "calling" => InFlight(t) \/ running = t
        /\ job[t].pc \notin {"idle", "done"} => phase[RequestOf[t]] \in {"interpreting", "correcting"}

(* "Never cache a degraded/failed result: a transient outage or quota burst *)
(* must not permanently turn a real directive into no_op for every later    *)
(* identical request" (interpreter.py:251-254).                             *)
DegradedNeverCached == \A k \in CacheKeys : ~Cache!Lookup(k).degraded

(* "Makes repeated identical requests instant and bit-identical" (cache.py: *)
(* 1-4): while it is stored, the reading of a note never changes.  It does, *)
(* when two coroutines work on the same note.                               *)
CachedReadingStable ==
    [][\A k \in CacheKeys : content[k] # NoAssembly => content'[k] = content[k]]_interpreterVars

(* ... as far as the code keeps it (interpreter.py:196-199 and 251-254,     *)
(* identical notes at work together included): a note whose reading is      *)
(* stored is given that one at once, and a stored reading is replaced by    *)
(* another only when a coroutine ends that found none when it began.        *)
MissedAndAtWork(t) ==
    job[t].kind = "interpret" /\ job[t].pc \in {"models", "attempt", "calling", "sleeping"}

ReplacedOnlyByOverlap ==
    [][/\ \A t \in Tasks : LET stored == content[KeyOf[t]] IN
             job[t].kind = "interpret" /\ job[t].pc = "ready" /\ job'[t].pc # "ready"
             /\ stored # NoAssembly
                 => job'[t].pc = "done" /\ job'[t].result = stored
       /\ \A k \in CacheKeys :
             content[k] # NoAssembly /\ content'[k] \notin {content[k], NoAssembly}
                 => \E t \in Tasks : /\ KeyOf[t] = k /\ MissedAndAtWork(t)
                                     /\ job'[t].pc = "done" /\ job'[t].result = content'[k]
      ]_interpreterVars

(* "Every LLM attempt gets timeout = min(stage_timeout, remaining -         *)
(* safety_margin)" (planning.md 3.2): a request in flight ends before the   *)
(* deadline of the optimisation request it serves.  It may not: wait_for    *)
(* grants at least half a second, and a call may send several requests.     *)
AttemptFitsDeadline == \A t \in Tasks : InFlight(t) => call[t].left <= TimeLeft(t)

(* How many more requests an open call may send, and how long it may take:  *)
(* each key is asked once, or once more without the thinking config.        *)
RequestsPerKey(think) == IF think THEN 2 ELSE 1

RequestsToCome(f) ==
    Cardinality(f.untried) * RequestsPerKey(f.think)
        + (IF f.pc = "sent" THEN RequestsPerKey(f.think) - 1 ELSE 0)

TimeToGo(f) == f.left + RequestsToCome(f) * WaitFor(f.timeout)

(* How far a call may outlast the deadline it was given a timeout for: all  *)
(* its requests last half a second each though the timeout was just enough  *)
(* for an attempt, or all last the whole timeout of a stage.                *)
MostRequests == NKeys * RequestsPerKey(Thinking)
LongestTimeout == IF PrimaryTimeout > FallbackTimeout THEN PrimaryTimeout ELSE FallbackTimeout

Overrun ==
    LET floored == MostRequests * MinWait - (Cutoff + 1)
        whole   == (MostRequests - 1) * LongestTimeout
    IN  (IF floored > whole THEN floored ELSE whole) - SafetyMargin

(* The deadline of a request bounds its calls only so far                   *)
(* (deadline.py:22-23, provider_chain.py:33-35, gemini_client.py:88-91 and  *)
(* 121-134): whatever is answered and whatever other calls park, an open    *)
(* call ends before the deadline and the overrun.                           *)
OverrunBounded == \A t \in Tasks : InFlight(t) => TimeToGo(call[t]) <= TimeLeft(t) + Overrun

(* "If the provider's suggested wait fits in the budget, wait once and      *)
(* retry" (interpreter.py:275-279): a note that sleeps wakes up with enough *)
(* time for an attempt.                                                     *)
SleepLeavesTime ==
    \A t \in Tasks : job[t].pc = "sleeping" =>
        job[t].nap < TimeLeft(t) /\ ~OutOfTime(1, TimeLeft(t) - job[t].nap)

(* ... and the wait was not in vain: some model can be asked then.          *)
WaitNotInVain ==
    \A t \in Tasks : job[t].pc = "sleeping" /\ job[t].nap = 0 =>
        \E m \in Models : ~IsDisabled(m) /\ Parked(m) # Keys

(* "so a broken model/key combination isn't retried for 5 minutes"          *)
(* (provider_chain.py:3-4): a call is never begun while the breaker of its  *)
(* model is open.  It is, for a repair.                                     *)
BeginsCall(t) == ~InFlight(t) /\ call'[t].pc # "idle"

BreakerRespected ==
    [][\A t \in Tasks : BeginsCall(t) => ~IsDisabled(call'[t].model)]_interpreterVars

(* ... as far as the code keeps it, whichever notes trip breakers meanwhile *)
(* (interpreter.py:295 before the loop of 313): the first attempt at a      *)
(* model is made with a closed breaker, and only the repairs that follow    *)
(* its reply may find it open.                                              *)
OnlyRepairsPassBreakers ==
    [][\A t \in Tasks : BeginsCall(t) /\ IsDisabled(call'[t].model)
          => job[t].repairs < MaxRepairs]_interpreterVars

(* "400 -- our request was malformed (should not normally happen);          *)
(* circuit-break it too" (base.py:24, and planning.md:161): when a caller   *)
(* has dealt with a 400 the breaker of that model is open.                  *)
InvalidTripsBreaker ==
    [][\A t \in Tasks : Answered(t) /\ call[t].out = "invalid" /\ call'[t] # call[t]
                            => openFor'[call[t].model] > 0]_interpreterVars

(* Every note of every request gets a reading, whatever Gemini does. *)
RequestInterpreted ==
    \A r \in Requests : phase[r] \in {"interpreting", "correcting"} ~> phase[r] = "interpreted"
=============================================================================
