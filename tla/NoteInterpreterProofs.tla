----------------------- MODULE NoteInterpreterProofs -----------------------
(***************************************************************************)
(* Proofs about NoteInterpreter, for any number of requests, notes, models *)
(* and keys: types, no answer for a note that no longer waits for one, no  *)
(* degraded reading in the cache, a sleep that leaves time for an attempt, *)
(* how far a call may outlast its deadline, which calls pass an open       *)
(* breaker and which readings replace another; and for a note alone, that  *)
(* a wait is never in vain.                                                *)
(***************************************************************************)
EXTENDS NoteInterpreter, GeminiClientProofs, Sequences, FiniteSetTheorems

CP == INSTANCE CacheProofs
          WITH Values <- Assemblies, None <- NoAssembly, MaxSize <- MaxCache,
               latest <- content, uses <- order

(* What the invariant says of a note: who awaits a call, who holds the      *)
(* loop, in which requests notes are open, where in the chain they are.     *)
TaskOK(t) ==
    /\ InFlight(t) => job[t].pc = "calling" /\ running # t
    /\ job[t].pc = "calling" => InFlight(t) \/ running = t
    /\ job[t].pc \in {"models", "attempt"} => running = t
    /\ running = t => job[t].pc \in {"models", "attempt", "calling"}
    /\ job[t].pc \notin {"idle", "done"} => phase[RequestOf[t]] \in {"interpreting", "correcting"}
    /\ job[t].at >= 1
    /\ job[t].pc \in {"attempt", "calling"} => job[t].at \in Models
    /\ job[t].wait >= NoDelay
    /\ call[t].wait >= NoDelay

NoteTypes ==
    /\ remaining \in [Requests -> Nat]
    /\ phase \in [Requests -> Phases]
    /\ job \in [Tasks -> Jobs]
    /\ running \in Tasks \cup {NoTask}

SharedOK == ClientInv /\ openFor \in [Models -> Nat] /\ CP!CacheInv /\ DegradedNeverCached

(* The inductive invariant. *)
NoteInv == SharedOK /\ NoteTypes /\ \A t \in Tasks : TaskOK(t)

-----------------------------------------------------------------------------
(* What the steps of a call do to the frames. *)

OthersCalls(t) == \A u \in Tasks \ {t} : call'[u] = call[u]

LEMMA AskingWait ==
    ASSUME NEW f \in Frames, NEW S
    PROVE  /\ Asking(f, S).wait = f.wait
           /\ Asking(f, S).think = f.think
           /\ Asking(f, S).pc = "sent"
           /\ Asking(f, S).left = WaitFor(f.timeout)
BY DEF Asking, Frames

LEMMA BeginEffects ==
    ASSUME ClientInv, NEW t \in Tasks, NEW m \in Models, NEW timeout \in Nat,
           NEW think \in BOOLEAN, Begin(t, m, timeout, think)
    PROVE  /\ ClientInv'
           /\ OthersCalls(t)
           /\ call'[t].wait >= NoDelay
           /\ call'[t].pc # "idle" => call'[t].left = WaitFor(timeout) /\ (call'[t].think => think)
<1> DEFINE f == Opening(m, timeout, think)
<1> USE DEF NoDelay
<1>1. ClientInv'
  BY BeginKeepsInv
<1>2. TypeOK /\ call \in [Tasks -> Frames]
  BY DEF ClientInv, TypeOK
<1>3. f \in Frames /\ f.wait = NoDelay /\ f.timeout = timeout /\ (f.think => think)
  BY <1>2, OpeningIsFrame DEF Opening
<1>4. OthersCalls(t)
  BY <1>2 DEF Begin, OthersCalls
<1> HIDE DEF f
<1>5. CASE NKeys = 0
  <2>1. call' = [call EXCEPT ![t] = Ended(NewFrame(m), "auth", NoDelay)]
    BY <1>5 DEF Begin
  <2>2. call'[t] = Ended(NewFrame(m), "auth", NoDelay)
    BY <1>2, <2>1
  <2> QED BY <1>1, <1>4, <2>2, EndedWait
<1>6. CASE NKeys > 0 /\ Parked(m) = Keys
  <2>1. call' = [call EXCEPT ![t] = Ended(f, "rateLimited", ShortestPark(m))]
    BY <1>6 DEF Begin, f
  <2>2. call'[t] = Ended(f, "rateLimited", ShortestPark(m))
    BY <1>2, <2>1
  <2>3. ShortestPark(m) \in Nat
    BY <1>2, <1>6, ShortestParkIsOfAKey DEF TypeOK
  <2> QED BY <1>1, <1>4, <2>2, <2>3, EndedWait
<1>7. CASE NKeys > 0 /\ Parked(m) # Keys
  <2>1. call' = [call EXCEPT ![t] = Asking(f, Keys \ Parked(m))]
    BY <1>7 DEF Begin, f
  <2>2. call'[t] = Asking(f, Keys \ Parked(m))
    BY <1>2, <2>1
  <2> QED BY <1>1, <1>3, <1>4, <2>2, AskingWait
<1> QED BY <1>5, <1>6, <1>7, ClientAssumption

LEMMA ResumeEffects ==
    ASSUME ClientInv, NEW t \in Tasks, Resume(t), call[t].wait >= NoDelay
    PROVE  /\ ClientInv'
           /\ InFlight(t)
           /\ OthersCalls(t)
           /\ call'[t].wait >= NoDelay
<1> USE DEF NoDelay
<1>1. ClientInv'
  BY NextKeepsInv DEF Next
<1>2. call \in [Tasks -> Frames]
  BY DEF ClientInv, TypeOK
<1>3. ASSUME NEW out, Return(t, out)
      PROVE  OthersCalls(t) /\ call'[t].wait >= NoDelay
  <2>1. call'[t] = Ended(call[t], out, NoDelay) /\ OthersCalls(t)
    BY <1>2, <1>3 DEF Return, OthersCalls
  <2> QED BY <2>1, EndedWait
<1>4. ASSUME NEW d \in RetryDelays, Receive429(t, d)
      PROVE  InFlight(t) /\ OthersCalls(t) /\ call'[t].wait >= NoDelay
  <2> DEFINE f == [call[t] EXCEPT !.refused = @ \cup {call[t].key}]
  <2>1. d >= NoDelay
    BY ClientAssumption
  <2>2. f \in Frames /\ f.wait = call[t].wait
    <3>1. call[t].pc # "idle"
      BY <1>4 DEF Receive429, InFlight
    <3>2. call[t].key \in Keys
      BY <3>1 DEF ClientInv, FrameOK, Accounted
    <3> QED BY <1>2, <3>2 DEF Frames
  <2>3. \/ call' = [call EXCEPT ![t] = Ended(f, "rateLimited", d)]
        \/ call' = [call EXCEPT ![t] = Asking(f, f.untried)]
    BY <1>4 DEF Receive429
  <2> HIDE DEF f
  <2>4. CASE call' = [call EXCEPT ![t] = Ended(f, "rateLimited", d)]
    <3>1. call'[t] = Ended(f, "rateLimited", d) /\ OthersCalls(t)
      BY <1>2, <2>4 DEF OthersCalls
    <3> QED BY <1>4, <2>1, <3>1, EndedWait DEF Receive429
  <2>5. CASE call' = [call EXCEPT ![t] = Asking(f, f.untried)]
    <3>1. call'[t] = Asking(f, f.untried) /\ OthersCalls(t)
      BY <1>2, <2>5 DEF OthersCalls
    <3> QED BY <1>4, <2>2, <3>1, AskingWait DEF Receive429
  <2> QED BY <2>3, <2>4, <2>5
<1>5. ASSUME Receive400(t)
      PROVE  InFlight(t) /\ OthersCalls(t) /\ call'[t].wait >= NoDelay
  <2>1. CASE Thinks(t)
    BY <1>2, <1>5, <2>1 DEF Receive400, OthersCalls, Frames
  <2>2. CASE ~Thinks(t)
    BY <1>3, <1>5, <2>2 DEF Receive400
  <2> QED BY <2>1, <2>2
<1>6. ASSUME ReceiveBody(t) \/ ReceiveAuthError(t) \/ ReceiveServerError(t) \/ TimeOut(t)
      PROVE  InFlight(t) /\ \E out : Return(t, out)
  BY <1>6 DEF ReceiveBody, ReceiveAuthError, ReceiveServerError, TimeOut
<1> QED BY <1>1, <1>3, <1>4, <1>5, <1>6 DEF Resume

LEMMA ForgetEffects ==
    ASSUME ClientInv, NEW t \in Tasks, Forget(t)
    PROVE  /\ ClientInv'
           /\ OthersCalls(t)
           /\ call'[t].pc = "idle"
           /\ call'[t].wait = NoDelay
<1>1. call \in [Tasks -> Frames]
  BY DEF ClientInv, TypeOK
<1>2. ClientInv'
  <2>1. call' = [call EXCEPT ![t] = NoFrame] /\ UNCHANGED <<parked, noThinking, rr>>
    BY DEF Forget
  <2>2. NoFrame \in Frames /\ FrameOK(NoFrame)
    BY NoFrameIsOK
  <2>3. /\ parked' \in [Models -> [Keys -> Nat]] /\ noThinking' \subseteq Models
        /\ rr' \in Nat /\ (NKeys > 0 => rr' < NKeys)
    BY <2>1 DEF ClientInv, TypeOK
  <2> QED BY <2>1, <2>2, <2>3, FrameUpdate
<1>3. NoFrame.pc = "idle" /\ NoFrame.wait = NoDelay
  BY DEF NoFrame, NewFrame
<1> QED BY <1>1, <1>2, <1>3 DEF Forget, OthersCalls

LEMMA TickEffects ==
    ASSUME ClientInv, ClientTick
    PROVE  /\ ClientInv'
           /\ \A t \in Tasks : /\ call'[t].pc = call[t].pc
                               /\ call'[t].wait = call[t].wait
                               /\ call'[t].think = call[t].think
                               /\ call'[t].left = Minus1(call[t].left)
<1>1. call \in [Tasks -> Frames]
  BY DEF ClientInv, TypeOK
<1>2. ClientInv'
  BY TickKeepsInv
<1> QED BY <1>1, <1>2 DEF ClientTick, Frames

LEMMA CallersUnchanged ==
    ASSUME ClientInv, UNCHANGED clientVars
    PROVE  ClientInv'
BY DEF clientVars, ClientInv, TypeOK, FrameOK, Accounted, GivenUp

-----------------------------------------------------------------------------
(* What the steps do to the cache. *)

LEMMA CacheConstants == MaxCache \in Int /\ NoAssembly \notin Assemblies
BY InterpreterAssumption DEF Assemblies, NoAssembly

LEMMA CacheValues ==
    ASSUME CP!CacheInv
    PROVE  content \in [CacheKeys -> Assemblies \cup {NoAssembly}]
BY DEF CP!CacheInv, CP!TypeOK

(* A reading that is not degraded is stored. *)
LEMMA PutKeepsCache ==
    ASSUME CP!CacheInv, DegradedNeverCached, NEW k \in CacheKeys, NEW a \in Assemblies,
           ~a.degraded, Cache!Put(k, a)
    PROVE  CP!CacheInv' /\ DegradedNeverCached'
<1>1. CP!Put(k, a)
  BY DEF Cache!Put, CP!Put, Cache!cacheVars, CP!cacheVars, Cache!Evicting, CP!Evicting,
         Cache!MovedToEnd, CP!MovedToEnd, Cache!Elements, CP!Elements, Cache!Stored, CP!Stored,
         Cache!Without, CP!Without, Cache!Position, CP!Position
<1>2. CP!CacheInv'
  BY <1>1, CP!PutKeepsInv, CacheConstants
<1>3. DegradedNeverCached'
  <2>1. \/ content' = content
        \/ content' = [c \in CacheKeys |-> IF c = k THEN a
                                           ELSE IF c \in Cache!Stored' THEN content[c]
                                           ELSE NoAssembly]
    BY DEF Cache!Put, Cache!cacheVars
  <2>2. \A c \in CacheKeys : content'[c] \in {a, content[c], NoAssembly}
    BY <2>1
  <2> QED BY <2>2 DEF DegradedNeverCached, Cache!Lookup, NoAssembly
<1> QED BY <1>2, <1>3

LEMMA TouchKeepsCache ==
    ASSUME CP!CacheInv, DegradedNeverCached, NEW k \in CacheKeys, Cache!Touch(k)
    PROVE  CP!CacheInv' /\ DegradedNeverCached'
<1>1. CP!Touch(k)
  BY DEF Cache!Touch, CP!Touch, Cache!Stored, CP!Stored, Cache!Elements, CP!Elements,
         Cache!MovedToEnd, CP!MovedToEnd, Cache!Without, CP!Without, Cache!Position, CP!Position
<1>2. CP!CacheInv'
  BY <1>1, CP!TouchKeepsInv, CacheConstants
<1>3. DegradedNeverCached'
  BY DEF Cache!Touch, DegradedNeverCached, Cache!Lookup
<1> QED BY <1>2, <1>3

LEMMA CacheUnchanged ==
    ASSUME CP!CacheInv, DegradedNeverCached, UNCHANGED cacheVars
    PROVE  CP!CacheInv' /\ DegradedNeverCached'
<1>1. order' = order /\ content' = content
  BY DEF cacheVars
<1>2. CP!CacheInv'
  BY <1>1 DEF CP!CacheInv, CP!TypeOK, CP!StoreConsistent, CP!Bounded, CP!NoDuplicates,
              CP!ValuesAreOfStoredKeys, CP!Stored, CP!Elements
<1>3. DegradedNeverCached'
  BY <1>1 DEF DegradedNeverCached, Cache!Lookup
<1> QED BY <1>2, <1>3

-----------------------------------------------------------------------------
(* The steps of one note. *)

(* A step of one note keeps the invariant if it does for that note. *)
LEMMA NoteUpdate ==
    ASSUME NoteInv, NEW t \in Tasks, SharedOK', OthersCalls(t),
           job' \in [Tasks -> Jobs], \A u \in Tasks \ {t} : job'[u] = job[u],
           running \in {NoTask, t}, running' \in {NoTask, t},
           UNCHANGED <<remaining, phase>>, TaskOK(t)'
    PROVE  NoteInv'
<1>1. NoteTypes'
  BY DEF NoteInv, NoteTypes
<1>2. ASSUME NEW u \in Tasks PROVE TaskOK(u)'
  <2>1. CASE u = t
    BY <2>1
  <2>2. CASE u # t
    <3>1. job'[u] = job[u] /\ call'[u] = call[u] /\ phase' = phase
      BY <2>2 DEF OthersCalls
    <3>2. running # u /\ running' # u
      BY <2>2, InterpreterAssumption
    <3>3. TaskOK(u)
      BY DEF NoteInv
    <3> QED BY <3>1, <3>2, <3>3 DEF TaskOK, InFlight
  <2> QED BY <2>1, <2>2
<1> QED BY <1>1, <1>2 DEF NoteInv

(* Steps that leave client, breakers and cache alone. *)
LEMMA SharedUnchanged ==
    ASSUME SharedOK, UNCHANGED <<chainVars, cacheVars>>
    PROVE  SharedOK' /\ \A t \in Tasks : OthersCalls(t)
<1>1. UNCHANGED clientVars /\ UNCHANGED openFor /\ UNCHANGED cacheVars
  BY DEF chainVars
<1>2. call' = call
  BY <1>1 DEF clientVars
<1> QED BY <1>1, <1>2, CallersUnchanged, CacheUnchanged DEF SharedOK, OthersCalls

(* The frame of one note changes. *)
LEMMA JobUpdate ==
    ASSUME job \in [Tasks -> Jobs], NEW t \in Tasks, NEW j \in Jobs, job' = [job EXCEPT ![t] = j]
    PROVE  /\ job' \in [Tasks -> Jobs]
           /\ job'[t] = j
           /\ \A u \in Tasks \ {t} : job'[u] = job[u]
OBVIOUS

LEMMA NextModelFrame ==
    ASSUME NEW f \in Jobs
    PROVE  /\ NextModel(f) \in Jobs
           /\ NextModel(f).pc = "models"
           /\ NextModel(f).at = f.at + 1
           /\ NextModel(f).wait = f.wait
<1>1. f.at + 1 \in Nat
  BY DEF Jobs
<1> QED BY <1>1 DEF Jobs, NextModel

LEMMA StartNoteKeepsInv ==
    ASSUME NoteInv, NEW t \in Tasks, StartNote(t)
    PROVE  NoteInv'
<1>1. /\ running = NoTask /\ job[t].pc = "ready" /\ job \in [Tasks -> Jobs]
      /\ UNCHANGED <<chainVars, remaining, phase>>
      /\ TaskOK(t) /\ SharedOK
  BY DEF StartNote, NoteInv, NoteTypes
<1>2. KeyOf[t] \in CacheKeys
  BY InterpreterAssumption
<1>3. call' = call /\ UNCHANGED <<clientVars, openFor>>
  BY <1>1 DEF chainVars, clientVars
<1>4. CASE /\ Cache!Touch(KeyOf[t])
           /\ job' = [job EXCEPT ![t].pc = "done", ![t].result = Cache!Lookup(KeyOf[t])]
           /\ UNCHANGED running
  <2>1. SharedOK'
    BY <1>1, <1>2, <1>3, <1>4, TouchKeepsCache, CallersUnchanged DEF SharedOK
  <2>2. Cache!Lookup(KeyOf[t]) \in Assemblies \cup {NoAssembly}
    BY <1>1, <1>2, CacheValues DEF SharedOK, Cache!Lookup
  <2> DEFINE j == [job[t] EXCEPT !.pc = "done", !.result = Cache!Lookup(KeyOf[t])]
  <2>a. j \in Jobs
    <3>1. job[t] \in Jobs
      BY <1>1
    <3> QED BY <2>2, <3>1 DEF Jobs
  <2>b. job' = [job EXCEPT ![t] = j]
    BY <1>1, <1>4
  <2> HIDE DEF j
  <2>3. job' \in [Tasks -> Jobs] /\ (\A u \in Tasks \ {t} : job'[u] = job[u])
    BY <1>1, <2>a, <2>b, JobUpdate
  <2>4. TaskOK(t)'
    BY <1>1, <1>3, <1>4, InterpreterAssumption DEF TaskOK, InFlight, Jobs
  <2> QED BY <1>1, <1>3, <1>4, <2>1, <2>3, <2>4, NoteUpdate DEF OthersCalls
<1>5. CASE job' = [job EXCEPT ![t].pc = "models"] /\ running' = t /\ UNCHANGED cacheVars
  <2>1. SharedOK' /\ OthersCalls(t)
    BY <1>1, <1>5, SharedUnchanged
  <2> DEFINE j == [job[t] EXCEPT !.pc = "models"]
  <2>a. j \in Jobs
    <3>1. job[t] \in Jobs
      BY <1>1
    <3> QED BY <3>1 DEF Jobs
  <2>b. job' = [job EXCEPT ![t] = j]
    BY <1>1, <1>5
  <2> HIDE DEF j
  <2>2. job' \in [Tasks -> Jobs] /\ (\A u \in Tasks \ {t} : job'[u] = job[u])
    BY <1>1, <2>a, <2>b, JobUpdate
  <2>3. TaskOK(t)'
    BY <1>1, <1>3, <1>5, InterpreterAssumption DEF TaskOK, InFlight, Jobs
  <2> QED BY <1>1, <1>5, <2>1, <2>2, <2>3, NoteUpdate
<1> QED BY <1>4, <1>5 DEF StartNote

(* A note that holds the loop awaits no call. *)
LEMMA RunningNote ==
    ASSUME NoteInv, NEW t \in Tasks, running = t
    PROVE  /\ ~InFlight(t)
           /\ phase[RequestOf[t]] \in {"interpreting", "correcting"}
           /\ job \in [Tasks -> Jobs]
           /\ job[t].at \in Nat /\ job[t].at >= 1
           /\ SharedOK /\ TaskOK(t)
<1>1. TaskOK(t) /\ SharedOK /\ job \in [Tasks -> Jobs]
  BY DEF NoteInv, NoteTypes
<1> QED BY <1>1 DEF TaskOK, Jobs

LEMMA PickModelKeepsInv ==
    ASSUME NoteInv, NEW t \in Tasks, PickModel(t)
    PROVE  NoteInv'
<1>1. running = t /\ UNCHANGED <<chainVars, cacheVars, remaining, phase, running>>
  BY DEF PickModel
<1>2. /\ ~InFlight(t) /\ phase[RequestOf[t]] \in {"interpreting", "correcting"}
      /\ job \in [Tasks -> Jobs] /\ job[t].at \in Nat /\ job[t].at >= 1 /\ SharedOK /\ TaskOK(t)
  BY <1>1, RunningNote
<1>3. SharedOK' /\ OthersCalls(t)
  BY <1>1, <1>2, SharedUnchanged
<1>4. job[t].at <= NModels /\ job[t].pc = "models"
  BY DEF PickModel
<1>5. job[t].at \in Models
  BY <1>2, <1>4, ChainAssumption
<1>6. call' = call
  BY <1>1 DEF chainVars, clientVars
<1>7. \/ job' = [job EXCEPT ![t].at = @ + 1]
      \/ job' = [job EXCEPT ![t].pc = "attempt", ![t].repairs = MaxRepairs]
  BY DEF PickModel
<1>8. job' \in [Tasks -> Jobs] /\ (\A u \in Tasks \ {t} : job'[u] = job[u])
  <2>1. PICK j \in Jobs : job' = [job EXCEPT ![t] = j]
    <3>1. /\ [job[t] EXCEPT !.at = @ + 1] \in Jobs
          /\ [job[t] EXCEPT !.pc = "attempt", !.repairs = MaxRepairs] \in Jobs
      <4>1. job[t] \in Jobs /\ job[t].at + 1 \in Nat /\ MaxRepairs \in Nat
        BY <1>2, InterpreterAssumption
      <4> QED BY <4>1 DEF Jobs
    <3>2. \/ job' = [job EXCEPT ![t] = [job[t] EXCEPT !.at = @ + 1]]
          \/ job' = [job EXCEPT ![t] = [job[t] EXCEPT !.pc = "attempt", !.repairs = MaxRepairs]]
      BY <1>2, <1>7
    <3> QED BY <3>1, <3>2
  <2> QED BY <1>2, <2>1, JobUpdate
<1>9. TaskOK(t)'
  BY <1>1, <1>2, <1>4, <1>5, <1>6, <1>7 DEF TaskOK, InFlight, Jobs
<1> QED BY <1>1, <1>3, <1>8, <1>9, NoteUpdate

LEMMA AttemptKeepsInv ==
    ASSUME NoteInv, NEW t \in Tasks, Attempt(t)
    PROVE  NoteInv'
<1>1. /\ running = t /\ job[t].pc = "attempt"
      /\ UNCHANGED <<cacheVars, remaining, phase>>
  BY DEF Attempt
<1>2. /\ ~InFlight(t) /\ phase[RequestOf[t]] \in {"interpreting", "correcting"}
      /\ job \in [Tasks -> Jobs] /\ job[t].at \in Nat /\ job[t].at >= 1 /\ SharedOK /\ TaskOK(t)
  BY <1>1, RunningNote
<1>3. job[t].at \in Models /\ job[t] \in Jobs
  BY <1>1, <1>2 DEF TaskOK
<1>4. CASE job' = [job EXCEPT ![t] = NextModel(@)] /\ UNCHANGED <<chainVars, running>>
  <2>1. SharedOK' /\ OthersCalls(t)
    BY <1>1, <1>2, <1>4, SharedUnchanged
  <2>2. NextModel(job[t]) \in Jobs
    BY <1>3, NextModelFrame
  <2>3. job' \in [Tasks -> Jobs] /\ (\A u \in Tasks \ {t} : job'[u] = job[u])
        /\ job'[t] = NextModel(job[t])
    BY <1>2, <1>4, <2>2, JobUpdate
  <2>4. job'[t].pc = "models" /\ job'[t].at = job[t].at + 1 /\ job'[t].wait = job[t].wait
    BY <1>3, <2>3, NextModelFrame
  <2>5. call' = call
    BY <1>4 DEF chainVars, clientVars
  <2>6. TaskOK(t)'
    BY <1>1, <1>2, <1>4, <2>4, <2>5 DEF TaskOK, InFlight
  <2> QED BY <1>1, <1>4, <2>1, <2>3, <2>6, NoteUpdate
<1>5. CASE /\ CallModel(t, job[t].at, TimeLeft(t), Thinking)
           /\ job' = [job EXCEPT ![t].pc = "calling"]
           /\ running' = IF call'[t].pc = "idle" THEN t ELSE NoTask
  <2> DEFINE timeout == TimeoutFor(BudgetFor(job[t].at), TimeLeft(t))
             j == [job[t] EXCEPT !.pc = "calling"]
  <2>1. TimeLeft(t) \in Nat
    BY InterpreterAssumption DEF NoteInv, NoteTypes, TimeLeft
  <2>2. timeout \in Nat
    BY <2>1, ChainAssumption DEF TimeoutFor, BudgetFor
  <2>3. Begin(t, job[t].at, timeout, Thinking) /\ openFor' = openFor
    BY <1>5 DEF CallModel
  <2>4. j \in Jobs /\ j.pc = "calling" /\ j.at = job[t].at /\ j.wait = job[t].wait
    BY <1>3 DEF Jobs
  <2>5. job' = [job EXCEPT ![t] = j]
    BY <1>2, <1>5
  <2> HIDE DEF timeout, j
  <2>6. ClientInv' /\ OthersCalls(t) /\ call'[t].wait >= NoDelay
    <3>1. ClientInv /\ Thinking \in BOOLEAN
      BY <1>2, InterpreterAssumption DEF SharedOK
    <3> QED BY <1>3, <2>2, <2>3, <3>1, BeginEffects
  <2>7. CP!CacheInv' /\ DegradedNeverCached'
    BY <1>1, <1>2, CacheUnchanged DEF SharedOK
  <2>8. SharedOK'
    BY <1>2, <2>3, <2>6, <2>7 DEF SharedOK
  <2>9. job' \in [Tasks -> Jobs] /\ (\A u \in Tasks \ {t} : job'[u] = job[u]) /\ job'[t] = j
    BY <1>2, <2>4, <2>5, JobUpdate
  <2>10. TaskOK(t)'
    BY <1>1, <1>2, <1>3, <1>5, <2>4, <2>6, <2>9, InterpreterAssumption DEF TaskOK, InFlight
  <2> QED BY <1>1, <1>5, <2>6, <2>8, <2>9, <2>10, NoteUpdate
<1> QED BY <1>4, <1>5 DEF Attempt

LEMMA WakeKeepsInv ==
    ASSUME NoteInv, NEW t \in Tasks, Wake(t)
    PROVE  NoteInv'
<1>1. /\ running = NoTask /\ job[t].pc = "calling" /\ ChainResume(t)
      /\ running' = IF call'[t].pc = "idle" THEN t ELSE NoTask
      /\ UNCHANGED <<cacheVars, remaining, phase, job>>
  BY DEF Wake
<1>2. SharedOK /\ TaskOK(t) /\ job \in [Tasks -> Jobs]
  BY DEF NoteInv, NoteTypes
<1>3. ClientInv' /\ OthersCalls(t) /\ call'[t].wait >= NoDelay
  BY <1>1, <1>2, ResumeEffects DEF ChainResume, SharedOK, TaskOK
<1>4. SharedOK'
  <2>1. CP!CacheInv' /\ DegradedNeverCached'
    BY <1>1, <1>2, CacheUnchanged DEF SharedOK
  <2> QED BY <1>1, <1>2, <1>3, <2>1 DEF SharedOK, ChainResume
<1>5. TaskOK(t)'
  BY <1>1, <1>2, <1>3, InterpreterAssumption DEF TaskOK, InFlight
<1> QED BY <1>1, <1>2, <1>3, <1>4, <1>5, NoteUpdate

LEMMA HandleErrorKeepsInv ==
    ASSUME NoteInv, NEW t \in Tasks, HandleError(t)
    PROVE  NoteInv'
<1> DEFINE w == WaitNoted(t)
           j == [NextModel(job[t]) EXCEPT !.wait = w]
<1>1. /\ running = t /\ job[t].pc = "calling" /\ TripBreaker(t) /\ Forget(t)
      /\ UNCHANGED <<cacheVars, remaining, phase, running>>
      /\ job' = [job EXCEPT ![t] = [NextModel(@) EXCEPT !.wait = w]]
  BY DEF HandleError, Answered
<1>2. /\ phase[RequestOf[t]] \in {"interpreting", "correcting"}
      /\ job \in [Tasks -> Jobs] /\ job[t].at \in Nat /\ job[t].at >= 1 /\ SharedOK /\ TaskOK(t)
  BY <1>1, RunningNote
<1>3. job[t] \in Jobs /\ call[t] \in Frames
  BY <1>2 DEF SharedOK, ClientInv, TypeOK
<1>4. w \in Int /\ w >= NoDelay
  <2>1. call[t].wait \in Int /\ job[t].wait \in Int
    BY <1>3 DEF Frames, Jobs
  <2> QED BY <1>2, <2>1, ClientAssumption DEF WaitNoted, Shorter, ReportedWait, TaskOK, NoDelay
<1>5. job' = [job EXCEPT ![t] = j]
  BY <1>1, <1>2
<1> HIDE DEF w
<1>6. j \in Jobs /\ j.pc = "models" /\ j.at = job[t].at + 1 /\ j.wait = w
  <2>1. /\ NextModel(job[t]) \in Jobs /\ NextModel(job[t]).pc = "models"
        /\ NextModel(job[t]).at = job[t].at + 1
    BY <1>3, NextModelFrame
  <2> QED BY <1>4, <2>1 DEF Jobs
<1> HIDE DEF j
<1>7. job' \in [Tasks -> Jobs] /\ (\A u \in Tasks \ {t} : job'[u] = job[u]) /\ job'[t] = j
  BY <1>2, <1>5, <1>6, JobUpdate
<1>8. ClientInv' /\ OthersCalls(t) /\ call'[t].pc = "idle" /\ call'[t].wait = NoDelay
  BY <1>1, <1>2, ForgetEffects DEF SharedOK
<1>9. openFor' \in [Models -> Nat]
  <2>1. call[t].model \in Models
    BY <1>3 DEF Frames
  <2> QED BY <1>1, <1>2, <2>1, ChainAssumption DEF TripBreaker, SharedOK
<1>10. SharedOK'
  <2>1. CP!CacheInv' /\ DegradedNeverCached'
    BY <1>1, <1>2, CacheUnchanged DEF SharedOK
  <2> QED BY <1>8, <1>9, <2>1 DEF SharedOK
<1>11. TaskOK(t)'
  <2>1. job'[t].pc = "models" /\ job'[t].at >= 1 /\ job'[t].wait >= NoDelay
    BY <1>2, <1>4, <1>6, <1>7
  <2>2. call'[t].wait >= NoDelay
    BY <1>8 DEF NoDelay
  <2> QED BY <1>1, <1>2, <1>8, <2>1, <2>2 DEF TaskOK, InFlight
<1> QED BY <1>1, <1>7, <1>8, <1>10, <1>11, NoteUpdate

(* The coroutine ends with a reading of its kind.                           *)
LEMMA FinishEffects ==
    ASSUME NoteInv, NEW t \in Tasks, running = t, NEW a \in Assemblies \cup {NoAssembly},
           Finish(t, a), job[t].kind = "interpret" /\ ~a.degraded => a \in Assemblies
    PROVE  /\ CP!CacheInv' /\ DegradedNeverCached'
           /\ job' \in [Tasks -> Jobs] /\ (\A u \in Tasks \ {t} : job'[u] = job[u])
           /\ job'[t].pc = "done" /\ job'[t].at = 1 /\ job'[t].wait = NoDelay
           /\ running' = NoTask
<1> DEFINE j == [job[t] EXCEPT !.pc = "done", !.result = a, !.at = 1, !.repairs = 0,
                               !.retried = FALSE, !.wait = NoDelay]
<1>1. SharedOK /\ job \in [Tasks -> Jobs] /\ job[t] \in Jobs
  BY DEF NoteInv, NoteTypes
<1>2. j \in Jobs /\ j.pc = "done" /\ j.at = 1 /\ j.wait = NoDelay
  <2>1. NoDelay \in Int
    BY DEF NoDelay
  <2> QED BY <1>1, <2>1 DEF Jobs
<1>3. job' = [job EXCEPT ![t] = j]
  BY <1>1 DEF Finish
<1> HIDE DEF j
<1>4. CP!CacheInv' /\ DegradedNeverCached'
  <2>1. KeyOf[t] \in CacheKeys
    BY InterpreterAssumption
  <2>2. CASE job[t].kind = "interpret" /\ ~a.degraded
    <3>1. a \in Assemblies /\ Cache!Put(KeyOf[t], a)
      BY <2>2 DEF Finish
    <3> QED BY <1>1, <2>1, <2>2, <3>1, PutKeepsCache DEF SharedOK
  <2>3. CASE ~(job[t].kind = "interpret" /\ ~a.degraded)
    <3>1. UNCHANGED cacheVars
      BY <2>3 DEF Finish
    <3> QED BY <1>1, <3>1, CacheUnchanged DEF SharedOK
  <2> QED BY <2>2, <2>3
<1>5. running' = NoTask
  BY DEF Finish
<1> QED BY <1>1, <1>2, <1>3, <1>4, <1>5, JobUpdate

LEMMA HandleReadingKeepsInv ==
    ASSUME NoteInv, NEW t \in Tasks, NEW verdict \in Verdicts, HandleReading(t, verdict)
    PROVE  NoteInv'
<1>1. /\ running = t /\ job[t].pc = "calling" /\ Forget(t)
      /\ UNCHANGED <<openFor, remaining, phase>>
  BY DEF HandleReading, Answered
<1>2. /\ phase[RequestOf[t]] \in {"interpreting", "correcting"}
      /\ job \in [Tasks -> Jobs] /\ job[t].at \in Nat /\ job[t].at >= 1 /\ SharedOK /\ TaskOK(t)
  BY <1>1, RunningNote
<1>3. job[t] \in Jobs /\ job[t].at \in Models /\ job[t].wait >= NoDelay
  BY <1>1, <1>2 DEF TaskOK
<1>4. ClientInv' /\ OthersCalls(t) /\ call'[t].pc = "idle" /\ call'[t].wait = NoDelay
  BY <1>1, <1>2, ForgetEffects DEF SharedOK
<1>5. call'[t].wait >= NoDelay
  BY <1>4 DEF NoDelay
<1>6. ASSUME NEW j \in Jobs, job' = [job EXCEPT ![t] = j], UNCHANGED <<cacheVars, running>>,
             j.pc \in {"attempt", "models"}, j.at >= 1, j.pc = "attempt" => j.at \in Models,
             j.wait >= NoDelay
      PROVE  NoteInv'
  <2>1. job' \in [Tasks -> Jobs] /\ (\A u \in Tasks \ {t} : job'[u] = job[u]) /\ job'[t] = j
    BY <1>2, <1>6, JobUpdate
  <2>2. CP!CacheInv' /\ DegradedNeverCached'
    BY <1>2, <1>6, CacheUnchanged DEF SharedOK
  <2>3. SharedOK'
    BY <1>1, <1>2, <1>4, <2>2 DEF SharedOK
  <2>4. TaskOK(t)'
    BY <1>1, <1>2, <1>4, <1>5, <1>6, <2>1 DEF TaskOK, InFlight
  <2> QED BY <1>1, <1>4, <1>6, <2>1, <2>3, <2>4, NoteUpdate
<1>7. CASE /\ job[t].repairs > 0
           /\ job' = [job EXCEPT ![t].pc = "attempt", ![t].repairs = @ - 1]
           /\ UNCHANGED <<cacheVars, running>>
  <2> DEFINE j == [job[t] EXCEPT !.pc = "attempt", !.repairs = @ - 1]
  <2>1. job[t].repairs - 1 \in Nat
    BY <1>3, <1>7 DEF Jobs
  <2>2. j \in Jobs /\ j.pc = "attempt" /\ j.at = job[t].at /\ j.wait = job[t].wait
    BY <1>3, <2>1 DEF Jobs
  <2>3. job' = [job EXCEPT ![t] = j]
    BY <1>2, <1>7
  <2> HIDE DEF j
  <2> QED BY <1>2, <1>3, <1>6, <1>7, <2>2, <2>3
<1>8. CASE job' = [job EXCEPT ![t] = NextModel(@)] /\ UNCHANGED <<cacheVars, running>>
  <2>1. /\ NextModel(job[t]) \in Jobs /\ NextModel(job[t]).pc = "models"
        /\ NextModel(job[t]).at = job[t].at + 1 /\ NextModel(job[t]).wait = job[t].wait
    BY <1>3, NextModelFrame
  <2>2. NextModel(job[t]).at >= 1
    BY <1>2, <2>1
  <2>3. job' = [job EXCEPT ![t] = NextModel(job[t])]
    BY <1>8
  <2> QED BY <1>3, <1>6, <1>8, <2>1, <2>2, <2>3
<1>9. ASSUME NEW soft \in BOOLEAN,
             Finish(t, [by |-> "model", model |-> job[t].at, soft |-> soft, degraded |-> FALSE])
      PROVE  NoteInv'
  <2> DEFINE a == [by |-> "model", model |-> job[t].at, soft |-> soft, degraded |-> FALSE]
  <2>1. a \in Assemblies
    BY <1>3 DEF Assemblies
  <2>2. Finish(t, a)
    BY <1>9
  <2> HIDE DEF a
  <2>3. /\ CP!CacheInv' /\ DegradedNeverCached'
        /\ job' \in [Tasks -> Jobs] /\ (\A u \in Tasks \ {t} : job'[u] = job[u])
        /\ job'[t].pc = "done" /\ job'[t].at = 1 /\ job'[t].wait = NoDelay
        /\ running' = NoTask
    BY <1>1, <2>1, <2>2, FinishEffects
  <2>4. SharedOK'
    BY <1>1, <1>2, <1>4, <2>3 DEF SharedOK
  <2>5. TaskOK(t)'
    BY <1>4, <1>5, <2>3, InterpreterAssumption DEF TaskOK, InFlight, NoDelay
  <2> QED BY <1>1, <1>4, <2>3, <2>4, <2>5, NoteUpdate
<1> QED BY <1>7, <1>8, <1>9 DEF HandleReading

LEMMA SleepKeepsInv ==
    ASSUME NoteInv, NEW t \in Tasks, Sleep(t)
    PROVE  NoteInv'
<1> DEFINE j == [job[t] EXCEPT !.pc = "sleeping", !.nap = job[t].wait + 1,
                               !.retried = TRUE, !.wait = NoDelay, !.at = 1]
<1>1. /\ running = t /\ running' = NoTask
      /\ job[t].wait # NoDelay
      /\ UNCHANGED <<chainVars, cacheVars, remaining, phase>>
  BY DEF Sleep, Exhausted, WorthWaiting
<1>2. /\ ~InFlight(t) /\ phase[RequestOf[t]] \in {"interpreting", "correcting"}
      /\ job \in [Tasks -> Jobs] /\ SharedOK /\ TaskOK(t) /\ job[t] \in Jobs
  BY <1>1, RunningNote
<1>3. SharedOK' /\ OthersCalls(t) /\ call' = call
  BY <1>1, <1>2, SharedUnchanged DEF chainVars, clientVars
<1>4. job[t].wait + 1 \in Nat /\ NoDelay \in Int
  <2>1. job[t].wait >= NoDelay
    BY <1>2 DEF TaskOK
  <2>2. job[t].wait \in Int
    BY <1>2 DEF Jobs
  <2> QED BY <1>1, <2>1, <2>2 DEF NoDelay
<1>5. j \in Jobs /\ j.pc = "sleeping" /\ j.at = 1 /\ j.wait = NoDelay
  BY <1>2, <1>4 DEF Jobs
<1>6. job' = [job EXCEPT ![t] = j]
  BY <1>2 DEF Sleep
<1> HIDE DEF j
<1>7. job' \in [Tasks -> Jobs] /\ (\A u \in Tasks \ {t} : job'[u] = job[u]) /\ job'[t] = j
  BY <1>2, <1>5, <1>6, JobUpdate
<1>8. TaskOK(t)'
  BY <1>1, <1>2, <1>3, <1>5, <1>7, InterpreterAssumption DEF TaskOK, InFlight, NoDelay
<1> QED BY <1>1, <1>3, <1>7, <1>8, NoteUpdate

LEMMA WakeUpKeepsInv ==
    ASSUME NoteInv, NEW t \in Tasks, WakeUp(t)
    PROVE  NoteInv'
<1> DEFINE j == [job[t] EXCEPT !.pc = "models"]
<1>1. /\ running = NoTask /\ running' = t /\ job[t].pc = "sleeping"
      /\ UNCHANGED <<chainVars, cacheVars, remaining, phase>>
  BY DEF WakeUp
<1>2. job \in [Tasks -> Jobs] /\ SharedOK /\ TaskOK(t) /\ job[t] \in Jobs
  BY DEF NoteInv, NoteTypes
<1>3. SharedOK' /\ OthersCalls(t) /\ call' = call
  BY <1>1, <1>2, SharedUnchanged DEF chainVars, clientVars
<1>4. j \in Jobs /\ j.pc = "models" /\ j.at = job[t].at /\ j.wait = job[t].wait
  BY <1>2 DEF Jobs
<1>5. job' = [job EXCEPT ![t] = j]
  BY <1>2 DEF WakeUp
<1> HIDE DEF j
<1>6. job' \in [Tasks -> Jobs] /\ (\A u \in Tasks \ {t} : job'[u] = job[u]) /\ job'[t] = j
  BY <1>2, <1>4, <1>5, JobUpdate
<1>7. TaskOK(t)'
  BY <1>1, <1>2, <1>3, <1>4, <1>6, InterpreterAssumption DEF TaskOK, InFlight
<1> QED BY <1>1, <1>3, <1>6, <1>7, NoteUpdate

(* What a note falls back on never has to be cached. *)
LEMMA FallbackReading ==
    ASSUME NoteInv, NEW t \in Tasks
    PROVE  /\ Fallback(t) \in Assemblies \cup {NoAssembly}
           /\ job[t].kind = "interpret" => Fallback(t).degraded
<1>1. job[t] \in Jobs
  BY DEF NoteInv, NoteTypes
<1>2. job[t].result \in Assemblies \cup {NoAssembly}
  BY <1>1 DEF Jobs
<1>3. \A by \in {"rule", "none"} :
        [by |-> by, model |-> 0, soft |-> FALSE, degraded |-> TRUE] \in Assemblies
  BY DEF Assemblies
<1>4. CASE job[t].kind = "correct"
  BY <1>2, <1>4 DEF Fallback
<1>5. CASE job[t].kind # "correct"
  BY <1>3, <1>5 DEF Fallback
<1> QED BY <1>4, <1>5

LEMMA GiveUpKeepsInv ==
    ASSUME NoteInv, NEW t \in Tasks, GiveUp(t)
    PROVE  NoteInv'
<1>1. /\ running = t /\ Finish(t, Fallback(t))
      /\ UNCHANGED <<chainVars, remaining, phase>>
  BY DEF GiveUp, Exhausted
<1>2. /\ ~InFlight(t) /\ SharedOK /\ TaskOK(t)
  BY <1>1, RunningNote
<1>3. call' = call /\ UNCHANGED <<clientVars, openFor>>
  BY <1>1 DEF chainVars, clientVars
<1>4. /\ CP!CacheInv' /\ DegradedNeverCached'
      /\ job' \in [Tasks -> Jobs] /\ (\A u \in Tasks \ {t} : job'[u] = job[u])
      /\ job'[t].pc = "done" /\ job'[t].at = 1 /\ job'[t].wait = NoDelay
      /\ running' = NoTask
  BY <1>1, FallbackReading, FinishEffects
<1>5. SharedOK'
  BY <1>2, <1>3, <1>4, CallersUnchanged DEF SharedOK
<1>6. TaskOK(t)'
  BY <1>2, <1>3, <1>4, InterpreterAssumption DEF TaskOK, InFlight, NoDelay
<1> QED BY <1>1, <1>3, <1>4, <1>5, <1>6, NoteUpdate DEF OthersCalls

LEMMA NoteStepKeepsInv ==
    ASSUME NoteInv, NEW t \in Tasks, NoteStep(t)
    PROVE  NoteInv'
BY StartNoteKeepsInv, PickModelKeepsInv, AttemptKeepsInv, WakeKeepsInv, HandleErrorKeepsInv,
   HandleReadingKeepsInv, SleepKeepsInv, WakeUpKeepsInv, GiveUpKeepsInv DEF NoteStep

-----------------------------------------------------------------------------
(* The steps of a request, and of time. *)

LEMMA NewJobFrame ==
    ASSUME NEW kind \in {"interpret", "correct"}, NEW a \in Assemblies \cup {NoAssembly}
    PROVE  /\ NewJob(kind, a) \in Jobs
           /\ NewJob(kind, a).pc = "ready"
           /\ NewJob(kind, a).at = 1
           /\ NewJob(kind, a).wait = NoDelay
<1>1. NoDelay \in Int
  BY DEF NoDelay
<1> QED BY <1>1 DEF NewJob, Jobs

LEMMA NoJobFrame == NoJob \in Jobs /\ NoJob.pc = "idle" /\ NoJob.at = 1 /\ NoJob.wait = NoDelay
<1>1. NewJob("interpret", NoAssembly) \in Jobs
  BY NewJobFrame
<1>2. NoDelay \in Int
  BY DEF NoDelay
<1> QED BY <1>1, <1>2 DEF NoJob, NewJob, Jobs

(* A request touches its own notes while none of them is in a coroutine.    *)
LEMMA RequestUpdate ==
    ASSUME NoteInv, running = NoTask, running' = running, UNCHANGED <<chainVars, cacheVars>>,
           NEW r \in Requests, phase'[r] \in Phases,
           phase' = [phase EXCEPT ![r] = phase'[r]],
           remaining' \in [Requests -> Nat], job' \in [Tasks -> Jobs],
           \A t \in Tasks : RequestOf[t] # r => job'[t] = job[t],
           \A t \in Tasks : RequestOf[t] = r =>
                /\ ~InFlight(t)
                /\ job'[t].pc \in {"idle", "ready", "done"} /\ job'[t].at >= 1 /\ job'[t].wait >= NoDelay
                /\ job'[t].pc = "ready" => phase'[r] \in {"interpreting", "correcting"}
    PROVE  NoteInv'
<1>1. SharedOK /\ NoteTypes /\ \A t \in Tasks : TaskOK(t)
  BY DEF NoteInv
<1>2. SharedOK' /\ call' = call
  BY <1>1, SharedUnchanged DEF chainVars, clientVars
<1>3. NoteTypes'
  BY <1>1 DEF NoteTypes
<1>4. ASSUME NEW t \in Tasks PROVE TaskOK(t)'
  <2>1. CASE RequestOf[t] = r
    BY <1>1, <1>2, <2>1, InterpreterAssumption DEF TaskOK, InFlight
  <2>2. CASE RequestOf[t] # r
    <3>1. RequestOf[t] \in Requests
      BY InterpreterAssumption
    <3>2. phase'[RequestOf[t]] = phase[RequestOf[t]] /\ job'[t] = job[t]
      BY <1>1, <2>2, <3>1 DEF NoteTypes
    <3> QED BY <1>1, <1>2, <3>2 DEF TaskOK, InFlight
  <2> QED BY <2>1, <2>2
<1> QED BY <1>2, <1>3, <1>4 DEF NoteInv

(* The notes of a request that is not being interpreted are idle or done. *)
LEMMA NotesAtRest ==
    ASSUME NoteInv, NEW t \in Tasks, phase[RequestOf[t]] \notin {"interpreting", "correcting"}
    PROVE  job[t].pc \in {"idle", "done"} /\ ~InFlight(t)
BY DEF NoteInv, TaskOK

LEMMA ArriveKeepsInv ==
    ASSUME NoteInv, NEW r \in Requests, Arrive(r)
    PROVE  NoteInv'
<1>1. /\ running = NoTask /\ phase[r] = "idle"
      /\ phase' = [phase EXCEPT ![r] = "interpreting"]
      /\ remaining' = [remaining EXCEPT ![r] = TotalTime]
      /\ job' = [t \in Tasks |-> IF t \in TasksOf(r) THEN NewJob("interpret", NoAssembly)
                                                    ELSE job[t]]
      /\ UNCHANGED <<chainVars, cacheVars>> /\ running' = running
  BY DEF Arrive
<1>2. NoteTypes
  BY DEF NoteInv
<1>3. phase'[r] = "interpreting" /\ phase'[r] \in Phases /\ phase' = [phase EXCEPT ![r] = phase'[r]]
  BY <1>1, <1>2 DEF NoteTypes, Phases
<1>4. remaining' \in [Requests -> Nat]
  BY <1>1, <1>2, InterpreterAssumption DEF NoteTypes
<1>5. \A t \in Tasks : job'[t] = IF RequestOf[t] = r THEN NewJob("interpret", NoAssembly) ELSE job[t]
  BY <1>1 DEF TasksOf
<1>6. job' \in [Tasks -> Jobs]
  BY <1>1, <1>2, <1>5, NewJobFrame DEF NoteTypes
<1>7. ASSUME NEW t \in Tasks, RequestOf[t] = r
      PROVE  /\ ~InFlight(t)
             /\ job'[t].pc = "ready" /\ job'[t].at >= 1 /\ job'[t].wait >= NoDelay
  BY <1>1, <1>5, <1>7, NewJobFrame, NotesAtRest DEF NoDelay
<1> QED BY <1>1, <1>3, <1>4, <1>5, <1>6, <1>7, RequestUpdate, ZenonT(30)

LEMMA GatherKeepsInv ==
    ASSUME NoteInv, NEW r \in Requests, Gather(r)
    PROVE  NoteInv'
<1>1. /\ running = NoTask /\ AllDone(r)
      /\ phase' = [phase EXCEPT ![r] = "interpreted"]
      /\ UNCHANGED <<chainVars, cacheVars>> /\ running' = running
      /\ remaining' = remaining /\ job' = job
  BY DEF Gather
<1>2. NoteTypes /\ \A t \in Tasks : TaskOK(t)
  BY DEF NoteInv
<1>3. phase'[r] = "interpreted" /\ phase'[r] \in Phases /\ phase' = [phase EXCEPT ![r] = phase'[r]]
  BY <1>1, <1>2 DEF NoteTypes, Phases
<1>4. remaining' \in [Requests -> Nat] /\ job' \in [Tasks -> Jobs]
  BY <1>1, <1>2 DEF NoteTypes
<1>5. ASSUME NEW t \in Tasks, RequestOf[t] = r
      PROVE  /\ ~InFlight(t)
             /\ job'[t].pc \in {"idle", "done"} /\ job'[t].at >= 1 /\ job'[t].wait >= NoDelay
  BY <1>1, <1>2, <1>5 DEF AllDone, TasksOf, TaskOK
<1>8. \A t \in Tasks : RequestOf[t] = r =>
        /\ ~InFlight(t)
        /\ job'[t].pc \in {"idle", "ready", "done"} /\ job'[t].at >= 1 /\ job'[t].wait >= NoDelay
        /\ job'[t].pc = "ready" => phase'[r] \in {"interpreting", "correcting"}
  BY <1>5
<1>9. \A t \in Tasks : RequestOf[t] # r => job'[t] = job[t]
  BY <1>1
<1> QED BY <1>1, <1>3, <1>4, <1>8, <1>9, RequestUpdate

LEMMA CorrectKeepsInv ==
    ASSUME NoteInv, NEW t \in Tasks, Correct(t)
    PROVE  NoteInv'
<1> DEFINE r == RequestOf[t]
           j == NewJob("correct", job[t].result)
<1>1. /\ running = NoTask /\ phase[r] = "interpreted"
      /\ phase' = [phase EXCEPT ![r] = "correcting"]
      /\ UNCHANGED <<chainVars, cacheVars>> /\ running' = running
      /\ remaining' = remaining /\ job' = [job EXCEPT ![t] = j]
  BY DEF Correct
<1>2. NoteTypes /\ r \in Requests /\ job \in [Tasks -> Jobs] /\ job[t] \in Jobs
  BY InterpreterAssumption DEF NoteInv, NoteTypes
<1>3. job[t].result \in Assemblies \cup {NoAssembly}
  BY <1>2 DEF Jobs
<1>4. j \in Jobs /\ j.pc = "ready" /\ j.at = 1 /\ j.wait = NoDelay
  BY <1>3, NewJobFrame
<1> HIDE DEF j
<1>5. job' \in [Tasks -> Jobs] /\ (\A u \in Tasks \ {t} : job'[u] = job[u]) /\ job'[t] = j
  BY <1>1, <1>2, <1>4, JobUpdate
<1>6. phase'[r] = "correcting" /\ phase'[r] \in Phases /\ phase' = [phase EXCEPT ![r] = phase'[r]]
  BY <1>1, <1>2 DEF NoteTypes, Phases
<1>7. ASSUME NEW u \in Tasks, RequestOf[u] = r
      PROVE  /\ ~InFlight(u)
             /\ job'[u].pc \in {"idle", "ready", "done"} /\ job'[u].at >= 1
             /\ job'[u].wait >= NoDelay
  <2>1. job[u].pc \in {"idle", "done"} /\ ~InFlight(u) /\ TaskOK(u)
    BY <1>1, <1>7, NotesAtRest DEF NoteInv
  <2>2. CASE u = t
    BY <1>4, <1>5, <2>1, <2>2 DEF NoDelay
  <2>3. CASE u # t
    BY <1>5, <2>1, <2>3 DEF TaskOK
  <2> QED BY <2>2, <2>3
<1>8. \A u \in Tasks : RequestOf[u] # r => job'[u] = job[u]
  BY <1>5
<1>9. remaining' \in [Requests -> Nat]
  BY <1>1, <1>2 DEF NoteTypes
<1> HIDE DEF r
<1> QED BY <1>1, <1>2, <1>5, <1>6, <1>7, <1>8, <1>9, RequestUpdate

LEMMA CompleteKeepsInv ==
    ASSUME NoteInv, NEW r \in Requests, Complete(r)
    PROVE  NoteInv'
<1>1. /\ running = NoTask /\ phase[r] = "interpreted"
      /\ phase' = [phase EXCEPT ![r] = "idle"]
      /\ remaining' = [remaining EXCEPT ![r] = 0]
      /\ job' = [t \in Tasks |-> IF t \in TasksOf(r) THEN NoJob ELSE job[t]]
      /\ UNCHANGED <<chainVars, cacheVars>> /\ running' = running
  BY DEF Complete
<1>2. NoteTypes
  BY DEF NoteInv
<1>3. phase'[r] \in Phases /\ phase' = [phase EXCEPT ![r] = phase'[r]]
  BY <1>1, <1>2 DEF NoteTypes, Phases
<1>4. remaining' \in [Requests -> Nat]
  BY <1>1, <1>2 DEF NoteTypes
<1>5. \A t \in Tasks : job'[t] = IF RequestOf[t] = r THEN NoJob ELSE job[t]
  BY <1>1 DEF TasksOf
<1>6. job' \in [Tasks -> Jobs]
  BY <1>1, <1>2, <1>5, NoJobFrame DEF NoteTypes
<1>7. ASSUME NEW t \in Tasks, RequestOf[t] = r
      PROVE  /\ ~InFlight(t)
             /\ job'[t].pc = "idle" /\ job'[t].at >= 1 /\ job'[t].wait >= NoDelay
  BY <1>1, <1>5, <1>7, NoJobFrame, NotesAtRest DEF NoDelay
<1>8. \A t \in Tasks : RequestOf[t] = r =>
        /\ ~InFlight(t)
        /\ job'[t].pc \in {"idle", "ready", "done"} /\ job'[t].at >= 1 /\ job'[t].wait >= NoDelay
        /\ job'[t].pc = "ready" => phase'[r] \in {"interpreting", "correcting"}
  BY <1>7
<1>9. \A t \in Tasks : RequestOf[t] # r => job'[t] = job[t]
  BY <1>5
<1> QED BY <1>1, <1>3, <1>4, <1>6, <1>8, <1>9, RequestUpdate

LEMMA TimeKeepsInv ==
    ASSUME NoteInv, Tick
    PROVE  NoteInv'
<1>1. SharedOK /\ NoteTypes /\ \A t \in Tasks : TaskOK(t)
  BY DEF NoteInv
<1>2. /\ running' = running /\ running = NoTask /\ phase' = phase /\ UNCHANGED cacheVars
      /\ ClientTick /\ openFor' = [m \in Models |-> Minus1(openFor[m])]
      /\ remaining' = [r \in Requests |-> Minus1(remaining[r])]
      /\ job' = [t \in Tasks |-> [job[t] EXCEPT !.nap = Minus1(@)]]
  BY DEF Tick, ChainTick
<1>3. ClientInv' /\ \A t \in Tasks : call'[t].pc = call[t].pc /\ call'[t].wait = call[t].wait
  BY <1>1, <1>2, TickEffects DEF SharedOK
<1>4. \A n \in Nat : Minus1(n) \in Nat
  BY DEF Minus1
<1>5. SharedOK'
  <2>1. CP!CacheInv' /\ DegradedNeverCached'
    BY <1>1, <1>2, CacheUnchanged DEF SharedOK
  <2>2. openFor' \in [Models -> Nat]
    BY <1>1, <1>2, <1>4 DEF SharedOK
  <2> QED BY <1>3, <2>1, <2>2 DEF SharedOK
<1>6. ASSUME NEW t \in Tasks
      PROVE  /\ job'[t] \in Jobs /\ job'[t].pc = job[t].pc /\ job'[t].at = job[t].at
             /\ job'[t].wait = job[t].wait
  <2>1. job[t] \in Jobs
    BY <1>1 DEF NoteTypes
  <2>2. Minus1(job[t].nap) \in Nat
    BY <1>4, <2>1 DEF Jobs
  <2>3. job'[t] = [job[t] EXCEPT !.nap = Minus1(@)]
    BY <1>2
  <2> QED BY <2>1, <2>2, <2>3 DEF Jobs
<1>7. job' \in [Tasks -> Jobs]
  BY <1>2, <1>6
<1>8. NoteTypes'
  BY <1>1, <1>2, <1>4, <1>7 DEF NoteTypes
<1>9. ASSUME NEW t \in Tasks PROVE TaskOK(t)'
  BY <1>1, <1>2, <1>3, <1>6 DEF TaskOK, InFlight
<1> QED BY <1>5, <1>8, <1>9 DEF NoteInv

LEMMA NoteStutterKeepsInv ==
    ASSUME NoteInv, UNCHANGED interpreterVars
    PROVE  NoteInv'
<1>1. /\ UNCHANGED <<chainVars, cacheVars>> /\ call' = call
      /\ remaining' = remaining /\ phase' = phase /\ job' = job /\ running' = running
  BY DEF interpreterVars, chainVars, clientVars
<1>2. SharedOK'
  BY <1>1, SharedUnchanged DEF NoteInv
<1>3. NoteTypes' /\ \A t \in Tasks : TaskOK(t)'
  BY <1>1 DEF NoteInv, NoteTypes, TaskOK, InFlight
<1> QED BY <1>2, <1>3 DEF NoteInv

LEMMA NoteNextKeepsInv == NoteInv /\ [NoteNext]_interpreterVars => NoteInv'
BY NoteStepKeepsInv, CorrectKeepsInv, ArriveKeepsInv, GatherKeepsInv, CompleteKeepsInv,
   TimeKeepsInv, NoteStutterKeepsInv DEF NoteNext

LEMMA NoteInitInv == NoteInit => NoteInv
<1> SUFFICES ASSUME NoteInit PROVE NoteInv
  OBVIOUS
<1>1. ClientInv
  BY InitInv DEF NoteInit, ChainInit
<1>2. openFor \in [Models -> Nat]
  BY DEF NoteInit, ChainInit
<1>3. CP!CacheInv
  <2>1. CP!Init
    BY DEF NoteInit, Cache!Init, CP!Init
  <2> QED BY <2>1, CP!InitInv, CacheConstants
<1>4. DegradedNeverCached
  BY DEF NoteInit, Cache!Init, DegradedNeverCached, Cache!Lookup, NoAssembly
<1>5. NoteTypes
  BY NoJobFrame DEF NoteInit, NoteTypes, Phases
<1>6. ASSUME NEW t \in Tasks PROVE TaskOK(t)
  <2>1. call[t] = NoFrame /\ job[t] = NoJob
    BY DEF NoteInit, ChainInit, Init
  <2>2. call[t].pc = "idle" /\ call[t].wait = NoDelay
    BY <2>1 DEF NoFrame, NewFrame
  <2> QED BY <2>1, <2>2, NoJobFrame, InterpreterAssumption
          DEF TaskOK, InFlight, NoteInit, NoDelay
<1> QED BY <1>1, <1>2, <1>3, <1>4, <1>5, <1>6 DEF NoteInv, SharedOK

-----------------------------------------------------------------------------
(* The theorems. *)

(* The inductive invariant holds however the coroutines interleave.         *)
THEOREM NoteInvariant == NoteSpec => []NoteInv
BY NoteInitInv, NoteNextKeepsInv, PTL DEF NoteSpec

(* The state of the interpreter, its client, its breakers and its cache     *)
(* keeps its types (interpreter.py:115-136).                                *)
THEOREM NoteTypesKept == NoteSpec => []NoteTypeOK
<1>1. NoteInv => NoteTypeOK
  <2>1. CP!TypeOK => Cache!TypeOK
    BY DEF CP!TypeOK, Cache!TypeOK
  <2> QED BY <2>1 DEF NoteInv, NoteTypeOK, NoteTypes, SharedOK, ClientInv, ChainTypeOK, CP!CacheInv
<1> QED BY <1>1, NoteInvariant, PTL

(* No answer of Gemini ever reaches a note that does not await it, and no   *)
(* note of an answered request is still at work (interpreter.py:206-218 and *)
(* 311-317), however the coroutines of all requests interleave.             *)
THEOREM CallsHaveAnOwner == NoteSpec => []CallsBelongToNotes
<1>1. NoteInv => CallsBelongToNotes
  BY DEF NoteInv, TaskOK, CallsBelongToNotes
<1> QED BY <1>1, NoteInvariant, PTL

(* A degraded reading is never cached, neither by a note that gives up nor  *)
(* by a correction that fails (interpreter.py:251-254 and 173-183).         *)
THEOREM NoDegradedReadingStored == NoteSpec => []DegradedNeverCached
<1>1. NoteInv => DegradedNeverCached
  BY DEF NoteInv, SharedOK
<1> QED BY <1>1, NoteInvariant, PTL

-----------------------------------------------------------------------------
(* Sleeping and the deadline. *)

(* A step of a note leaves the frames of the others, and puts this note to  *)
(* sleep only in Sleep.                                                     *)
LEMMA NoteStepFrames ==
    ASSUME NoteInv, NEW t \in Tasks, NoteStep(t)
    PROVE  /\ \A u \in Tasks \ {t} : job'[u] = job[u]
           /\ remaining' = remaining
           /\ job'[t].pc = "sleeping" => Sleep(t)
<1>1. job \in [Tasks -> Jobs] /\ job[t] \in Jobs
  BY DEF NoteInv, NoteTypes
<1>2. ASSUME NEW j \in Jobs, j.pc # "sleeping", job' = [job EXCEPT ![t] = j]
      PROVE  /\ \A u \in Tasks \ {t} : job'[u] = job[u]
             /\ job'[t].pc # "sleeping"
  BY <1>1, <1>2, JobUpdate
<1>3. NextModel(job[t]) \in Jobs /\ NextModel(job[t]).pc = "models"
  BY <1>1, NextModelFrame
<1>4. CASE StartNote(t)
  BY <1>1, <1>4 DEF StartNote, Jobs
<1>5. CASE PickModel(t)
  BY <1>1, <1>5 DEF PickModel, Jobs
<1>6. CASE Attempt(t)
  <2>1. remaining' = remaining
    BY <1>6 DEF Attempt
  <2>2. CASE job' = [job EXCEPT ![t] = NextModel(@)]
    BY <1>2, <1>3, <2>1, <2>2
  <2>3. CASE job' = [job EXCEPT ![t].pc = "calling"]
    BY <1>1, <2>1, <2>3 DEF Jobs
  <2> QED BY <1>6, <2>2, <2>3 DEF Attempt
<1>7. CASE Wake(t)
  BY <1>1, <1>7 DEF Wake
<1>8. CASE HandleError(t)
  BY <1>1, <1>8 DEF HandleError, NextModel
<1>9. ASSUME NEW verdict \in Verdicts, HandleReading(t, verdict)
      PROVE  /\ \A u \in Tasks \ {t} : job'[u] = job[u]
             /\ remaining' = remaining /\ job'[t].pc # "sleeping"
  <2>1. remaining' = remaining
    BY <1>9 DEF HandleReading
  <2>2. CASE job' = [job EXCEPT ![t].pc = "attempt", ![t].repairs = @ - 1]
    BY <1>1, <2>1, <2>2 DEF Jobs
  <2>3. CASE job' = [job EXCEPT ![t] = NextModel(@)]
    BY <1>2, <1>3, <2>1, <2>3
  <2>4. ASSUME NEW a, Finish(t, a)
        PROVE  /\ \A u \in Tasks \ {t} : job'[u] = job[u]
               /\ job'[t].pc # "sleeping"
    BY <1>1, <2>4 DEF Finish, Jobs
  <2> QED BY <1>9, <2>1, <2>2, <2>3, <2>4 DEF HandleReading
<1>10. CASE Sleep(t)
  BY <1>1, <1>10 DEF Sleep
<1>11. CASE WakeUp(t)
  BY <1>1, <1>11 DEF WakeUp
<1>12. CASE GiveUp(t)
  BY <1>1, <1>12 DEF GiveUp, Finish
<1> QED BY <1>4, <1>5, <1>6, <1>7, <1>8, <1>9, <1>10, <1>11, <1>12 DEF NoteStep

(* A note that sleeps wakes up with more than the margin and the cutoff left. *)
SleepFits(t) ==
    job[t].pc = "sleeping" =>
        job[t].nap < TimeLeft(t) /\ SafetyMargin + Cutoff < TimeLeft(t) - job[t].nap

LEMMA SleepFitsKept ==
    ASSUME WaitSlack > SafetyMargin + Cutoff, NoteInv, \A t \in Tasks : SleepFits(t),
           [NoteNext]_interpreterVars
    PROVE  \A t \in Tasks : SleepFits(t)'
<1>1. /\ job \in [Tasks -> Jobs] /\ remaining \in [Requests -> Nat]
      /\ \A t \in Tasks : job[t] \in Jobs /\ RequestOf[t] \in Requests /\ TimeLeft(t) \in Nat
  BY InterpreterAssumption DEF NoteInv, NoteTypes, TimeLeft
<1>2. ASSUME NEW t \in Tasks, job'[t] = job[t], remaining'[RequestOf[t]] = remaining[RequestOf[t]]
      PROVE  SleepFits(t)'
  BY <1>2 DEF SleepFits, TimeLeft
<1>3. ASSUME NEW t \in Tasks, NoteStep(t)
      PROVE  \A u \in Tasks : SleepFits(u)'
  <2>1. /\ \A u \in Tasks \ {t} : job'[u] = job[u]
        /\ remaining' = remaining
        /\ job'[t].pc = "sleeping" => Sleep(t)
    BY <1>3, NoteStepFrames
  <2>2. SleepFits(t)'
    <3>1. SUFFICES ASSUME Sleep(t) PROVE SleepFits(t)'
      BY <2>1 DEF SleepFits
    <3>2. job'[t].nap = job[t].wait + 1 /\ job[t].wait + WaitSlack < TimeLeft(t)
      BY <1>1, <3>1 DEF Sleep, WorthWaiting, Jobs
    <3>3. job[t].wait \in Int
      BY <1>1 DEF Jobs
    <3> QED BY <1>1, <2>1, <3>2, <3>3, InterpreterAssumption, ChainAssumption
            DEF SleepFits, TimeLeft
  <2> QED BY <1>2, <2>1, <2>2
<1>4. ASSUME NEW t \in Tasks, Correct(t)
      PROVE  \A u \in Tasks : SleepFits(u)'
  <2>1. remaining' = remaining /\ \A u \in Tasks \ {t} : job'[u] = job[u]
    BY <1>1, <1>4 DEF Correct
  <2>2. job'[t].pc = "ready"
    BY <1>1, <1>4 DEF Correct, NewJob
  <2> QED BY <1>2, <2>1, <2>2 DEF SleepFits
<1>5. ASSUME NEW r \in Requests, Arrive(r) \/ Gather(r) \/ Complete(r), NEW t \in Tasks
      PROVE  SleepFits(t)'
  <2>1. CASE RequestOf[t] # r
    <3>1. job'[t] = job[t] /\ remaining'[RequestOf[t]] = remaining[RequestOf[t]]
      BY <1>1, <1>5, <2>1 DEF Arrive, Gather, Complete, TasksOf
    <3> QED BY <1>2, <3>1
  <2>2. CASE RequestOf[t] = r
    <3>1. CASE Arrive(r)
      <4>1. job'[t] = NewJob("interpret", NoAssembly)
        BY <2>2, <3>1 DEF Arrive, TasksOf
      <4> QED BY <4>1, NewJobFrame DEF SleepFits
    <3>2. CASE Gather(r)
      BY <1>2, <3>2 DEF Gather
    <3>3. CASE Complete(r)
      <4>1. job'[t] = NoJob
        BY <2>2, <3>3 DEF Complete, TasksOf
      <4> QED BY <4>1, NoJobFrame DEF SleepFits
    <3> QED BY <1>5, <3>1, <3>2, <3>3
  <2> QED BY <2>1, <2>2
<1>6. ASSUME Tick, NEW t \in Tasks
      PROVE  SleepFits(t)'
  <2>1. /\ job'[t] = [job[t] EXCEPT !.nap = Minus1(@)]
        /\ remaining'[RequestOf[t]] = Minus1(remaining[RequestOf[t]])
        /\ job[t].pc = "sleeping" => job[t].nap # 0
    BY <1>1, <1>6 DEF Tick
  <2>2. job'[t].pc = job[t].pc /\ job'[t].nap = Minus1(job[t].nap) /\ job[t].nap \in Nat
    BY <1>1, <2>1 DEF Jobs
  <2>3. TimeLeft(t)' = Minus1(TimeLeft(t))
    BY <2>1 DEF TimeLeft
  <2> QED BY <1>1, <2>1, <2>2, <2>3 DEF SleepFits, Minus1
<1>7. CASE UNCHANGED interpreterVars
  BY <1>2, <1>7 DEF interpreterVars
<1> QED BY <1>3, <1>4, <1>5, <1>6, <1>7 DEF NoteNext

(* The six seconds of interpreter.py:276 are enough: as long as they exceed *)
(* the safety margin of the deadline and the cutoff of an attempt, a note   *)
(* that sleeps on a rate limit wakes up in time for an attempt, whatever    *)
(* time the others take.                                                    *)
THEOREM SleepsInTime ==
    ASSUME WaitSlack > SafetyMargin + Cutoff, PrimaryTimeout > Cutoff
    PROVE  NoteSpec => []SleepLeavesTime
<1> DEFINE Inv == \A t \in Tasks : SleepFits(t)
<1>1. NoteInit => Inv
  BY NoJobFrame DEF NoteInit, SleepFits
<1>2. NoteInv /\ Inv /\ [NoteNext]_interpreterVars => Inv'
  BY SleepFitsKept
<1>3. NoteInv /\ Inv => SleepLeavesTime
  <2>1. SUFFICES ASSUME NoteInv, NEW t \in Tasks, SleepFits(t), job[t].pc = "sleeping"
                 PROVE  job[t].nap < TimeLeft(t) /\ ~OutOfTime(1, TimeLeft(t) - job[t].nap)
    BY DEF SleepLeavesTime
  <2>2. TimeLeft(t) \in Nat /\ job[t].nap \in Nat
    <3>1. job[t] \in Jobs /\ RequestOf[t] \in Requests /\ remaining \in [Requests -> Nat]
      BY <2>1, InterpreterAssumption DEF NoteInv, NoteTypes
    <3> QED BY <3>1 DEF TimeLeft, Jobs
  <2> QED BY <2>1, <2>2, ChainAssumption DEF SleepFits, OutOfTime, TimeoutFor, BudgetFor
<1> HIDE DEF Inv
<1> QED BY <1>1, <1>2, <1>3, NoteInvariant, PTL DEF NoteSpec

-----------------------------------------------------------------------------
(* How long a call may take, and its deadline. *)

LEMMA SumTimes ==
    ASSUME NEW a \in Int, NEW d \in Int, NEW w \in Int
    PROVE  (a + d) * w = a * w + d * w
OBVIOUS

LEMMA TimesIsNat == ASSUME NEW a \in Nat, NEW w \in Nat PROVE a * w \in Nat
OBVIOUS

LEMMA TimesIsOrdered ==
    ASSUME NEW a \in Nat, NEW b \in Nat, NEW w \in Nat, a <= b
    PROVE  a * w <= b * w
OBVIOUS

LEMMA KeysAreFinite ==
    ASSUME NEW S \in SUBSET Keys
    PROVE  IsFiniteSet(S) /\ Cardinality(S) \in Nat /\ Cardinality(S) <= NKeys
<1>1. NKeys \in Nat /\ NKeys - 1 \in Int /\ 0 \in Int
  BY ClientAssumption
<1>2. IsFiniteSet(Keys) /\ Cardinality(Keys) = IF 0 > NKeys - 1 THEN 0 ELSE NKeys - 1 - 0 + 1
  BY <1>1, FS_Interval DEF Keys
<1>3. Cardinality(Keys) = NKeys
  BY <1>1, <1>2
<1> QED BY <1>2, <1>3, FS_Subset, FS_CardinalityType

LEMMA RequestsAreNumbers ==
    ASSUME NEW f \in Frames
    PROVE  /\ Cardinality(f.untried) \in Nat /\ WaitFor(f.timeout) \in Nat
           /\ RequestsPerKey(f.think) \in {1, 2}
           /\ RequestsToCome(f) \in Nat
           /\ RequestsToCome(f) * WaitFor(f.timeout) \in Nat
           /\ TimeToGo(f) \in Nat /\ f.left <= TimeToGo(f)
<1>1. f.untried \in SUBSET Keys /\ f.timeout \in Nat /\ f.left \in Nat
  BY DEF Frames
<1>2. Cardinality(f.untried) \in Nat /\ WaitFor(f.timeout) \in Nat
  BY <1>1, KeysAreFinite, ClientAssumption DEF WaitFor
<1>3. RequestsPerKey(f.think) \in {1, 2}
  BY DEF RequestsPerKey
<1>4. Cardinality(f.untried) * RequestsPerKey(f.think) \in Nat
  BY <1>2, <1>3
<1>5. RequestsToCome(f) \in Nat
  BY <1>3, <1>4 DEF RequestsToCome
<1>6. RequestsToCome(f) * WaitFor(f.timeout) \in Nat
  BY <1>2, <1>5, TimesIsNat
<1> QED BY <1>1, <1>2, <1>3, <1>5, <1>6 DEF TimeToGo

(* A call that turns to the keys of S may still send the requests of S. *)
LEMMA AskingTime ==
    ASSUME NEW f \in Frames, f.first <= NKeys, NEW S \in SUBSET Keys, S # {}
    PROVE  /\ Asking(f, S).think = f.think
           /\ TimeToGo(Asking(f, S)) =
                 (Cardinality(S) * RequestsPerKey(f.think)) * WaitFor(f.timeout)
<1> DEFINE g == Asking(f, S)
           c == Cardinality(S)
           q == RequestsPerKey(f.think)
           w == WaitFor(f.timeout)
<1>1. /\ g \in Frames /\ g.pc = "sent" /\ g.key \in S /\ g.untried = S \ {g.key}
  BY AskingIsFrame
<1>2. g.think = f.think /\ g.timeout = f.timeout /\ g.left = w
  BY DEF Asking, Frames
<1>3. c \in Nat /\ q \in {1, 2} /\ w \in Nat
  <2>1. f.timeout \in Nat
    BY DEF Frames
  <2> QED BY <2>1, KeysAreFinite, ClientAssumption DEF RequestsPerKey, WaitFor
<1>4. Cardinality(g.untried) = c - 1
  BY <1>1, KeysAreFinite, FS_RemoveElement
<1> HIDE DEF g, c, q, w
<1>5. RequestsToCome(g) = (c - 1) * q + (q - 1)
  BY <1>1, <1>2, <1>4 DEF RequestsToCome, q
<1>6. RequestsToCome(g) = c * q - 1
  BY <1>3, <1>5
<1>7. c * q \in Int /\ (c * q + (-1)) * w = c * q * w + (-1) * w
  <2>1. c * q \in Int
    BY <1>3
  <2> QED BY <1>3, <2>1, SumTimes
<1>8. TimeToGo(g) = w + (c * q + (-1)) * w
  BY <1>2, <1>6, <1>7 DEF TimeToGo, w
<1>9. c * q * w \in Int
  BY <1>3, <1>7
<1>10. TimeToGo(g) = c * q * w
  BY <1>3, <1>7, <1>8, <1>9
<1> QED BY <1>2, <1>10 DEF g, c, q, w

(* An answer to a request leaves the call no more time than it had. *)
LEMMA ResumeTime ==
    ASSUME ClientInv, NEW t \in Tasks, Resume(t), call'[t].pc # "idle"
    PROVE  call'[t].think = call[t].think /\ TimeToGo(call'[t]) <= TimeToGo(call[t])
<1> DEFINE c == Cardinality(call[t].untried)
           q == RequestsPerKey(call[t].think)
           w == WaitFor(call[t].timeout)
<1>1. call \in [Tasks -> Frames] /\ call[t] \in Frames /\ FrameOK(call[t])
  BY DEF ClientInv, TypeOK
<1>2. /\ c \in Nat /\ q \in {1, 2} /\ w \in Nat /\ call[t].left \in Nat
      /\ RequestsToCome(call[t]) \in Nat /\ c * q \in Nat
  <2>1. c \in Nat /\ q \in {1, 2}
    BY <1>1, RequestsAreNumbers
  <2> QED BY <1>1, <2>1, RequestsAreNumbers DEF Frames
<1>3. ASSUME NEW out, Return(t, out) PROVE FALSE
  <2>1. call'[t] = Ended(call[t], out, NoDelay)
    BY <1>1, <1>3 DEF Return
  <2> QED BY <2>1, EndedWait
<1>4. ASSUME NEW d \in RetryDelays, Receive429(t, d)
      PROVE  call'[t].think = call[t].think /\ TimeToGo(call'[t]) <= TimeToGo(call[t])
  <2> DEFINE f == [call[t] EXCEPT !.refused = @ \cup {call[t].key}]
  <2>1. InFlight(t) /\ Accounted(call[t])
    BY <1>1, <1>4 DEF Receive429, InFlight, FrameOK
  <2>2. /\ f \in Frames /\ f.untried = call[t].untried /\ f.first <= NKeys
        /\ f.think = call[t].think /\ f.timeout = call[t].timeout /\ f.untried \in SUBSET Keys
    BY <1>1, <2>1 DEF Frames, FrameOK, Accounted
  <2>3. \/ call' = [call EXCEPT ![t] = Ended(f, "rateLimited", d)]
        \/ f.untried # {} /\ call' = [call EXCEPT ![t] = Asking(f, f.untried)]
    BY <1>4 DEF Receive429
  <2> HIDE DEF f
  <2>4. call'[t] = Asking(f, f.untried) /\ f.untried # {}
    BY <1>1, <2>3, EndedWait
  <2>5. call'[t].think = call[t].think /\ TimeToGo(call'[t]) = (c * q) * w
    BY <2>2, <2>4, AskingTime
  <2>6. c * q <= RequestsToCome(call[t])
    BY <1>2 DEF RequestsToCome
  <2> HIDE DEF c, q, w
  <2>7. (c * q) * w <= RequestsToCome(call[t]) * w
    BY <1>2, <2>6, TimesIsOrdered
  <2>8. (c * q) * w \in Nat /\ RequestsToCome(call[t]) * w \in Nat
    BY <1>2, TimesIsNat
  <2>9. TimeToGo(call[t]) = call[t].left + RequestsToCome(call[t]) * w
    BY DEF TimeToGo, w
  <2> QED BY <1>2, <2>5, <2>7, <2>8, <2>9
<1>5. ASSUME Receive400(t)
      PROVE  call'[t].think = call[t].think /\ TimeToGo(call'[t]) <= TimeToGo(call[t])
  <2>1. Thinks(t)
    BY <1>3, <1>5 DEF Receive400
  <2>2. call[t].pc = "sent" /\ call[t].think = TRUE
    BY <2>1 DEF Thinks
  <2> DEFINE g == [call[t] EXCEPT !.pc = "plain", !.left = w]
  <2>3. call'[t] = g
    BY <1>1, <1>5, <2>1 DEF Receive400
  <2>4. /\ g.pc = "plain" /\ g.think = TRUE /\ g.timeout = call[t].timeout
        /\ g.untried = call[t].untried /\ g.left = w
    BY <1>1, <2>2 DEF Frames
  <2>5. RequestsToCome(call[t]) = c * q + 1
    BY <2>2 DEF RequestsToCome, RequestsPerKey
  <2>6. RequestsToCome(g) = c * q
    <3>1. c * q + 0 = c * q
      BY <1>2
    <3> QED BY <2>2, <2>4, <3>1 DEF RequestsToCome
  <2> HIDE DEF g
  <2>7. TimeToGo(g) = w + (c * q) * w
    BY <2>4, <2>6 DEF TimeToGo
  <2>8. TimeToGo(call[t]) = call[t].left + (c * q + 1) * w
    BY <2>5 DEF TimeToGo
  <2> HIDE DEF c, q, w
  <2>9. (c * q + 1) * w = (c * q) * w + w /\ (c * q) * w \in Nat
    <3>1. (c * q + 1) * w = (c * q) * w + 1 * w
      BY <1>2, SumTimes
    <3>2. (c * q) * w \in Nat
      BY <1>2, TimesIsNat
    <3> QED BY <1>2, <3>1, <3>2
  <2> DEFINE rest == (c * q) * w
  <2>10. /\ rest \in Nat /\ TimeToGo(g) = w + rest
         /\ TimeToGo(call[t]) = call[t].left + (rest + w)
    BY <2>7, <2>8, <2>9
  <2> HIDE DEF rest
  <2>11. TimeToGo(g) <= TimeToGo(call[t])
    BY <1>2, <2>10
  <2> QED BY <2>2, <2>3, <2>4, <2>11
<1> QED BY <1>3, <1>4, <1>5
        DEF Resume, ReceiveBody, ReceiveAuthError, ReceiveServerError, TimeOut

(* A unit of time is one less for every open call. *)
LEMMA TickTime ==
    ASSUME ClientInv, ClientTick, NEW t \in Tasks, InFlight(t)
    PROVE  call'[t].think = call[t].think /\ TimeToGo(call'[t]) = TimeToGo(call[t]) - 1
<1>1. call[t] \in Frames
  BY DEF ClientInv, TypeOK
<1>2. call[t].left > 0 /\ call'[t] = [call[t] EXCEPT !.left = Minus1(@)]
  BY DEF ClientTick
<1>3. /\ call'[t].left = call[t].left - 1 /\ call'[t].think = call[t].think
      /\ call'[t].untried = call[t].untried /\ call'[t].pc = call[t].pc
      /\ call'[t].timeout = call[t].timeout /\ call[t].left \in Nat
  BY <1>1, <1>2 DEF Frames, Minus1
<1>4. RequestsToCome(call'[t]) = RequestsToCome(call[t])
  BY <1>3 DEF RequestsToCome
<1>5. RequestsToCome(call[t]) * WaitFor(call[t].timeout) \in Nat
  BY <1>1, RequestsAreNumbers
<1> QED BY <1>3, <1>4, <1>5 DEF TimeToGo

(* A call that begins with remaining time before the deadline. *)
LEMMA BeginTime ==
    ASSUME ClientInv, NEW t \in Tasks, NEW m \in Models, NEW left \in Nat,
           CallModel(t, m, left, Thinking), call'[t].pc # "idle"
    PROVE  /\ call'[t].think => Thinking
           /\ TimeToGo(call'[t]) <= left + Overrun
           /\ left > 0
<1> DEFINE timeout == TimeoutFor(BudgetFor(m), left)
           f == Opening(m, timeout, Thinking)
           S == Keys \ Parked(m)
           w == WaitFor(timeout)
           p == Cardinality(S) * RequestsPerKey(f.think)
<1>1. TypeOK /\ call \in [Tasks -> Frames]
  BY DEF ClientInv, TypeOK
<1>2. /\ timeout \in Nat /\ timeout > Cutoff /\ timeout <= left - SafetyMargin
      /\ timeout <= LongestTimeout /\ Cutoff \in Nat /\ SafetyMargin \in Nat
      /\ LongestTimeout \in Nat
  BY ChainAssumption DEF CallModel, OutOfTime, TimeoutFor, BudgetFor, LongestTimeout
<1>3. Begin(t, m, timeout, Thinking)
  BY DEF CallModel
<1> HIDE DEF timeout
<1>4. /\ f \in Frames /\ f.first = rr /\ f.timeout = timeout /\ (f.think => Thinking)
  BY <1>1, <1>2, OpeningIsFrame, InterpreterAssumption DEF Opening
<1>5. NKeys > 0 /\ Parked(m) # Keys
  <2>1. \A out, g, v : call' # [call EXCEPT ![t] = Ended(g, out, v)]
    <3>1. SUFFICES ASSUME NEW out, NEW g, NEW v, call' = [call EXCEPT ![t] = Ended(g, out, v)]
                   PROVE  FALSE
      OBVIOUS
    <3>2. call'[t] = Ended(g, out, v)
      BY <1>1, <3>1
    <3> QED BY <3>2, EndedWait
  <2> QED BY <1>3, <2>1 DEF Begin
<1>6. call'[t] = Asking(f, S)
  BY <1>1, <1>3, <1>5 DEF Begin
<1>7. S \in SUBSET Keys /\ S # {}
  BY <1>5 DEF Parked
<1>8. f.first <= NKeys
  BY <1>1, <1>4, <1>5, ClientAssumption DEF TypeOK
<1>9. /\ Cardinality(S) \in Nat /\ Cardinality(S) <= NKeys
      /\ RequestsPerKey(f.think) \in {1, 2} /\ RequestsPerKey(Thinking) \in {1, 2}
      /\ RequestsPerKey(f.think) <= RequestsPerKey(Thinking)
  BY <1>4, <1>7, KeysAreFinite DEF RequestsPerKey
<1> HIDE DEF f, S
<1>10. call'[t].think = f.think /\ TimeToGo(call'[t]) = p * w
  BY <1>4, <1>6, <1>7, <1>8, AskingTime
<1>11. p \in Nat /\ p <= MostRequests /\ MostRequests \in Nat /\ MostRequests >= 1
  BY <1>5, <1>9, ClientAssumption DEF MostRequests
<1>12. w \in Nat /\ MinWait \in Nat
  BY <1>2, ClientAssumption DEF WaitFor
<1> HIDE DEF p, w
<1>13. p * w <= MostRequests * w /\ p * w \in Nat
  BY <1>11, <1>12, TimesIsOrdered, TimesIsNat
<1>14. /\ MostRequests * MinWait \in Nat /\ (MostRequests - 1) * LongestTimeout \in Nat
       /\ MostRequests - 1 \in Nat
  BY <1>2, <1>11, <1>12, TimesIsNat
<1>15. /\ Overrun >= MostRequests * MinWait - (Cutoff + 1) - SafetyMargin
       /\ Overrun >= (MostRequests - 1) * LongestTimeout - SafetyMargin
       /\ Overrun \in Int
  BY <1>2, <1>14 DEF Overrun
<1>16. MostRequests * w <= left + Overrun
  <2>1. CASE timeout < MinWait
    <3>1. w = MinWait
      BY <2>1 DEF WaitFor, w
    <3> QED BY <1>2, <1>14, <1>15, <3>1
  <2>2. CASE ~(timeout < MinWait)
    <3>1. w = timeout
      BY <2>2 DEF WaitFor, w
    <3>2. MostRequests * timeout = (MostRequests - 1) * timeout + timeout
      <4>1. ((MostRequests - 1) + 1) * timeout = (MostRequests - 1) * timeout + 1 * timeout
        BY <1>2, <1>14, SumTimes
      <4> QED BY <1>2, <1>11, <4>1
    <3>3. (MostRequests - 1) * timeout <= (MostRequests - 1) * LongestTimeout
      <4>1. timeout * (MostRequests - 1) <= LongestTimeout * (MostRequests - 1)
        BY <1>2, <1>14, TimesIsOrdered
      <4> QED BY <1>2, <1>14, <4>1
    <3>4. (MostRequests - 1) * timeout \in Nat
      BY <1>2, <1>14, TimesIsNat
    <3> QED BY <1>2, <1>14, <1>15, <3>1, <3>2, <3>3, <3>4
  <2> QED BY <2>1, <2>2
<1>17. MostRequests * w \in Nat
  BY <1>11, <1>12, TimesIsNat
<1> QED BY <1>2, <1>4, <1>10, <1>13, <1>15, <1>16, <1>17

(* What a step of a note does to its call: nothing, end it, take an answer, *)
(* or open one in an attempt.                                               *)
LEMMA NoteStepCalls ==
    ASSUME NoteInv, NEW t \in Tasks, NoteStep(t)
    PROVE  /\ OthersCalls(t)
           /\ \/ call'[t] = call[t] \/ call'[t].pc = "idle"
              \/ InFlight(t) /\ Resume(t)
              \/ /\ job[t].pc = "attempt" /\ running = t /\ ~InFlight(t) /\ job[t].at \in Models
                 /\ CallModel(t, job[t].at, TimeLeft(t), Thinking)
<1>1. ClientInv /\ TaskOK(t) /\ call[t].wait >= NoDelay
  BY DEF NoteInv, SharedOK, TaskOK
<1>2. ASSUME UNCHANGED chainVars PROVE OthersCalls(t) /\ call'[t] = call[t]
  BY <1>2 DEF chainVars, clientVars, OthersCalls
<1>3. ASSUME Forget(t) PROVE OthersCalls(t) /\ call'[t].pc = "idle"
  BY <1>1, <1>3, ForgetEffects
<1>4. CASE Attempt(t)
  <2>1. running = t /\ job[t].pc = "attempt" /\ ~InFlight(t) /\ job[t].at \in Models
    BY <1>1, <1>4 DEF Attempt, TaskOK
  <2>2. CASE UNCHANGED chainVars
    BY <1>2, <2>2
  <2>3. CASE CallModel(t, job[t].at, TimeLeft(t), Thinking)
    <3>1. OthersCalls(t)
      BY <1>1, <2>3 DEF CallModel, Begin, OthersCalls, ClientInv, TypeOK
    <3> QED BY <2>1, <2>3, <3>1
  <2> QED BY <1>4, <2>2, <2>3 DEF Attempt
<1>5. CASE Wake(t)
  BY <1>1, <1>5, ResumeEffects DEF Wake, ChainResume
<1>6. CASE HandleError(t) \/ \E verdict \in Verdicts : HandleReading(t, verdict)
  BY <1>3, <1>6 DEF HandleError, HandleReading
<1>7. CASE StartNote(t) \/ PickModel(t) \/ Sleep(t) \/ WakeUp(t) \/ GiveUp(t)
  BY <1>2, <1>7 DEF StartNote, PickModel, Sleep, WakeUp, GiveUp
<1> QED BY <1>4, <1>5, <1>6, <1>7 DEF NoteStep

(* An open call thinks only if thinking is configured, and what it may      *)
(* still take is bounded: it ends no later than over after the deadline.    *)
CallFitsWith(t, over) ==
    InFlight(t) => /\ call[t].think => Thinking
                   /\ TimeToGo(call[t]) <= TimeLeft(t) + over

CallFits(t) == CallFitsWith(t, Overrun)

LEMMA OverrunIsNumber == Overrun \in Int
<1>1. /\ MostRequests \in Int /\ LongestTimeout \in Int /\ MinWait \in Int
      /\ Cutoff \in Int /\ SafetyMargin \in Int
  BY ClientAssumption, ChainAssumption DEF MostRequests, RequestsPerKey, LongestTimeout
<1>2. MostRequests * MinWait \in Int /\ (MostRequests - 1) * LongestTimeout \in Int
  BY <1>1
<1> QED BY <1>1, <1>2 DEF Overrun

(* A step of a note begins no call after the deadline, and before it only   *)
(* calls that end in time.                                                  *)
LEMMA NoteStepFits ==
    ASSUME NoteInv, NEW t \in Tasks, NoteStep(t),
           NEW over \in Int, over = Overrun \/ TimeLeft(t) = 0, CallFitsWith(t, over)
    PROVE  CallFitsWith(t, over)'
<1>1. /\ ClientInv /\ call \in [Tasks -> Frames] /\ TimeLeft(t) \in Nat
      /\ call[t] \in Frames /\ TimeToGo(call[t]) \in Nat
  BY InterpreterAssumption, RequestsAreNumbers
     DEF NoteInv, SharedOK, NoteTypes, TimeLeft, ClientInv, TypeOK
<1>2. remaining' = remaining /\ OthersCalls(t)
  BY NoteStepFrames, NoteStepCalls
<1>3. SUFFICES ASSUME call'[t].pc # "idle", call'[t] # call[t]
               PROVE  /\ call'[t].think => Thinking
                      /\ TimeToGo(call'[t]) <= TimeLeft(t) + over
  BY <1>2 DEF CallFitsWith, InFlight, TimeLeft
<1>4. CASE InFlight(t) /\ Resume(t)
  <2>1. call'[t].think = call[t].think /\ TimeToGo(call'[t]) <= TimeToGo(call[t])
    BY <1>1, <1>3, <1>4, ResumeTime
  <2>2. TimeToGo(call'[t]) \in Nat
    <3>1. ClientInv'
      BY <1>1, <1>4, NextKeepsInv DEF Next
    <3> QED BY <3>1, RequestsAreNumbers DEF ClientInv, TypeOK
  <2> QED BY <1>1, <1>4, <2>1, <2>2 DEF CallFitsWith
<1>5. CASE job[t].at \in Models /\ CallModel(t, job[t].at, TimeLeft(t), Thinking)
  <2>1. /\ call'[t].think => Thinking
        /\ TimeToGo(call'[t]) <= TimeLeft(t) + Overrun
        /\ TimeLeft(t) > 0
    BY <1>1, <1>3, <1>5, BeginTime
  <2> QED BY <1>1, <2>1
<1> QED BY <1>3, <1>4, <1>5, NoteStepCalls

LEMMA CallFitsKept ==
    ASSUME NoteInv, \A t \in Tasks : CallFits(t), [NoteNext]_interpreterVars
    PROVE  \A t \in Tasks : CallFits(t)'
<1>1. /\ ClientInv /\ call \in [Tasks -> Frames]
      /\ remaining \in [Requests -> Nat] /\ Overrun \in Int
      /\ \A t \in Tasks : /\ call[t] \in Frames /\ RequestOf[t] \in Requests
                           /\ TimeLeft(t) \in Nat /\ TimeToGo(call[t]) \in Nat
  BY InterpreterAssumption, OverrunIsNumber, RequestsAreNumbers
     DEF NoteInv, SharedOK, NoteTypes, TimeLeft, ClientInv, TypeOK
<1>2. ASSUME NEW t \in Tasks, call'[t] = call[t],
             remaining'[RequestOf[t]] = remaining[RequestOf[t]]
      PROVE  CallFits(t)'
  BY <1>2 DEF CallFits, CallFitsWith, TimeLeft, InFlight
<1>3. ASSUME NEW t \in Tasks, NoteStep(t)
      PROVE  \A u \in Tasks : CallFits(u)'
  <2>1. remaining' = remaining /\ OthersCalls(t)
    BY <1>3, NoteStepFrames, NoteStepCalls
  <2>2. CallFits(t)'
    <3>1. CallFitsWith(t, Overrun)'
      BY <1>1, <1>3, NoteStepFits DEF CallFits
    <3> QED BY <3>1 DEF CallFits
  <2> QED BY <1>2, <2>1, <2>2 DEF OthersCalls
<1>4. ASSUME NEW t \in Tasks, Correct(t), NEW u \in Tasks
      PROVE  CallFits(u)'
  BY <1>2, <1>4 DEF Correct, chainVars, clientVars
<1>5. ASSUME NEW r \in Requests, Arrive(r) \/ Gather(r) \/ Complete(r), NEW t \in Tasks
      PROVE  CallFits(t)'
  <2>1. call' = call
    BY <1>5 DEF Arrive, Gather, Complete, chainVars, clientVars
  <2>2. CASE RequestOf[t] # r \/ Gather(r)
    <3>1. remaining'[RequestOf[t]] = remaining[RequestOf[t]]
      BY <1>1, <1>5, <2>2 DEF Arrive, Gather, Complete
    <3> QED BY <1>2, <2>1, <3>1
  <2>3. CASE RequestOf[t] = r /\ (Arrive(r) \/ Complete(r))
    <3>1. phase[RequestOf[t]] \notin {"interpreting", "correcting"}
      BY <2>3 DEF Arrive, Complete
    <3>2. ~InFlight(t)
      BY <3>1, NotesAtRest
    <3> QED BY <2>1, <3>2 DEF CallFits, CallFitsWith, InFlight
  <2> QED BY <1>5, <2>2, <2>3
<1>6. ASSUME Tick, NEW t \in Tasks
      PROVE  CallFits(t)'
  <2>1. /\ ClientTick /\ remaining'[RequestOf[t]] = Minus1(remaining[RequestOf[t]])
    BY <1>1, <1>6 DEF Tick, ChainTick
  <2>2. TimeLeft(t)' = Minus1(TimeLeft(t))
    BY <2>1 DEF TimeLeft
  <2>3. call'[t].pc = call[t].pc
    BY <1>1, <2>1, TickEffects
  <2>4. InFlight(t) => /\ call'[t].think = call[t].think
                       /\ TimeToGo(call'[t]) = TimeToGo(call[t]) - 1
    BY <1>1, <2>1, TickTime
  <2> QED BY <1>1, <2>2, <2>3, <2>4 DEF CallFits, CallFitsWith, InFlight, Minus1
<1>7. CASE UNCHANGED interpreterVars
  BY <1>2, <1>7 DEF interpreterVars, chainVars, clientVars
<1> QED BY <1>3, <1>4, <1>5, <1>6, <1>7 DEF NoteNext

(* "Every LLM attempt gets timeout = min(stage_timeout, remaining -         *)
(* safety_margin)" (planning.md 3.2) bounds a call only so far: with any    *)
(* number of keys, models, notes and requests, an open call ends no later   *)
(* than Overrun after the deadline.  Overrun counts what the code adds to   *)
(* the timeout of an attempt: the half second wait_for grants at least      *)
(* (gemini_client.py:90), once for every key and once more for a thinking   *)
(* config that is refused (gemini_client.py:121-134).                       *)
THEOREM CallsEndSoonAfterDeadline == NoteSpec => []OverrunBounded
<1> DEFINE Inv == \A t \in Tasks : CallFits(t)
<1>1. NoteInit => Inv
  BY DEF NoteInit, ChainInit, Init, NoFrame, NewFrame, CallFits, CallFitsWith, InFlight
<1>2. NoteInv /\ Inv /\ [NoteNext]_interpreterVars => Inv'
  BY CallFitsKept
<1>3. Inv => OverrunBounded
  BY DEF CallFits, CallFitsWith, OverrunBounded
<1> HIDE DEF Inv
<1> QED BY <1>1, <1>2, <1>3, NoteInvariant, PTL DEF NoteSpec
-----------------------------------------------------------------------------
(* Breakers. *)

(* Which step opens a call, and to which model. *)
LEMMA CallsOpen ==
    ASSUME NoteInv, NEW t \in Tasks, [NoteNext]_interpreterVars, ~InFlight(t), call'[t].pc # "idle"
    PROVE  job[t].pc = "attempt" /\ call'[t].model = job[t].at
<1>1. ClientInv /\ call[t].pc = "idle" /\ call \in [Tasks -> Frames]
  BY DEF NoteInv, SharedOK, InFlight, ClientInv, TypeOK
<1>2. ASSUME UNCHANGED chainVars PROVE FALSE
  BY <1>1, <1>2 DEF chainVars, clientVars
<1>3. ASSUME NEW u \in Tasks, NoteStep(u)
      PROVE  job[t].pc = "attempt" /\ call'[t].model = job[t].at
  <2>1. u = t
    BY <1>1, <1>3, NoteStepCalls DEF OthersCalls
  <2>2. /\ job[t].pc = "attempt" /\ job[t].at \in Models
        /\ CallModel(t, job[t].at, TimeLeft(t), Thinking)
    BY <1>1, <1>3, <2>1, NoteStepCalls
  <2> DEFINE timeout == TimeoutFor(BudgetFor(job[t].at), TimeLeft(t))
  <2>3. timeout \in Nat
    <3>1. TimeLeft(t) \in Nat
      BY InterpreterAssumption DEF NoteInv, NoteTypes, TimeLeft
    <3> QED BY <3>1, ChainAssumption DEF TimeoutFor, BudgetFor
  <2>4. Begin(t, job[t].at, timeout, Thinking)
    BY <2>2 DEF CallModel
  <2> HIDE DEF timeout
  <2> QED BY <1>1, <2>2, <2>3, <2>4, BeginAsks, InterpreterAssumption
<1>4. CASE Tick
  BY <1>1, <1>4, TickEffects DEF Tick, ChainTick
<1>5. ASSUME NEW r \in Requests, Arrive(r) \/ Gather(r) \/ Complete(r) PROVE FALSE
  BY <1>2, <1>5 DEF Arrive, Gather, Complete
<1>6. ASSUME NEW u \in Tasks, Correct(u) PROVE FALSE
  BY <1>2, <1>6 DEF Correct
<1>7. CASE UNCHANGED interpreterVars
  BY <1>2, <1>7 DEF interpreterVars
<1> QED BY <1>3, <1>4, <1>5, <1>6, <1>7 DEF NoteNext

(* Between the look at the breaker and the first request nobody else runs.  *)
FirstAttempt(t) ==
    /\ job[t].repairs <= MaxRepairs
    /\ job[t].pc = "attempt" /\ job[t].repairs = MaxRepairs => openFor[job[t].at] = 0

LEMMA OwnFirstAttempt ==
    ASSUME NoteInv, NEW t \in Tasks, FirstAttempt(t), NoteStep(t)
    PROVE  FirstAttempt(t)'
<1>1. /\ job \in [Tasks -> Jobs] /\ job[t] \in Jobs /\ openFor \in [Models -> Nat]
      /\ job[t].repairs \in Nat /\ job[t].repairs <= MaxRepairs /\ MaxRepairs \in Nat
  BY InterpreterAssumption DEF NoteInv, NoteTypes, SharedOK, FirstAttempt, Jobs
<1>2. ASSUME job'[t].pc # "attempt", job'[t].repairs \in {0, job[t].repairs}
      PROVE  FirstAttempt(t)'
  BY <1>1, <1>2 DEF FirstAttempt
<1>3. NextModel(job[t]).pc = "models" /\ NextModel(job[t]).repairs = 0 /\ NextModel(job[t]) \in Jobs
  BY <1>1, NextModelFrame DEF NextModel, Jobs
<1>4. CASE StartNote(t)
  BY <1>1, <1>2, <1>4 DEF StartNote, Jobs
<1>5. CASE PickModel(t)
  <2>1. job[t].at \in Models /\ openFor' = openFor
    BY <1>1, <1>5, ChainAssumption DEF PickModel, NoteInv, TaskOK, Jobs, chainVars
  <2>2. CASE IsDisabled(job[t].at) /\ job' = [job EXCEPT ![t].at = @ + 1]
    BY <1>1, <1>2, <1>5, <2>2 DEF PickModel, Jobs
  <2>3. CASE /\ ~IsDisabled(job[t].at)
             /\ job' = [job EXCEPT ![t].pc = "attempt", ![t].repairs = MaxRepairs]
    <3>1. job'[t].at = job[t].at /\ job'[t].repairs = MaxRepairs
      BY <1>1, <2>3 DEF Jobs
    <3>2. openFor[job[t].at] = 0
      BY <1>1, <2>1, <2>3 DEF IsDisabled
    <3> QED BY <1>1, <2>1, <3>1, <3>2 DEF FirstAttempt
  <2> QED BY <1>5, <2>2, <2>3 DEF PickModel
<1>6. CASE Attempt(t)
  <2>1. CASE job' = [job EXCEPT ![t] = NextModel(@)]
    BY <1>1, <1>2, <1>3, <2>1
  <2>2. CASE job' = [job EXCEPT ![t].pc = "calling"]
    BY <1>1, <1>2, <2>2 DEF Jobs
  <2> QED BY <1>6, <2>1, <2>2 DEF Attempt
<1>7. CASE Wake(t)
  BY <1>2, <1>7 DEF Wake
<1>8. CASE HandleError(t)
  BY <1>1, <1>2, <1>3, <1>8 DEF HandleError, Jobs
<1>9. ASSUME NEW verdict \in Verdicts, HandleReading(t, verdict)
      PROVE  FirstAttempt(t)'
  <2>1. CASE /\ job[t].repairs > 0
             /\ job' = [job EXCEPT ![t].pc = "attempt", ![t].repairs = @ - 1]
    <3>1. job'[t].repairs = job[t].repairs - 1
      BY <1>1, <2>1 DEF Jobs
    <3> QED BY <1>1, <2>1, <3>1 DEF FirstAttempt
  <2>2. CASE job' = [job EXCEPT ![t] = NextModel(@)]
    BY <1>1, <1>2, <1>3, <2>2
  <2>3. ASSUME NEW a, Finish(t, a) PROVE FirstAttempt(t)'
    BY <1>1, <1>2, <2>3 DEF Finish, Jobs
  <2> QED BY <1>9, <2>1, <2>2, <2>3 DEF HandleReading
<1>10. CASE Sleep(t)
  BY <1>1, <1>2, <1>10 DEF Sleep, Jobs
<1>11. CASE WakeUp(t)
  BY <1>1, <1>2, <1>11 DEF WakeUp, Jobs
<1>12. CASE GiveUp(t)
  BY <1>1, <1>2, <1>12 DEF GiveUp, Finish, Jobs
<1> QED BY <1>4, <1>5, <1>6, <1>7, <1>8, <1>9, <1>10, <1>11, <1>12 DEF NoteStep

LEMMA FirstAttemptKept ==
    ASSUME NoteInv, NEW t \in Tasks, FirstAttempt(t), [NoteNext]_interpreterVars
    PROVE  FirstAttempt(t)'
<1>1. /\ job \in [Tasks -> Jobs] /\ job[t] \in Jobs /\ job[t].repairs \in Nat /\ MaxRepairs \in Nat
      /\ job[t].pc = "attempt" => running = t
  BY InterpreterAssumption DEF NoteInv, NoteTypes, TaskOK, Jobs
<1>2. ASSUME running \in Tasks \cup {NoTask}, running # t,
             job'[t].pc = job[t].pc, job'[t].repairs = job[t].repairs
      PROVE  FirstAttempt(t)'
  BY <1>1, <1>2 DEF FirstAttempt
<1>3. ASSUME NEW u \in Tasks, u # t, NoteStep(u)
      PROVE  FirstAttempt(t)'
  <2>1. running \in {NoTask, u}
    BY <1>3 DEF NoteStep, StartNote, PickModel, Attempt, Wake, HandleError, HandleReading,
                Answered, Sleep, Exhausted, WakeUp, GiveUp
  <2>2. running # t /\ job'[t] = job[t]
    BY <1>3, <2>1, NoteStepFrames, InterpreterAssumption
  <2> QED BY <1>2, <1>3, <2>1, <2>2
<1>4. ASSUME NEW u \in Tasks, Correct(u)
      PROVE  FirstAttempt(t)'
  <2>1. job'[t].repairs \in {0, job[t].repairs} /\ (job'[t].pc = "ready" \/ job'[t] = job[t])
    BY <1>1, <1>4 DEF Correct, NewJob
  <2>2. running # t
    BY <1>4, InterpreterAssumption DEF Correct
  <2> QED BY <1>1, <2>1, <2>2 DEF FirstAttempt
<1>5. ASSUME NEW r \in Requests, Arrive(r) \/ Gather(r) \/ Complete(r)
      PROVE  FirstAttempt(t)'
  <2>1. job'[t] \in {job[t], NewJob("interpret", NoAssembly), NoJob}
    BY <1>1, <1>5 DEF Arrive, Gather, Complete
  <2>2. /\ NewJob("interpret", NoAssembly).pc = "ready" /\ NoJob.pc = "idle"
        /\ NewJob("interpret", NoAssembly).repairs = 0 /\ NoJob.repairs = 0
    BY NewJobFrame, NoJobFrame DEF NoJob, NewJob
  <2>3. running # t
    BY <1>5, InterpreterAssumption DEF Arrive, Gather, Complete
  <2> QED BY <1>1, <2>1, <2>2, <2>3 DEF FirstAttempt
<1>6. CASE Tick
  <2>1. running # t /\ job'[t] = [job[t] EXCEPT !.nap = Minus1(@)]
    BY <1>6, InterpreterAssumption DEF Tick
  <2>2. job'[t].pc = job[t].pc /\ job'[t].repairs = job[t].repairs
    BY <1>1, <2>1 DEF Jobs
  <2> QED BY <1>1, <2>1, <2>2 DEF FirstAttempt
<1>7. CASE UNCHANGED interpreterVars
  BY <1>7 DEF interpreterVars, chainVars, FirstAttempt
<1> QED BY <1>3, <1>4, <1>5, <1>6, <1>7, OwnFirstAttempt DEF NoteNext

(* "so a broken model/key combination isn't retried for 5 minutes"          *)
(* (provider_chain.py:3-4) as far as it is kept: with any number of notes   *)
(* that trip breakers in between, the first attempt at a model is made with *)
(* a closed breaker (interpreter.py:298-301), and only the repairs after it *)
(* (the loop of interpreter.py:313) may ask a model whose breaker is open.  *)
THEOREM BreakersYieldOnlyToRepairs == NoteSpec => OnlyRepairsPassBreakers
<1> DEFINE Inv == \A t \in Tasks : FirstAttempt(t)
           Opens == \A t \in Tasks : BeginsCall(t) /\ IsDisabled(call'[t].model)
                                         => job[t].repairs < MaxRepairs
<1>1. NoteInit => Inv
  <2>1. NoJob.pc = "idle" /\ NoJob.repairs = 0
    BY NoJobFrame DEF NoJob, NewJob
  <2> QED BY <2>1, InterpreterAssumption DEF NoteInit, FirstAttempt
<1>2. NoteInv /\ Inv /\ [NoteNext]_interpreterVars => Inv'
  BY FirstAttemptKept
<1>3. NoteInv /\ Inv /\ [NoteNext]_interpreterVars => [Opens]_interpreterVars
  <2>1. SUFFICES ASSUME NoteInv, Inv, [NoteNext]_interpreterVars, NEW t \in Tasks,
                        BeginsCall(t), IsDisabled(call'[t].model)
                 PROVE  job[t].repairs < MaxRepairs
    OBVIOUS
  <2>2. job[t].pc = "attempt" /\ call'[t].model = job[t].at
    BY <2>1, CallsOpen DEF BeginsCall
  <2>3. job[t].repairs \in Nat /\ job[t].repairs <= MaxRepairs /\ MaxRepairs \in Nat
    BY <2>1, InterpreterAssumption DEF NoteInv, NoteTypes, FirstAttempt, Jobs
  <2>4. openFor[job[t].at] # 0
    BY <2>1, <2>2 DEF IsDisabled
  <2> QED BY <2>1, <2>2, <2>3, <2>4 DEF FirstAttempt
<1> HIDE DEF Inv
<1> QED BY <1>1, <1>2, <1>3, NoteInvariant, PTL DEF NoteSpec, OnlyRepairsPassBreakers

-----------------------------------------------------------------------------
(* The wait for a rate limit is not in vain for a note that is alone.       *)

(* While a note that is alone attempts a model, its breaker is closed. *)
BreakerShut(t) == job[t].pc \in {"attempt", "calling"} => openFor[job[t].at] = 0

LEMMA BreakerStays ==
    ASSUME \A s, u \in Tasks : s = u, NoteInv, NEW t \in Tasks, BreakerShut(t),
           [NoteNext]_interpreterVars
    PROVE  BreakerShut(t)'
<1>1. /\ job \in [Tasks -> Jobs] /\ job[t] \in Jobs /\ openFor \in [Models -> Nat]
      /\ job[t].pc \in {"attempt", "calling"} => job[t].at \in Models
  BY DEF NoteInv, NoteTypes, SharedOK, TaskOK
<1>2. ASSUME job'[t].pc \notin {"attempt", "calling"}
      PROVE  BreakerShut(t)'
  BY <1>2 DEF BreakerShut
<1>3. ASSUME job'[t].at = job[t].at, openFor' = openFor, job[t].pc \in {"attempt", "calling"}
      PROVE  BreakerShut(t)'
  BY <1>3 DEF BreakerShut
<1>4. NextModel(job[t]) \in Jobs /\ NextModel(job[t]).pc = "models"
  BY <1>1, NextModelFrame
<1>5. ASSUME NoteStep(t)
      PROVE  BreakerShut(t)'
  <2>1. CASE StartNote(t)
    BY <1>1, <1>2, <2>1 DEF StartNote, Jobs
  <2>2. CASE PickModel(t)
    <3>1. CASE IsDisabled(job[t].at) /\ job' = [job EXCEPT ![t].at = @ + 1]
      BY <1>1, <1>2, <2>2, <3>1 DEF PickModel, Jobs
    <3>2. CASE /\ ~IsDisabled(job[t].at)
               /\ job' = [job EXCEPT ![t].pc = "attempt", ![t].repairs = MaxRepairs]
      <4>1. job[t].at \in Models
        BY <1>1, <2>2, ChainAssumption DEF PickModel, NoteInv, TaskOK, Jobs
      <4>2. openFor' = openFor /\ openFor[job[t].at] = 0
        BY <1>1, <2>2, <3>2, <4>1 DEF PickModel, chainVars, IsDisabled
      <4>3. job'[t].at = job[t].at
        BY <1>1, <3>2 DEF Jobs
      <4> QED BY <4>2, <4>3 DEF BreakerShut
    <3> QED BY <2>2, <3>1, <3>2 DEF PickModel
  <2>3. CASE Attempt(t)
    <3>1. CASE job' = [job EXCEPT ![t] = NextModel(@)]
      BY <1>1, <1>2, <1>4, <3>1
    <3>2. CASE CallModel(t, job[t].at, TimeLeft(t), Thinking) /\ job' = [job EXCEPT ![t].pc = "calling"]
      BY <1>1, <1>3, <2>3, <3>2 DEF Attempt, CallModel, Jobs
    <3> QED BY <2>3, <3>1, <3>2 DEF Attempt
  <2>4. CASE Wake(t)
    BY <1>3, <2>4 DEF Wake, ChainResume
  <2>5. CASE HandleError(t)
    BY <1>1, <1>2, <2>5 DEF HandleError, NextModel
  <2>6. ASSUME NEW verdict \in Verdicts, HandleReading(t, verdict)
        PROVE  BreakerShut(t)'
    <3>1. openFor' = openFor /\ job[t].pc = "calling"
      BY <2>6 DEF HandleReading, Answered
    <3>2. CASE job' = [job EXCEPT ![t].pc = "attempt", ![t].repairs = @ - 1]
      BY <1>1, <1>3, <3>1, <3>2 DEF Jobs
    <3>3. CASE job' = [job EXCEPT ![t] = NextModel(@)]
      BY <1>1, <1>2, <1>4, <3>3
    <3>4. ASSUME NEW a, Finish(t, a) PROVE BreakerShut(t)'
      BY <1>1, <1>2, <3>4 DEF Finish, Jobs
    <3> QED BY <2>6, <3>2, <3>3, <3>4 DEF HandleReading
  <2>7. CASE Sleep(t)
    BY <1>1, <1>2, <2>7 DEF Sleep
  <2>8. CASE WakeUp(t)
    BY <1>1, <1>2, <2>8 DEF WakeUp
  <2>9. CASE GiveUp(t)
    BY <1>1, <1>2, <2>9 DEF GiveUp, Finish
  <2> QED BY <1>5, <2>1, <2>2, <2>3, <2>4, <2>5, <2>6, <2>7, <2>8, <2>9 DEF NoteStep
<1>6. CASE Correct(t)
  BY <1>1, <1>2, <1>6 DEF Correct, NewJob
<1>7. ASSUME NEW r \in Requests, Arrive(r) \/ Gather(r) \/ Complete(r)
      PROVE  BreakerShut(t)'
  <2>1. openFor' = openFor
    BY <1>7 DEF Arrive, Gather, Complete, chainVars
  <2>2. job'[t] \in {job[t], NewJob("interpret", NoAssembly), NoJob}
    BY <1>1, <1>7 DEF Arrive, Gather, Complete
  <2>3. NewJob("interpret", NoAssembly).pc = "ready" /\ NoJob.pc = "idle"
    BY NewJobFrame, NoJobFrame
  <2> QED BY <2>1, <2>2, <2>3 DEF BreakerShut
<1>8. CASE Tick
  <2>1. /\ job'[t] = [job[t] EXCEPT !.nap = Minus1(@)]
        /\ openFor' = [m \in Models |-> Minus1(openFor[m])]
    BY <1>8 DEF Tick, ChainTick
  <2>2. job'[t].pc = job[t].pc /\ job'[t].at = job[t].at
    BY <1>1, <2>1 DEF Jobs
  <2> QED BY <1>1, <2>1, <2>2 DEF BreakerShut, Minus1
<1>9. CASE UNCHANGED interpreterVars
  BY <1>9 DEF interpreterVars, chainVars, BreakerShut
<1> QED BY <1>5, <1>6, <1>7, <1>8, <1>9 DEF NoteNext

(* Model m may be asked after w units of time. *)
Free(m, w) == openFor[m] = 0 /\ \E k \in Keys : parked[m][k] <= w

(* A call that ended in a rate limit has reported the park of some key. *)
ParkReported(t) ==
    ~InFlight(t) /\ call[t].out = "rateLimited" =>
        \E k \in Keys : parked[call[t].model][k] <= ReportedWait(call[t].wait)

(* The least wait a note has noted is that of a model before its place in   *)
(* the chain, whose breaker it has left closed; the model can be asked when *)
(* the sleep is over.                                                       *)
WaitIsReal(t) ==
    /\ job[t].wait # NoDelay => \E m \in Models : m < job[t].at /\ Free(m, job[t].wait)
    /\ job[t].pc = "calling" => call[t].model = job[t].at /\ ParkReported(t)
    /\ job[t].pc = "sleeping" => \E m \in Models : Free(m, Minus1(job[t].nap))

LEMMA BeginReports ==
    ASSUME ClientInv, NEW t \in Tasks, NEW m \in Models, NEW timeout \in Nat,
           NEW think \in BOOLEAN, Begin(t, m, timeout, think)
    PROVE  call'[t].model = m /\ parked' = parked /\ ParkReported(t)'
<1> DEFINE f == Opening(m, timeout, think)
           w == ShortestPark(m)
<1>1. TypeOK /\ call \in [Tasks -> Frames] /\ parked' = parked
  BY DEF ClientInv, TypeOK, Begin
<1>2. f.model = m
  BY DEF Opening
<1>3. CASE NKeys = 0
  <2>1. call'[t] = Ended(NewFrame(m), "auth", NoDelay)
    BY <1>1, <1>3 DEF Begin
  <2>2. call'[t].model = m /\ call'[t].out = "auth"
    BY <2>1 DEF Ended, NewFrame
  <2> QED BY <1>1, <2>2 DEF ParkReported
<1>4. CASE NKeys > 0 /\ Parked(m) = Keys
  <2>1. call'[t] = Ended(f, "rateLimited", w)
    BY <1>1, <1>4 DEF Begin
  <2>2. PICK k \in Keys : w = parked[m][k]
    BY <1>1, <1>4, ShortestParkIsOfAKey
  <2>3. w \in Nat
    BY <1>1, <2>2 DEF TypeOK
  <2> HIDE DEF f, w
  <2>4. call'[t].model = m /\ call'[t].wait = w
    BY <1>2, <2>1 DEF Ended
  <2>5. ReportedWait(w) = w
    BY <2>3 DEF ReportedWait, NoDelay
  <2> QED BY <1>1, <2>2, <2>3, <2>4, <2>5 DEF ParkReported
<1>5. CASE NKeys > 0 /\ Parked(m) # Keys
  <2>1. call'[t] = Asking(f, Keys \ Parked(m))
    BY <1>1, <1>5 DEF Begin
  <2>2. f \in Frames
    BY <1>1, OpeningIsFrame
  <2> HIDE DEF f
  <2>3. call'[t].model = m /\ call'[t].pc = "sent"
    BY <1>2, <2>1, <2>2 DEF Asking, Frames
  <2> QED BY <1>1, <2>3 DEF ParkReported, InFlight
<1> QED BY <1>3, <1>4, <1>5, ClientAssumption

(* An answer parks keys of the model that was asked, and no other. *)
LEMMA ResumeReports ==
    ASSUME 0 \notin RetryDelays, ClientInv, NEW t \in Tasks, Resume(t),
           call[t].wait >= NoDelay
    PROVE  /\ call'[t].model = call[t].model
           /\ \A m \in Models : m # call[t].model => parked'[m] = parked[m]
           /\ ParkReported(t)'
<1>1. call \in [Tasks -> Frames] /\ parked \in [Models -> [Keys -> Nat]] /\ InFlight(t)
  BY ResumeEffects DEF ClientInv, TypeOK
<1>2. ParkReported(t)'
  <2>1. SUFFICES ASSUME call'[t].pc = "idle", call'[t].out = "rateLimited"
                 PROVE  \E k \in Keys : parked'[call'[t].model][k] <= ReportedWait(call'[t].wait)
    BY DEF ParkReported, InFlight, ReportedWait
  <2>2. Raises(t, "rateLimited")
    BY <1>1, <2>1 DEF Raises
  <2>3. [Next]_clientVars
    BY DEF Next
  <2> QED BY <2>2, <2>3, ReportsAPark
<1>3. ASSUME NEW out, Return(t, out)
      PROVE  call'[t].model = call[t].model
  BY <1>1, <1>3 DEF Return, Ended
<1>4. ASSUME NEW d \in RetryDelays, Receive429(t, d)
      PROVE  /\ call'[t].model = call[t].model
             /\ \A m \in Models : m # call[t].model => parked'[m] = parked[m]
  <2> DEFINE f == [call[t] EXCEPT !.refused = @ \cup {call[t].key}]
  <2>1. call[t].key \in Keys
    BY <1>1 DEF ClientInv, FrameOK, Accounted, InFlight
  <2>2. f \in Frames /\ f.model = call[t].model
    BY <1>1, <2>1, ZenonT(30) DEF Frames
  <2>3. /\ parked' = [parked EXCEPT ![f.model][f.key] = ParkFor(d)]
        /\ \/ call' = [call EXCEPT ![t] = Ended(f, "rateLimited", d)]
           \/ call' = [call EXCEPT ![t] = Asking(f, f.untried)]
    BY <1>4 DEF Receive429
  <2> HIDE DEF f
  <2>4. call'[t] = Ended(f, "rateLimited", d) \/ call'[t] = Asking(f, f.untried)
    BY <1>1, <2>3
  <2>5. call'[t].model = f.model
    <3>1. Ended(f, "rateLimited", d).model = f.model
      BY DEF Ended
    <3>2. Asking(f, f.untried).model = f.model
      BY <2>2 DEF Asking, Frames
    <3> QED BY <2>4, <3>1, <3>2
  <2> QED BY <1>1, <2>2, <2>3, <2>5
<1>5. ASSUME Receive400(t)
      PROVE  call'[t].model = call[t].model /\ parked' = parked
  <2>1. CASE Thinks(t)
    BY <1>1, <1>5, <2>1 DEF Receive400, Frames
  <2>2. CASE ~Thinks(t)
    BY <1>3, <1>5, <2>2 DEF Receive400
  <2> QED BY <2>1, <2>2
<1> QED BY <1>2, <1>3, <1>4, <1>5
        DEF Resume, ReceiveBody, ReceiveAuthError, ReceiveServerError, TimeOut

LEMMA WaitStaysReal ==
    ASSUME 0 \notin RetryDelays, \A s, u \in Tasks : s = u, NoteInv, NEW t \in Tasks,
           BreakerShut(t), WaitIsReal(t), [NoteNext]_interpreterVars
    PROVE  WaitIsReal(t)'
<1> USE DEF NoDelay
<1>1. /\ job \in [Tasks -> Jobs] /\ job[t] \in Jobs /\ call[t].wait >= NoDelay /\ TaskOK(t)
      /\ job[t].at \in Nat /\ job[t].wait \in Int /\ job[t].wait >= NoDelay /\ job[t].nap \in Nat
  BY DEF NoteInv, NoteTypes, TaskOK, Jobs
<1>2. /\ ClientInv /\ call \in [Tasks -> Frames] /\ openFor \in [Models -> Nat]
      /\ parked \in [Models -> [Keys -> Nat]] /\ Models \subseteq Nat
  BY ChainAssumption DEF NoteInv, SharedOK, ClientInv, TypeOK
<1>3. ASSUME job'[t].wait = NoDelay, job'[t].pc \notin {"calling", "sleeping"}
      PROVE  WaitIsReal(t)'
  BY <1>3 DEF WaitIsReal
<1>4. ASSUME openFor' = openFor, parked' = parked, job'[t].wait = job[t].wait,
             job'[t].at \in Nat, job'[t].at >= job[t].at,
             job'[t].pc \notin {"calling", "sleeping"}
      PROVE  WaitIsReal(t)'
  <2>1. SUFFICES ASSUME job[t].wait # NoDelay
                 PROVE  \E m \in Models : m < job'[t].at /\ Free(m, job[t].wait)'
    BY <1>4 DEF WaitIsReal
  <2>2. PICK m \in Models : m < job[t].at /\ Free(m, job[t].wait)
    BY <2>1 DEF WaitIsReal
  <2> QED BY <1>1, <1>2, <1>4, <2>2 DEF Free
<1>5. ASSUME UNCHANGED chainVars, job'[t] = job[t]
      PROVE  WaitIsReal(t)'
  BY <1>5 DEF WaitIsReal, Free, ParkReported, InFlight, chainVars, clientVars
<1>6. /\ NextModel(job[t]) \in Jobs /\ NextModel(job[t]).pc = "models"
      /\ NextModel(job[t]).at = job[t].at + 1 /\ NextModel(job[t]).wait = job[t].wait
  BY <1>1, NextModelFrame
<1>7. ASSUME job' = [job EXCEPT ![t] = NextModel(@)], openFor' = openFor, parked' = parked
      PROVE  WaitIsReal(t)'
  <2>1. job'[t] = NextModel(job[t])
    BY <1>1, <1>7
  <2> QED BY <1>1, <1>4, <1>6, <1>7, <2>1
<1>8. ASSUME UNCHANGED chainVars PROVE openFor' = openFor /\ parked' = parked
  BY <1>8 DEF chainVars, clientVars
<1>9. CASE StartNote(t)
  <2>1. /\ UNCHANGED chainVars /\ job'[t].wait = job[t].wait /\ job'[t].at = job[t].at
        /\ job'[t].pc \in {"done", "models"}
    BY <1>1, <1>9 DEF StartNote, Jobs
  <2> QED BY <1>1, <1>4, <1>8, <2>1
<1>10. CASE PickModel(t)
  <2>1. /\ UNCHANGED chainVars /\ job'[t].wait = job[t].wait
        /\ job'[t].at \in {job[t].at, job[t].at + 1}
        /\ job'[t].pc \in {"models", "attempt"}
    BY <1>1, <1>10 DEF PickModel, Jobs
  <2> QED BY <1>1, <1>4, <1>8, <2>1
<1>11. CASE Attempt(t)
  <2>1. CASE UNCHANGED chainVars /\ job' = [job EXCEPT ![t] = NextModel(@)]
    BY <1>7, <1>8, <2>1
  <2>2. CASE /\ CallModel(t, job[t].at, TimeLeft(t), Thinking)
             /\ job' = [job EXCEPT ![t].pc = "calling"]
    <3> DEFINE timeout == TimeoutFor(BudgetFor(job[t].at), TimeLeft(t))
    <3>1. Begin(t, job[t].at, timeout, Thinking) /\ openFor' = openFor
      BY <2>2 DEF CallModel
    <3>2. timeout \in Nat
      <4>1. TimeLeft(t) \in Nat
        BY InterpreterAssumption DEF NoteInv, NoteTypes, TimeLeft
      <4> QED BY <4>1, ChainAssumption DEF TimeoutFor, BudgetFor
    <3>3. job[t].at \in Models /\ Thinking \in BOOLEAN
      BY <1>1, <1>11, InterpreterAssumption DEF Attempt, TaskOK
    <3> HIDE DEF timeout
    <3>4. call'[t].model = job[t].at /\ parked' = parked /\ ParkReported(t)'
      BY <1>2, <3>1, <3>2, <3>3, BeginReports
    <3>5. job'[t].wait = job[t].wait /\ job'[t].at = job[t].at /\ job'[t].pc = "calling"
      BY <1>1, <2>2 DEF Jobs
    <3> QED BY <3>1, <3>4, <3>5 DEF WaitIsReal, Free
  <2> QED BY <1>11, <2>1, <2>2 DEF Attempt
<1>12. CASE Wake(t)
  <2>1. Resume(t) /\ openFor' = openFor /\ job' = job /\ job[t].pc = "calling"
    BY <1>12 DEF Wake, ChainResume
  <2>2. /\ call'[t].model = call[t].model /\ ParkReported(t)'
        /\ \A m \in Models : m # call[t].model => parked'[m] = parked[m]
    BY <1>1, <1>2, <2>1, ResumeReports
  <2>3. ASSUME job[t].wait # NoDelay
        PROVE  \E m \in Models : m < job[t].at /\ Free(m, job[t].wait)'
    <3>1. PICK m \in Models : m < job[t].at /\ Free(m, job[t].wait)
      BY <2>3 DEF WaitIsReal
    <3>2. m # call[t].model
      BY <1>1, <1>2, <2>1, <3>1 DEF WaitIsReal
    <3> QED BY <2>1, <2>2, <3>1, <3>2 DEF Free
  <2> QED BY <2>1, <2>2, <2>3 DEF WaitIsReal
<1>13. CASE HandleError(t)
  <2> DEFINE w == WaitNoted(t)
             j == [NextModel(job[t]) EXCEPT !.wait = w]
  <2>1. /\ job[t].pc = "calling" /\ ~InFlight(t) /\ parked' = parked /\ job'[t] = j
        /\ TripBreaker(t)
    BY <1>1, <1>13 DEF HandleError, Answered, Forget, TaskOK
  <2>2. j.pc = "models" /\ j.at = job[t].at + 1 /\ j.wait = w
    BY <1>6 DEF Jobs
  <2>3. call[t].model = job[t].at /\ ParkReported(t) /\ job[t].at \in Models
        /\ openFor[job[t].at] = 0
    BY <1>1, <2>1 DEF WaitIsReal, BreakerShut, TaskOK
  <2>4. ASSUME NEW m \in Models, m < job[t].at PROVE openFor'[m] = openFor[m]
    BY <1>1, <1>2, <2>1, <2>3, <2>4 DEF TripBreaker
  <2>5. ASSUME w = job[t].wait, w # NoDelay
        PROVE  \E m \in Models : m < job[t].at + 1 /\ openFor'[m] = 0
                                  /\ \E k \in Keys : parked'[m][k] <= w
    <3>1. PICK m \in Models : m < job[t].at /\ Free(m, job[t].wait)
      BY <2>5 DEF WaitIsReal
    <3> QED BY <1>1, <1>2, <2>1, <2>4, <2>5, <3>1 DEF Free
  <2>6. ASSUME w # job[t].wait
        PROVE  \E m \in Models : m < job[t].at + 1 /\ openFor'[m] = 0
                                  /\ \E k \in Keys : parked'[m][k] <= w
    <3>1. call[t].out = "rateLimited" /\ w = ReportedWait(call[t].wait)
      BY <2>6 DEF WaitNoted, Shorter
    <3>2. openFor' = openFor
      BY <2>1, <3>1 DEF TripBreaker
    <3>3. PICK k \in Keys : parked[job[t].at][k] <= w
      BY <2>1, <2>3, <3>1 DEF ParkReported
    <3> HIDE DEF w
    <3> QED BY <1>1, <2>1, <2>3, <3>2, <3>3 DEF Free
  <2> HIDE DEF w, j
  <2>7. w # NoDelay => \E m \in Models : m < job'[t].at /\ openFor'[m] = 0
                                  /\ \E k \in Keys : parked'[m][k] <= job'[t].wait
    BY <2>1, <2>2, <2>5, <2>6
  <2> QED BY <2>1, <2>2, <2>7 DEF WaitIsReal, Free
<1>14. ASSUME NEW verdict \in Verdicts, HandleReading(t, verdict)
       PROVE  WaitIsReal(t)'
  <2>1. openFor' = openFor /\ parked' = parked
    BY <1>14 DEF HandleReading, Forget
  <2>2. CASE job' = [job EXCEPT ![t].pc = "attempt", ![t].repairs = @ - 1]
    <3>1. job'[t].wait = job[t].wait /\ job'[t].at = job[t].at /\ job'[t].pc = "attempt"
      BY <1>1, <2>2 DEF Jobs
    <3> QED BY <1>1, <1>4, <2>1, <3>1
  <2>3. CASE job' = [job EXCEPT ![t] = NextModel(@)]
    BY <1>7, <2>1, <2>3
  <2>4. ASSUME NEW a, Finish(t, a) PROVE WaitIsReal(t)'
    BY <1>1, <1>3, <2>4 DEF Finish, Jobs
  <2> QED BY <1>14, <2>2, <2>3, <2>4 DEF HandleReading
<1>15. CASE Sleep(t)
  <2>1. /\ UNCHANGED chainVars /\ job[t].wait # NoDelay
        /\ job'[t].pc = "sleeping" /\ job'[t].nap = job[t].wait + 1 /\ job'[t].wait = NoDelay
    BY <1>1, <1>15 DEF Sleep, WorthWaiting, Jobs
  <2>2. Minus1(job'[t].nap) = job[t].wait
    BY <1>1, <2>1 DEF Minus1
  <2>3. PICK m \in Models : Free(m, job[t].wait)
    BY <2>1 DEF WaitIsReal
  <2> QED BY <1>8, <2>1, <2>2, <2>3 DEF WaitIsReal, Free
<1>16. CASE WakeUp(t)
  <2>1. /\ UNCHANGED chainVars /\ job'[t].wait = job[t].wait /\ job'[t].at = job[t].at
        /\ job'[t].pc = "models"
    BY <1>1, <1>16 DEF WakeUp, Jobs
  <2> QED BY <1>1, <1>4, <1>8, <2>1
<1>17. CASE GiveUp(t)
  BY <1>1, <1>3, <1>17 DEF GiveUp, Finish, Jobs
<1>18. CASE NoteStep(t)
  BY <1>9, <1>10, <1>11, <1>12, <1>13, <1>14, <1>15, <1>16, <1>17, <1>18 DEF NoteStep
<1>19. CASE Correct(t)
  <2>1. job'[t].pc = "ready" /\ job'[t].wait = NoDelay
    BY <1>1, <1>19 DEF Correct, NewJob
  <2> QED BY <1>3, <2>1
<1>20. ASSUME NEW r \in Requests, Arrive(r) \/ Gather(r) \/ Complete(r)
       PROVE  WaitIsReal(t)'
  <2>1. UNCHANGED chainVars /\ job'[t] \in {job[t], NewJob("interpret", NoAssembly), NoJob}
    BY <1>1, <1>20 DEF Arrive, Gather, Complete
  <2>2. ASSUME job'[t] # job[t]
        PROVE  job'[t].pc \in {"ready", "idle"} /\ job'[t].wait = NoDelay
    BY <2>1, <2>2, NewJobFrame, NoJobFrame
  <2> QED BY <1>3, <1>5, <2>1, <2>2
<1>21. CASE Tick
  <2>1. /\ running = NoTask /\ ClientTick
        /\ openFor' = [m \in Models |-> Minus1(openFor[m])]
        /\ job'[t] = [job[t] EXCEPT !.nap = Minus1(@)]
        /\ ~(job[t].pc = "sleeping" /\ job[t].nap = 0)
    BY <1>21 DEF Tick, ChainTick
  <2>2. /\ job'[t].pc = job[t].pc /\ job'[t].at = job[t].at /\ job'[t].wait = job[t].wait
        /\ job'[t].nap = Minus1(job[t].nap)
    BY <1>1, <2>1 DEF Jobs
  <2>3. call'[t].pc = call[t].pc /\ call'[t].model = call[t].model
    BY <1>2, <2>1 DEF ClientTick, Frames
  <2>4. ASSUME job[t].pc = "calling" PROVE call'[t].model = job[t].at /\ ParkReported(t)'
    <3>1. InFlight(t)
      BY <1>1, <2>1, <2>4, InterpreterAssumption DEF TaskOK
    <3> QED BY <2>3, <2>4, <3>1 DEF WaitIsReal, ParkReported, InFlight
  <2>5. ASSUME NEW m \in Models, NEW k \in Keys
        PROVE  parked[m][k] \in Nat /\ parked'[m][k] = Minus1(parked[m][k])
    BY <1>2, <2>1 DEF ClientTick
  <2>6. ASSUME NEW m \in Models, openFor[m] = 0 PROVE openFor'[m] = 0
    BY <2>1, <2>6 DEF Minus1
  <2>7. ASSUME job[t].wait # NoDelay
        PROVE  \E m \in Models : m < job[t].at /\ Free(m, job[t].wait)'
    <3>1. PICK m \in Models : m < job[t].at /\ Free(m, job[t].wait)
      BY <2>7 DEF WaitIsReal
    <3>2. PICK k \in Keys : parked[m][k] <= job[t].wait
      BY <3>1 DEF Free
    <3>3. parked'[m][k] <= job[t].wait
      BY <1>1, <2>5, <3>2 DEF Minus1
    <3> QED BY <2>2, <2>6, <3>1, <3>3 DEF Free
  <2>8. ASSUME job[t].pc = "sleeping"
        PROVE  \E m \in Models : Free(m, Minus1(job[t].nap))'
    <3>1. PICK m \in Models : Free(m, Minus1(job[t].nap))
      BY <2>8 DEF WaitIsReal
    <3>2. PICK k \in Keys : parked[m][k] <= Minus1(job[t].nap)
      BY <3>1 DEF Free
    <3>3. parked'[m][k] <= Minus1(Minus1(job[t].nap))
      BY <1>1, <2>1, <2>5, <2>8, <3>2 DEF Minus1
    <3>4. openFor'[m] = 0
      BY <2>6, <3>1 DEF Free
    <3> QED BY <2>2, <3>3, <3>4 DEF Free
  <2> QED BY <2>2, <2>4, <2>7, <2>8 DEF WaitIsReal, Free
<1>22. CASE UNCHANGED interpreterVars
  BY <1>5, <1>22 DEF interpreterVars
<1> QED BY <1>18, <1>19, <1>20, <1>21, <1>22 DEF NoteNext

(* "If the provider's suggested wait fits in the budget, wait once and      *)
(* retry" (interpreter.py:275-279): when a note that is alone wakes up,     *)
(* some model of the chain has a closed breaker and a key that is not       *)
(* parked.  A suggested delay of zero has to be excluded: the client parks  *)
(* the key for the default time then (gemini_client.py:132), and reports    *)
(* the zero.                                                                *)
THEOREM LoneNoteWaitsForAReason ==
    ASSUME 0 \notin RetryDelays, \A s, t \in Tasks : s = t
    PROVE  NoteSpec => []WaitNotInVain
<1> DEFINE Inv == \A t \in Tasks : BreakerShut(t) /\ WaitIsReal(t)
<1>1. NoteInit => Inv
  BY NoJobFrame DEF NoteInit, BreakerShut, WaitIsReal
<1>2. NoteInv /\ Inv /\ [NoteNext]_interpreterVars => Inv'
  BY BreakerStays, WaitStaysReal
<1>3. NoteInv /\ Inv => WaitNotInVain
  <2>1. SUFFICES ASSUME NoteInv, NEW t \in Tasks, WaitIsReal(t),
                        job[t].pc = "sleeping", job[t].nap = 0
                 PROVE  \E m \in Models : ~IsDisabled(m) /\ Parked(m) # Keys
    BY DEF WaitNotInVain
  <2>2. PICK m \in Models : openFor[m] = 0 /\ \E k \in Keys : parked[m][k] <= 0
    BY <2>1 DEF WaitIsReal, Free, Minus1
  <2>3. PICK k \in Keys : parked[m][k] <= 0
    BY <2>2
  <2>4. parked[m][k] \in Nat
    BY <2>1 DEF NoteInv, SharedOK, ClientInv, TypeOK
  <2>5. k \notin Parked(m)
    BY <2>3, <2>4 DEF Parked
  <2> QED BY <2>2, <2>5 DEF IsDisabled
<1> HIDE DEF Inv
<1> QED BY <1>1, <1>2, <1>3, NoteInvariant, PTL DEF NoteSpec
-----------------------------------------------------------------------------
(* Identical notes and the cache. *)

(* The end of a coroutine stores its own reading under its own key, if any. *)
LEMMA FinishStores ==
    ASSUME NoteInv, NEW t \in Tasks, NEW a, Finish(t, a),
           NEW k \in CacheKeys, content'[k] \notin {content[k], NoAssembly}
    PROVE  /\ KeyOf[t] = k /\ job[t].kind = "interpret"
           /\ job'[t].pc = "done" /\ job'[t].result = a /\ content'[k] = a
<1>1. job[t] \in Jobs /\ job \in [Tasks -> Jobs]
  BY DEF NoteInv, NoteTypes
<1>2. job'[t].pc = "done" /\ job'[t].result = a
  BY <1>1 DEF Finish, Jobs
<1>3. job[t].kind = "interpret" /\ Cache!Put(KeyOf[t], a)
  BY DEF Finish, cacheVars
<1>4. content' = [c \in CacheKeys |-> IF c = KeyOf[t] THEN a
                                      ELSE IF c \in Cache!Stored' THEN content[c]
                                      ELSE NoAssembly]
  BY <1>3 DEF Cache!Put, Cache!cacheVars
<1> QED BY <1>2, <1>3, <1>4

(* What one step of a note does to the readings of the cache and to notes   *)
(* that have not begun.                                                     *)
OneReplaces(t) ==
    \A k \in CacheKeys :
        content[k] # NoAssembly /\ content'[k] \notin {content[k], NoAssembly}
            => /\ KeyOf[t] = k /\ MissedAndAtWork(t)
               /\ job'[t].pc = "done" /\ job'[t].result = content'[k]

AnsweredFromStore(t) ==
    LET stored == content[KeyOf[t]] IN
    job[t].kind = "interpret" /\ job[t].pc = "ready" /\ job'[t].pc # "ready"
    /\ stored # NoAssembly
        => job'[t].pc = "done" /\ job'[t].result = stored

LEMMA NoteStepStores ==
    ASSUME NoteInv, NEW t \in Tasks, NoteStep(t)
    PROVE  OneReplaces(t) /\ AnsweredFromStore(t)
<1>1. job \in [Tasks -> Jobs] /\ job[t] \in Jobs
  BY DEF NoteInv, NoteTypes
<1>2. ASSUME UNCHANGED cacheVars, job[t].pc # "ready"
      PROVE  OneReplaces(t) /\ AnsweredFromStore(t)
  BY <1>2 DEF cacheVars, OneReplaces, AnsweredFromStore
<1>3. ASSUME NEW a, Finish(t, a), job[t].pc \in {"models", "calling"}
      PROVE  OneReplaces(t) /\ AnsweredFromStore(t)
  <2>1. ASSUME NEW k \in CacheKeys, content'[k] \notin {content[k], NoAssembly}
        PROVE  /\ KeyOf[t] = k /\ MissedAndAtWork(t)
               /\ job'[t].pc = "done" /\ job'[t].result = content'[k]
    BY <1>3, <2>1, FinishStores DEF MissedAndAtWork
  <2> QED BY <1>3, <2>1 DEF OneReplaces, AnsweredFromStore
<1>4. CASE StartNote(t)
  <2>1. content' = content
    BY <1>4 DEF StartNote, cacheVars, Cache!Touch
  <2>2. CASE job' = [job EXCEPT ![t].pc = "done", ![t].result = Cache!Lookup(KeyOf[t])]
    <3>1. job'[t].pc = "done" /\ job'[t].result = content[KeyOf[t]]
      BY <1>1, <2>2 DEF Jobs, Cache!Lookup
    <3> QED BY <2>1, <3>1 DEF OneReplaces, AnsweredFromStore
  <2>3. CASE job[t].kind = "interpret" => Cache!Lookup(KeyOf[t]) = NoAssembly
    BY <2>1, <2>3 DEF OneReplaces, AnsweredFromStore, Cache!Lookup
  <2> QED BY <1>4, <2>2, <2>3 DEF StartNote
<1>5. CASE PickModel(t) \/ Attempt(t) \/ Wake(t) \/ HandleError(t)
  BY <1>2, <1>5 DEF PickModel, Attempt, Wake, HandleError, Answered
<1>6. ASSUME NEW verdict \in Verdicts, HandleReading(t, verdict)
      PROVE  OneReplaces(t) /\ AnsweredFromStore(t)
  BY <1>2, <1>3, <1>6 DEF HandleReading, Answered
<1>7. CASE Sleep(t) \/ WakeUp(t)
  BY <1>2, <1>7 DEF Sleep, Exhausted, WakeUp
<1>8. CASE GiveUp(t)
  BY <1>3, <1>8 DEF GiveUp, Exhausted
<1> QED BY <1>4, <1>5, <1>6, <1>7, <1>8 DEF NoteStep

LEMMA ReadingsReplaced ==
    ASSUME NoteInv, [NoteNext]_interpreterVars
    PROVE  /\ \A t \in Tasks : AnsweredFromStore(t)
           /\ \A k \in CacheKeys :
                 content[k] # NoAssembly /\ content'[k] \notin {content[k], NoAssembly}
                    => \E t \in Tasks : /\ KeyOf[t] = k /\ MissedAndAtWork(t)
                                        /\ job'[t].pc = "done" /\ job'[t].result = content'[k]
<1>1. /\ job \in [Tasks -> Jobs] /\ \A t \in Tasks : job[t] \in Jobs
      /\ \A t \in Tasks : job[t].pc = "ready" => phase[RequestOf[t]] \in {"interpreting", "correcting"}
  BY DEF NoteInv, NoteTypes, TaskOK
<1>2. ASSUME content' = content,
             \A t \in Tasks : job[t].pc = "ready" => job'[t].pc = "ready"
      PROVE  /\ \A t \in Tasks : AnsweredFromStore(t)
             /\ \A k \in CacheKeys : content'[k] = content[k]
  BY <1>2 DEF AnsweredFromStore
<1>3. ASSUME UNCHANGED cacheVars PROVE content' = content
  BY <1>3 DEF cacheVars
<1>4. ASSUME NEW t \in Tasks, NoteStep(t)
      PROVE  OneReplaces(t) /\ \A u \in Tasks : AnsweredFromStore(u)
  <2>1. OneReplaces(t) /\ AnsweredFromStore(t) /\ \A u \in Tasks \ {t} : job'[u] = job[u]
    BY <1>4, NoteStepStores, NoteStepFrames
  <2> QED BY <2>1 DEF AnsweredFromStore
<1>5. ASSUME NEW t \in Tasks, Correct(t)
      PROVE  content' = content /\ \A u \in Tasks : job[u].pc = "ready" => job'[u].pc = "ready"
  BY <1>1, <1>3, <1>5 DEF Correct, NewJob
<1>6. ASSUME NEW r \in Requests, Arrive(r) \/ Gather(r) \/ Complete(r)
      PROVE  content' = content /\ \A u \in Tasks : job[u].pc = "ready" => job'[u].pc = "ready"
  BY <1>1, <1>3, <1>6 DEF Arrive, Gather, Complete, TasksOf
<1>7. ASSUME Tick
      PROVE  content' = content /\ \A u \in Tasks : job[u].pc = "ready" => job'[u].pc = "ready"
  BY <1>3, <1>7 DEF Tick
<1>8. ASSUME UNCHANGED interpreterVars
      PROVE  content' = content /\ \A u \in Tasks : job[u].pc = "ready" => job'[u].pc = "ready"
  BY <1>3, <1>8 DEF interpreterVars
<1>9. CASE \E t \in Tasks : NoteStep(t)
  BY <1>4, <1>9 DEF OneReplaces
<1>10. CASE content' = content /\ \A u \in Tasks : job[u].pc = "ready" => job'[u].pc = "ready"
  BY <1>2, <1>10
<1> QED BY <1>5, <1>6, <1>7, <1>8, <1>9, <1>10 DEF NoteNext

(* "Makes repeated identical requests instant and bit-identical" (cache.py: *)
(* 1-4) as far as it is kept, with any number of identical notes at work    *)
(* together and any size of the cache: a note whose reading is stored is    *)
(* answered with it at once, and only a coroutine that had found none       *)
(* (interpreter.py:196-199) replaces a stored reading when it ends.         *)
THEOREM OnlyOverlappingNotesReplace == NoteSpec => ReplacedOnlyByOverlap
<1> DEFINE Kept ==
      /\ \A t \in Tasks : AnsweredFromStore(t)
      /\ \A k \in CacheKeys :
            content[k] # NoAssembly /\ content'[k] \notin {content[k], NoAssembly}
               => \E t \in Tasks : /\ KeyOf[t] = k /\ MissedAndAtWork(t)
                                   /\ job'[t].pc = "done" /\ job'[t].result = content'[k]
<1>1. NoteInv /\ [NoteNext]_interpreterVars => [Kept]_interpreterVars
  BY ReadingsReplaced
<1> QED BY <1>1, NoteInvariant, PTL DEF NoteSpec, ReplacedOnlyByOverlap, AnsweredFromStore
=============================================================================
