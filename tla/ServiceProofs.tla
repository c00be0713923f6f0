--------------------------- MODULE ServiceProofs ---------------------------
(***************************************************************************)
(* Proofs about Service: what is proved of the note coroutines holds of the*)
(* whole service, whatever earlier requests have left in its client, its   *)
(* breakers and its cache; how long Gemini is awaited past the deadline;   *)
(* what the parser lets through is a sound day; run_pipeline with the      *)
(* coroutines of its notes implements Pipeline; and the status of an       *)
(* answer is the documented one.                                           *)
(***************************************************************************)
EXTENDS Service, NoteInterpreterProofs, FiniteSetTheorems

(* Every step of the service is a step of the interpreter, or leaves it.    *)
LEMMA ServiceSteps == [ServiceNext]_serviceVars => [NoteNext]_interpreterVars
<1> SUFFICES ASSUME [ServiceNext]_serviceVars, ~UNCHANGED interpreterVars
             PROVE  NoteNext
  OBVIOUS
<1>1. req \in Requests
  BY ServiceAssumption
<1>2. CASE Start
  BY <1>1, <1>2 DEF Start, NoteNext
<1>3. CASE NoteRuns
  BY <1>3 DEF NoteRuns, NoteNext
<1>4. CASE TimePasses \/ StageTakesTime
  BY <1>4 DEF TimePasses, StageTakesTime, NoteNext
<1>5. CASE AllInterpreted
  BY <1>1, <1>5 DEF AllInterpreted, NoteNext
<1>6. CASE AskForCorrection
  <2>1. Correct(NextToCorrect) /\ NextToCorrect \in Tasks
    BY <1>6, ServiceAssumption DEF AskForCorrection, Correct
  <2> QED BY <2>1 DEF NoteNext
<1>7. CASE Corrected
  BY <1>1, <1>7 DEF Corrected, NoteNext
<1>8. ASSUME Receive \/ Solving \/ Respond \/ Over \/ UNCHANGED serviceVars
      PROVE  FALSE
  BY <1>8 DEF Receive, Solving, Respond, Over, serviceVars
<1> QED BY <1>2, <1>3, <1>4, <1>5, <1>6, <1>7, <1>8 DEF ServiceNext

(* Whatever earlier requests left behind satisfies the invariant. *)
LEMMA LeftBehindIsCached ==
    ASSUME MaxCache > 0, NEW k \in CacheKeys, NEW a \in LeftBehind,
           order = <<k>>, content = [c \in CacheKeys |-> IF c = k THEN a ELSE NoAssembly]
    PROVE  CP!CacheInv /\ DegradedNeverCached
<1>1. a \in Assemblies /\ ~a.degraded
  BY DEF LeftBehind, Assemblies
<1>2. a # NoAssembly
  BY <1>1, CacheConstants
<1>3. order \in Seq(CacheKeys) /\ Len(order) = 1 /\ DOMAIN order = {1} /\ order[1] = k
  OBVIOUS
<1>4. CP!Stored = {k}
  BY <1>3 DEF CP!Stored, CP!Elements
<1>5. CP!TypeOK
  BY <1>1, <1>3 DEF CP!TypeOK
<1>6. CP!StoreConsistent
  BY <1>2, <1>3, <1>4, CacheConstants
     DEF CP!StoreConsistent, CP!Bounded, CP!NoDuplicates, CP!ValuesAreOfStoredKeys
<1>7. DegradedNeverCached
  BY <1>1 DEF DegradedNeverCached, Cache!Lookup, NoAssembly
<1> QED BY <1>5, <1>6, <1>7 DEF CP!CacheInv

LEMMA ServiceInitInv == ServiceInit => NoteInv
<1> SUFFICES ASSUME ServiceInit PROVE NoteInv
  OBVIOUS
<1>1. call = [t \in Tasks |-> NoFrame]
  BY DEF ServiceInit, NoFrame
<1>2. ClientInv
  <2>1. parked \in [Models -> [Keys -> Nat]]
    <3>1. 0 .. DefaultPark \subseteq Nat
      BY ClientAssumption
    <3> QED BY <3>1 DEF ServiceInit
  <2>2. TypeOK
    BY <1>1, <2>1, NoFrameIsOK, ClientAssumption DEF ServiceInit, TypeOK
  <2> QED BY <1>1, <2>2, NoFrameIsOK DEF ClientInv
<1>3. openFor \in [Models -> Nat]
  <2>1. 0 .. BreakerTime \subseteq Nat
    BY ChainAssumption
  <2> QED BY <2>1 DEF ServiceInit
<1>4. CP!CacheInv /\ DegradedNeverCached
  <2>1. CASE Cache!Init
    <3>1. CP!Init
      BY <2>1 DEF Cache!Init, CP!Init
    <3>2. DegradedNeverCached
      BY <2>1 DEF Cache!Init, DegradedNeverCached, Cache!Lookup, NoAssembly
    <3> QED BY <3>1, <3>2, CP!InitInv, CacheConstants
  <2>2. CASE ~Cache!Init
    BY <2>2, LeftBehindIsCached DEF ServiceInit
  <2> QED BY <2>1, <2>2
<1>5. NoteTypes
  BY NoJobFrame DEF ServiceInit, NoteTypes, Phases
<1>6. ASSUME NEW t \in Tasks PROVE TaskOK(t)
  <2>1. call[t].pc = "idle" /\ call[t].wait = NoDelay
    BY <1>1 DEF NoFrame, NewFrame
  <2>2. job[t] = NoJob
    BY DEF ServiceInit
  <2> QED BY <2>1, <2>2, NoJobFrame, InterpreterAssumption
          DEF TaskOK, InFlight, ServiceInit, NoDelay
<1> QED BY <1>2, <1>3, <1>4, <1>5, <1>6 DEF NoteInv, SharedOK

(* The service never leaves the invariant of its coroutines.                *)
THEOREM ServiceInvariant == ServiceSpec => []NoteInv
<1>1. NoteInv /\ [ServiceNext]_serviceVars => NoteInv'
  BY ServiceSteps, NoteNextKeepsInv
<1> QED BY <1>1, ServiceInitInv, PTL DEF ServiceSpec

(* In the service too no answer of Gemini reaches a note that does not      *)
(* await it: when run_pipeline solves, no coroutine is at work.             *)
THEOREM ServiceCallsHaveAnOwner == ServiceSpec => []CallsBelongToNotes
<1>1. NoteInv => CallsBelongToNotes
  BY DEF NoteInv, TaskOK, CallsBelongToNotes
<1> QED BY <1>1, ServiceInvariant, PTL

-----------------------------------------------------------------------------
(* A step of a note leaves its reading alone, or gives one that is not      *)
(* degraded, unless it is no correction.                                    *)
ReadingKept(t) ==
    \/ job'[t].result = job[t].result
    \/ ~job'[t].result.degraded
    \/ job[t].kind = "interpret" /\ job'[t].result.by \in {"rule", "none"}

LEMMA NoteStepReadings ==
    ASSUME NoteInv, NEW t \in Tasks, NoteStep(t)
    PROVE  /\ job[t].pc \notin {"idle", "done"}
           /\ job'[t].kind = job[t].kind
           /\ ReadingKept(t)
           /\ phase' = phase
<1>1. job \in [Tasks -> Jobs] /\ job[t] \in Jobs /\ TaskOK(t) /\ NoTask # t
  BY InterpreterAssumption DEF NoteInv, NoteTypes
<1>2. CASE StartNote(t)
  <2>1. ~Cache!Lookup(KeyOf[t]).degraded
    BY InterpreterAssumption DEF NoteInv, SharedOK, DegradedNeverCached
  <2>2. CASE job' = [job EXCEPT ![t].pc = "done", ![t].result = Cache!Lookup(KeyOf[t])]
    <3>1. job'[t].result = Cache!Lookup(KeyOf[t]) /\ job'[t].kind = job[t].kind
      BY <1>1, <2>2 DEF Jobs
    <3> QED BY <1>2, <2>1, <3>1 DEF StartNote, ReadingKept
  <2>3. CASE job' = [job EXCEPT ![t].pc = "models"]
    BY <1>1, <1>2, <2>3 DEF StartNote, Jobs, ReadingKept
  <2> QED BY <1>2, <2>2, <2>3 DEF StartNote
<1>3. CASE PickModel(t)
  BY <1>1, <1>3 DEF PickModel, Jobs, ReadingKept
<1>4. CASE Attempt(t)
  <2>1. phase' = phase /\ job[t].pc = "attempt"
    BY <1>4 DEF Attempt
  <2>2. CASE job' = [job EXCEPT ![t] = NextModel(@)]
    BY <1>1, <2>1, <2>2 DEF NextModel, Jobs, ReadingKept
  <2>3. CASE job' = [job EXCEPT ![t].pc = "calling"]
    BY <1>1, <2>1, <2>3 DEF Jobs, ReadingKept
  <2> QED BY <1>4, <2>2, <2>3 DEF Attempt
<1>5. CASE Wake(t)
  BY <1>1, <1>5 DEF Wake, ReadingKept
<1>6. CASE HandleError(t)
  BY <1>1, <1>6 DEF HandleError, Answered, NextModel, Jobs, ReadingKept
<1>7. ASSUME NEW verdict \in Verdicts, HandleReading(t, verdict)
      PROVE  /\ job[t].pc \notin {"idle", "done"} /\ phase' = phase
             /\ job'[t].kind = job[t].kind /\ ReadingKept(t)
  <2>1. phase' = phase /\ job[t].pc = "calling"
    BY <1>7 DEF HandleReading, Answered
  <2>2. CASE job' = [job EXCEPT ![t].pc = "attempt", ![t].repairs = @ - 1]
    BY <1>1, <2>1, <2>2 DEF Jobs, ReadingKept
  <2>3. CASE job' = [job EXCEPT ![t] = NextModel(@)]
    BY <1>1, <2>1, <2>3 DEF NextModel, Jobs, ReadingKept
  <2>4. ASSUME NEW a, ~a.degraded, Finish(t, a)
        PROVE  job'[t].kind = job[t].kind /\ ReadingKept(t)
    <3>1. job'[t].result = a /\ job'[t].kind = job[t].kind
      BY <1>1, <2>4 DEF Finish, Jobs
    <3> QED BY <2>4, <3>1 DEF ReadingKept
  <2> QED BY <1>7, <2>1, <2>2, <2>3, <2>4 DEF HandleReading
<1>8. CASE Sleep(t)
  BY <1>1, <1>8 DEF Sleep, Exhausted, Jobs, ReadingKept
<1>9. CASE WakeUp(t)
  BY <1>1, <1>9 DEF WakeUp, Jobs, ReadingKept
<1>10. CASE GiveUp(t)
  <2>1. phase' = phase /\ job[t].pc = "models" /\ Finish(t, Fallback(t))
    BY <1>10 DEF GiveUp, Exhausted
  <2>2. job'[t].result = Fallback(t) /\ job'[t].kind = job[t].kind
    BY <1>1, <2>1 DEF Finish, Jobs
  <2>3. CASE job[t].kind = "correct"
    BY <2>1, <2>2, <2>3 DEF Fallback, ReadingKept
  <2>4. CASE job[t].kind = "interpret"
    BY <2>1, <2>2, <2>4 DEF Fallback, ReadingKept
  <2> QED BY <1>1, <2>3, <2>4 DEF Jobs
<1> QED BY <1>2, <1>3, <1>4, <1>5, <1>6, <1>7, <1>8, <1>9, <1>10 DEF NoteStep

-----------------------------------------------------------------------------
(* The deadline. *)

(* After the deadline no call is begun, and those that are open end no      *)
(* later than Overrun after it.                                             *)
DeadlineInv ==
    /\ late \in Nat
    /\ late > 0 => late <= Overrun /\ remaining[req] = 0 /\ phase[req] # "idle"
    /\ \A t \in Tasks : SleepFits(t) /\ CallFitsWith(t, Overrun - late)

LEMMA TheOnlyRequest == req \in Requests /\ \A t \in Tasks : RequestOf[t] = req
BY ServiceAssumption, InterpreterAssumption

LEMMA NoteFacts ==
    ASSUME NoteInv, NEW t \in Tasks
    PROVE  /\ job[t] \in Jobs /\ call[t] \in Frames /\ TaskOK(t) /\ ClientInv
           /\ TimeLeft(t) = remaining[req] /\ remaining[req] \in Nat
           /\ TimeToGo(call[t]) \in Nat /\ call[t].left <= TimeToGo(call[t])
<1>1. call[t] \in Frames /\ ClientInv /\ job[t] \in Jobs /\ TaskOK(t)
  BY DEF NoteInv, SharedOK, ClientInv, TypeOK, NoteTypes
<1>2. TimeLeft(t) = remaining[req] /\ remaining[req] \in Nat
  BY TheOnlyRequest DEF NoteInv, NoteTypes, TimeLeft
<1>3. TimeToGo(call[t]) \in Nat /\ RequestsToCome(call[t]) * WaitFor(call[t].timeout) \in Nat
  BY <1>1, RequestsAreNumbers
<1>4. call[t].left \in Nat
  BY <1>1 DEF Frames
<1> QED BY <1>1, <1>2, <1>3, <1>4 DEF TimeToGo

(* When time passes and notes are awaited, one of them awaits something     *)
(* that is still to come: past the deadline, a call.                        *)
LEMMA SomethingIsAwaited ==
    ASSUME NoteInv, \A t \in Tasks : SleepFits(t), TimePasses, remaining[req] = 0
    PROVE  \E t \in Tasks : InFlight(t) /\ call[t].left > 0
<1>1. Tick /\ phase[req] \in {"interpreting", "correcting"} /\ req \in Requests
  BY ServiceAssumption DEF TimePasses, Awaiting
<1>2. PICK t \in Tasks : RequestOf[t] = req /\ job[t].pc \notin {"done", "idle"}
  BY <1>1 DEF Tick, AllDone, TasksOf
<1>3. running = NoTask /\ job[t].pc # "ready" /\ NoTask # t
  BY <1>1, InterpreterAssumption DEF Tick
<1>4. job[t].pc \in {"calling", "sleeping"} /\ job[t].nap \in Nat
  BY <1>2, <1>3, NoteFacts DEF Jobs, TaskOK
<1>5. job[t].pc # "sleeping"
  BY <1>4, NoteFacts DEF SleepFits
<1>6. InFlight(t)
  BY <1>3, <1>4, <1>5, NoteFacts DEF TaskOK
<1> QED BY <1>1, <1>6 DEF Tick, ChainTick, ClientTick

(* A unit of time for the calls. *)
LEMMA TickFits ==
    ASSUME NoteInv, Tick, NEW t \in Tasks, NEW over \in Int, CallFitsWith(t, over),
           NEW then \in Int, then = IF TimeLeft(t) = 0 THEN over - 1 ELSE over
    PROVE  CallFitsWith(t, then)'
<1>1. ClientTick /\ ClientInv /\ TimeLeft(t)' = Minus1(TimeLeft(t))
  BY TheOnlyRequest, NoteFacts DEF Tick, ChainTick, TimeLeft
<1>2. call'[t].pc = call[t].pc
  BY <1>1, TickEffects DEF ClientInv
<1>3. InFlight(t) => /\ call'[t].think = call[t].think
                     /\ TimeToGo(call'[t]) = TimeToGo(call[t]) - 1
  BY <1>1, TickTime
<1> QED BY <1>1, <1>2, <1>3, NoteFacts DEF CallFitsWith, InFlight, Minus1

LEMMA DeadlineKept ==
    ASSUME WaitSlack > SafetyMargin + Cutoff, NoteInv, DeadlineInv, [ServiceNext]_serviceVars
    PROVE  DeadlineInv'
<1>1. \A t \in Tasks : SleepFits(t)'
  BY ServiceSteps, SleepFitsKept DEF DeadlineInv
<1>2. /\ late \in Nat /\ Overrun \in Int /\ remaining[req] \in Nat
      /\ late > 0 => late <= Overrun /\ remaining[req] = 0 /\ phase[req] # "idle"
      /\ \A t \in Tasks : CallFitsWith(t, Overrun - late)
  BY OverrunIsNumber, TheOnlyRequest DEF DeadlineInv, NoteInv, NoteTypes
<1>3. PICK over \in Int : over = Overrun - late
  BY <1>2
<1>4. \A t \in Tasks : CallFitsWith(t, over) /\ RequestOf[t] = req
  BY <1>2, <1>3, TheOnlyRequest
<1>5. ASSUME late' = late, remaining' = remaining, phase[req] # "idle" => phase'[req] # "idle",
             \A t \in Tasks : CallFitsWith(t, over)'
      PROVE  DeadlineInv'
  BY <1>1, <1>2, <1>3, <1>5 DEF DeadlineInv
<1>6. ASSUME late' = late, remaining' = remaining, phase[req] # "idle" => phase'[req] # "idle",
             call' = call
      PROVE  DeadlineInv'
  BY <1>4, <1>5, <1>6 DEF CallFitsWith, InFlight, TimeLeft
<1>7. CASE NoteRuns
  <2>1. PICK t \in Tasks : NoteStep(t)
    BY <1>7 DEF NoteRuns
  <2>2. late' = late /\ phase' = phase /\ remaining' = remaining /\ OthersCalls(t)
    BY <1>7, <2>1, NoteStepFrames, NoteStepCalls, NoteStepReadings DEF NoteRuns
  <2>3. over = Overrun \/ TimeLeft(t) = 0
    BY <1>2, <1>3, NoteFacts
  <2>4. CallFitsWith(t, over)'
    BY <1>4, <2>1, <2>3, NoteStepFits
  <2>5. \A u \in Tasks : CallFitsWith(u, over)'
    BY <1>4, <2>2, <2>4 DEF OthersCalls, CallFitsWith, InFlight, TimeLeft
  <2> QED BY <1>5, <2>2, <2>5
<1>8. CASE TimePasses
  <2>1. Tick /\ late' = IF remaining[req] = 0 THEN late + 1 ELSE late
    BY <1>8 DEF TimePasses
  <2>2. remaining'[req] = Minus1(remaining[req]) /\ phase' = phase /\ phase[req] # "idle"
    BY <1>8, <2>1, TheOnlyRequest DEF Tick, TimePasses, Awaiting
  <2>3. PICK then \in Int : then = IF remaining[req] = 0 THEN over - 1 ELSE over
    OBVIOUS
  <2>4. then = Overrun - late'
    BY <1>2, <1>3, <2>1, <2>3
  <2>5. ASSUME remaining[req] = 0
        PROVE  late + 1 <= Overrun
    <3>1. PICK t \in Tasks : InFlight(t) /\ call[t].left > 0
      BY <1>8, <2>5, SomethingIsAwaited DEF DeadlineInv
    <3>2. TimeToGo(call[t]) <= 0 + over
      BY <1>4, <2>5, <3>1, NoteFacts DEF CallFitsWith
    <3>3. call[t].left \in Nat
      BY NoteFacts DEF Frames
    <3> QED BY <1>2, <1>3, <3>1, <3>2, <3>3, NoteFacts
  <2>6. \A t \in Tasks : CallFitsWith(t, then)'
    BY <1>4, <2>1, <2>3, TickFits, NoteFacts
  <2> QED BY <1>1, <1>2, <2>1, <2>2, <2>4, <2>5, <2>6 DEF DeadlineInv, Minus1
<1>9. CASE StageTakesTime
  <2>1. Tick /\ phase[req] = "interpreted" /\ late' = late
    BY <1>9 DEF StageTakesTime
  <2>2. remaining'[req] = Minus1(remaining[req]) /\ phase' = phase
    BY <2>1, TheOnlyRequest DEF Tick
  <2>3. \A t \in Tasks : CallFitsWith(t, over)'
    <3>1. \A t \in Tasks : ~InFlight(t)
      BY <1>4, <2>1, NotesAtRest
    <3>2. \A t \in Tasks : call'[t].pc = call[t].pc
      BY <2>1, TickEffects DEF Tick, ChainTick, NoteInv, SharedOK
    <3> QED BY <3>1, <3>2 DEF CallFitsWith, InFlight
  <2> QED BY <1>1, <1>2, <1>3, <2>1, <2>2, <2>3 DEF DeadlineInv, Minus1
<1>10. CASE Start
  <2>1. /\ phase[req] = "idle" /\ phase' = [phase EXCEPT ![req] = "interpreting"]
        /\ call' = call /\ late' = late
    BY <1>10 DEF Start, Arrive, chainVars, clientVars
  <2>2. late = 0
    BY <1>2, <2>1
  <2>3. \A t \in Tasks : ~InFlight(t)
    BY <1>4, <2>1, NotesAtRest
  <2> QED BY <1>1, <1>2, <2>1, <2>2, <2>3 DEF DeadlineInv, CallFitsWith, InFlight
<1>11. CASE AllInterpreted \/ Corrected
  <2>1. phase' = [phase EXCEPT ![req] = "interpreted"] /\ call' = call /\ remaining' = remaining
        /\ late' = late
    BY <1>11 DEF AllInterpreted, Corrected, Gather, chainVars, clientVars
  <2> QED BY <1>6, <2>1, TheOnlyRequest DEF NoteInv, NoteTypes
<1>12. CASE AskForCorrection
  <2>1. /\ NextToCorrect \in Tasks /\ call' = call /\ remaining' = remaining /\ late' = late
        /\ phase' = [phase EXCEPT ![RequestOf[NextToCorrect]] = "correcting"]
    BY <1>12, InterpreterAssumption DEF AskForCorrection, Correct, chainVars, clientVars
  <2>2. phase' = [phase EXCEPT ![req] = "correcting"]
    BY <2>1, TheOnlyRequest
  <2> QED BY <1>6, <2>1, <2>2, TheOnlyRequest DEF NoteInv, NoteTypes
<1>13. CASE Receive \/ Solving \/ Respond \/ Over \/ UNCHANGED serviceVars
  BY <1>6, <1>13 DEF Receive, Solving, Respond, Over, serviceVars, interpreterVars, chainVars,
                    clientVars
<1> QED BY <1>7, <1>8, <1>9, <1>10, <1>11, <1>12, <1>13 DEF ServiceNext

(* Though only the interpreter watches the deadline, and the correction     *)
(* loop looks at it once (orchestrator.py:106), Gemini is awaited past it   *)
(* no longer than one call may take, with any number of notes, models, keys *)
(* and corrections: the corrections that follow give up at once.  The wait  *)
(* of interpreter.py:276 must leave more than the margin and the cutoff of  *)
(* a timeout, as 6.0 s do.  The time of the stages themselves is no part of *)
(* it.                                                                      *)
THEOREM AnswerInTime ==
    ASSUME WaitSlack > SafetyMargin + Cutoff
    PROVE  ServiceSpec => []AnsweredInTime
<1>1. ServiceInit => DeadlineInv
  BY NoJobFrame
     DEF ServiceInit, NewFrame, DeadlineInv, SleepFits, CallFitsWith, InFlight
<1>2. NoteInv /\ DeadlineInv /\ [ServiceNext]_serviceVars => DeadlineInv'
  BY DeadlineKept
<1>3. DeadlineInv => AnsweredInTime
  BY DEF DeadlineInv, AnsweredInTime
<1> QED BY <1>1, <1>2, <1>3, ServiceInvariant, PTL DEF ServiceSpec

-----------------------------------------------------------------------------
(* What the parser lets through. *)

(* A field of a body: its value, or nothing. *)
Field(S) == {s \in SUBSET S : \A v, w \in s : v = w}

LEMMA TheValue ==
    ASSUME NEW S, NEW field \in Field(S), NEW v \in field
    PROVE  The(field) = v
BY DEF Field, The

LEMMA PresentField ==
    ASSUME NEW S, NEW field \in Field(S), field # {}
    PROVE  The(field) \in field /\ The(field) \in S
BY DEF Field, The

HourEntries == [HourFields -> Field(Int)]
BatteryRecords == [BatteryFields -> Field(Int)]

LEMMA NoSemanticErrors ==
    ASSUME NEW m, SemanticErrors(m) = {}
    PROVE  /\ BatteryErrors(m.battery) = {}
           /\ \A f \in BatteryFields : ~TooLarge(m.battery[f])
           /\ \A i \in DOMAIN m.hours :
                 /\ \A f \in {"demand", "solar"} : ~(m.hours[i][f] < 0)
                 /\ \A f \in HourFields \ {"hour"} : ~TooLarge(m.hours[i][f])
<1> DEFINE bat  == BatteryErrors(m.battery) \cup SizeErrors(m.battery, BatteryFields)
           at(e) == SignErrors(e) \cup SizeErrors(e, HourFields \ {"hour"})
           entries == {m.hours[i] : i \in DOMAIN m.hours}
<1>1. /\ {<<"battery", f>> : f \in bat} \subseteq SemanticErrors(m)
      /\ UNION {{<<e.hour, f>> : f \in at(e)} : e \in entries} \subseteq SemanticErrors(m)
  BY Zenon DEF SemanticErrors
<1> HIDE DEF bat, at, entries
<1>2. bat = {}
  <2>1. {<<"battery", f>> : f \in bat} = {}
    BY <1>1
  <2> QED BY <2>1
<1>3. ASSUME NEW e \in entries PROVE at(e) = {}
  <2>1. {<<e.hour, f>> : f \in at(e)} = {}
    BY <1>1
  <2> QED BY <2>1
<1>4. \A i \in DOMAIN m.hours : at(m.hours[i]) = {}
  BY <1>3 DEF entries
<1> QED BY <1>2, <1>4 DEF bat, at, SizeErrors, SignErrors

(* The battery of an accepted body. *)
LEMMA AcceptedBattery ==
    ASSUME NEW b, b.battery \in Field(BatteryRecords), Parse(b) = 0
    PROVE  LET bat == Model(b).battery
           IN  /\ bat \in [BatteryFields -> Int]
               /\ \A f \in BatteryFields : ~TooLarge(bat[f]) /\ (f # "initial" => bat[f] >= 0)
               /\ bat.minimum <= bat.initial /\ bat.initial <= bat.capacity
<1> DEFINE bat == Model(b).battery
<1>1. StructuralErrors(b) = {} /\ SemanticErrors(Model(b)) = {}
  BY DEF Parse
<1>2. PICK v \in b.battery : BatteryOk(v)
  BY <1>1 DEF StructuralErrors
<1>3. v \in BatteryRecords /\ The(b.battery) = v /\ DOMAIN v = BatteryFields
  BY TheValue DEF Field, BatteryRecords
<1>4. bat = [f \in BatteryFields |-> The(v[f])]
  BY <1>3 DEF Model
<1>5. \A f \in BatteryFields : The(v[f]) \in Int
  BY <1>2, <1>3, PresentField DEF BatteryOk, BatteryRecords
<1>6. bat \in [BatteryFields -> Int]
  BY <1>4, <1>5
<1> HIDE DEF bat
<1>7. \A f \in BatteryFields : ~TooLarge(bat[f])
  BY <1>1, NoSemanticErrors DEF bat
<1>8. BatteryErrors(bat) = {}
  BY <1>1, NoSemanticErrors DEF bat
<1>9. /\ \A f \in BatteryFields : f # "initial" => bat[f] >= 0
      /\ bat.minimum <= bat.initial /\ bat.initial <= bat.capacity
  BY <1>6, <1>8 DEF BatteryErrors, BatteryFields
<1> QED BY <1>6, <1>7, <1>9 DEF bat

(* The hours of an accepted body, put in order. *)
LEMMA AcceptedHours ==
    ASSUME NEW b, b.hours \in Field(Seq(HourEntries)), Parse(b) = 0, NEW h \in Day
    PROVE  /\ \A f \in {"demand", "solar", "tariff"} :
                  /\ Series(Model(b))[f] \in [Day -> Int]
                  /\ ~TooLarge(Series(Model(b))[f][h])
           /\ \A f \in {"demand", "solar"} : Series(Model(b))[f][h] >= 0
<1> DEFINE hours == Model(b).hours
<1>1. StructuralErrors(b) = {} /\ SemanticErrors(Model(b)) = {}
  BY DEF Parse
<1>2. PICK v \in b.hours : HoursOk(v)
  BY <1>1 DEF StructuralErrors
<1>3. v \in Seq(HourEntries) /\ The(b.hours) = v
  BY TheValue DEF Field
<1>4. \A i \in DOMAIN v : v[i] \in HourEntries /\ HourEntryOk(v[i])
  BY <1>2, <1>3 DEF HoursOk
<1>5. hours = [i \in DOMAIN v |-> [f \in DOMAIN v[i] |-> The(v[i][f])]]
  BY <1>3 DEF Model
<1>6. \A i \in DOMAIN v : hours[i] = [f \in HourFields |-> The(v[i][f])]
  BY <1>4, <1>5 DEF HourEntries
<1>7. \A i \in DOMAIN v, f \in HourFields : The(v[i][f]) \in Int
  BY <1>4, PresentField DEF HourEntries, HourEntryOk
<1>8. DOMAIN hours = DOMAIN v /\ \A i \in DOMAIN v : hours[i] \in [HourFields -> Int]
  BY <1>5, <1>6, <1>7
<1>9. \A g \in Day : \E i \in DOMAIN v : hours[i].hour = g
  <2>1. {The(v[i].hour) : i \in DOMAIN v} = Day
    BY <1>2 DEF HoursOk
  <2> QED BY <1>6, <2>1, ZenonT(30) DEF HourFields
<1> HIDE DEF hours
<1>10. ASSUME NEW i \in DOMAIN v
       PROVE  /\ \A f \in {"demand", "solar"} : hours[i][f] >= 0
              /\ \A f \in HourFields \ {"hour"} : ~TooLarge(hours[i][f])
  <2>1. /\ \A f \in {"demand", "solar"} : ~(hours[i][f] < 0)
        /\ \A f \in HourFields \ {"hour"} : ~TooLarge(hours[i][f])
    BY <1>1, <1>8, NoSemanticErrors DEF hours
  <2>2. \A f \in {"demand", "solar"} : hours[i][f] \in Int
    BY <1>8 DEF HourFields
  <2> QED BY <2>1, <2>2
<1> DEFINE Entry(g) == CHOOSE e \in {hours[i] : i \in DOMAIN hours} : e.hour = g
<1>11. \A g \in Day : \E i \in DOMAIN v : Entry(g) = hours[i]
  BY <1>8, <1>9
<1>12. \A f \in HourFields : Series(Model(b))[f] = [g \in Day |-> Entry(g)[f]]
  BY DEF Series, hours
<1> HIDE DEF Entry
<1>13. ASSUME NEW f \in {"demand", "solar", "tariff"}
       PROVE  /\ Series(Model(b))[f] \in [Day -> Int]
              /\ ~TooLarge(Series(Model(b))[f][h])
              /\ f # "tariff" => Series(Model(b))[f][h] >= 0
  <2>1. f \in HourFields /\ f # "hour"
    BY DEF HourFields
  <2>2. \A g \in Day : Entry(g)[f] \in Int
    BY <1>8, <1>11, <2>1
  <2>3. ~TooLarge(Entry(h)[f]) /\ (f # "tariff" => Entry(h)[f] >= 0)
    BY <1>10, <1>11, <2>1
  <2> QED BY <1>12, <2>1, <2>2, <2>3
<1> QED BY <1>13

(* Whatever passes the parser is what the linear programs are made for      *)
(* (request_parser.py:21-60, request.py:98-147): a battery that starts      *)
(* between its minimum and its capacity, no negative demand or sun, no      *)
(* number beyond 1e9, whatever the order of the hours in the body.          *)
THEOREM AcceptedIsSound ==
    ASSUME NEW b, b.battery \in Field(BatteryRecords), b.hours \in Field(Seq(HourEntries)),
           Parse(b) = 0
    PROVE  Sound(Scenario(Model(b)))
<1> DEFINE bat == Model(b).battery
           in  == Scenario(Model(b))
<1>1. /\ bat \in [BatteryFields -> Int]
      /\ \A f \in BatteryFields : ~TooLarge(bat[f]) /\ (f # "initial" => bat[f] >= 0)
      /\ bat.minimum <= bat.initial /\ bat.initial <= bat.capacity
  BY AcceptedBattery
<1>2. /\ in.minimum = bat.minimum /\ in.initial = bat.initial /\ in.capacity = bat.capacity
      /\ in.maxCharge = bat.maxCharge /\ in.maxDischarge = bat.maxDischarge
      /\ in.demand = Series(Model(b))["demand"] /\ in.solar = Series(Model(b))["solar"]
      /\ in.tariff = Series(Model(b))["tariff"]
  BY DEF Scenario
<1>3. ASSUME NEW v \in Int, ~TooLarge(v)
      PROVE  -Huge <= v /\ v <= Huge
  BY <1>3, RequestAssumption DEF TooLarge
<1>4. ASSUME NEW h \in Day
      PROVE  in.demand[h] >= 0 /\ in.solar[h] >= 0
  BY <1>2, <1>4, AcceptedHours
<1>5. ASSUME NEW h \in Day, NEW f \in {"demand", "solar", "tariff"}
      PROVE  in[f][h] \in Int /\ ~TooLarge(in[f][h])
  <2>1. /\ Series(Model(b))[f] \in [Day -> Int] /\ ~TooLarge(Series(Model(b))[f][h])
    BY AcceptedHours
  <2>2. in[f] = Series(Model(b))[f]
    BY <1>2
  <2> QED BY <2>1, <2>2
<1>6. \A f \in BatteryFields : in[f] = bat[f]
  BY <1>2 DEF BatteryFields
<1> HIDE DEF in, bat
<1>7. \A v \in Numbers(in) : -Huge <= v /\ v <= Huge
  BY <1>1, <1>3, <1>5, <1>6 DEF Numbers
<1>8. /\ 0 <= in.minimum /\ in.minimum <= in.initial /\ in.initial <= in.capacity
      /\ in.maxCharge >= 0 /\ in.maxDischarge >= 0
  BY <1>1, <1>2 DEF BatteryFields
<1>9. Sound(in)
  BY <1>4, <1>7, <1>8 DEF Sound
<1> QED BY <1>9 DEF in

-----------------------------------------------------------------------------
(* run_pipeline with the coroutines implements Pipeline. *)

(* What Pipeline is told of a reading is one of its readings.               *)
LEMMA SummaryFacts ==
    ASSUME NEW a \in Assemblies \cup {NoAssembly}, a.by = "model" => ~a.degraded,
           NEW c \in BOOLEAN, NEW s \in Summaries(a, c)
    PROVE  /\ s \in [active : BOOLEAN, hedged : BOOLEAN, degraded : BOOLEAN, corrected : BOOLEAN]
           /\ s.hedged => s.active /\ ~s.degraded
           /\ s.degraded = a.degraded
           /\ s.corrected = c
<1>1. a.degraded \in BOOLEAN
  <2>1. CASE a \in Assemblies
    BY <2>1 DEF Assemblies
  <2>2. CASE a = NoAssembly
    BY <2>2 DEF NoAssembly
  <2> QED BY <2>1, <2>2
<1>2. MayApply(a) \subseteq BOOLEAN
  <2>1. CASE a.by = "rule"
    BY <2>1 DEF MayApply
  <2>2. CASE a.by = "none"
    BY <2>2 DEF MayApply
  <2>3. CASE a.by \notin {"rule", "none"}
    BY <2>3 DEF MayApply
  <2> QED BY <2>1, <2>2, <2>3
<1>3. PICK x \in MayApply(a), y \in MayHedge(a) :
         s = [active |-> x, hedged |-> y, degraded |-> a.degraded, corrected |-> c]
  BY DEF Summaries, SummariesOf
<1>4. s.hedged => s.active
  BY DEF Summaries
<1>5. x \in BOOLEAN /\ y \in BOOLEAN /\ (y => a.by = "model")
  BY <1>2, <1>3 DEF MayHedge
<1> QED BY <1>1, <1>3, <1>4, <1>5

(* How far the coroutines and the stages of run_pipeline may be apart, and  *)
(* what a correction may bring: no degraded reading for one that was none.  *)
ReadingsOK == \A t \in Tasks : job[t].result.by = "model" => ~job[t].result.degraded

StagesOK ==
    /\ phase[req] \in {"idle", "interpreting"} => pc = "interpret"
    /\ phase[req] = "correcting" => pc = "correct" /\ toCorrect # {} /\ NextToCorrect \in Tasks

NotesOK ==
    /\ DOMAIN notes = Tasks
    /\ phase[req] \in {"interpreted", "correcting"} =>
           \A t \in Tasks : job[t].result.degraded => notes[t].degraded
    /\ phase[req] = "correcting" =>
           \A t \in Tasks : job[t].pc \notin {"idle", "done"} => job[t].kind = "correct"

ServiceInv == ReadingsOK /\ StagesOK /\ NotesOK

LEMMA ServiceStarts == ServiceInit => ServiceInv /\ P!Init
<1> SUFFICES ASSUME ServiceInit PROVE ServiceInv /\ P!Init
  OBVIOUS
<1>1. req \in Requests /\ phase[req] = "idle" /\ \A t \in Tasks : job[t] = NoJob
  BY ServiceAssumption DEF ServiceInit
<1>2. P!Init
  BY DEF ServiceInit
<1>3. DOMAIN notes = Tasks /\ pc = "interpret"
  BY <1>2 DEF P!Init, P!NoReadings
<1>4. NoJob.result = NoAssembly /\ NoAssembly.by = "nothing"
  BY DEF NoJob, NewJob, NoAssembly
<1> QED BY <1>1, <1>2, <1>3, <1>4 DEF ServiceInv, ReadingsOK, StagesOK, NotesOK

LEMMA NoteRunsKeeps ==
    ASSUME NoteInv, ServiceInv, NoteRuns
    PROVE  ServiceInv' /\ UNCHANGED P!vars
<1>1. PICK t \in Tasks : NoteStep(t)
  BY DEF NoteRuns
<1>2. /\ job[t].pc \notin {"idle", "done"} /\ job'[t].kind = job[t].kind
      /\ ReadingKept(t) /\ phase' = phase
  BY <1>1, NoteStepReadings
<1>3. (\A u \in Tasks \ {t} : job'[u] = job[u]) /\ remaining' = remaining
  BY <1>1, NoteStepFrames
<1>4. UNCHANGED pipelineVars /\ phase[req] \in {"interpreting", "correcting"}
  BY DEF NoteRuns, Awaiting
<1>5. UNCHANGED P!vars
  BY <1>2, <1>3, <1>4 DEF P!vars, pipelineVars, expired
<1>6. ReadingsOK'
  BY <1>2, <1>3 DEF ServiceInv, ReadingsOK, ReadingKept
<1>7. StagesOK'
  BY <1>2, <1>4 DEF ServiceInv, StagesOK, pipelineVars, NextToCorrect
<1>8. NotesOK'
  <2>1. CASE phase[req] = "interpreting"
    BY <1>2, <1>4, <2>1 DEF ServiceInv, NotesOK, pipelineVars
  <2>2. CASE phase[req] = "correcting"
    <3>1. job[t].kind = "correct"
      BY <1>2, <2>2 DEF ServiceInv, NotesOK
    <3>2. job'[t].result.degraded => job[t].result.degraded
      BY <1>2, <3>1 DEF ReadingKept
    <3> QED BY <1>2, <1>3, <1>4, <2>2, <3>1, <3>2 DEF ServiceInv, NotesOK, pipelineVars
  <2> QED BY <1>4, <2>1, <2>2
<1> QED BY <1>5, <1>6, <1>7, <1>8 DEF ServiceInv

(* Time may pass the deadline: Expire. *)
LEMMA TimeKeeps ==
    ASSUME NoteInv, ServiceInv, TimePasses \/ StageTakesTime
    PROVE  ServiceInv' /\ [P!Next]_(P!vars)
<1>1. /\ UNCHANGED pipelineVars /\ phase' = phase
      /\ \/ phase[req] \in {"interpreting", "correcting"}
         \/ phase[req] = "interpreted" /\ pc \notin {"answered", "refused"}
      /\ remaining' = [r \in Requests |-> Minus1(remaining[r])]
      /\ job' = [t \in Tasks |-> [job[t] EXCEPT !.nap = Minus1(@)]]
  BY DEF TimePasses, StageTakesTime, Awaiting, Tick
<1>2. \A t \in Tasks : job[t] \in Jobs
  BY DEF NoteInv, NoteTypes
<1>3. \A t \in Tasks : /\ job'[t].result = job[t].result /\ job'[t].kind = job[t].kind
                       /\ job'[t].pc = job[t].pc
  BY <1>1, <1>2 DEF Jobs
<1>4. ServiceInv'
  <2>1. ReadingsOK'
    BY <1>3 DEF ServiceInv, ReadingsOK
  <2>2. StagesOK'
    BY <1>1 DEF ServiceInv, StagesOK, pipelineVars, NextToCorrect
  <2>3. NotesOK'
    <3>1. notes' = notes
      BY <1>1 DEF pipelineVars
    <3> QED BY <1>1, <1>3, <3>1 DEF ServiceInv, NotesOK
  <2> QED BY <2>1, <2>2, <2>3 DEF ServiceInv
<1>5. pc \notin {"answered", "refused"}
  BY <1>1 DEF ServiceInv, StagesOK
<1>6. req \in Requests /\ remaining[req] \in Nat
  BY ServiceAssumption DEF NoteInv, NoteTypes
<1>7. expired => expired'
  BY <1>1, <1>6 DEF expired, Minus1
<1>8. expired' \in BOOLEAN /\ expired \in BOOLEAN
  BY DEF expired
<1>9. ASSUME expired' = expired PROVE UNCHANGED P!vars
  BY <1>1, <1>9 DEF P!vars, pipelineVars
<1>10. ASSUME ~expired, expired' PROVE P!Expire
  BY <1>1, <1>5, <1>8, <1>10 DEF P!Expire, pipelineVars
<1>11. P!Expire => P!Next
  BY DEF P!Next
<1> QED BY <1>4, <1>7, <1>8, <1>9, <1>10, <1>11

LEMMA StartKeeps ==
    ASSUME NoteInv, ServiceInv, Start
    PROVE  ServiceInv' /\ [P!Next]_(P!vars)
<1>1. /\ UNCHANGED pipelineVars /\ phase[req] = "idle"
      /\ phase' = [phase EXCEPT ![req] = "interpreting"]
      /\ job' = [t \in Tasks |-> IF t \in TasksOf(req) THEN NewJob("interpret", NoAssembly)
                                                       ELSE job[t]]
  BY DEF Start, Arrive
<1>2. phase'[req] = "interpreting"
  BY <1>1, ServiceAssumption DEF NoteInv, NoteTypes
<1>3. \A t \in Tasks : job'[t].result \in {NoAssembly, job[t].result}
  BY <1>1 DEF NewJob
<1>4. NoAssembly.by # "model"
  BY DEF NoAssembly
<1>5. ServiceInv'
  BY <1>1, <1>2, <1>3, <1>4 DEF ServiceInv, ReadingsOK, StagesOK, NotesOK, pipelineVars
<1>6. ~expired /\ expired' \in BOOLEAN /\ expired \in BOOLEAN
  BY <1>1 DEF expired
<1>7. ASSUME ~expired' PROVE UNCHANGED P!vars
  BY <1>1, <1>6, <1>7 DEF P!vars, pipelineVars
<1>8. ASSUME expired' PROVE P!Expire
  <2>1. pc = "interpret"
    BY <1>1 DEF ServiceInv, StagesOK
  <2> QED BY <1>1, <1>6, <1>8, <2>1 DEF P!Expire, pipelineVars
<1>9. P!Expire => P!Next
  BY DEF P!Next
<1> QED BY <1>5, <1>6, <1>7, <1>8, <1>9

(* The notes have been read: Interpret. *)
LEMMA AllInterpretedKeeps ==
    ASSUME NoteInv, ServiceInv, AllInterpreted
    PROVE  ServiceInv' /\ P!Interpret
<1> DEFINE told == [Tasks -> UNION {Summaries(job[t].result, FALSE) : t \in Tasks}]
<1>1. /\ phase[req] = "interpreting" /\ phase' = [phase EXCEPT ![req] = "interpreted"]
      /\ job' = job /\ remaining' = remaining
  BY DEF AllInterpreted, Gather
<1>2. phase'[req] = "interpreted" /\ expired' = expired
  BY <1>1, ServiceAssumption DEF NoteInv, NoteTypes, expired
<1>3. notes' \in told /\ \A t \in Tasks : notes'[t] \in Summaries(job[t].result, FALSE)
  BY DEF AllInterpreted
<1>4. ASSUME NEW t \in Tasks
      PROVE  /\ notes'[t] \in {r \in P!Readings : ~r.corrected}
             /\ notes'[t].degraded = job[t].result.degraded
  <2>1. job[t].result \in Assemblies \cup {NoAssembly}
    BY DEF NoteInv, NoteTypes, Jobs
  <2>2. job[t].result.by = "model" => ~job[t].result.degraded
    BY DEF ServiceInv, ReadingsOK
  <2>3. notes'[t] \in Summaries(job[t].result, FALSE)
    BY <1>3
  <2> HIDE DEF told
  <2> QED BY <2>1, <2>2, <2>3, SummaryFacts DEF P!Readings
<1>5. notes' \in [Tasks -> {r \in P!Readings : ~r.corrected}]
  BY <1>3, <1>4
<1>6. degraded' = \E t \in Tasks : notes'[t].degraded
  BY <1>4 DEF AllInterpreted
<1>7. P!Interpret
  BY <1>1, <1>2, <1>5, <1>6 DEF AllInterpreted, P!Interpret, ServiceInv, StagesOK
<1>8. ServiceInv'
  BY <1>1, <1>2, <1>4, <1>5 DEF ServiceInv, ReadingsOK, StagesOK, NotesOK
<1> QED BY <1>7, <1>8

LEMMA AskForCorrectionKeeps ==
    ASSUME NoteInv, ServiceInv, AskForCorrection
    PROVE  ServiceInv' /\ UNCHANGED P!vars
<1> DEFINE n == NextToCorrect
<1>1. /\ pc = "correct" /\ toCorrect # {} /\ n \in Tasks /\ UNCHANGED pipelineVars
      /\ phase[RequestOf[n]] = "interpreted"
      /\ phase' = [phase EXCEPT ![RequestOf[n]] = "correcting"]
      /\ job' = [job EXCEPT ![n] = NewJob("correct", job[n].result)]
      /\ remaining' = remaining
  BY InterpreterAssumption DEF AskForCorrection, Correct
<1>2. NextToCorrect' = NextToCorrect
  BY <1>1 DEF NextToCorrect, pipelineVars
<1> HIDE DEF n
<1>3. \A t \in Tasks : RequestOf[t] = req
  BY ServiceAssumption, InterpreterAssumption
<1>4. phase[req] = "interpreted" /\ phase'[req] = "correcting"
  BY <1>1, <1>3, ServiceAssumption DEF NoteInv, NoteTypes
<1>5. \A t \in Tasks : job[t].pc \in {"idle", "done"}
  BY <1>3, <1>4 DEF NoteInv, TaskOK
<1>6. /\ job'[n].result = job[n].result /\ job'[n].kind = "correct"
      /\ \A t \in Tasks \ {n} : job'[t] = job[t]
  BY <1>1 DEF NewJob, NoteInv, NoteTypes
<1>7. UNCHANGED P!vars
  BY <1>1, <1>4 DEF P!vars, pipelineVars, expired
<1>8. ReadingsOK'
  BY <1>6 DEF ServiceInv, ReadingsOK
<1>9. StagesOK'
  BY <1>1, <1>2, <1>4 DEF StagesOK, pipelineVars, n
<1>10. NotesOK'
  BY <1>1, <1>4, <1>5, <1>6 DEF ServiceInv, NotesOK, pipelineVars
<1> QED BY <1>7, <1>8, <1>9, <1>10 DEF ServiceInv

(* A note has been read again: CorrectNote. *)
LEMMA CorrectedKeeps ==
    ASSUME NoteInv, ServiceInv, Corrected
    PROVE  ServiceInv' /\ P!CorrectNote
<1> DEFINE n   == NextToCorrect
           a   == job[n].result
           old == notes[n]
<1>1. /\ phase[req] = "correcting" /\ phase' = [phase EXCEPT ![req] = "interpreted"]
      /\ job' = job /\ remaining' = remaining
  BY DEF Corrected, Gather
<1>2. phase'[req] = "interpreted" /\ expired' = expired
  BY <1>1, ServiceAssumption DEF NoteInv, NoteTypes, expired
<1>3. n \in Tasks /\ pc = "correct" /\ toCorrect # {}
  BY <1>1 DEF ServiceInv, StagesOK
<1>4. PICK s : /\ notes' = [notes EXCEPT ![n] = s]
               /\ \/ s = old /\ a.degraded = old.degraded
                  \/ s \in Summaries(a, TRUE) /\ ~(a.degraded /\ old.degraded)
  BY DEF Corrected
<1>5. toCorrect' = toCorrect \ {n} /\ UNCHANGED <<policy, pc, feasible, bounds, degraded, elastic, plan>>
  BY DEF Corrected
<1>6. a \in Assemblies \cup {NoAssembly} /\ (a.by = "model" => ~a.degraded)
  BY <1>3 DEF NoteInv, NoteTypes, Jobs, ServiceInv, ReadingsOK
<1>7. a.degraded => old.degraded
  BY <1>1, <1>3 DEF ServiceInv, NotesOK
<1> HIDE DEF a
<1>8. s \in {r \in P!Readings : r.corrected} \cup {old}
  <2>1. CASE s \in Summaries(a, TRUE) /\ ~(a.degraded /\ old.degraded)
    <3>1. /\ s \in [active : BOOLEAN, hedged : BOOLEAN, degraded : BOOLEAN, corrected : BOOLEAN]
          /\ s.hedged => s.active /\ ~s.degraded
          /\ s.degraded = a.degraded /\ s.corrected = TRUE
      BY <1>6, <2>1, SummaryFacts
    <3>2. ~a.degraded
      BY <1>7, <2>1
    <3> QED BY <3>1, <3>2 DEF P!Readings
  <2> QED BY <1>4, <2>1
<1>9. a.degraded => s.degraded
  <2>1. CASE s \in Summaries(a, TRUE)
    BY <1>6, <2>1, SummaryFacts
  <2> QED BY <1>4, <2>1
<1>10. P!CorrectNote
  BY <1>2, <1>3, <1>4, <1>5, <1>8 DEF P!CorrectNote, NextToCorrect
<1> HIDE DEF n
<1>11. ReadingsOK' /\ StagesOK'
  BY <1>1, <1>2 DEF ServiceInv, ReadingsOK, StagesOK
<1>12. NotesOK'
  <2>1. DOMAIN notes = Tasks
    BY DEF ServiceInv, NotesOK
  <2>2. notes'[n] = s /\ DOMAIN notes' = Tasks /\ \A t \in Tasks \ {n} : notes'[t] = notes[t]
    BY <1>3, <1>4, <2>1
  <2>3. ASSUME NEW t \in Tasks, job'[t].result.degraded PROVE notes'[t].degraded
    <3>1. CASE t = n
      BY <1>1, <1>9, <2>2, <2>3, <3>1 DEF a
    <3>2. CASE t # n
      BY <1>1, <2>2, <2>3, <3>2 DEF ServiceInv, NotesOK
    <3> QED BY <3>1, <3>2
  <2> QED BY <1>2, <2>2, <2>3 DEF NotesOK
<1> QED BY <1>10, <1>11, <1>12 DEF ServiceInv

(* The stages of run_pipeline are Pipeline's. *)
LEMMA SolvingKeeps ==
    ASSUME ServiceInv, Solving
    PROVE  ServiceInv' /\ P!Next
<1>1. phase[req] = "interpreted" /\ phase' = phase /\ job' = job
  BY DEF Solving, interpreterVars
<1>2. P!Next
  BY DEF Solving, P!Next, P!Stage
<1>3. notes' = notes
  BY DEF Solving, P!SolveHedged, P!SolvePlain, P!Diagnose, P!CorrectionDone, P!Resolve,
         P!ResolveAgain, P!Policy, P!Postprocess, P!Replay
<1> QED BY <1>1, <1>2, <1>3 DEF ServiceInv, ReadingsOK, StagesOK, NotesOK

LEMMA OthersKeep ==
    ASSUME ServiceInv, Receive \/ Respond \/ Over \/ UNCHANGED serviceVars
    PROVE  ServiceInv' /\ UNCHANGED P!vars
<1>1. UNCHANGED interpreterVars /\ UNCHANGED pipelineVars
  BY DEF Receive, Respond, Over, serviceVars
<1>2. phase' = phase /\ job' = job /\ remaining' = remaining
  BY <1>1 DEF interpreterVars
<1>3. UNCHANGED P!vars
  BY <1>1, <1>2 DEF P!vars, pipelineVars, expired
<1> QED BY <1>1, <1>2, <1>3
        DEF ServiceInv, ReadingsOK, StagesOK, NotesOK, pipelineVars, NextToCorrect

LEMMA ServiceNextKeeps ==
    ASSUME NoteInv, ServiceInv, [ServiceNext]_serviceVars
    PROVE  ServiceInv' /\ [P!Next]_(P!vars)
<1>1. CASE AllInterpreted
  BY <1>1, AllInterpretedKeeps DEF P!Next, P!Stage
<1>2. CASE Corrected
  BY <1>2, CorrectedKeeps DEF P!Next, P!Stage
<1> QED BY <1>1, <1>2, NoteRunsKeeps, TimeKeeps, StartKeeps, AskForCorrectionKeeps,
           SolvingKeeps, OthersKeep DEF ServiceNext

(* With the notes read by coroutines that share keys, breakers and a cache, *)
(* are repaired, wait and fall back, run_pipeline does what Pipeline says,  *)
(* for any number of notes, models and keys: what is proved of Pipeline     *)
(* holds of the service.                                                    *)
THEOREM ServiceImplementsPipeline == ServiceSpec => ImplementsPipeline
<1>1. ServiceInit => ServiceInv /\ P!Init
  BY ServiceStarts
<1>2. NoteInv /\ ServiceInv /\ [ServiceNext]_serviceVars => ServiceInv' /\ [P!Next]_(P!vars)
  BY ServiceNextKeeps
<1> QED BY <1>1, <1>2, ServiceInvariant, PTL DEF ServiceSpec, ImplementsPipeline, P!Spec

-----------------------------------------------------------------------------
(* The status of an answer. *)

(* A body, with each field of its type or missing. *)
IsBody(b) ==
    /\ b.notes \in Field(Seq({"text", "blank", "long", "wrongType"}))
    /\ b.hours \in Field(Seq(HourEntries))
    /\ b.battery \in Field(BatteryRecords)

(* As many entries as hours, an entry for each hour: one for each, and none *)
(* for anything else.                                                       *)
LEMMA OneEntryEach ==
    ASSUME NEW n \in Nat, n = Cardinality(Day), NEW at, DOMAIN at = 1 .. n,
           \A h \in Day : \E i \in 1 .. n : at[i] = h
    PROVE  /\ \A i \in 1 .. n : at[i] \in Day
           /\ \A i, j \in 1 .. n : at[i] = at[j] => i = j
<1> DEFINE I == {i \in 1 .. n : at[i] \in Day}
           f == [i \in I |-> at[i]]
<1>1. IsFiniteSet(1 .. n) /\ Cardinality(1 .. n) = n
  BY FS_Interval
<1>2. I \in SUBSET (1 .. n)
  OBVIOUS
<1>3. IsFiniteSet(I) /\ Cardinality(I) <= n /\ (Cardinality(I) = n => I = 1 .. n)
  <2> HIDE DEF I
  <2> QED BY <1>1, <1>2, FS_Subset
<1>4. f \in Surjection(I, Day)
  BY DEF Surjection
<1> HIDE DEF f
<1>5. /\ Cardinality(Day) <= Cardinality(I)
      /\ Cardinality(Day) = Cardinality(I) <=> f \in Injection(I, Day)
  <2> HIDE DEF I
  <2> QED BY <1>3, <1>4, FS_Surjection
<1>6. Cardinality(I) \in Nat /\ Cardinality(Day) \in Nat
  <2> HIDE DEF I
  <2> QED BY <1>3, FS_CardinalityType
<1>7. Cardinality(I) = n
  BY <1>3, <1>5, <1>6
<1>8. I = 1 .. n
  BY <1>3, <1>7
<1>9. f \in Injection(1 .. n, Day)
  BY <1>5, <1>7, <1>8
<1>10. \A i, j \in 1 .. n : f[i] = f[j] => i = j
  BY <1>9 DEF Injection, IsInjective
<1>11. \A i \in 1 .. n : f[i] = at[i]
  BY <1>8 DEF f
<1> QED BY <1>8, <1>10, <1>11, SMTT(20)

(* The hours, as the documents and as the validators have them. *)
CompleteDay(list) ==
    /\ Len(list) = Cardinality(Day)
    /\ \A h \in Day : \E i \in DOMAIN list : list[i].hour = {h}
    /\ \A i \in DOMAIN list : \A f \in HourFields : list[i][f] # {}

LEMMA HoursOkMeans ==
    ASSUME NEW list \in Seq(HourEntries)
    PROVE  HoursOk(list) <=> CompleteDay(list)
<1> DEFINE at == [i \in 1 .. Len(list) |-> The(list[i].hour)]
<1>1. DOMAIN list = 1 .. Len(list) /\ Len(list) \in Nat
  OBVIOUS
<1>2. \A i \in DOMAIN list : list[i].hour \in Field(Int)
  <2>1. \A i \in DOMAIN list : list[i] \in HourEntries
    OBVIOUS
  <2>2. \A e \in HourEntries : e["hour"] \in Field(Int)
    BY DEF HourEntries, HourFields
  <2> QED BY <2>1, <2>2
<1>3. \A i \in DOMAIN list : \A h : list[i].hour = {h} => The(list[i].hour) = h
  <2>1. \A h : The({h}) = h
    BY DEF The
  <2> QED BY <2>1
<1>4. \A i \in DOMAIN list : list[i].hour # {} => list[i].hour = {The(list[i].hour)}
  <2>1. ASSUME NEW s \in Field(Int), s # {} PROVE s = {The(s)}
    <3>1. The(s) \in s
      BY <2>1, PresentField
    <3> QED BY <3>1 DEF Field
  <2> QED BY <1>2, <2>1
<1>5. ASSUME HoursOk(list)
      PROVE  CompleteDay(list)
  <2>1. \A i \in DOMAIN list : \A f \in HourFields : list[i][f] # {}
    BY <1>5 DEF HoursOk, HourEntryOk
  <2>2. \A i \in DOMAIN list : list[i].hour = {The(list[i].hour)}
    BY <1>4, <2>1 DEF HourFields
  <2>3. \A h \in Day : \E i \in DOMAIN list : The(list[i].hour) = h
    BY <1>5 DEF HoursOk
  <2> QED BY <1>5, <2>1, <2>2, <2>3 DEF HoursOk, CompleteDay
<1>6. ASSUME CompleteDay(list)
      PROVE  HoursOk(list)
  <2>0. \A h \in Day : \E i \in DOMAIN list : The(list[i].hour) = h
    BY <1>3, <1>6 DEF CompleteDay
  <2>1. \A h \in Day : \E i \in 1 .. Len(list) : at[i] = h
    BY <1>1, <2>0
  <2>2. \A i \in 1 .. Len(list) : at[i] \in Day
    <3> HIDE DEF at
    <3>1. DOMAIN at = 1 .. Len(list)
      BY DEF at
    <3>2. Len(list) = Cardinality(Day)
      BY <1>6 DEF CompleteDay
    <3> QED BY <1>1, <2>1, <3>1, <3>2, OneEntryEach
  <2>3. \A i \in DOMAIN list : The(list[i].hour) \in Day /\ list[i].hour = {The(list[i].hour)}
    BY <1>1, <1>4, <1>6, <2>2 DEF CompleteDay, HourFields
  <2>4. \A i \in DOMAIN list : HourEntryOk(list[i])
    BY <1>6, <2>3 DEF HourEntryOk, CompleteDay
  <2>5. {The(list[i].hour) : i \in DOMAIN list} = Day
    BY <1>1, <2>1, <2>3
  <2> QED BY <1>6, <2>4, <2>5 DEF HoursOk, CompleteDay
<1> QED BY <1>5, <1>6

(* The structure, field by field, is what the documents ask for. *)
LEMMA StructureMeans ==
    ASSUME NEW b, IsBody(b)
    PROVE  b.form = "object" /\ StructuralErrors(b) = {} <=> WellFormed(b)
<1>1. StructuralErrors(b) = {} <=>
          /\ b.scenario = {"named"}
          /\ \E v \in b.notes : NotesOk(v)
          /\ \E v \in b.hours : HoursOk(v)
          /\ \E v \in b.battery : BatteryOk(v)
  BY DEF StructuralErrors
<1>2. ASSUME NEW v \in b.notes
      PROVE  NotesOk(v) <=> /\ 0 < Len(v) /\ Len(v) <= MaxNotes
                            /\ \A i \in DOMAIN v : v[i] \in {"text", "long"}
  <2>1. v \in Seq({"text", "blank", "long", "wrongType"})
    BY DEF IsBody, Field
  <2>2. /\ Len(v) \in Nat
        /\ \A i \in DOMAIN v : v[i] \in {"text", "blank", "long", "wrongType"}
    BY <2>1
  <2> QED BY <2>2, RequestAssumption DEF NotesOk
<1>3. ASSUME NEW v \in b.hours
      PROVE  HoursOk(v) <=> CompleteDay(v)
  BY HoursOkMeans DEF IsBody, Field
<1> QED BY <1>1, <1>2, <1>3 DEF WellFormed, CompleteDay, BatteryOk

(* The semantic checks look at every entry of a well-formed day, and the    *)
(* optimizer gets every entry.                                              *)
LEMMA SeriesHasAll ==
    ASSUME NEW b, b.hours \in Field(Seq(HourEntries)), NEW v \in b.hours, CompleteDay(v),
           NEW i \in DOMAIN Model(b).hours, NEW f \in HourFields
    PROVE  /\ Model(b).hours[i].hour \in Day
           /\ Series(Model(b))[f][Model(b).hours[i].hour] = Model(b).hours[i][f]
           /\ Model(b).hours[i] \in [HourFields -> Int]
<1> DEFINE hours == Model(b).hours
           at == [j \in 1 .. Len(v) |-> The(v[j].hour)]
<1>1. v \in Seq(HourEntries) /\ The(b.hours) = v
  BY TheValue DEF Field
<1>2. \A j \in DOMAIN v : v[j] \in HourEntries /\ DOMAIN v[j] = HourFields
  BY <1>1 DEF HourEntries
<1>3. /\ DOMAIN hours = DOMAIN v
      /\ \A j \in DOMAIN v : hours[j] = [g \in HourFields |-> The(v[j][g])]
  <2>1. hours = [j \in DOMAIN v |-> [g \in DOMAIN v[j] |-> The(v[j][g])]]
    BY <1>1 DEF Model
  <2> QED BY <1>2, <2>1
<1> HIDE DEF hours
<1>4. \A j \in DOMAIN v, g \in HourFields : The(v[j][g]) \in Int
  <2>1. ASSUME NEW j \in DOMAIN v, NEW g \in HourFields
        PROVE  v[j][g] \in Field(Int) /\ v[j][g] # {}
    BY <1>2, <2>1 DEF HourEntries, CompleteDay
  <2> QED BY <2>1, PresentField
<1>5. \A j \in DOMAIN v : hours[j] \in [HourFields -> Int] /\ hours[j].hour = The(v[j].hour)
  BY <1>3, <1>4 DEF HourFields
<1>6. DOMAIN v = 1 .. Len(v) /\ Len(v) \in Nat /\ Len(v) = Cardinality(Day)
  BY <1>1 DEF CompleteDay
<1>7. \A h \in Day : \E j \in 1 .. Len(v) : at[j] = h
  <2>1. \A h : The({h}) = h
    BY DEF The
  <2> QED BY <1>6, <2>1 DEF CompleteDay
<1>8. DOMAIN at = 1 .. Len(v) /\ \A j \in 1 .. Len(v) : at[j] = hours[j].hour
  BY <1>5, <1>6
<1> HIDE DEF at
<1>9. /\ \A j \in 1 .. Len(v) : at[j] \in Day
      /\ \A j, k \in 1 .. Len(v) : at[j] = at[k] => j = k
  BY <1>6, <1>7, <1>8, OneEntryEach
<1>10. \A j, k \in DOMAIN hours : hours[j].hour = hours[k].hour => j = k
  BY <1>3, <1>6, <1>8, <1>9
<1> DEFINE Entry(h) == CHOOSE e \in {hours[j] : j \in DOMAIN hours} : e.hour = h
<1>11. Entry(hours[i].hour) = hours[i]
  <2>1. \E e \in {hours[j] : j \in DOMAIN hours} : e.hour = hours[i].hour
    BY DEF hours
  <2>2. /\ Entry(hours[i].hour) \in {hours[j] : j \in DOMAIN hours}
        /\ Entry(hours[i].hour).hour = hours[i].hour
    BY <2>1
  <2> QED BY <1>10, <2>2 DEF hours
<1>12. Series(Model(b))[f] = [h \in Day |-> Entry(h)[f]]
  BY DEF Series, hours
<1> HIDE DEF Entry
<1>13. i \in DOMAIN v /\ hours[i].hour \in Day
  BY <1>3, <1>6, <1>8, <1>9 DEF hours
<1> QED BY <1>5, <1>11, <1>12, <1>13 DEF hours

(* A request that describes a sound day passes the semantic checks. *)
LEMMA SoundIsAccepted ==
    ASSUME NEW b, IsBody(b), StructuralErrors(b) = {}, Sound(Scenario(Model(b))),
           \A i \in DOMAIN Model(b).notes : Model(b).notes[i] # "long"
    PROVE  SemanticErrors(Model(b)) = {}
<1> DEFINE m == Model(b)
           in == Scenario(m)
           entries == {m.hours[i] : i \in DOMAIN m.hours}
<1>1. PICK v \in b.hours : CompleteDay(v)
  <2>1. \E v \in b.hours : HoursOk(v)
    BY DEF StructuralErrors
  <2> QED BY <2>1, HoursOkMeans DEF IsBody, Field
<1>2. PICK w \in b.battery : BatteryOk(w)
  BY DEF StructuralErrors
<1>3. m.battery \in [BatteryFields -> Int]
  <2>1. w \in BatteryRecords /\ The(b.battery) = w /\ DOMAIN w = BatteryFields
    <3>1. b.battery \in Field(BatteryRecords)
      BY DEF IsBody
    <3>2. w \in BatteryRecords
      BY <3>1 DEF Field
    <3>3. The(b.battery) = w
      BY <3>1, TheValue
    <3> QED BY <3>2, <3>3 DEF BatteryRecords
  <2>2. m.battery = [f \in BatteryFields |-> The(w[f])]
    BY <2>1 DEF Model
  <2>3. \A f \in BatteryFields : The(w[f]) \in Int
    BY <1>2, <2>1, PresentField DEF BatteryOk, BatteryRecords
  <2> QED BY <2>2, <2>3
<1>4. /\ in.minimum = m.battery.minimum /\ in.initial = m.battery.initial
      /\ in.capacity = m.battery.capacity
      /\ in.maxCharge = m.battery.maxCharge /\ in.maxDischarge = m.battery.maxDischarge
      /\ in.demand = Series(m)["demand"] /\ in.solar = Series(m)["solar"]
      /\ in.tariff = Series(m)["tariff"]
  BY DEF Scenario
<1>5. \A f \in BatteryFields : in[f] = m.battery[f]
  BY <1>4 DEF BatteryFields
<1>6. ASSUME NEW i \in DOMAIN m.hours
      PROVE  /\ m.hours[i].hour \in Day /\ m.hours[i] \in [HourFields -> Int]
             /\ \A f \in {"demand", "solar", "tariff"} : in[f][m.hours[i].hour] = m.hours[i][f]
  <2>1. \A f \in HourFields : /\ m.hours[i].hour \in Day
                              /\ Series(m)[f][m.hours[i].hour] = m.hours[i][f]
                              /\ m.hours[i] \in [HourFields -> Int]
    BY <1>1, SeriesHasAll DEF IsBody
  <2> QED BY <1>4, <2>1 DEF HourFields
<1>7. \A i \in DOMAIN m.notes : m.notes[i] # "long"
  OBVIOUS
<1> HIDE DEF m, in
<1>8. Sound(in)
  BY DEF in, m
<1>9. ASSUME NEW x \in Int, -Huge <= x, x <= Huge PROVE ~TooLarge(x)
  BY <1>9, RequestAssumption DEF TooLarge
<1>10. ASSUME NEW f \in BatteryFields PROVE ~TooLarge(m.battery[f])
  <2>1. in[f] \in Numbers(in)
    BY DEF Numbers
  <2> QED BY <1>3, <1>5, <1>8, <1>9, <2>1 DEF Sound
<1>11. BatteryErrors(m.battery) = {}
  <2>1. /\ \A f \in BatteryFields \ {"initial"} : m.battery[f] >= 0
        /\ m.battery.minimum <= m.battery.initial /\ m.battery.initial <= m.battery.capacity
    BY <1>3, <1>4, <1>8 DEF Sound, BatteryFields
  <2>2. \A f \in BatteryFields \ {"initial"} : ~(m.battery[f] < 0)
    BY <1>3, <2>1
  <2>3. ~(m.battery.minimum > m.battery.capacity)
    BY <1>3, <2>1 DEF BatteryFields
  <2> QED BY <2>1, <2>2, <2>3 DEF BatteryErrors
<1>12. ASSUME NEW e \in entries PROVE SignErrors(e) = {} /\ SizeErrors(e, HourFields \ {"hour"}) = {}
  <2>1. PICK i \in DOMAIN m.hours : e = m.hours[i]
    OBVIOUS
  <2>2. \A f \in {"demand", "solar", "tariff"} : ~TooLarge(e[f])
    <3>1. ASSUME NEW f \in {"demand", "solar", "tariff"}
          PROVE  in[f][e.hour] \in Numbers(in) /\ e[f] = in[f][e.hour] /\ e[f] \in Int
      <4>1. e.hour \in Day /\ e \in [HourFields -> Int] /\ e[f] = in[f][e.hour]
        BY <1>6, <2>1
      <4> QED BY <4>1 DEF Numbers, HourFields
    <3> QED BY <1>8, <1>9, <3>1 DEF Sound
  <2>3. \A f \in {"demand", "solar"} : ~(e[f] < 0)
    <3>1. ASSUME NEW f \in {"demand", "solar"} PROVE e[f] \in Int /\ e[f] >= 0
      <4>1. e.hour \in Day /\ e \in [HourFields -> Int] /\ e[f] = in[f][e.hour]
        BY <1>6, <2>1
      <4> QED BY <1>8, <4>1 DEF Sound, HourFields
    <3> QED BY <3>1
  <2> QED BY <2>2, <2>3 DEF SignErrors, SizeErrors, HourFields
<1>13. SizeErrors(m.battery, BatteryFields) = {}
  BY <1>10 DEF SizeErrors
<1> DEFINE bat == BatteryErrors(m.battery) \cup SizeErrors(m.battery, BatteryFields)
           of(e) == SignErrors(e) \cup SizeErrors(e, HourFields \ {"hour"})
<1>14. SemanticErrors(m) =
           {<<"battery", f>> : f \in bat} \cup UNION {{<<e.hour, f>> : f \in of(e)} : e \in entries}
  BY <1>7, Zenon DEF SemanticErrors
<1>15. bat = {} /\ \A e \in entries : of(e) = {}
  BY <1>11, <1>12, <1>13
<1> HIDE DEF bat, of, entries
<1>16. \A e \in entries : {<<e.hour, f>> : f \in of(e)} = {}
  BY <1>15
<1>17. SemanticErrors(m) = {}
  BY <1>14, <1>15, <1>16
<1> QED BY <1>17 DEF m

(* parse_request gives the status of the documents.                         *)
LEMMA ParseMeans ==
    ASSUME NEW b, IsBody(b)
    PROVE  Parse(b) = IF ~WellFormed(b) THEN 400 ELSE IF ~Valid(b) THEN 422 ELSE 0
<1>1. b.form = "object" /\ StructuralErrors(b) = {} <=> WellFormed(b)
  BY StructureMeans
<1>2. ASSUME WellFormed(b)
      PROVE  SemanticErrors(Model(b)) = {} <=> Valid(b)
  <2>1. ASSUME SemanticErrors(Model(b)) = {}
        PROVE  Valid(b)
    <3>1. Parse(b) = 0
      BY <1>1, <1>2, <2>1 DEF Parse
    <3>2. b.battery \in Field(BatteryRecords) /\ b.hours \in Field(Seq(HourEntries))
      BY DEF IsBody
    <3>3. Sound(Scenario(Model(b)))
      BY <3>1, <3>2, AcceptedIsSound
    <3>4. \A i \in DOMAIN Model(b).notes : Model(b).notes[i] # "long"
      BY <2>1 DEF SemanticErrors
    <3> QED BY <1>2, <3>3, <3>4 DEF Valid
  <2>2. ASSUME Valid(b)
        PROVE  SemanticErrors(Model(b)) = {}
    BY <1>1, <2>2, SoundIsAccepted DEF Valid
  <2> QED BY <2>1, <2>2
<1> QED BY <1>1, <1>2 DEF Parse, Valid

(* Until run_pipeline begins the request is its body, and only what         *)
(* run_pipeline refuses is answered with 422 afterwards.                    *)
StatusInv ==
    /\ body # {} => phase[req] = "idle" /\ \E b \in Bodies : body = {b} /\ status = Parse(b)
    /\ body = {} => status \in {0, 200} \/ (status = 422 /\ pc = "refused")

RefusalInv ==
    /\ pc \in {"diagnose", "policy", "refused"} => ~feasible.plain
    /\ pc = "refused" => policy = "error"

LEMMA RefusalKept == RefusalInv /\ [P!Next]_(P!vars) => RefusalInv'
<1> SUFFICES ASSUME RefusalInv, [P!Next]_(P!vars) PROVE RefusalInv'
  OBVIOUS
<1> USE DEF RefusalInv
<1>1. ASSUME P!Interpret \/ P!SolveHedged \/ P!SolvePlain \/ P!Resolve \/ P!ResolveAgain
      PROVE  RefusalInv'
  BY <1>1 DEF P!Interpret, P!SolveHedged, P!SolvePlain, P!Resolve, P!ResolveAgain
<1>2. ASSUME P!Diagnose \/ P!CorrectNote \/ P!CorrectionDone PROVE RefusalInv'
  BY <1>2 DEF P!Diagnose, P!CorrectNote, P!CorrectionDone
<1>3. ASSUME P!Policy \/ P!Postprocess \/ P!Replay \/ P!Expire PROVE RefusalInv'
  BY <1>3 DEF P!Policy, P!Postprocess, P!Replay, P!Expire
<1>4. ASSUME UNCHANGED P!vars PROVE RefusalInv'
  BY <1>4 DEF P!vars
<1> QED BY <1>1, <1>2, <1>3, <1>4 DEF P!Next, P!Stage

LEMMA StatusKept ==
    ASSUME ServiceInv, StatusInv, [ServiceNext]_serviceVars
    PROVE  StatusInv'
<1> USE DEF StatusInv
<1>1. CASE Receive
  <2>1. PICK b \in Bodies : body' = {b} /\ status' = Parse(b)
    BY <1>1 DEF Receive
  <2>2. phase' = phase /\ phase[req] = "idle"
    BY <1>1 DEF Receive, interpreterVars
  <2> QED BY <2>1, <2>2
<1>2. CASE Start
  BY <1>2 DEF Start
<1>3. ASSUME \/ NoteRuns \/ TimePasses \/ StageTakesTime \/ AllInterpreted
             \/ AskForCorrection \/ Corrected \/ Solving
      PROVE  StatusInv'
  <2>1. body' = body /\ status' = status
    BY <1>3 DEF NoteRuns, TimePasses, StageTakesTime, AllInterpreted, AskForCorrection,
                Corrected, Solving
  <2>2. phase[req] # "idle"
    BY <1>3 DEF NoteRuns, TimePasses, StageTakesTime, AllInterpreted, AskForCorrection,
                Corrected, Solving,
                Awaiting, ServiceInv, StagesOK
  <2>3. pc = "refused" => pc' = "refused"
    BY <1>3 DEF NoteRuns, TimePasses, StageTakesTime, AllInterpreted, AskForCorrection,
                Corrected, Solving,
                pipelineVars, P!SolveHedged, P!SolvePlain, P!Diagnose, P!CorrectionDone,
                P!Resolve, P!ResolveAgain, P!Policy, P!Postprocess, P!Replay,
                Awaiting, ServiceInv, StagesOK
  <2> QED BY <2>1, <2>2, <2>3
<1>4. CASE Respond
  <2>1. phase' = phase /\ pc' = pc /\ body' = body /\ status' = StatusOf
        /\ pc \in {"answered", "refused"}
    BY <1>4 DEF Respond, interpreterVars, pipelineVars
  <2>2. phase[req] # "idle"
    BY <2>1 DEF ServiceInv, StagesOK
  <2> QED BY <2>1, <2>2 DEF StatusOf
<1>5. CASE Over \/ UNCHANGED serviceVars
  BY <1>5 DEF Over, serviceVars, interpreterVars, pipelineVars
<1> QED BY <1>1, <1>2, <1>3, <1>4, <1>5 DEF ServiceNext

(* The status matrix of planning.md 6.3, for any length of the day, any     *)
(* numbers and any lists: what parse_request finds field by field, first in *)
(* the structure and then in the values, is what the documents say of the   *)
(* whole body; and whatever Gemini does, a valid request is answered with   *)
(* 200, or with 422 for directives that conflict if so configured.          *)
THEOREM StatusIsAsDocumented ==
    ASSUME \A b \in Bodies : IsBody(b)
    PROVE  ServiceSpec => []StatusAsDocumented
<1>1. ServiceInit => ServiceInv /\ P!Init
  BY ServiceStarts
<1>2. ServiceInit => StatusInv /\ RefusalInv
  BY DEF ServiceInit, StatusInv, RefusalInv, P!Init
<1>3. NoteInv /\ ServiceInv /\ [ServiceNext]_serviceVars => ServiceInv' /\ [P!Next]_(P!vars)
  BY ServiceNextKeeps
<1>4. RefusalInv /\ [P!Next]_(P!vars) => RefusalInv'
  BY RefusalKept
<1>5. ServiceInv /\ StatusInv /\ [ServiceNext]_serviceVars => StatusInv'
  BY StatusKept
<1>6. StatusInv /\ RefusalInv => StatusAsDocumented
  <2> SUFFICES ASSUME StatusInv, RefusalInv PROVE StatusAsDocumented
    OBVIOUS
  <2>1. ASSUME NEW b \in body
        PROVE  status = IF ~WellFormed(b) THEN 400 ELSE IF ~Valid(b) THEN 422 ELSE 0
    <3>1. b \in Bodies /\ status = Parse(b)
      BY <2>1 DEF StatusInv
    <3> QED BY <3>1, ParseMeans
  <2>2. body = {} => status \in {0, 200} \/ (status = 422 /\ policy = "error" /\ ~feasible.plain)
    BY DEF StatusInv, RefusalInv
  <2> QED BY <2>1, <2>2 DEF StatusAsDocumented
<1> QED BY <1>1, <1>2, <1>3, <1>4, <1>5, <1>6, ServiceInvariant, PTL DEF ServiceSpec
=============================================================================
