------------------------------ MODULE Service ------------------------------
(***************************************************************************)
(* One request to POST /optimize-energy from its body to its answer        *)
(* (src/app/api/routes.py, app/main.py): the request is parsed, its notes  *)
(* are read by the coroutines of NoteInterpreter, and run_pipeline,        *)
(* Pipeline's stages, solves, has notes corrected, and answers.  What      *)
(* earlier requests leave behind (parked keys, open breakers, cached       *)
(* readings) is there from the start.                                      *)
(*                                                                         *)
(* A note is the task that reads it.  The stages run on the event loop,    *)
(* from one await of run_pipeline to the next: meanwhile no coroutine      *)
(* runs, but time may pass, the deadline too.                              *)
(***************************************************************************)
EXTENDS NoteInterpreter, RequestSchema

CONSTANTS
    req,     \* the request
    Bodies   \* what may be sent

ASSUME ServiceAssumption == Requests = {req} /\ Tasks \subseteq Nat /\ Correctable = Tasks

VARIABLES
    body,    \* of the request, until run_pipeline begins
    status,  \* of the answer, 0 before
    late,    \* history: for how long notes were awaited after the deadline
    policy, pc, notes, feasible, bounds, degraded, toCorrect, elastic, plan  \* Pipeline's

pipelineVars == <<policy, pc, notes, feasible, bounds, degraded, toCorrect, elastic, plan>>
serviceVars == <<interpreterVars, body, status, late, pipelineVars>>

expired == phase[req] # "idle" /\ remaining[req] = 0

P == INSTANCE Pipeline WITH Notes <- Tasks

-----------------------------------------------------------------------------
(* optimize_energy up to run_pipeline *)
Receive ==
    /\ body = {} /\ status = 0 /\ phase[req] = "idle"
    /\ \E b \in Bodies : body' = {b} /\ status' = Parse(b)
    /\ UNCHANGED <<interpreterVars, late, pipelineVars>>

(* run_pipeline makes the deadline and has the notes read.  The tasks of    *)
(* this instance are the notes of the request.                              *)
Start ==
    /\ \E b \in body : status = 0 /\ Len(Model(b).notes) = Cardinality(Tasks)
    /\ body' = {}
    /\ Arrive(req)
    /\ UNCHANGED <<status, late, pipelineVars>>

(* run_pipeline awaits the notes, or the correction of one of them. *)
Awaiting == phase[req] \in {"interpreting", "correcting"}

NoteRuns ==
    /\ Awaiting
    /\ \E t \in Tasks : NoteStep(t)
    /\ UNCHANGED <<body, status, late, pipelineVars>>

TimePasses ==
    /\ Awaiting
    /\ Tick
    /\ late' = IF remaining[req] = 0 THEN late + 1 ELSE late
    /\ UNCHANGED <<body, status, pipelineVars>>

(* solve, diagnose, postprocess and replay take their time. *)
StageTakesTime ==
    /\ phase[req] = "interpreted" /\ pc \notin {"answered", "refused"}
    /\ Tick
    /\ UNCHANGED <<body, status, late, pipelineVars>>

(* What Pipeline is told of a reading: the directives of the rules have no  *)
(* hedges, a note without a reading has no directives, the LLM is free.     *)
MayApply(a) == CASE a.by = "rule" -> {TRUE} [] a.by = "none" -> {FALSE} [] OTHER -> BOOLEAN
MayHedge(a) == IF a.by = "model" THEN BOOLEAN ELSE {FALSE}

SummariesOf(a, isCorrection) ==
    {[active |-> active, hedged |-> hedged, degraded |-> a.degraded, corrected |-> isCorrection] :
        active \in MayApply(a), hedged \in MayHedge(a)}

Summaries(a, isCorrection) == {s \in SummariesOf(a, isCorrection) : s.hedged => s.active}

(* gather returns, and run_pipeline goes on. *)
AllInterpreted ==
    /\ phase[req] = "interpreting"
    /\ Gather(req)
    /\ notes' \in {s \in [Tasks -> UNION {Summaries(job[t].result, FALSE) : t \in Tasks}] :
                      \A t \in Tasks : s[t] \in Summaries(job[t].result, FALSE)}
    /\ feasible' \in P!Outcomes(notes')
    /\ degraded' = \E t \in Tasks : job[t].result.degraded
    /\ pc' = "solveHedged"
    /\ UNCHANGED <<body, status, late, policy, bounds, toCorrect, elastic, plan>>

NextToCorrect == CHOOSE n \in toCorrect : \A m \in toCorrect : n <= m

AskForCorrection ==
    /\ pc = "correct" /\ toCorrect # {}
    /\ Correct(NextToCorrect)
    /\ UNCHANGED <<body, status, late, pipelineVars>>

(* correct_note returns a new reading, or the previous one; only that a     *)
(* previous one was degraded tells them apart here.                         *)
Corrected ==
    /\ phase[req] = "correcting"
    /\ Gather(req)
    /\ LET a    == job[NextToCorrect].result
           old  == notes[NextToCorrect]
           kept == IF a.degraded = old.degraded THEN {old} ELSE {}
           new  == IF a.degraded /\ old.degraded THEN {} ELSE Summaries(a, TRUE)
       IN  \E s \in kept \cup new : notes' = [notes EXCEPT ![NextToCorrect] = s]
    /\ toCorrect' = toCorrect \ {NextToCorrect}
    /\ UNCHANGED <<body, status, late, policy, pc, feasible, bounds, degraded, elastic, plan>>

(* The stages between two awaits. *)
Solving ==
    /\ phase[req] = "interpreted"
    /\ UNCHANGED <<interpreterVars, body, status, late>>
    /\ \/ P!SolveHedged \/ P!SolvePlain \/ P!Diagnose \/ P!CorrectionDone
       \/ P!Resolve \/ P!ResolveAgain \/ P!Policy \/ P!Postprocess \/ P!Replay

StatusOf == IF pc = "refused" THEN 422 ELSE 200

Respond ==
    /\ pc \in {"answered", "refused"} /\ status = 0
    /\ status' = StatusOf
    /\ UNCHANGED <<interpreterVars, body, late, pipelineVars>>

(* The request is answered, or is one whose notes this instance has no     *)
(* tasks for.                                                              *)
Over ==
    /\ status = 0 => \E b \in body : Len(Model(b).notes) # Cardinality(Tasks)
    /\ UNCHANGED serviceVars

LeftBehind == [by : {"model"}, model : Models, soft : BOOLEAN, degraded : {FALSE}]

ServiceInit ==
    /\ parked \in [Models -> [Keys -> 0 .. DefaultPark]]
    /\ noThinking = {}
    /\ rr = 0
    /\ call = [t \in Tasks |-> NewFrame(CHOOSE m \in Models : TRUE)]
    /\ openFor \in [Models -> 0 .. BreakerTime]
    /\ \/ Cache!Init
       \/ /\ MaxCache > 0
          /\ \E k \in CacheKeys, a \in LeftBehind :
                /\ order = <<k>>
                /\ content = [c \in CacheKeys |-> IF c = k THEN a ELSE NoAssembly]
    /\ remaining = [r \in Requests |-> 0]
    /\ phase = [r \in Requests |-> "idle"]
    /\ job = [t \in Tasks |-> NoJob]
    /\ running = NoTask
    /\ body = {} /\ status = 0 /\ late = 0
    /\ P!Init

ServiceNext ==
    \/ Receive \/ Start \/ NoteRuns \/ TimePasses \/ StageTakesTime \/ AllInterpreted
    \/ AskForCorrection \/ Corrected \/ Solving \/ Respond \/ Over

ServiceSpec == ServiceInit /\ [][ServiceNext]_serviceVars

-----------------------------------------------------------------------------
(* The status matrix of planning.md 6.3, in terms of what is sent.          *)
WellFormed(b) ==
    /\ b.form = "object"
    /\ b.scenario = {"named"}
    /\ \E list \in b.notes : /\ 0 < Len(list) /\ Len(list) <= MaxNotes
                            /\ \A i \in DOMAIN list : list[i] \in {"text", "long"}
    /\ \E list \in b.hours :
          /\ Len(list) = Cardinality(Day)
          /\ \A h \in Day : \E i \in DOMAIN list : list[i].hour = {h}
          /\ \A i \in DOMAIN list : \A f \in HourFields : list[i][f] # {}
    /\ \E record \in b.battery : \A f \in BatteryFields : record[f] # {}

Numbers(in) ==
    {in[f] : f \in BatteryFields} \cup UNION {{in[f][h] : h \in Day} : f \in {"demand", "solar", "tariff"}}

(* What the optimizer is made for: DispatchPipeline's ScenarioAssumption.   *)
Sound(in) ==
    /\ 0 <= in.minimum /\ in.minimum <= in.initial /\ in.initial <= in.capacity
    /\ in.maxCharge >= 0 /\ in.maxDischarge >= 0
    /\ \A h \in Day : in.demand[h] >= 0 /\ in.solar[h] >= 0
    /\ \A v \in Numbers(in) : -Huge <= v /\ v <= Huge

Valid(b) ==
    /\ WellFormed(b)
    /\ Sound(Scenario(Model(b)))
    /\ \A i \in DOMAIN Model(b).notes : Model(b).notes[i] # "long"

(* A body that is not well-formed is answered with 400, one that is but     *)
(* describes no sound day with 422, and no other is turned away; whatever   *)
(* Gemini does, a valid request gets a plan, or 422 if the service is       *)
(* configured to refuse ("LLM outage: 200 (degraded path); never 5xx for    *)
(* valid input", planning.md 6.3).                                          *)
StatusAsDocumented ==
    /\ \A b \in body : status = IF ~WellFormed(b) THEN 400 ELSE IF ~Valid(b) THEN 422 ELSE 0
    /\ body = {} => status \in {0, 200} \/ (status = 422 /\ policy = "error" /\ ~feasible.plain)

(* How far request_deadline_s holds for the whole request, which only the   *)
(* interpreter watches and the correction loop looks at once                *)
(* (orchestrator.py:106): however many notes are read, wait and are         *)
(* corrected one after the other, Gemini is awaited past the deadline no    *)
(* longer than one call may take (Overrun); the rest is the stages' own     *)
(* time.                                                                    *)
AnsweredInTime == late = 0 \/ late <= Overrun

(* With the notes read by these coroutines run_pipeline is what Pipeline    *)
(* says: each correction replaces the reading of one implicated note by a   *)
(* reading of the LLM or leaves it, and the flag tells the degraded ones.   *)
ImplementsPipeline == P!Spec
=============================================================================
