------------------------------ MODULE Pipeline ------------------------------
(***************************************************************************)
(* run_pipeline of src/app/pipeline/orchestrator.py for one request:       *)
(* interpret, solve with and without hedges, correct the notes a conflict  *)
(* implicates, solve elastically or refuse, post-process, replay, and fall *)
(* back to the idle plan.                                                  *)
(*                                                                         *)
(* What the LP, the post-processing and the replay find is data here: each *)
(* is any outcome the inputs allow.  Solving the same bounds twice gives   *)
(* the same outcome.  That dropping hedges helps is not assumed: two       *)
(* negative solar factors multiply to a positive one (constraints.py:36).  *)
(***************************************************************************)
EXTENDS Integers

CONSTANT Notes  \* indices of the operator notes

ASSUME PipelineAssumption == Notes \subseteq Nat

VARIABLES
    policy,     \* settings.infeasible_policy of this process
    pc,         \* the next stage
    notes,      \* assemblies: the reading of each note
    feasible,   \* what solve finds for these readings, with and without hedges
    bounds,     \* the readings, and whether hedges, that bounds was built from;
                \* without any reading once the idle plan has replaced it
    degraded,   \* interp.meta["degraded"]
    toCorrect,  \* the implicated notes the correction loop has still to reach
    expired,    \* deadline.expired()
    elastic,
    plan        \* the plan, and the bounds a replay has found it to satisfy

vars == <<policy, pc, notes, feasible, bounds, degraded, toCorrect, expired, elastic, plan>>

(* A reading: has it directives, has it hedges, was it made without the     *)
(* LLM, and is it the reply to a correction prompt.                         *)
Readings == {r \in [active : BOOLEAN, hedged : BOOLEAN, degraded : BOOLEAN, corrected : BOOLEAN] :
                /\ r.hedged => r.active /\ ~r.degraded
                /\ r.corrected => ~r.degraded}

Policies == {"best_effort", "error"}

Stages == {"interpret", "solveHedged", "solvePlain", "diagnose", "correct", "resolve",
           "resolveAgain", "policy", "postprocess", "replay", "answered", "refused"}

NoReading == [active |-> FALSE, hedged |-> FALSE, degraded |-> FALSE, corrected |-> FALSE]
NoReadings == [n \in Notes |-> NoReading]

Bounds == [from : [Notes -> Readings], hedges : BOOLEAN]

NoPlan == [kind |-> "none", checked |-> "nothing"]

Plans == [kind : {"none", "optimal", "elastic", "idle"},
          checked : {"directives", "physics", "nothing"}]

Active(asm) == {n \in Notes : asm[n].active}

(* What solve may find for the readings asm. *)
Outcomes(asm) ==
    {f \in [hedged : BOOLEAN, plain : BOOLEAN] :
        /\ Active(asm) = {} => f.hedged
        /\ (\A n \in Notes : ~asm[n].hedged) => f.hedged = f.plain}

Rebuild(hedges) == bounds' = [from |-> notes, hedges |-> hedges]

-----------------------------------------------------------------------------
(* Mutant: the request counts as degraded only when every note is. *)
InterpretAll ==
    /\ pc = "interpret"
    /\ notes' \in [Notes -> {r \in Readings : ~r.corrected}]
    /\ feasible' \in Outcomes(notes')
    /\ degraded' = (\A n \in Notes : notes'[n].degraded)
    /\ pc' = "solveHedged"
    /\ UNCHANGED <<policy, bounds, toCorrect, expired, elastic, plan>>

(* interpret_request gives every note a reading. *)
Interpret ==
    /\ pc = "interpret"
    /\ notes' \in [Notes -> {r \in Readings : ~r.corrected}]
    /\ feasible' \in Outcomes(notes')
    /\ degraded' = (\E n \in Notes : notes'[n].degraded)
    /\ pc' = "solveHedged"
    /\ UNCHANGED <<policy, bounds, toCorrect, expired, elastic, plan>>

SolveHedged ==
    /\ pc = "solveHedged"
    /\ Rebuild(TRUE)
    /\ pc' = IF feasible.hedged THEN "postprocess" ELSE "solvePlain"
    /\ UNCHANGED <<policy, notes, feasible, degraded, toCorrect, expired, elastic, plan>>

SolvePlain ==
    /\ pc = "solvePlain"
    /\ Rebuild(FALSE)
    /\ pc' = IF feasible.plain THEN "postprocess" ELSE "diagnose"
    /\ UNCHANGED <<policy, notes, feasible, degraded, toCorrect, expired, elastic, plan>>

(* diagnose names notes whose directives conflict; they are corrected if    *)
(* there is time left now.                                                  *)
Diagnose ==
    /\ pc = "diagnose"
    /\ \E implicated \in SUBSET Active(notes) :
          \/ /\ implicated # {} /\ ~expired
             /\ toCorrect' = implicated
             /\ pc' = "correct"
          \/ /\ expired
             /\ pc' = "policy"
             /\ UNCHANGED toCorrect
    /\ UNCHANGED <<policy, notes, feasible, bounds, degraded, expired, elastic, plan>>

(* correct_note for the next implicated note, in index order: a new reading *)
(* by the LLM, or the previous one when the call fails.                     *)
CorrectNote ==
    /\ pc = "correct"
    /\ toCorrect # {}
    /\ LET n == CHOOSE n \in toCorrect : \A m \in toCorrect : n <= m
       IN  /\ \E r \in {r \in Readings : r.corrected} \cup {notes[n]} :
                 notes' = [notes EXCEPT ![n] = r]
           /\ toCorrect' = toCorrect \ {n}
    /\ UNCHANGED <<policy, pc, feasible, bounds, degraded, expired, elastic, plan>>

CorrectionDone ==
    /\ pc = "correct"
    /\ toCorrect = {}
    /\ feasible' \in IF notes = bounds.from THEN {feasible} ELSE Outcomes(notes)
    /\ pc' = "resolve"
    /\ UNCHANGED <<policy, notes, bounds, degraded, toCorrect, expired, elastic, plan>>

(* Mutants: the bounds are not rebuilt from the corrected readings; they    *)
(* are rebuilt with hedges, which are not dropped again.                    *)
ResolveStale ==
    /\ pc = "resolve"
    /\ pc' = IF feasible.plain THEN "postprocess" ELSE "resolveAgain"
    /\ UNCHANGED <<policy, notes, feasible, bounds, degraded, toCorrect, expired, elastic, plan>>

ResolveHedged ==
    /\ pc = "resolve"
    /\ Rebuild(TRUE)
    /\ pc' = IF feasible.hedged THEN "postprocess" ELSE "policy"
    /\ UNCHANGED <<policy, notes, feasible, degraded, toCorrect, expired, elastic, plan>>

(* include_hedges=not hedges_dropped, and the hedges have been dropped. *)
Resolve ==
    /\ pc = "resolve"
    /\ Rebuild(FALSE)
    /\ pc' = IF feasible.plain THEN "postprocess" ELSE "resolveAgain"
    /\ UNCHANGED <<policy, notes, feasible, degraded, toCorrect, expired, elastic, plan>>

ResolveAgain ==
    /\ pc = "resolveAgain"
    /\ Rebuild(FALSE)
    /\ pc' = IF feasible.plain THEN "postprocess" ELSE "policy"
    /\ UNCHANGED <<policy, notes, feasible, degraded, toCorrect, expired, elastic, plan>>

Policy ==
    /\ pc = "policy"
    /\ \/ /\ policy = "error"
          /\ pc' = "refused"
          /\ UNCHANGED elastic
       \/ /\ policy # "error"
          /\ pc' = "postprocess"
          /\ elastic' = TRUE
    /\ UNCHANGED <<policy, notes, feasible, bounds, degraded, toCorrect, expired, plan>>

(* A PostprocessError, which takes a grid cap, leads to the elastic LP      *)
(* without a cap.                                                           *)
Postprocess ==
    /\ pc = "postprocess"
    /\ \/ /\ plan' = [kind |-> IF elastic THEN "elastic" ELSE "optimal", checked |-> "nothing"]
          /\ UNCHANGED elastic
       \/ /\ ~elastic
          /\ Active(bounds.from) # {}
          /\ plan' = [kind |-> "elastic", checked |-> "nothing"]
          /\ elastic' = TRUE
    /\ pc' = "replay"
    /\ UNCHANGED <<policy, notes, feasible, bounds, degraded, toCorrect, expired>>

(* Mutant: a plan of a kind that nothing else knows. *)
UnknownFallback ==
    /\ plan' = [kind |-> "fallback", checked |-> "nothing"]
    /\ bounds' = [from |-> NoReadings, hedges |-> FALSE]

(* The idle plan comes with bounds that are built from no directive at all. *)
IdleFallback ==
    /\ plan' = [kind |-> "idle", checked |-> "nothing"]
    /\ bounds' = [from |-> NoReadings, hedges |-> FALSE]

(* Mutant: the plan that replaces a failed one is not announced. *)
ReplaySilent ==
    /\ pc = "replay"
    /\ pc' = "answered"
    /\ \/ /\ plan' = [plan EXCEPT !.checked = IF elastic THEN "physics" ELSE "directives"]
          /\ UNCHANGED bounds
       \/ IdleFallback
    /\ UNCHANGED <<policy, notes, feasible, degraded, toCorrect, expired, elastic>>

(* replay against the physics of an elastic plan, against all bounds        *)
(* otherwise.  A plan that fails is replaced: by the idle plan, or, unless  *)
(* it was elastic, by an elastic one that passes against all bounds.        *)
Replay ==
    /\ pc = "replay"
    /\ pc' = "answered"
    /\ \/ /\ plan' = [plan EXCEPT !.checked = IF elastic THEN "physics" ELSE "directives"]
          /\ UNCHANGED <<bounds, elastic>>
       \/ /\ elastic
          /\ IdleFallback
          /\ UNCHANGED elastic
       \/ /\ ~elastic
          /\ elastic' = TRUE
          /\ \/ /\ plan' = [kind |-> "elastic", checked |-> "directives"]
                /\ UNCHANGED bounds
             \/ IdleFallback
    /\ UNCHANGED <<policy, notes, feasible, degraded, toCorrect, expired>>

(* Time passes the deadline, during any stage. *)
Expire ==
    /\ pc \notin {"answered", "refused"}
    /\ ~expired
    /\ expired' = TRUE
    /\ UNCHANGED <<policy, pc, notes, feasible, bounds, degraded, toCorrect, elastic, plan>>

Init ==
    /\ policy \in Policies
    /\ pc = "interpret"
    /\ notes = NoReadings
    /\ feasible = [hedged |-> TRUE, plain |-> TRUE]
    /\ bounds = [from |-> notes, hedges |-> FALSE]
    /\ degraded = FALSE
    /\ toCorrect = {}
    /\ expired = FALSE
    /\ elastic = FALSE
    /\ plan = NoPlan

Stage ==
    \/ Interpret \/ SolveHedged \/ SolvePlain \/ Diagnose \/ CorrectNote \/ CorrectionDone
    \/ Resolve \/ ResolveAgain \/ Policy \/ Postprocess \/ Replay

Next == Stage \/ Expire

Spec == Init /\ [][Next]_vars
FairSpec == Spec /\ WF_vars(Stage)

-----------------------------------------------------------------------------
TypeOK ==
    /\ policy \in Policies
    /\ pc \in Stages
    /\ notes \in [Notes -> Readings]
    /\ feasible \in [hedged : BOOLEAN, plain : BOOLEAN]
    /\ bounds \in Bounds
    /\ degraded \in BOOLEAN
    /\ toCorrect \subseteq Notes
    /\ expired \in BOOLEAN
    /\ elastic \in BOOLEAN
    /\ plan \in Plans

(* The plan is computed, post-processed and replayed for the very readings  *)
(* the response reports, corrected ones included (orchestrator.py:130-131   *)
(* after 112 and 118-121).  Only the idle plan, which is made for no        *)
(* reading (lines 154 and 169), is sent without: it is announced as one     *)
(* that may break directives.                                               *)
PlanIsForReportedNotes ==
    /\ pc \in {"postprocess", "replay"} => bounds.from = notes
    /\ pc = "answered" => IF plan.kind = "idle" THEN elastic ELSE bounds.from = notes

(* The problem that bounds states has a solution. *)
BoundsAreFeasible == IF bounds.hedges THEN feasible.hedged ELSE feasible.plain

(* "applied = primary u alternative ..., only if the LP stays feasible"     *)
(* (planning.md 4.9): run_pipeline refuses the request, or sets out to bend *)
(* its directives, only when the reported readings are infeasible without   *)
(* any hedge, and a plan that it does not announce as bent solves a         *)
(* feasible problem.  (A feasible problem's directives may still be bent    *)
(* later, by a PostprocessError or a failed replay, lines 145-170.)         *)
GivesUpOnlyWithoutHedges ==
    /\ pc \in {"policy", "refused"} \/ (pc = "postprocess" /\ elastic) =>
           ~feasible.plain /\ bounds = [from |-> notes, hedges |-> FALSE]
    /\ pc \in {"postprocess", "replay", "answered"} /\ ~elastic => BoundsAreFeasible

(* A plan made with a degraded reading says so (orchestrator.py:148 of the  *)
(* interpreter's meta, 174): corrections never hide it.                     *)
DegradationAnnounced ==
    pc = "answered" /\ (\E n \in Notes : notes[n].degraded) => degraded

(* "One or more notes were interpreted in degraded (non-LLM) mode"          *)
(* (plan_summary.py:33): some note of the plan was.                         *)
DegradationTrue ==
    pc = "answered" /\ degraded => \E n \in Notes : notes[n].degraded

(* "Every response generated by GridWise passes through replay.py before    *)
(* being sent" (README.md:186).                                             *)
EveryPlanReplayed == pc = "answered" => plan.checked # "nothing"

(* The response, as the client of the service sees it. *)
Response ==
    CASE pc = "answered" -> [status |-> "plan", checked |-> plan.checked, announced |-> elastic]
      [] pc = "refused"  -> [status |-> "refused", checked |-> "nothing", announced |-> FALSE]
      [] OTHER           -> [status |-> "pending", checked |-> "nothing", announced |-> FALSE]

(* run_pipeline keeps the promise of PlanService, and always answers.       *)
Service == INSTANCE PlanService WITH answer <- Response

KeepsPromise == Service!Spec
AlwaysAnswers == Service!FairSpec
=============================================================================
