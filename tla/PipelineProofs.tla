--------------------------- MODULE PipelineProofs ---------------------------
(***************************************************************************)
(* Proofs about Pipeline, for any number of notes: the plan belongs to the *)
(* readings the response reports, directives are given up on only without  *)
(* hedges, degradation is announced, and run_pipeline keeps the promise of *)
(* PlanService.                                                            *)
(***************************************************************************)
EXTENDS Pipeline, TLAPS

(* The stages after which the bounds, without hedges, are known to be       *)
(* infeasible for the readings.                                             *)
KnownInfeasible ==
    pc \in {"diagnose", "policy", "refused"} =>
        ~feasible.plain /\ bounds = [from |-> notes, hedges |-> FALSE]

(* Directives are not bent before the plan is made, and it is not the idle  *)
(* plan before it has been replayed.                                        *)
NotBentYet ==
    /\ pc \notin {"postprocess", "replay", "answered"} => ~elastic
    /\ pc # "answered" => plan.kind # "idle"

(* A degraded reading is flagged at every stage, not only in the answer.    *)
DegradationFlagged == (\E n \in Notes : notes[n].degraded) => degraded

(* The inductive invariant. *)
PipelineInv ==
    /\ TypeOK
    /\ PlanIsForReportedNotes
    /\ KnownInfeasible
    /\ NotBentYet
    /\ GivesUpOnlyWithoutHedges
    /\ DegradationFlagged

-----------------------------------------------------------------------------
LEMMA InitInv == Init => PipelineInv
<1> SUFFICES ASSUME Init PROVE PipelineInv
  OBVIOUS
<1>1. NoReading \in Readings
  BY DEF NoReading, Readings
<1>2. notes \in [Notes -> Readings]
  BY <1>1 DEF Init, NoReadings
<1>3. bounds \in Bounds
  BY <1>2 DEF Init, Bounds
<1>4. NoPlan \in Plans
  BY DEF NoPlan, Plans
<1>5. TypeOK
  BY <1>2, <1>3, <1>4 DEF Init, TypeOK, Stages
<1>6. DegradationFlagged
  BY DEF Init, DegradationFlagged, NoReadings, NoReading
<1> QED BY <1>5, <1>6 DEF Init, PipelineInv, PlanIsForReportedNotes, KnownInfeasible,
                          NotBentYet, GivesUpOnlyWithoutHedges, NoPlan

(* A rebuild makes the bounds those of the readings. *)
LEMMA RebuildTypes ==
    ASSUME TypeOK, NEW h \in BOOLEAN, Rebuild(h)
    PROVE  /\ bounds' \in Bounds
           /\ bounds' = [from |-> notes, hedges |-> h]
           /\ bounds'.from = notes
BY DEF TypeOK, Rebuild, Bounds

LEMMA InterpretKeepsInv == PipelineInv /\ Interpret => PipelineInv'
<1> SUFFICES ASSUME PipelineInv, Interpret PROVE PipelineInv'
  OBVIOUS
<1>1. notes' \in [Notes -> Readings]
  BY DEF Interpret
<1>2. feasible' \in [hedged : BOOLEAN, plain : BOOLEAN]
  BY DEF Interpret, Outcomes
<1>3. TypeOK'
  BY <1>1, <1>2 DEF PipelineInv, TypeOK, Interpret, Stages, Policies
<1>4. DegradationFlagged'
  BY DEF Interpret, DegradationFlagged
<1> QED BY <1>3, <1>4 DEF PipelineInv, Interpret, PlanIsForReportedNotes, KnownInfeasible,
                          NotBentYet, GivesUpOnlyWithoutHedges

(* The four stages that rebuild and solve. *)
LEMMA SolvingKeepsInv ==
    PipelineInv /\ (SolveHedged \/ SolvePlain \/ Resolve \/ ResolveAgain) => PipelineInv'
<1> SUFFICES ASSUME PipelineInv, SolveHedged \/ SolvePlain \/ Resolve \/ ResolveAgain
             PROVE  PipelineInv'
  OBVIOUS
<1> USE DEF PipelineInv
<1>1. PICK h \in BOOLEAN :
          /\ Rebuild(h)
          /\ h => pc' \in {"postprocess", "solvePlain"}
          /\ pc' = "postprocess" => IF h THEN feasible.hedged ELSE feasible.plain
  <2>1. CASE SolveHedged
    BY <2>1 DEF SolveHedged
  <2>2. CASE SolvePlain \/ Resolve \/ ResolveAgain
    BY <2>2 DEF SolvePlain, Resolve, ResolveAgain
  <2> QED BY <2>1, <2>2
<1>2. bounds' \in Bounds /\ bounds' = [from |-> notes, hedges |-> h] /\ bounds'.from = notes
  BY <1>1, RebuildTypes
<1>3. /\ UNCHANGED <<policy, notes, feasible, degraded, toCorrect, expired, elastic, plan>>
      /\ pc' \in {"postprocess", "solvePlain", "diagnose", "resolveAgain", "policy"}
      /\ pc' \in {"diagnose", "policy"} => ~feasible.plain
      /\ pc \notin {"postprocess", "replay", "answered"}
  BY DEF SolveHedged, SolvePlain, Resolve, ResolveAgain
<1>4. TypeOK'
  BY <1>2, <1>3 DEF TypeOK, Stages
<1>5. PlanIsForReportedNotes'
  BY <1>2, <1>3 DEF PlanIsForReportedNotes
<1>6. KnownInfeasible'
  BY <1>1, <1>2, <1>3 DEF KnownInfeasible
<1>7. NotBentYet' /\ ~elastic'
  BY <1>3 DEF NotBentYet
<1>8. GivesUpOnlyWithoutHedges'
  <2>1. pc' = "postprocess" => BoundsAreFeasible'
    BY <1>1, <1>2, <1>3 DEF BoundsAreFeasible
  <2> QED BY <1>3, <1>6, <1>7, <2>1 DEF GivesUpOnlyWithoutHedges, KnownInfeasible
<1>9. DegradationFlagged'
  BY <1>3 DEF DegradationFlagged
<1> QED BY <1>4, <1>5, <1>6, <1>7, <1>8, <1>9

LEMMA DiagnoseKeepsInv == PipelineInv /\ Diagnose => PipelineInv'
<1> SUFFICES ASSUME PipelineInv, Diagnose PROVE PipelineInv'
  OBVIOUS
<1> USE DEF PipelineInv
<1>1. toCorrect' \subseteq Notes /\ pc' \in {"correct", "policy"}
  BY DEF Diagnose, Active, TypeOK
<1>2. UNCHANGED <<policy, notes, feasible, bounds, degraded, expired, elastic, plan>>
      /\ pc = "diagnose"
  BY DEF Diagnose
<1>3. TypeOK'
  BY <1>1, <1>2 DEF TypeOK, Stages
<1>4. PlanIsForReportedNotes' /\ KnownInfeasible' /\ DegradationFlagged'
  BY <1>1, <1>2 DEF PlanIsForReportedNotes, KnownInfeasible, DegradationFlagged
<1>5. NotBentYet' /\ GivesUpOnlyWithoutHedges'
  BY <1>1, <1>2 DEF NotBentYet, KnownInfeasible, GivesUpOnlyWithoutHedges
<1> QED BY <1>3, <1>4, <1>5

(* A corrected reading is never degraded, so the flag stays right. *)
LEMMA CorrectNoteKeepsInv == PipelineInv /\ CorrectNote => PipelineInv'
<1> SUFFICES ASSUME PipelineInv, CorrectNote PROVE PipelineInv'
  OBVIOUS
<1> USE DEF PipelineInv
<1> DEFINE first == CHOOSE n \in toCorrect : \A m \in toCorrect : n <= m
<1>1. PICK r \in {r \in Readings : r.corrected} \cup {notes[first]} :
          notes' = [notes EXCEPT ![first] = r]
  BY DEF CorrectNote
<1>2. /\ UNCHANGED <<policy, pc, feasible, bounds, degraded, expired, elastic, plan>>
      /\ pc = "correct"
      /\ toCorrect' \subseteq toCorrect
  BY DEF CorrectNote
<1> HIDE DEF first
<1>3. \A n \in Notes : notes'[n] = notes[n] \/ (n = first /\ notes'[n] = r)
  BY <1>1 DEF TypeOK
<1>4. \A n \in Notes : notes'[n] = notes[n] \/ (notes'[n] \in Readings /\ ~notes'[n].degraded)
  BY <1>3 DEF TypeOK, Readings
<1>5. notes' \in [Notes -> Readings]
  <2>1. DOMAIN notes' = Notes /\ notes' = [n \in Notes |-> notes'[n]]
    BY <1>1 DEF TypeOK
  <2>2. \A n \in Notes : notes'[n] \in Readings
    BY <1>4 DEF TypeOK
  <2> QED BY <2>1, <2>2
<1>6. TypeOK'
  BY <1>2, <1>5 DEF TypeOK
<1>7. DegradationFlagged'
  BY <1>2, <1>4 DEF DegradationFlagged
<1> QED BY <1>2, <1>6, <1>7 DEF PlanIsForReportedNotes, KnownInfeasible, NotBentYet,
                                GivesUpOnlyWithoutHedges

LEMMA CorrectionDoneKeepsInv == PipelineInv /\ CorrectionDone => PipelineInv'
<1> SUFFICES ASSUME PipelineInv, CorrectionDone PROVE PipelineInv'
  OBVIOUS
<1> USE DEF PipelineInv
<1>1. feasible' \in [hedged : BOOLEAN, plain : BOOLEAN]
  BY DEF CorrectionDone, Outcomes, TypeOK
<1>2. pc = "correct" /\ pc' = "resolve"
      /\ UNCHANGED <<policy, notes, bounds, degraded, toCorrect, expired, elastic, plan>>
  BY DEF CorrectionDone
<1>3. TypeOK'
  BY <1>1, <1>2 DEF TypeOK, Stages
<1> QED BY <1>2, <1>3 DEF PlanIsForReportedNotes, KnownInfeasible, DegradationFlagged,
                          NotBentYet, GivesUpOnlyWithoutHedges

(* Policy, post-processing and the clock change neither readings nor        *)
(* bounds.                                                                  *)
LEMMA AnsweringKeepsInv ==
    PipelineInv /\ (Policy \/ Postprocess \/ Expire) => PipelineInv'
<1> SUFFICES ASSUME PipelineInv, Policy \/ Postprocess \/ Expire
             PROVE  PipelineInv'
  OBVIOUS
<1> USE DEF PipelineInv
<1>1. UNCHANGED <<policy, notes, feasible, bounds, degraded, toCorrect>>
  BY DEF Policy, Postprocess, Expire
<1>2. expired' \in BOOLEAN /\ elastic' \in BOOLEAN
  BY DEF Policy, Postprocess, Expire, TypeOK
<1>3. plan' \in Plans
  BY DEF Policy, Postprocess, Expire, TypeOK, Plans
<1>4. pc' \in Stages
  BY DEF Policy, Postprocess, Expire, TypeOK, Stages
<1>5. TypeOK'
  BY <1>1, <1>2, <1>3, <1>4 DEF TypeOK
<1>6. /\ pc' \in {"postprocess", "replay"} => pc \in {"postprocess", "replay", "policy"}
      /\ pc' = "answered" => pc = "answered"
      /\ pc' \in {"diagnose", "policy", "refused"} => pc \in {"diagnose", "policy"}
  BY DEF Policy, Postprocess, Expire
<1>7. PlanIsForReportedNotes'
  BY <1>1, <1>6 DEF PlanIsForReportedNotes, KnownInfeasible, Policy, Postprocess, Expire
<1>8. KnownInfeasible' /\ DegradationFlagged'
  BY <1>1, <1>6 DEF KnownInfeasible, DegradationFlagged
<1>9. NotBentYet'
  BY DEF NotBentYet, Policy, Postprocess, Expire
<1>10. GivesUpOnlyWithoutHedges'
  <2>1. BoundsAreFeasible' = BoundsAreFeasible
    BY <1>1 DEF BoundsAreFeasible
  <2>2. CASE Policy
    BY <1>1, <2>2 DEF Policy, KnownInfeasible, GivesUpOnlyWithoutHedges
  <2>3. CASE Postprocess
    BY <1>1, <2>1, <2>3 DEF Postprocess, GivesUpOnlyWithoutHedges
  <2>4. CASE Expire
    BY <1>1, <2>1, <2>4 DEF Expire, GivesUpOnlyWithoutHedges
  <2> QED BY <2>2, <2>3, <2>4
<1> QED BY <1>5, <1>7, <1>8, <1>9, <1>10

(* The answer is the plan that was replayed, or a plan announced as bent.   *)
LEMMA ReplayKeepsInv == PipelineInv /\ Replay => PipelineInv'
<1> SUFFICES ASSUME PipelineInv, Replay PROVE PipelineInv'
  OBVIOUS
<1> USE DEF PipelineInv
<1>1. /\ UNCHANGED <<policy, notes, feasible, degraded, toCorrect, expired>>
      /\ pc = "replay" /\ pc' = "answered"
      /\ elastic' \in BOOLEAN
      /\ ~elastic' => ~elastic
      /\ bounds' = bounds \/ (bounds' = [from |-> NoReadings, hedges |-> FALSE] /\ elastic')
  BY DEF Replay, IdleFallback, TypeOK
<1>2. /\ plan' \in Plans
      /\ bounds' # bounds => plan'.kind = "idle"
      /\ plan'.kind = "idle" => elastic'
  BY <1>1 DEF Replay, IdleFallback, NotBentYet, TypeOK, Plans
<1>3. NoReadings \in [Notes -> Readings]
  BY DEF NoReadings, NoReading, Readings
<1>4. TypeOK'
  <2>1. [from |-> NoReadings, hedges |-> FALSE] \in Bounds
    BY <1>3 DEF Bounds
  <2>2. bounds' \in Bounds
    BY <1>1, <2>1 DEF TypeOK
  <2> QED BY <1>1, <1>2, <2>2 DEF TypeOK, Stages
<1>5. ~elastic' => BoundsAreFeasible'
  BY <1>1 DEF GivesUpOnlyWithoutHedges, BoundsAreFeasible
<1> QED BY <1>1, <1>2, <1>4, <1>5 DEF PlanIsForReportedNotes, KnownInfeasible, NotBentYet,
           GivesUpOnlyWithoutHedges, DegradationFlagged

LEMMA NextKeepsInv == PipelineInv /\ [Next]_vars => PipelineInv'
<1> SUFFICES ASSUME PipelineInv, [Next]_vars PROVE PipelineInv'
  OBVIOUS
<1>1. CASE Interpret
  BY <1>1, InterpretKeepsInv
<1>2. CASE SolveHedged \/ SolvePlain \/ Resolve \/ ResolveAgain
  BY <1>2, SolvingKeepsInv
<1>3. CASE Diagnose
  BY <1>3, DiagnoseKeepsInv
<1>4. CASE CorrectNote
  BY <1>4, CorrectNoteKeepsInv
<1>5. CASE CorrectionDone
  BY <1>5, CorrectionDoneKeepsInv
<1>6. CASE Policy \/ Postprocess \/ Expire
  BY <1>6, AnsweringKeepsInv
<1>7. CASE Replay
  BY <1>7, ReplayKeepsInv
<1>8. CASE UNCHANGED vars
  BY <1>8 DEF PipelineInv, TypeOK, PlanIsForReportedNotes, KnownInfeasible, NotBentYet,
              GivesUpOnlyWithoutHedges, BoundsAreFeasible, DegradationFlagged, vars
<1> QED BY <1>1, <1>2, <1>3, <1>4, <1>5, <1>6, <1>7, <1>8 DEF Next, Stage

(* The inductive invariant holds in every state. *)
THEOREM PipelineInvariant == Spec => []PipelineInv
<1>1. Init => PipelineInv
  BY InitInv
<1>2. PipelineInv /\ [Next]_vars => PipelineInv'
  BY NextKeepsInv
<1> QED BY <1>1, <1>2, PTL DEF Spec

(* Every stage leaves the locals of run_pipeline in their ranges; no        *)
(* correction names a note the request does not have (orchestrator.py:      *)
(* 65-187).                                                                 *)
THEOREM PipelineTypes == Spec => []TypeOK
<1>1. PipelineInv => TypeOK
  BY DEF PipelineInv
<1> QED BY <1>1, PipelineInvariant, PTL

(* The plan is made and checked for the very readings that are reported,    *)
(* corrected ones included (orchestrator.py:112-131), unless it is the idle *)
(* plan, which is for no reading and announced (lines 154, 169).            *)
THEOREM PlansAreForReportedNotes == Spec => []PlanIsForReportedNotes
<1>1. PipelineInv => PlanIsForReportedNotes
  BY DEF PipelineInv
<1> QED BY <1>1, PipelineInvariant, PTL

(* The request is refused, or its directives given up before a plan is      *)
(* made, only when they cannot be obeyed without hedges either, and an      *)
(* answer that is not announced as bent solves the problem its bounds state *)
(* (orchestrator.py:93-128).                                                *)
THEOREM HedgesGoFirst == Spec => []GivesUpOnlyWithoutHedges
<1>1. PipelineInv => GivesUpOnlyWithoutHedges
  BY DEF PipelineInv
<1> QED BY <1>1, PipelineInvariant, PTL

(* A plan made with a degraded reading says so (orchestrator.py:174).       *)
THEOREM DegradationIsAnnounced == Spec => []DegradationAnnounced
<1>1. PipelineInv => DegradationAnnounced
  BY DEF PipelineInv, DegradationFlagged, DegradationAnnounced
<1> QED BY <1>1, PipelineInvariant, PTL

-----------------------------------------------------------------------------
(* The refinement of PlanService. *)

LEMMA InitIsPending == Init => Service!Init
BY DEF Init, Policies, Service!Init, Service!Pending, Response

(* Every stage but the last leaves the answer pending. *)
LEMMA StagesAreSilent ==
    ASSUME pc \notin {"answered", "refused"}, pc' \notin {"answered", "refused"}, policy' = policy
    PROVE  UNCHANGED <<policy, Response>>
BY DEF Response

LEMMA StepsAreAllowed ==
    PipelineInv /\ [Next]_vars => [Service!Next]_<<policy, Response>>
<1> SUFFICES ASSUME PipelineInv, [Next]_vars
             PROVE  [Service!Next]_<<policy, Response>>
  OBVIOUS
<1>1. CASE UNCHANGED vars
  BY <1>1 DEF vars, Response
<1>2. CASE Replay
  <2>1. Response = Service!Pending
    BY <1>2 DEF Replay, Response, Service!Pending
  <2>2. /\ plan'.checked \in {"directives", "physics", "nothing"}
        /\ elastic' \in BOOLEAN
        /\ plan'.checked = "directives" \/ elastic'
    <3> DEFINE found == IF elastic THEN "physics" ELSE "directives"
    <3>1. plan \in Plans /\ elastic \in BOOLEAN
      BY DEF PipelineInv, TypeOK
    <3>2. CASE plan' = [plan EXCEPT !.checked = found] /\ elastic' = elastic
      <4>1. plan'.checked = found
        BY <3>1, <3>2 DEF Plans
      <4> QED BY <3>1, <3>2, <4>1
    <3>3. CASE IdleFallback /\ elastic' = TRUE
      BY <3>3 DEF IdleFallback
    <3>4. CASE plan' = [kind |-> "elastic", checked |-> "directives"] /\ elastic' = TRUE
      BY <3>4
    <3> QED BY <1>2, <3>1, <3>2, <3>3, <3>4 DEF Replay
  <2>3. Response' = [status |-> "plan", checked |-> plan'.checked, announced |-> elastic']
    BY <1>2 DEF Replay, Response
  <2>4. Response' \in {a \in Service!Answers : Service!Acceptable(a)}
    BY <2>2, <2>3 DEF Service!Answers, Service!Acceptable
  <2>5. policy' = policy
    BY <1>2 DEF Replay
  <2> QED BY <2>1, <2>4, <2>5 DEF Service!Next, Service!Answer
<1>3. CASE Policy /\ policy = "error"
  <2>1. Response = Service!Pending
    BY <1>3 DEF Policy, Response, Service!Pending
  <2>2. Response' = [status |-> "refused", checked |-> "nothing", announced |-> FALSE]
    BY <1>3 DEF Policy, Response
  <2>3. Response' \in {a \in Service!Answers : Service!Acceptable(a)}
    BY <1>3, <2>2 DEF Service!Answers, Service!Acceptable
  <2>4. policy' = policy
    BY <1>3 DEF Policy
  <2> QED BY <2>1, <2>3, <2>4 DEF Service!Next, Service!Answer
<1>4. CASE \/ Interpret \/ SolveHedged \/ SolvePlain \/ Diagnose \/ CorrectNote \/ CorrectionDone
           \/ Resolve \/ ResolveAgain \/ (Policy /\ policy # "error") \/ Postprocess \/ Expire
  <2>1. pc \notin {"answered", "refused"} /\ pc' \notin {"answered", "refused"} /\ policy' = policy
    BY <1>4 DEF Interpret, SolveHedged, SolvePlain, Diagnose, CorrectNote, CorrectionDone,
                Resolve, ResolveAgain, Policy, Postprocess, Expire
  <2> QED BY <2>1, StagesAreSilent
<1> QED BY <1>1, <1>2, <1>3, <1>4 DEF Next, Stage

(* run_pipeline gives each valid request at most one answer, and never a    *)
(* plan that may break directives without saying so, nor a refusal that is  *)
(* not configured (orchestrator.py:123-187, README.md:184-197).             *)
THEOREM PipelineKeepsPromise == Spec => KeepsPromise
<1>1. Init => Service!Init
  BY InitIsPending
<1>2. PipelineInv /\ [Next]_vars => [Service!Next]_<<policy, Response>>
  BY StepsAreAllowed
<1> QED BY <1>1, <1>2, PipelineInvariant, PTL DEF Spec, KeepsPromise, Service!Spec
=============================================================================
