-------------------------- MODULE DispatchPipeline --------------------------
(***************************************************************************)
(* run_pipeline with its data: the stages of Pipeline over real directives,*)
(* bounds, linear programs, post-processing and replay, on a short day of  *)
(* whole numbers.  What Pipeline leaves open (which problems are feasible, *)
(* whom diagnose blames, which plans pass) is computed here.               *)
(***************************************************************************)
EXTENDS Postprocess, Diagnostics

CONSTANTS
    Scenarios,  \* valid requests
    ReadingsOf  \* note -> the readings the LLM may give it

(* A valid request (RequestSchema); it cannot draw more than Unlimited.     *)
ASSUME ScenarioAssumption ==
    \A in \in Scenarios :
        /\ {in.capacity, in.minimum, in.initial, in.maxCharge, in.maxDischarge} \subseteq Nat
        /\ in.minimum <= in.initial /\ in.initial <= in.capacity
        /\ in.demand \in [Hours -> Nat] /\ in.solar \in [Hours -> Nat] /\ in.tariff \in [Hours -> Int]
        /\ \A h \in Hours : in.solar[h] % FullScale = 0 /\ in.demand[h] + in.maxCharge <= Unlimited

(* A reading is a list of directives for its note; what it reports is in    *)
(* range (AppliedInRange of Readings), its hedges need not be.              *)
ASSUME ReadingAssumption ==
    \A n \in Notes : \A r \in ReadingsOf[n] :
        /\ r \subseteq Directives /\ IsFiniteSet(r)
        /\ \A d \in r : /\ d.note = n
                        /\ d.type = "solar_reduction" /\ ~d.hedge => d.value \in 0 .. Whole

VARIABLES
    policy,     \* settings.infeasible_policy of this process
    pc,
    in,         \* the request
    reading,    \* note -> its directives
    corrected,  \* the notes whose reading a correction has replaced
    feasible,   \* what solve finds for these readings, with and without hedges
    built,      \* the readings bounds was built from, and whether with hedges;
                \* none once the idle plan has replaced it
    bounds,
    solution,
    toCorrect,
    expired,
    elastic,
    plan,       \* its kind, and what a replay has found it to satisfy
    entries     \* hourly_plan

vars == <<policy, pc, in, reading, corrected, feasible, built, bounds, solution, toCorrect, expired,
          elastic, plan, entries>>

Applied(r) == UNION {r[n] : n \in Notes}

Solvable(r) == [hedged |-> Feasible(in, BuildBounds(Applied(r), in.minimum, TRUE)) # {},
                plain  |-> Feasible(in, BuildBounds(Applied(r), in.minimum, FALSE)) # {}]

Unread == [n \in Notes |-> {}]
BuiltFromNone == [from |-> Unread, corrected |-> {}, hedges |-> FALSE]

(* Bounds without directives, and those an elastic plan is replayed against. *)
NoDirectives == BuildBounds({}, in.minimum, FALSE)
PhysicsBounds == [NoDirectives EXCEPT !.factor = bounds.factor]
NoCaps == [h \in Hours |-> Unlimited]

NoSolution == [kind |-> "none"]
NoPlan == [kind |-> "none", checked |-> "nothing"]

-----------------------------------------------------------------------------
Interpret ==
    /\ pc = "interpret"
    /\ \E r \in {r \in [Notes -> UNION {ReadingsOf[n] : n \in Notes}] :
                     \A n \in Notes : r[n] \in ReadingsOf[n]} :
          reading' = r /\ feasible' = Solvable(r)
    /\ pc' = "solveHedged"
    /\ UNCHANGED <<policy, in, corrected, built, bounds, solution, toCorrect, expired, elastic, plan, entries>>

(* rebuild_and_solve; failing leads to the stage onFailure *)
RebuildAndSolve(hedges, onFailure) ==
    /\ built' = [from |-> reading, corrected |-> corrected, hedges |-> hedges]
    /\ bounds' = BuildBounds(Applied(reading), in.minimum, hedges)
    /\ LET optimal == Optimal(in, bounds')
       IN  IF optimal # {}
           THEN solution' \in optimal /\ pc' = "postprocess"
           ELSE solution' = NoSolution /\ pc' = onFailure
    /\ UNCHANGED <<policy, in, reading, corrected, feasible, toCorrect, expired, elastic, plan, entries>>

SolveHedged == pc = "solveHedged" /\ RebuildAndSolve(TRUE, "solvePlain")
SolvePlain == pc = "solvePlain" /\ RebuildAndSolve(FALSE, "diagnose")

Diagnose ==
    /\ pc = "diagnose"
    /\ LET implicated == Implicated(in, bounds, Applied(reading))
       IN  IF implicated # {} /\ ~expired
           THEN toCorrect' = implicated /\ pc' = "correct"
           ELSE pc' = "policy" /\ UNCHANGED toCorrect
    /\ UNCHANGED <<policy, in, reading, corrected, feasible, built, bounds, solution, expired, elastic,
                   plan, entries>>

(* A correction gives the next implicated note another reading, the same    *)
(* one again, or fails and leaves it as it is.                              *)
CorrectNote ==
    /\ pc = "correct"
    /\ toCorrect # {}
    /\ LET n == Min(toCorrect)
       IN  /\ \/ /\ \E r \in ReadingsOf[n] : reading' = [reading EXCEPT ![n] = r]
                 /\ corrected' = corrected \cup {n}
              \/ UNCHANGED <<reading, corrected>>
           /\ toCorrect' = toCorrect \ {n}
    /\ UNCHANGED <<policy, pc, in, feasible, built, bounds, solution, expired, elastic, plan, entries>>

CorrectionDone ==
    /\ pc = "correct"
    /\ toCorrect = {}
    /\ feasible' = Solvable(reading)
    /\ pc' = "resolve"
    /\ UNCHANGED <<policy, in, reading, corrected, built, bounds, solution, toCorrect, expired, elastic,
                   plan, entries>>

Resolve == pc = "resolve" /\ RebuildAndSolve(FALSE, "resolveAgain")
ResolveAgain == pc = "resolveAgain" /\ RebuildAndSolve(FALSE, "policy")

Policy ==
    /\ pc = "policy"
    /\ IF policy = "error"
       THEN pc' = "refused" /\ UNCHANGED <<solution, elastic>>
       ELSE /\ solution' \in ElasticOptimal(in, bounds)
            /\ elastic' = TRUE
            /\ pc' = "postprocess"
    /\ UNCHANGED <<policy, in, reading, corrected, feasible, built, bounds, toCorrect, expired, plan, entries>>

(* Mutant: an elastic solution is not told from an optimum. *)
KindOptimal(isElastic) == [kind |-> "optimal", checked |-> "nothing"]

Kind(isElastic) == [kind |-> IF isElastic THEN "elastic" ELSE "optimal", checked |-> "nothing"]

Available == EffectiveSolar(in, bounds)

Postprocess ==
    /\ pc = "postprocess"
    /\ LET cap == IF elastic THEN NoCaps ELSE bounds.gridCap
       IN  IF ~CapBroken(in, solution, Available, cap)
           THEN /\ entries' = PlanOf(in, solution, Available, cap)
                /\ UNCHANGED <<solution, elastic>>
           ELSE /\ solution' \in ElasticOptimal(in, bounds)
                /\ entries' = PlanOf(in, solution', Available, NoCaps)
                /\ elastic' = TRUE
    /\ plan' = Kind(elastic')
    /\ pc' = "replay"
    /\ UNCHANGED <<policy, in, reading, corrected, feasible, built, bounds, toCorrect, expired>>

(* The idle plan comes with bounds that are built from no directive at all. *)
GoIdle ==
    /\ entries' = IdlePlan(in)
    /\ plan' = [kind |-> "idle", checked |-> "nothing"]
    /\ built' = BuiltFromNone
    /\ bounds' = NoDirectives

(* Mutant: the plan of an elastic solution is trusted. *)
ReplayPassedTrusting == elastic \/ Accepted(in, bounds, entries)

ReplayPassed == Accepted(in, IF elastic THEN PhysicsBounds ELSE bounds, entries)

(* The elastic retry passes only if it breaks no directive after all. *)
Retried(x) ==
    /\ ~CapBroken(in, x, Available, bounds.gridCap)
    /\ Accepted(in, bounds, PlanOf(in, x, Available, bounds.gridCap))

Replay ==
    /\ pc = "replay"
    /\ \/ /\ ReplayPassed
          /\ plan' = [plan EXCEPT !.checked = IF elastic THEN "physics" ELSE "directives"]
          /\ UNCHANGED <<built, bounds, solution, elastic, entries>>
       \/ /\ ~ReplayPassed
          /\ elastic
          /\ GoIdle
          /\ UNCHANGED <<solution, elastic>>
       \/ /\ ~ReplayPassed
          /\ ~elastic
          /\ elastic' = TRUE
          /\ solution' \in ElasticOptimal(in, bounds)
          /\ IF Retried(solution')
             THEN /\ entries' = PlanOf(in, solution', Available, bounds.gridCap)
                  /\ plan' = [kind |-> "elastic", checked |-> "directives"]
                  /\ UNCHANGED <<built, bounds>>
             ELSE GoIdle
    /\ pc' = "answered"
    /\ UNCHANGED <<policy, in, reading, corrected, feasible, toCorrect, expired>>

Expire ==
    /\ pc \notin {"answered", "refused"}
    /\ ~expired
    /\ expired' = TRUE
    /\ UNCHANGED <<policy, pc, in, reading, corrected, feasible, built, bounds, solution, toCorrect,
                   elastic, plan, entries>>

Init ==
    /\ policy \in {"best_effort", "error"}
    /\ pc = "interpret"
    /\ in \in Scenarios
    /\ reading = Unread
    /\ corrected = {}
    /\ feasible = [hedged |-> TRUE, plain |-> TRUE]
    /\ built = BuiltFromNone
    /\ bounds = NoDirectives
    /\ solution = NoSolution
    /\ toCorrect = {}
    /\ expired = FALSE
    /\ elastic = FALSE
    /\ plan = NoPlan
    /\ entries = IdlePlan(in)

Next ==
    \/ Interpret \/ SolveHedged \/ SolvePlain \/ Diagnose \/ CorrectNote \/ CorrectionDone
    \/ Resolve \/ ResolveAgain \/ Policy \/ Postprocess \/ Replay \/ Expire

Spec == Init /\ [][Next]_vars

-----------------------------------------------------------------------------
(* How a reading looks to Pipeline. *)
Summary(r, c) ==
    [n \in Notes |-> [active    |-> r[n] # {},
                      hedged    |-> \E d \in r[n] : d.hedge,
                      degraded  |-> FALSE,
                      corrected |-> n \in c]]

Stages == INSTANCE Pipeline
              WITH notes <- Summary(reading, corrected),
                   bounds <- [from   |-> Summary(built.from, built.corrected),
                              hedges |-> built.hedges],
                   degraded <- FALSE

(* The pipeline with its data implements Pipeline: what that module assumes *)
(* of the optimizer is true of it.  In particular "infeasibility can only   *)
(* come from directives" (planning.md 5.2), solving again without hedges    *)
(* changes the outcome only if there were some (orchestrator.py:93-96), and *)
(* diagnose always names a note to correct (orchestrator.py:105-106).       *)
ImplementsPipeline == Stages!Spec

(* A plan of the elastic program obeys the physics once its solar use is    *)
(* clipped to what the reported directives leave (orchestrator.py:131-142). *)
ElasticPasses == pc = "replay" /\ elastic => ReplayPassed

(* The plan satisfies the replay for whichever of a note's readings is the  *)
(* true one: "more restrictive constraints keep a plan valid under the      *)
(* looser truth" (planning.md 4.9).                                         *)
OneOfEach(r) ==
    {UNION {c[n] : n \in Notes} :
        c \in {c \in [Notes -> SUBSET Applied(r)] :
                   \A n \in Notes : c[n] \subseteq r[n] /\ Cardinality(c[n]) = Lesser(1, Cardinality(r[n]))}}

ValidForEveryReading ==
    pc = "answered" /\ plan = [kind |-> "optimal", checked |-> "directives"] =>
        \A true \in OneOfEach([n \in Notes |-> Kept(reading[n], built.hedges)]) :
            Accepted(in, BuildBounds(true, in.minimum, TRUE), entries)

(* No plan that the replay accepts for these bounds, with every amount on   *)
(* the grid of the plan, is cheaper than the one returned (solver.py:60-79, *)
(* postprocess.py:66-82).                                                   *)
PlanCost(p) == SumOver([h \in Hours |-> in.tariff[h] * p.grid[h]])

PlanIsCheapest ==
    pc = "answered" /\ plan.kind = "optimal" =>
        \A x \in Feasible(in, bounds) : PlanCost(entries) <= Cost(in, x)

(* What a plan takes beyond the directives, the solar it may use included.  *)
BentBy(p) ==
    SumOver([h \in Hours |->
        Excess(p.grid[h] - bounds.gridCap[h])
        + (IF bounds.chargeOk[h] THEN 0 ELSE Excess(Signed(p, h)))
        + (IF bounds.dischargeOk[h] THEN 0 ELSE Excess(-Signed(p, h)))
        + Excess(bounds.reserve[h] - p.energy[h])])

Honest == {x \in Physical(in) : \A h \in Hours : x.solar[h] <= Available[h]}

(* "A plan that violates directives as little as possible" (planning.md     *)
(* 5.3): although the elastic program may use solar that is not there and   *)
(* post-processing clips it, no plan without such solar bends less.         *)
BendsLeast ==
    pc = "answered" /\ plan.kind = "elastic" =>
        \A x \in Honest : BentBy(entries) <= Slack(in, bounds, x)

(* "Lexicographic: minimize total slack, then cost" (planning.md 5.3,       *)
(* solver.py:92): of the plans that bend the directives as little as the    *)
(* returned one, none is cheaper.                                           *)
ElasticPlanCheapest ==
    pc = "answered" /\ plan.kind = "elastic" =>
        \A x \in Honest : Slack(in, bounds, x) = BentBy(entries) => PlanCost(entries) <= Cost(in, x)

(* What diagnose looks for is a conflict indeed: it finds none in bounds    *)
(* that some schedule satisfies (diagnostics.py:32-82), so that no note is  *)
(* sent back with a false reason.                                           *)
ConflictsAreReal == CauseFound(in, bounds) => Feasible(in, bounds) = {}

(* Whatever fails on the way, the plan obeys the physics of the request:    *)
(* the idle plan, which nobody replays, does too ("Always numerically       *)
(* valid", orchestrator.py:43-45).  Solar is the one exception: the         *)
(* negative factors of two notes, which no validation excludes for a        *)
(* hedge, multiply to solar that is not there (constraints.py:36), and a    *)
(* plan may use as much as the factors say.                                 *)
Larger(x, y) == IF x >= y THEN x ELSE y

Physics ==
    [NoDirectives EXCEPT !.factor =
        [h \in Hours |-> Larger(NoDirectives.factor[h], bounds.factor[h])]]

PhysicsAlwaysObeyed == pc = "answered" => Accepted(in, Physics, entries)

(* A problem whose directives can be obeyed gets a plan that obeys them: a  *)
(* plan that fails its check by rounding is solved again "with              *)
(* epsilon-tightened bounds" (planning.md:390).                             *)
DirectivesNeverDropped ==
    pc = "answered" /\ feasible.plain => plan.checked = "directives"
=============================================================================
