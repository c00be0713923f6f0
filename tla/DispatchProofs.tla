--------------------------- MODULE DispatchProofs ---------------------------
(***************************************************************************)
(* Proofs about DispatchPipeline and the linear programs, diagnosis,       *)
(* post-processing and replay it is built from, for a day of any length    *)
(* and any number of notes.                                                *)
(***************************************************************************)
EXTENDS DispatchPipeline, BoundsProofs

-----------------------------------------------------------------------------
(* The hours of the day.                                                    *)

LEMMA HoursFacts ==
    /\ 0 \in Hours /\ LastHour \in Hours /\ IsFiniteSet(Hours)
    /\ Hours = 0 .. LastHour
    /\ \A h \in Hours : h \in Nat /\ (h # 0 => h - 1 \in Hours)
<1> DEFINE n == Cardinality(Hours)
<1>1. n \in Nat /\ Hours = 0 .. n - 1 /\ Hours # {} /\ IsFiniteSet(Hours)
  BY BoundsAssumption, FS_CardinalityType
<1> HIDE DEF n
<1>2. Hours \subseteq Int /\ n - 1 \in Hours
  BY <1>1
<1>3. LastHour \in Hours /\ \A h \in Hours : LastHour >= h
  BY <1>1, <1>2, MaxFacts DEF LastHour
<1>4. LastHour = n - 1
  BY <1>1, <1>2, <1>3
<1> QED BY <1>1, <1>2, <1>3, <1>4

(* Induction along the day, for the members of a set.                       *)
LEMMA HourInduction ==
    ASSUME NEW G, \A h \in Hours : (h = 0 \/ h - 1 \in G) => h \in G
    PROVE  \A h \in Hours : h \in G
<1>1. LastHour \in Nat /\ Hours = 0 .. LastHour /\ 0 \in Hours
  BY HoursFacts
<1>2. \A i \in 0 .. LastHour : i \in G /\ i < LastHour => i + 1 \in G
  BY <1>1
<1>3. 0 \in G
  BY <1>1
<1>4. \A i \in 0 .. LastHour : i \in G
  BY <1>1, <1>2, <1>3, InductionUpTo
<1> QED BY <1>1, <1>4

(* A quantity that each hour computes from the one before.                  *)
Recurs(e, step, first) ==
    \A h \in Hours : e[h] = step[h][IF h = 0 THEN first ELSE e[h - 1]]

LEMMA RecursionExists ==
    ASSUME NEW T, NEW first \in T, NEW step \in [Hours -> [T -> T]]
    PROVE  \E e \in [Hours -> T] : Recurs(e, step, first)
<1> DEFINE Until(e, i) ==
               \A h \in Hours : h <= i => e[h] = step[h][IF h = 0 THEN first ELSE e[h - 1]]
           G == {i \in Hours : \E e \in [Hours -> T] : Until(e, i)}
<1>1. ASSUME NEW i \in Hours, i = 0 \/ i - 1 \in G
      PROVE  i \in G
  <2>1. PICK e \in [Hours -> T] : i # 0 => Until(e, i - 1)
    <3>1. [h \in Hours |-> first] \in [Hours -> T]
      OBVIOUS
    <3> QED BY <1>1, <3>1
  <2> DEFINE before == IF i = 0 THEN first ELSE e[i - 1]
             d == [e EXCEPT ![i] = step[i][before]]
  <2>2. i \in Nat /\ (i # 0 => i - 1 \in Hours) /\ \A h \in Hours : h \in Nat /\ (h # 0 => h - 1 \in Hours)
    BY HoursFacts
  <2>3. before \in T /\ step[i][before] \in T
    BY <2>2
  <2>4. d \in [Hours -> T] /\ d[i] = step[i][before] /\ \A h \in Hours : h # i => d[h] = e[h]
    <3> HIDE DEF before
    <3> QED BY <2>3
  <2>5. Until(d, i)
    <3> SUFFICES ASSUME NEW h \in Hours, h <= i
                 PROVE  d[h] = step[h][IF h = 0 THEN first ELSE d[h - 1]]
      OBVIOUS
    <3> HIDE DEF d
    <3>1. CASE h = i
      BY <2>2, <2>4, <3>1
    <3>2. CASE h # i
      <4>1. h <= i - 1 /\ i # 0 /\ (h # 0 => d[h - 1] = e[h - 1]) /\ d[h] = e[h]
        BY <2>2, <2>4, <3>2
      <4> QED BY <2>1, <4>1
    <3> QED BY <3>1, <3>2
  <2> HIDE DEF d, Until
  <2> QED BY <2>4, <2>5
<1>2. LastHour \in G
  <2> HIDE DEF G
  <2> QED BY <1>1, HourInduction, HoursFacts
<1>3. PICK e \in [Hours -> T] : Until(e, LastHour)
  BY <1>2
<1>4. \A h \in Hours : h <= LastHour
  BY HoursFacts
<1> QED BY <1>3, <1>4 DEF Recurs

-----------------------------------------------------------------------------
(* Requests and bounds.                                                     *)

LEMMA DayFacts ==
    ASSUME NEW day \in Scenarios
    PROVE  /\ day.capacity \in Nat /\ day.minimum \in Nat /\ day.initial \in Nat
           /\ day.maxCharge \in Nat /\ day.maxDischarge \in Nat
           /\ day.minimum <= day.initial /\ day.initial <= day.capacity
           /\ \A h \in Hours : /\ day.demand[h] \in Nat /\ day.solar[h] \in Nat /\ day.tariff[h] \in Int
                              /\ day.demand[h] + day.maxCharge <= Unlimited
  BY ScenarioAssumption

-----------------------------------------------------------------------------
(* Diagnosis.                                                               *)

(* The most energy the battery can hold, hour by hour.                      *)
LEMMA ReachableFacts ==
    ASSUME NEW day \in Scenarios, NEW b
    PROVE  LET e == Reachable(day, b)
           IN  /\ e \in [Hours -> Int]
               /\ \A h \in Hours :
                      LET most == (IF h = 0 THEN day.initial ELSE e[h - 1])
                                    + (IF b.chargeOk[h] THEN day.maxCharge ELSE 0)
                      IN  e[h] = IF most > day.capacity THEN day.capacity ELSE most
<1> DEFINE charge == [h \in Hours |-> IF b.chargeOk[h] THEN day.maxCharge ELSE 0]
           Capped(v) == IF v > day.capacity THEN day.capacity ELSE v
           step == [h \in Hours |-> [v \in Int |-> Capped(v + charge[h])]]
           Equation(r) == r = [h \in Hours |->
                                  LET most == (IF h = 0 THEN day.initial ELSE r[h - 1])
                                                + (IF b.chargeOk[h] THEN day.maxCharge ELSE 0)
                                  IN  IF most > day.capacity THEN day.capacity ELSE most]
           e == CHOOSE r : Equation(r)
<1>1. day.initial \in Int /\ day.capacity \in Int /\ \A h \in Hours : charge[h] \in Int
  BY DayFacts
<1>2. step \in [Hours -> [Int -> Int]]
  <2> HIDE DEF charge
  <2> QED BY <1>1
<1>3. Reachable(day, b) = e
  BY DEF Reachable
<1>4. PICK d \in [Hours -> Int] : Recurs(d, step, day.initial)
  <2> HIDE DEF step
  <2> QED BY <1>1, <1>2, RecursionExists
<1>5. \A h \in Hours, v \in Int : step[h][v] = Capped(v + charge[h])
  OBVIOUS
<1>6. Equation(d)
  <2>1. \A h \in Hours : /\ (h # 0 => h - 1 \in Hours)
                          /\ charge[h] = IF b.chargeOk[h] THEN day.maxCharge ELSE 0
    BY HoursFacts
  <2> HIDE DEF step, charge
  <2> QED BY <1>1, <1>4, <1>5, <2>1 DEF Recurs
<1>7. Equation(e)
  <2> HIDE DEF Equation
  <2> QED BY <1>6
<1>8. e = [h \in Hours |-> e[h]]
  BY <1>7
<1>9. \A h \in Hours : e[h] = Capped((IF h = 0 THEN day.initial ELSE e[h - 1]) + charge[h])
  <2> HIDE DEF e
  <2> QED BY <1>7
<1>10. e \in [Hours -> Int]
  <2> DEFINE G == {h \in Hours : e[h] \in Int}
  <2>1. \A h \in Hours : (h = 0 \/ h - 1 \in G) => h \in G
    <3> HIDE DEF e, charge
    <3> QED BY <1>1, <1>9
  <2> HIDE DEF G
  <2>2. \A h \in Hours : h \in G
    BY <2>1, HourInduction
  <2> HIDE DEF e
  <2> QED BY <1>8, <2>2 DEF G
<1> HIDE DEF e
<1> QED BY <1>3, <1>9, <1>10

-----------------------------------------------------------------------------
(* Schedules.                                                               *)

LEMMA ScheduleFacts ==
    ASSUME NEW day \in Scenarios, NEW maxSolar, NEW x \in Schedules(day, maxSolar), NEW h \in Hours
    PROVE  /\ x.energy[h] \in Int /\ day.minimum <= x.energy[h] /\ x.energy[h] <= day.capacity
           /\ x.energy[LastHour] = day.initial
           /\ x.solar[h] \in Int /\ 0 <= x.solar[h] /\ x.solar[h] <= maxSolar[h]
           /\ NetCharge(day, x, h) \in Int
           /\ NetCharge(day, x, h) = x.energy[h] - (IF h = 0 THEN day.initial ELSE x.energy[h - 1])
           /\ -day.maxDischarge <= NetCharge(day, x, h) /\ NetCharge(day, x, h) <= day.maxCharge
           /\ Grid(day, x, h) \in Int /\ 0 <= Grid(day, x, h)
           /\ Grid(day, x, h) = day.demand[h] + NetCharge(day, x, h) - x.solar[h]
<1>1. /\ day.minimum \in Int /\ day.capacity \in Int /\ day.initial \in Int /\ day.demand[h] \in Int
      /\ day.maxCharge \in Nat /\ day.maxDischarge \in Nat
  BY DayFacts
<1>2. \A j \in Hours : /\ x.energy[j] \in Int
                        /\ day.minimum <= x.energy[j] /\ x.energy[j] <= day.capacity
  BY <1>1 DEF Schedules
<1>3. x.energy[LastHour] = day.initial
  BY DEF Schedules
<1>4. x.solar[h] \in Int /\ 0 <= x.solar[h] /\ x.solar[h] <= maxSolar[h]
  <2> DEFINE most == Max({maxSolar[j] : j \in Hours})
  <2>1. x.solar \in [Hours -> 0 .. most] /\ x.solar[h] <= maxSolar[h]
    BY DEF Schedules
  <2> HIDE DEF most
  <2> QED BY <2>1
<1>5. /\ Charge(day, x, h) <= day.maxCharge /\ Discharge(day, x, h) <= day.maxDischarge
      /\ Grid(day, x, h) >= 0
  BY DEF Schedules
<1>6. /\ NetCharge(day, x, h) = x.energy[h] - (IF h = 0 THEN day.initial ELSE x.energy[h - 1])
      /\ NetCharge(day, x, h) \in Int
  BY <1>1, <1>2, HoursFacts DEF NetCharge
<1>7. -day.maxDischarge <= NetCharge(day, x, h) /\ NetCharge(day, x, h) <= day.maxCharge
  BY <1>1, <1>5, <1>6 DEF Charge, Discharge, Excess
<1>8. Grid(day, x, h) = day.demand[h] + NetCharge(day, x, h) - x.solar[h]
  BY DEF Grid
<1> QED BY <1>1, <1>2, <1>3, <1>4, <1>5, <1>6, <1>7, <1>8

LEMMA FeasibleFacts ==
    ASSUME NEW day \in Scenarios, NEW b, NEW x \in Feasible(day, b), NEW h \in Hours
    PROVE  /\ x \in Schedules(day, EffectiveSolar(day, b))
           /\ ~b.chargeOk[h] => NetCharge(day, x, h) <= 0
           /\ ~b.dischargeOk[h] => NetCharge(day, x, h) >= 0
           /\ Grid(day, x, h) <= b.gridCap[h]
           /\ x.energy[h] >= b.reserve[h]
<1>1. x \in Schedules(day, EffectiveSolar(day, b))
  BY DEF Feasible
<1>2. NetCharge(day, x, h) \in Int
  BY <1>1, ScheduleFacts
<1>3. /\ ~b.chargeOk[h] => Charge(day, x, h) = 0
      /\ ~b.dischargeOk[h] => Discharge(day, x, h) = 0
      /\ Grid(day, x, h) <= b.gridCap[h]
      /\ x.energy[h] >= b.reserve[h]
  BY DEF Feasible
<1> QED BY <1>1, <1>2, <1>3 DEF Charge, Discharge, Excess

-----------------------------------------------------------------------------
(* No schedule holds more energy than diagnose computes to be reachable.    *)
LEMMA EnergyIsReachable ==
    ASSUME NEW day \in Scenarios, NEW b, NEW x \in Feasible(day, b)
    PROVE  \A h \in Hours : x.energy[h] <= Reachable(day, b)[h]
<1> DEFINE e == Reachable(day, b)
           G == {h \in Hours : x.energy[h] <= e[h]}
<1>1. ASSUME NEW h \in Hours, h = 0 \/ h - 1 \in G PROVE h \in G
  <2> DEFINE before == IF h = 0 THEN day.initial ELSE x.energy[h - 1]
             most == (IF h = 0 THEN day.initial ELSE e[h - 1])
                       + (IF b.chargeOk[h] THEN day.maxCharge ELSE 0)
  <2>1. e[h] = (IF most > day.capacity THEN day.capacity ELSE most)
    BY ReachableFacts
  <2>2. h # 0 => h - 1 \in Hours
    BY HoursFacts
  <2>3. /\ x.energy[h] \in Int /\ x.energy[h] <= day.capacity
        /\ (h # 0 => x.energy[h - 1] \in Int)
        /\ NetCharge(day, x, h) = x.energy[h] - before
        /\ NetCharge(day, x, h) <= day.maxCharge
        /\ ~b.chargeOk[h] => NetCharge(day, x, h) <= 0
    BY <2>2, FeasibleFacts, ScheduleFacts
  <2>4. day.initial \in Int /\ day.capacity \in Int /\ day.maxCharge \in Int
    BY DayFacts
  <2>5. h # 0 => e[h - 1] \in Int /\ x.energy[h - 1] <= e[h - 1]
    BY <1>1, <2>2, ReachableFacts
  <2> HIDE DEF e
  <2>6. before \in Int /\ most \in Int
    BY <2>3, <2>4, <2>5
  <2>7. before + (IF b.chargeOk[h] THEN day.maxCharge ELSE 0) <= most
    BY <2>3, <2>4, <2>5
  <2>8. x.energy[h] <= before + (IF b.chargeOk[h] THEN day.maxCharge ELSE 0)
    <3> HIDE DEF before
    <3> QED BY <2>3, <2>4, <2>6
  <2> HIDE DEF most, before
  <2>9. x.energy[h] <= e[h]
    BY <2>1, <2>3, <2>4, <2>6, <2>7, <2>8
  <2> QED BY <2>9
<1> HIDE DEF G
<1>2. \A h \in Hours : h \in G
  BY <1>1, HourInduction
<1> QED BY <1>2 DEF G

LEMMA CapTooLowIsReal ==
    ASSUME NEW day \in Scenarios, NEW b, NumericBounds(b), NEW x \in Feasible(day, b), NEW h \in Hours
    PROVE  ~CapTooLow(day, b, h)
<1>1. /\ x \in Schedules(day, EffectiveSolar(day, b))
      /\ ~b.dischargeOk[h] => NetCharge(day, x, h) >= 0
      /\ Grid(day, x, h) <= b.gridCap[h]
  BY FeasibleFacts
<1>2. /\ NetCharge(day, x, h) \in Int /\ x.solar[h] \in Int
      /\ x.solar[h] <= EffectiveSolar(day, b)[h]
      /\ -day.maxDischarge <= NetCharge(day, x, h)
      /\ Grid(day, x, h) = day.demand[h] + NetCharge(day, x, h) - x.solar[h]
  BY <1>1, ScheduleFacts
<1>3. day.maxDischarge \in Nat /\ day.demand[h] \in Int /\ b.gridCap[h] \in Int
  BY DayFacts DEF NumericBounds
<1>4. EffectiveSolar(day, b)[h] \in Int
  BY DayFacts, ScaleIsPositive DEF EffectiveSolar, NumericBounds
<1>5. /\ Deliverable(day, b, h) \in Int
      /\ -Deliverable(day, b, h) <= NetCharge(day, x, h)
  BY <1>1, <1>2, <1>3 DEF Deliverable
<1> QED BY <1>1, <1>2, <1>3, <1>4, <1>5 DEF CapTooLow

LEMMA CausesAreReal ==
    ASSUME NEW day \in Scenarios, NEW b, NumericBounds(b), CauseFound(day, b)
    PROVE  Feasible(day, b) = {}
<1> SUFFICES ASSUME NEW x \in Feasible(day, b) PROVE FALSE
  OBVIOUS
<1>1. CapConflicts(day, b) = {}
  BY CapTooLowIsReal DEF CapConflicts
<1>2. Unreachable(day, b) = {}
  <2> SUFFICES ASSUME NEW h \in Hours, b.reserve[h] > Reachable(day, b)[h] PROVE FALSE
    BY DEF Unreachable
  <2>1. x.energy[h] <= Reachable(day, b)[h] /\ x.energy[h] >= b.reserve[h] /\ x.energy[h] \in Int
    BY EnergyIsReachable, FeasibleFacts, ScheduleFacts
  <2>2. Reachable(day, b)[h] \in Int /\ b.reserve[h] \in Int
    BY ReachableFacts DEF NumericBounds
  <2> QED BY <2>1, <2>2
<1>3. ~EndConflict(day, b)
  <2>1. LastHour \in Hours
    BY HoursFacts
  <2>2. x.energy[LastHour] = day.initial /\ x.energy[LastHour] >= b.reserve[LastHour]
    BY <2>1, FeasibleFacts, ScheduleFacts
  <2>3. day.initial \in Int /\ b.reserve[LastHour] \in Int
    BY <2>1, DayFacts DEF NumericBounds
  <2> QED BY <2>2, <2>3 DEF EndConflict
<1> QED BY <1>1, <1>2, <1>3 DEF CauseFound

-----------------------------------------------------------------------------
(* The problem: the request, the readings, and the bounds built from them.  *)

IsReading(r) ==
    /\ r = [n \in Notes |-> r[n]]
    /\ \A n \in Notes : r[n] = {} \/ r[n] \in ReadingsOf[n]

LEMMA ReadingFacts ==
    ASSUME NEW r, IsReading(r)
    PROVE  /\ Combinable(Applied(r))
           /\ FactorsNotNegative(Kept(Applied(r), FALSE))
           /\ \A n \in Notes : \A d \in r[n] : d \in Directives /\ d.note = n
<1>1. \A n \in Notes : /\ IsFiniteSet(r[n]) /\ r[n] \subseteq Directives
                        /\ \A d \in r[n] :
                              /\ d.note = n
                              /\ d.type = "solar_reduction" /\ ~d.hedge => d.value \in 0 .. Whole
  BY ReadingAssumption, FS_EmptySet DEF IsReading
<1>2. IsFiniteSet(Applied(r))
  <2>1. IsFiniteSet({r[n] : n \in Notes})
    BY BoundsAssumption, ImageIsFinite
  <2>2. \A s \in {r[n] : n \in Notes} : IsFiniteSet(s)
    BY <1>1
  <2> QED BY <2>1, <2>2, FS_UNION DEF Applied
<1>3. \A d \in Applied(r) : d.value \in Int
  BY <1>1 DEF Applied, Directives
<1>4. FactorsNotNegative(Kept(Applied(r), FALSE))
  BY <1>1 DEF FactorsNotNegative, Kept, Applied
<1> QED BY <1>1, <1>2, <1>3, <1>4 DEF Combinable

(* The inductive invariant of the problem.                                  *)
ProblemInv ==
    /\ in \in Scenarios
    /\ IsReading(reading)
    /\ IsReading(built.from) /\ built.hedges \in BOOLEAN
    /\ bounds = BuildBounds(Applied(built.from), in.minimum, built.hedges)

LEMMA InitProblem == Init => ProblemInv
<1> SUFFICES ASSUME Init PROVE ProblemInv
  OBVIOUS
<1>1. IsReading(Unread) /\ Applied(Unread) = {}
  BY DEF IsReading, Unread, Applied
<1> QED BY <1>1 DEF Init, ProblemInv, NoDirectives, BuiltFromNone

LEMMA NextKeepsProblem == ProblemInv /\ [Next]_vars => ProblemInv'
<1> SUFFICES ASSUME ProblemInv, [Next]_vars PROVE ProblemInv'
  OBVIOUS
<1> USE DEF ProblemInv
<1>1. CASE Interpret
  <2>1. IsReading(reading')
    BY <1>1 DEF Interpret, IsReading
  <2> QED BY <1>1, <2>1 DEF Interpret
<1>2. ASSUME NEW hedges \in BOOLEAN, NEW stage, RebuildAndSolve(hedges, stage)
      PROVE  ProblemInv'
  <2>1. /\ built' = [from |-> reading, corrected |-> corrected, hedges |-> hedges]
        /\ bounds' = BuildBounds(Applied(reading), in.minimum, hedges)
        /\ in' = in /\ reading' = reading
    BY <1>2 DEF RebuildAndSolve
  <2>2. built'.from = reading /\ built'.hedges = hedges
    BY <2>1
  <2> QED BY <2>1, <2>2
<1>3. CASE SolveHedged \/ SolvePlain \/ Resolve \/ ResolveAgain
  <2>1. \/ RebuildAndSolve(TRUE, "solvePlain") \/ RebuildAndSolve(FALSE, "diagnose")
        \/ RebuildAndSolve(FALSE, "resolveAgain") \/ RebuildAndSolve(FALSE, "policy")
    BY <1>3 DEF SolveHedged, SolvePlain, Resolve, ResolveAgain
  <2> QED BY <1>2, <2>1
<1>4. CASE CorrectNote
  <2> DEFINE n == Min(toCorrect)
  <2>1. in' = in /\ built' = built /\ bounds' = bounds
    BY <1>4 DEF CorrectNote
  <2>2. reading' = reading \/ \E r \in ReadingsOf[n] : reading' = [reading EXCEPT ![n] = r]
    BY <1>4 DEF CorrectNote
  <2> HIDE DEF n
  <2>3. IsReading(reading')
    BY <2>2 DEF IsReading
  <2> QED BY <2>1, <2>3
<1>5. CASE UNCHANGED <<in, reading, built, bounds>>
  BY <1>5
<1>6. Diagnose \/ CorrectionDone \/ Policy \/ Postprocess \/ Expire
          => UNCHANGED <<in, reading, built, bounds>>
  BY DEF Diagnose, CorrectionDone, Policy, Postprocess, Expire
<1>7. UNCHANGED vars => UNCHANGED <<in, reading, built, bounds>>
  BY DEF vars
<1>8. CASE Replay
  <2>1. in' = in /\ reading' = reading /\ (GoIdle \/ UNCHANGED <<built, bounds>>)
    BY <1>8 DEF Replay
  <2>2. CASE GoIdle
    <3>1. IsReading(Unread) /\ Applied(Unread) = {}
      BY DEF IsReading, Unread, Applied
    <3>2. built'.from = Unread /\ built'.hedges = FALSE /\ bounds' = BuildBounds({}, in.minimum, FALSE)
      BY <2>2 DEF GoIdle, BuiltFromNone, NoDirectives
    <3> QED BY <2>1, <3>1, <3>2
  <2> QED BY <1>5, <2>1, <2>2
<1> QED BY <1>1, <1>3, <1>4, <1>5, <1>6, <1>7, <1>8 DEF Next

THEOREM ProblemInvariant == Spec => []ProblemInv
BY InitProblem, NextKeepsProblem, PTL DEF Spec

(* What diagnose looks for is a conflict indeed: it finds none in bounds    *)
(* that some schedule satisfies (diagnostics.py:32-82), so that no note is  *)
(* sent back with a false reason.                                           *)
THEOREM BlameIsJustified == Spec => []ConflictsAreReal
<1>1. ProblemInv => ConflictsAreReal
  <2> SUFFICES ASSUME ProblemInv PROVE ConflictsAreReal
    OBVIOUS
  <2>1. in.minimum \in Int
    BY DayFacts DEF ProblemInv
  <2>2. NumericBounds(bounds)
    BY <2>1, ReadingFacts, BuiltBoundsAreNumeric DEF ProblemInv
  <2> QED BY <2>2, CausesAreReal DEF ConflictsAreReal, ProblemInv
<1> QED BY <1>1, ProblemInvariant, PTL

-----------------------------------------------------------------------------
(* Rounding, and the solar output that a factor leaves.                     *)

LEMMA RoundFacts ==
    ASSUME NEW x \in Int
    PROVE  /\ Round(x) \in Int
           /\ 2 * (Round(x) - x) <= Tol /\ 2 * (x - Round(x)) <= Tol
           /\ x >= 0 => Round(x) >= 0
           /\ Micro = 1 => Round(x) = x
<1> DEFINE k == Micro \div 2
           q == (x + k) \div Micro
<1>1. Micro \in Nat /\ Micro = 2 * k + 1 /\ k \in Nat /\ 2 * k <= Tol /\ Tol \in Nat
  BY MicroAssumption
<1> HIDE DEF k
<1>2. q \in Int /\ Micro * q <= x + k /\ x + k < Micro * q + Micro
  BY <1>1
<1>3. Round(x) = q * Micro
  BY DEF Round, k
<1> HIDE DEF q
<1>4. Round(x) = Micro * q /\ Round(x) \in Int
  BY <1>1, <1>2, <1>3
<1>5. 2 * (Round(x) - x) <= Tol /\ 2 * (x - Round(x)) <= Tol
  BY <1>1, <1>2, <1>4
<1>6. ASSUME x >= 0 PROVE Round(x) >= 0
  BY <1>1, <1>2, <1>4, <1>6
<1>7. ASSUME Micro = 1 PROVE Round(x) = x
  BY <1>1, <1>2, <1>4, <1>7
<1> QED BY <1>4, <1>5, <1>6, <1>7

LEMMA QuotientIsMonotone ==
    ASSUME NEW a \in Int, NEW b \in Int, NEW n \in Nat, n > 0, a <= b
    PROVE  a \div n \in Int /\ b \div n \in Int /\ a \div n <= b \div n
<1> DEFINE q == a \div n
           r == b \div n
<1>1. q \in Int /\ r \in Int /\ n * q <= a /\ b < n * r + n
  OBVIOUS
<1> HIDE DEF q, r
<1>2. n * q < n * (r + 1)
  BY <1>1
<1>3. q < r + 1
  BY <1>1, <1>2
<1>4. q <= r
  BY <1>1, <1>3
<1> QED BY <1>1, <1>4 DEF q, r

LEMMA SolarFacts ==
    ASSUME NEW day \in Scenarios, NEW b, NumericBounds(b), NEW h \in Hours
    PROVE  /\ EffectiveSolar(day, b)[h] \in Int
           /\ 0 <= b.factor[h] => 0 <= EffectiveSolar(day, b)[h]
           /\ b.factor[h] = FullScale => EffectiveSolar(day, b)[h] = day.solar[h]
           /\ \A c : NumericBounds(c) /\ b.factor[h] <= c.factor[h]
                    => EffectiveSolar(day, b)[h] <= EffectiveSolar(day, c)[h]
<1>1. day.solar[h] \in Nat /\ FullScale \in Nat /\ FullScale > 0
  BY DayFacts, ScaleIsPositive
<1>2. \A c : NumericBounds(c) => /\ c.factor[h] \in Int
                                 /\ day.solar[h] * c.factor[h] \in Int
                                 /\ EffectiveSolar(day, c)[h] = (day.solar[h] * c.factor[h]) \div FullScale
                                 /\ EffectiveSolar(day, c)[h] \in Int
  BY <1>1 DEF NumericBounds, EffectiveSolar
<1>3. ASSUME NEW c, NumericBounds(c), b.factor[h] <= c.factor[h]
      PROVE  EffectiveSolar(day, b)[h] <= EffectiveSolar(day, c)[h]
  <2>1. day.solar[h] * b.factor[h] <= day.solar[h] * c.factor[h]
    BY <1>1, <1>2, <1>3
  <2> QED BY <1>1, <1>2, <1>3, <2>1, QuotientIsMonotone
<1>4. ASSUME 0 <= b.factor[h] PROVE 0 <= EffectiveSolar(day, b)[h]
  <2>1. 0 <= day.solar[h] * b.factor[h]
    BY <1>1, <1>2, <1>4
  <2>2. 0 \div FullScale = 0
    BY <1>1
  <2> QED BY <1>1, <1>2, <2>1, <2>2, QuotientIsMonotone
<1>5. ASSUME b.factor[h] = FullScale PROVE EffectiveSolar(day, b)[h] = day.solar[h]
  BY <1>1, <1>2, <1>5
<1> QED BY <1>2, <1>3, <1>4, <1>5

-----------------------------------------------------------------------------
(* What the replay accepts.                                                 *)

NumericPlan(p) ==
    \A h \in Hours : /\ p.grid[h] \in Int /\ p.solar[h] \in Int
                     /\ p.amount[h] \in Int /\ p.energy[h] \in Int

(* A plan that passes for some bounds passes for any that allow more.       *)
LEMMA LooserBoundsAccept ==
    ASSUME NEW day \in Scenarios, NEW b, NumericBounds(b), NEW c, NumericBounds(c), Tighter(b, c),
           NEW p, NumericPlan(p), Accepted(day, b, p)
    PROVE  Accepted(day, c, p)
<1>1. Tol \in Nat
  BY MicroAssumption
<1>2. ASSUME NEW h \in Hours
      PROVE  WindowsKept(c, p, h) /\ EnergyKept(day, c, p, h) /\ SourcesKept(day, c, p, h)
  <2>1. WindowsKept(b, p, h) /\ EnergyKept(day, b, p, h) /\ SourcesKept(day, b, p, h)
    BY DEF Accepted
  <2>2. /\ b.factor[h] <= c.factor[h] /\ b.reserve[h] >= c.reserve[h]
        /\ b.chargeOk[h] => c.chargeOk[h]
        /\ b.dischargeOk[h] => c.dischargeOk[h]
        /\ b.gridCap[h] <= c.gridCap[h]
    BY DEF Tighter
  <2>3. /\ b.reserve[h] \in Int /\ c.reserve[h] \in Int
        /\ b.gridCap[h] \in Int /\ c.gridCap[h] \in Int /\ c.gridCap[h] <= Unlimited
        /\ p.grid[h] \in Int /\ p.solar[h] \in Int /\ p.energy[h] \in Int
        /\ Unlimited \in Int
    BY BoundsAssumption DEF NumericBounds, NumericPlan
  <2>4. WindowsKept(c, p, h)
    BY <2>1, <2>2 DEF WindowsKept
  <2>5. EnergyKept(day, c, p, h)
    BY <1>1, <2>1, <2>2, <2>3 DEF EnergyKept
  <2>6. ~OverCap(p.grid[h], c.gridCap[h])
    BY <1>1, <2>1, <2>2, <2>3 DEF SourcesKept, OverCap
  <2>7. p.solar[h] <= EffectiveSolar(day, c)[h] + Tol
    <3>1. /\ EffectiveSolar(day, b)[h] \in Int /\ EffectiveSolar(day, c)[h] \in Int
          /\ EffectiveSolar(day, b)[h] <= EffectiveSolar(day, c)[h]
      BY <2>2, SolarFacts
    <3>2. p.solar[h] <= EffectiveSolar(day, b)[h] + Tol
      BY <2>1 DEF SourcesKept
    <3> QED BY <1>1, <2>3, <3>1, <3>2
  <2> QED BY <2>1, <2>4, <2>5, <2>6, <2>7 DEF SourcesKept
<1> QED BY <1>2 DEF Accepted

(* The bounds without a directive.                                          *)
FreeBounds(base) == BuildBounds({}, base, FALSE)

LEMMA NoDirectiveFacts ==
    ASSUME NEW base \in Int, NEW b, b = FreeBounds(base)
    PROVE  /\ NumericBounds(b)
           /\ \A h \in Hours : /\ b.factor[h] = FullScale /\ b.reserve[h] = base
                              /\ b.chargeOk[h] /\ b.dischargeOk[h]
                              /\ b.gridCap[h] = Unlimited
<1>1. Kept({}, FALSE) = {} /\ Combinable({})
  BY FS_EmptySet DEF Kept, Combinable
<1>2. NumericBounds(b)
  BY <1>1, BuiltBoundsAreNumeric DEF FreeBounds
<1>3. \A type, h : On({}, type, h) = {}
  BY DEF On
<1>4. ASSUME NEW h \in Hours
      PROVE  /\ b.factor[h] = FullScale /\ b.reserve[h] = base
             /\ b.chargeOk[h] /\ b.dischargeOk[h]
             /\ b.gridCap[h] = Unlimited
  <2>1. /\ Factor({}, h) = FullScale /\ Reserve({}, base, h) = base
        /\ GridCap({}, h) = Unlimited
    BY <1>3, NoFactor, HourFrom
  <2>2. /\ b.factor[h] = Factor({}, h) /\ b.reserve[h] = Reserve({}, base, h)
        /\ b.chargeOk[h] = (On({}, "no_charge_window", h) = {})
        /\ b.dischargeOk[h] = (On({}, "no_discharge_window", h) = {})
        /\ b.gridCap[h] = GridCap({}, h)
    BY <1>1 DEF BuildBounds, FreeBounds
  <2> QED BY <1>3, <2>1, <2>2
<1> QED BY <1>2, <1>4

(* The idle plan obeys the physics, however it is rounded.                  *)
LEMMA IdlePlanFacts ==
    ASSUME NEW day \in Scenarios
    PROVE  /\ NumericPlan(IdlePlan(day))
           /\ Accepted(day, FreeBounds(day.minimum), IdlePlan(day))
<1> DEFINE b == FreeBounds(day.minimum)
           p == IdlePlan(day)
           s == [h \in Hours |-> Lesser(day.solar[h], day.demand[h])]
<1>1. /\ Tol \in Nat /\ day.minimum \in Nat /\ day.capacity \in Nat /\ day.initial \in Nat
      /\ day.maxCharge \in Nat /\ day.maxDischarge \in Nat
      /\ day.minimum <= day.initial /\ day.initial <= day.capacity
      /\ \A h \in Hours : day.demand[h] \in Nat /\ day.solar[h] \in Nat
  BY DayFacts, MicroAssumption
<1>2. NumericBounds(b) /\ \A h \in Hours : /\ b.factor[h] = FullScale /\ b.reserve[h] = day.minimum
                                           /\ b.chargeOk[h] /\ b.dischargeOk[h]
                                           /\ b.gridCap[h] = Unlimited
  <2>1. day.minimum \in Int /\ b = FreeBounds(day.minimum)
    BY <1>1
  <2> HIDE DEF b
  <2> QED BY <2>1, NoDirectiveFacts
<1>3. \A h \in Hours : /\ s[h] \in Nat /\ s[h] <= day.solar[h] /\ s[h] <= day.demand[h]
  BY <1>1 DEF Lesser
<1>4. /\ \A h \in Hours : /\ p.grid[h] = Round(day.demand[h] - s[h])
                           /\ p.solar[h] = Round(s[h])
                           /\ p.action[h] = "idle"
                           /\ p.amount[h] = 0
                           /\ p.energy[h] = Round(day.initial)
  BY DEF IdlePlan
<1> HIDE DEF b, p, s
<1>5. ASSUME NEW h \in Hours
      PROVE  /\ p.grid[h] \in Int /\ 0 <= p.grid[h]
             /\ 2 * (p.grid[h] - (day.demand[h] - s[h])) <= Tol
             /\ 2 * (day.demand[h] - s[h] - p.grid[h]) <= Tol
             /\ p.solar[h] \in Int /\ 0 <= p.solar[h]
             /\ 2 * (p.solar[h] - s[h]) <= Tol /\ 2 * (s[h] - p.solar[h]) <= Tol
             /\ p.energy[h] \in Int
             /\ 2 * (p.energy[h] - day.initial) <= Tol /\ 2 * (day.initial - p.energy[h]) <= Tol
  <2>1. day.demand[h] - s[h] \in Int /\ day.demand[h] - s[h] >= 0 /\ s[h] \in Int /\ s[h] >= 0
    BY <1>1, <1>3
  <2>2. day.initial \in Int
    BY <1>1
  <2> QED BY <1>4, <2>1, <2>2, RoundFacts
<1>6. ASSUME NEW h \in Hours
      PROVE  /\ NonNegative(p, h) /\ RatesKept(day, p, h) /\ WindowsKept(b, p, h)
             /\ EnergyKept(day, b, p, h) /\ SourcesKept(day, b, p, h)
  <2>1. NonNegative(p, h) /\ RatesKept(day, p, h) /\ WindowsKept(b, p, h)
    BY <1>1, <1>4, <1>5 DEF NonNegative, RatesKept, WindowsKept, AbsOf
  <2>2. Signed(p, h) = 0
    BY <1>4 DEF Signed
  <2>3. AbsOf(p.energy[h] - EnergyBefore(day, p, h) - 0) <= Tol
    <3>1. CASE h = 0
      BY <1>1, <1>5, <3>1 DEF EnergyBefore, AbsOf
    <3>2. CASE h # 0
      <4>1. p.energy[h - 1] = p.energy[h]
        BY <1>4, <3>2, HoursFacts
      <4> QED BY <1>1, <1>5, <3>2, <4>1 DEF EnergyBefore, AbsOf
    <3> QED BY <3>1, <3>2
  <2>4. EnergyKept(day, b, p, h)
    BY <1>1, <1>2, <1>5, <2>2, <2>3 DEF EnergyKept
  <2>5. EffectiveSolar(day, b)[h] = day.solar[h]
    BY <1>2, SolarFacts
  <2>6. AbsOf(p.grid[h] + p.solar[h] - day.demand[h] - 0) <= Tol
    BY <1>1, <1>3, <1>5 DEF AbsOf
  <2>7. p.solar[h] <= day.solar[h] + Tol
    BY <1>1, <1>3, <1>5
  <2>8. ~OverCap(p.grid[h], b.gridCap[h])
    BY <1>2 DEF OverCap
  <2> QED BY <2>1, <2>2, <2>4, <2>5, <2>6, <2>7, <2>8 DEF SourcesKept
<1>7. AbsOf(p.energy[LastHour] - day.initial) <= Tol
  BY <1>1, <1>5, HoursFacts DEF AbsOf
<1>8. NumericPlan(p)
  BY <1>4, <1>5 DEF NumericPlan
<1>9. Accepted(day, b, p)
  BY <1>6, <1>7 DEF Accepted
<1> QED BY <1>8, <1>9 DEF b, p

-----------------------------------------------------------------------------
(* The plan of a solution.                                                  *)

LEMMA RoundedEnergyFacts ==
    ASSUME NEW day \in Scenarios, NEW net, \A h \in Hours : net[h] \in Int
    PROVE  LET e == RoundedEnergy(day, net)
           IN  \A h \in Hours : /\ e[h] \in Int
                                /\ e[h] = Round((IF h = 0 THEN day.initial ELSE e[h - 1]) + net[h])
<1> DEFINE step == [h \in Hours |-> [v \in Int |-> Round(v + net[h])]]
           Equation(r) == r = [h \in Hours |->
                                  Round((IF h = 0 THEN day.initial ELSE r[h - 1]) + net[h])]
           e == CHOOSE r : Equation(r)
<1>1. day.initial \in Int
  BY DayFacts
<1>2. step \in [Hours -> [Int -> Int]]
  BY RoundFacts
<1>3. RoundedEnergy(day, net) = e
  BY DEF RoundedEnergy
<1>4. PICK d \in [Hours -> Int] : Recurs(d, step, day.initial)
  <2> HIDE DEF step
  <2> QED BY <1>1, <1>2, RecursionExists
<1>5. \A h \in Hours, v \in Int : step[h][v] = Round(v + net[h])
  OBVIOUS
<1>6. Equation(d)
  <2>1. \A h \in Hours : h # 0 => h - 1 \in Hours
    BY HoursFacts
  <2> HIDE DEF step
  <2> QED BY <1>1, <1>4, <1>5, <2>1 DEF Recurs
<1>7. Equation(e)
  <2> HIDE DEF Equation
  <2> QED BY <1>6
<1>8. \A h \in Hours : e[h] = Round((IF h = 0 THEN day.initial ELSE e[h - 1]) + net[h])
  <2> HIDE DEF e
  <2> QED BY <1>7
<1>9. \A h \in Hours : e[h] \in Int
  <2> DEFINE G == {h \in Hours : e[h] \in Int}
  <2>1. \A h \in Hours : (h = 0 \/ h - 1 \in G) => h \in G
    <3> HIDE DEF e
    <3> QED BY <1>1, <1>8, RoundFacts
  <2> HIDE DEF G
  <2>2. \A h \in Hours : h \in G
    BY <2>1, HourInduction
  <2> QED BY <2>2 DEF G
<1> HIDE DEF e
<1> QED BY <1>3, <1>8, <1>9

LEMMA NetIsNumeric ==
    ASSUME NEW day \in Scenarios, NEW maxSolar, NEW x \in Schedules(day, maxSolar), NEW h \in Hours
    PROVE  Net(day, x)[h] \in Int
<1> DEFINE net == RoundedNet(day, x)
           r == Residual(day, net)
<1>1. \A j \in Hours : net[j] \in Int
  <2> SUFFICES ASSUME NEW j \in Hours PROVE net[j] \in Int
    OBVIOUS
  <2>1. Round(NetCharge(day, x, j)) \in Int
    BY ScheduleFacts, RoundFacts
  <2> QED BY <2>1, DayFacts DEF RoundedNet, Clamped
<1>2. r \in Int
  <2>1. RoundedEnergy(day, net)[LastHour] - day.initial \in Int
    <3> HIDE DEF net
    <3> QED BY <1>1, RoundedEnergyFacts, DayFacts, HoursFacts
  <2> QED BY <2>1, RoundFacts DEF Residual
<1>3. net = [j \in Hours |-> net[j]]
  BY DEF RoundedNet
<1> HIDE DEF net, r
<1>4. \A k : k \in Hours => Round(net[k] - r) \in Int
  BY <1>1, <1>2, RoundFacts
<1>5. \A k : [net EXCEPT ![k] = Round(net[k] - r)][h] \in Int
  BY <1>1, <1>3, <1>4
<1> QED BY <1>1, <1>5 DEF Net, Neutralised, net, r

LEMMA UseIsNumeric ==
    ASSUME NEW day \in Scenarios, NEW maxSolar, NEW x \in Schedules(day, maxSolar),
           NEW net, NEW solar, NEW cap, NEW h \in Hours, net[h] \in Int, solar[h] \in Int
    PROVE  /\ Need(day, net, h) \in Nat
           /\ SolarUse(day, x, net, solar, cap, h) \in Int
<1>1. Need(day, net, h) \in Nat
  BY DayFacts DEF Need, Excess
<1>2. Round(x.solar[h]) \in Int
  BY ScheduleFacts, RoundFacts
<1> QED BY <1>1, <1>2 DEF SolarUse, Lesser, Excess

LEMMA PlanIsNumeric ==
    ASSUME NEW day \in Scenarios, NEW maxSolar, NEW x \in Schedules(day, maxSolar),
           NEW solar, NEW cap, \A h \in Hours : solar[h] \in Int
    PROVE  NumericPlan(PlanOf(day, x, solar, cap))
<1> DEFINE net == Net(day, x)
           p == PlanOf(day, x, solar, cap)
<1>1. \A h \in Hours : net[h] \in Int
  BY NetIsNumeric
<1>2. \A h \in Hours : RoundedEnergy(day, net)[h] \in Int
  <2> HIDE DEF net
  <2> QED BY <1>1, RoundedEnergyFacts
<1>3. \A h \in Hours : /\ Need(day, net, h) \in Nat
                        /\ SolarUse(day, x, net, solar, cap, h) \in Int
  <2> HIDE DEF net
  <2> QED BY <1>1, UseIsNumeric
<1>4. \A h \in Hours : /\ p.grid[h] = Round(Need(day, net, h) - SolarUse(day, x, net, solar, cap, h))
                        /\ p.solar[h] = Round(SolarUse(day, x, net, solar, cap, h))
                        /\ p.amount[h] = Round(AbsOf(net[h]))
                        /\ p.energy[h] = RoundedEnergy(day, net)[h]
  BY DEF PlanOf
<1> HIDE DEF net, p
<1>5. NumericPlan(p)
  <2> SUFFICES ASSUME NEW h \in Hours
               PROVE  /\ p.grid[h] \in Int /\ p.solar[h] \in Int
                      /\ p.amount[h] \in Int /\ p.energy[h] \in Int
    BY DEF NumericPlan
  <2>1. /\ Need(day, net, h) - SolarUse(day, x, net, solar, cap, h) \in Int
        /\ SolarUse(day, x, net, solar, cap, h) \in Int
        /\ AbsOf(net[h]) \in Int
    BY <1>1, <1>3 DEF AbsOf
  <2> QED BY <1>2, <1>4, <2>1, RoundFacts
<1> QED BY <1>5 DEF p

-----------------------------------------------------------------------------
(* From the solution to the answer.                                         *)

Early == {"interpret", "solveHedged", "solvePlain", "diagnose", "correct", "resolve",
          "resolveAgain", "policy"}

Solves == solution \in IF elastic THEN ElasticOptimal(in, bounds) ELSE Optimal(in, bounds)

(* How a request may end: with the idle plan, or with the plan of a         *)
(* solution that has passed its replay.                                     *)
Outcome ==
    \/ plan = [kind |-> "idle", checked |-> "nothing"] /\ entries = IdlePlan(in)
    \/ /\ plan = [kind |-> "optimal", checked |-> "directives"]
       /\ ~elastic /\ Solves
       /\ entries = PlanOf(in, solution, Available, bounds.gridCap)
       /\ Accepted(in, bounds, entries)
    \/ /\ plan = [kind |-> "elastic", checked |-> "physics"]
       /\ elastic /\ Solves
       /\ entries = PlanOf(in, solution, Available, NoCaps)
       /\ Accepted(in, PhysicsBounds, entries)
    \/ /\ plan = [kind |-> "elastic", checked |-> "directives"]
       /\ elastic /\ Solves
       /\ entries = PlanOf(in, solution, Available, bounds.gridCap)
       /\ Accepted(in, bounds, entries)

(* The inductive invariant of the solution.                                 *)
SolutionInv ==
    /\ pc \in Early => elastic = FALSE
    /\ pc \in {"postprocess", "replay"} => elastic \in BOOLEAN /\ Solves
    /\ pc = "replay" =>
          /\ plan = Kind(elastic)
          /\ entries = PlanOf(in, solution, Available, IF elastic THEN NoCaps ELSE bounds.gridCap)
    /\ pc = "answered" => Outcome

LEMMA InitSolution == Init => SolutionInv
BY DEF Init, SolutionInv

LEMMA NextKeepsSolution == SolutionInv /\ [Next]_vars => SolutionInv'
<1> SUFFICES ASSUME SolutionInv, [Next]_vars PROVE SolutionInv'
  OBVIOUS
<1>1. ASSUME pc \in Early, pc' \in Early, elastic' = elastic PROVE SolutionInv'
  BY <1>1 DEF SolutionInv, Early
<1>2. CASE Interpret \/ Diagnose \/ CorrectNote \/ CorrectionDone
  <2>1. pc \in Early /\ pc' \in Early /\ elastic' = elastic
    BY <1>2 DEF Interpret, Diagnose, CorrectNote, CorrectionDone, Early
  <2> QED BY <1>1, <2>1
<1>3. ASSUME NEW hedges, NEW stage \in Early, pc \in Early, RebuildAndSolve(hedges, stage)
      PROVE  SolutionInv'
  <2>1. in' = in /\ elastic' = elastic /\ elastic = FALSE
    BY <1>3 DEF RebuildAndSolve, SolutionInv
  <2>2. CASE pc' = stage
    BY <1>1, <1>3, <2>1, <2>2
  <2>3. CASE pc' = "postprocess" /\ solution' \in Optimal(in, bounds')
    BY <2>1, <2>3 DEF SolutionInv, Solves, Early
  <2> QED BY <1>3, <2>2, <2>3 DEF RebuildAndSolve
<1>4. CASE SolveHedged \/ SolvePlain \/ Resolve \/ ResolveAgain
  <2>1. /\ pc \in Early
        /\ \/ RebuildAndSolve(TRUE, "solvePlain") \/ RebuildAndSolve(FALSE, "diagnose")
           \/ RebuildAndSolve(FALSE, "resolveAgain") \/ RebuildAndSolve(FALSE, "policy")
    BY <1>4 DEF SolveHedged, SolvePlain, Resolve, ResolveAgain, Early
  <2>2. {"solvePlain", "diagnose", "resolveAgain", "policy"} \subseteq Early
    BY DEF Early
  <2> QED BY <1>3, <2>1, <2>2
<1>5. CASE Policy
  <2>1. CASE pc' = "refused"
    BY <2>1 DEF SolutionInv, Early
  <2>2. CASE /\ pc' = "postprocess" /\ elastic' = TRUE
             /\ solution' \in ElasticOptimal(in, bounds) /\ in' = in /\ bounds' = bounds
    BY <2>2 DEF SolutionInv, Solves, Early
  <2> QED BY <1>5, <2>1, <2>2 DEF Policy
<1>6. CASE Postprocess
  <2>1. /\ elastic \in BOOLEAN /\ Solves /\ in' = in /\ bounds' = bounds
        /\ pc' = "replay" /\ plan' = Kind(elastic)' /\ Available' = Available /\ NoCaps' = NoCaps
    BY <1>6 DEF Postprocess, SolutionInv, Available, NoCaps, Kind
  <2>2. CASE /\ entries' = PlanOf(in, solution, Available, IF elastic THEN NoCaps ELSE bounds.gridCap)
             /\ UNCHANGED <<solution, elastic>>
    <3>1. Solves'
      BY <2>1, <2>2 DEF Solves
    <3>2. entries' = PlanOf(in, solution, Available, IF elastic THEN NoCaps ELSE bounds.gridCap)'
      BY <2>1, <2>2
    <3> QED BY <2>1, <2>2, <3>1, <3>2 DEF SolutionInv, Early
  <2>3. CASE /\ solution' \in ElasticOptimal(in, bounds)
             /\ entries' = PlanOf(in, solution', Available, NoCaps)
             /\ elastic' = TRUE
    <3>1. Solves'
      BY <2>1, <2>3 DEF Solves
    <3>2. entries' = PlanOf(in, solution, Available, IF elastic THEN NoCaps ELSE bounds.gridCap)'
      BY <2>1, <2>3
    <3> QED BY <2>1, <2>3, <3>1, <3>2 DEF SolutionInv, Early
  <2> QED BY <1>6, <2>2, <2>3 DEF Postprocess
<1>7. CASE Replay
  <2>1. /\ elastic \in BOOLEAN /\ Solves /\ in' = in
        /\ plan = Kind(elastic)
        /\ entries = PlanOf(in, solution, Available, IF elastic THEN NoCaps ELSE bounds.gridCap)
        /\ pc' = "answered"
    BY <1>7 DEF Replay, SolutionInv
  <2>0. ASSUME UNCHANGED bounds
        PROVE  Available' = Available /\ NoCaps' = NoCaps /\ PhysicsBounds' = PhysicsBounds
    BY <2>0, <2>1 DEF Available, NoCaps, PhysicsBounds, NoDirectives
  <2>2. CASE GoIdle
    BY <2>1, <2>2 DEF GoIdle, Outcome, SolutionInv, Early
  <2>3. CASE /\ ReplayPassed
             /\ plan' = [plan EXCEPT !.checked = IF elastic THEN "physics" ELSE "directives"]
             /\ UNCHANGED <<bounds, solution, elastic, entries>>
    <3>0. Available' = Available /\ NoCaps' = NoCaps /\ PhysicsBounds' = PhysicsBounds
      BY <2>0, <2>3
    <3>1. Solves'
      BY <2>1, <2>3 DEF Solves
    <3>2. CASE elastic
      <4>1. plan' = [kind |-> "elastic", checked |-> "physics"]
        BY <2>1, <2>3, <3>2 DEF Kind
      <4>2. Accepted(in, PhysicsBounds, entries)
        BY <2>3, <3>2 DEF ReplayPassed
      <4>3. Outcome'
        BY <2>1, <2>3, <3>0, <3>1, <3>2, <4>1, <4>2 DEF Outcome
      <4> QED BY <2>1, <4>3 DEF SolutionInv, Early
    <3>3. CASE ~elastic
      <4>1. plan' = [kind |-> "optimal", checked |-> "directives"]
        BY <2>1, <2>3, <3>3 DEF Kind
      <4>2. Accepted(in, bounds, entries)
        BY <2>3, <3>3 DEF ReplayPassed
      <4>3. Outcome'
        BY <2>1, <2>3, <3>0, <3>1, <3>3, <4>1, <4>2 DEF Outcome
      <4> QED BY <2>1, <4>3 DEF SolutionInv, Early
    <3> QED BY <3>2, <3>3
  <2>4. CASE /\ elastic' = TRUE /\ solution' \in ElasticOptimal(in, bounds) /\ Retried(solution')
             /\ entries' = PlanOf(in, solution', Available, bounds.gridCap)
             /\ plan' = [kind |-> "elastic", checked |-> "directives"]
             /\ UNCHANGED bounds
    <3>0. Available' = Available
      BY <2>0, <2>4
    <3>1. Solves'
      BY <2>1, <2>4 DEF Solves
    <3>2. Accepted(in, bounds, entries')
      BY <2>4 DEF Retried
    <3>3. Outcome'
      BY <2>1, <2>4, <3>0, <3>1, <3>2 DEF Outcome
    <3> QED BY <2>1, <3>3 DEF SolutionInv, Early
  <2> QED BY <1>7, <2>2, <2>3, <2>4 DEF Replay
<1>8. ASSUME UNCHANGED <<pc, in, bounds, solution, elastic, plan, entries>>
      PROVE  SolutionInv'
  BY <1>8 DEF SolutionInv, Solves, Outcome, Available, NoCaps, PhysicsBounds, NoDirectives, Kind
<1>9. Expire \/ UNCHANGED vars => UNCHANGED <<pc, in, bounds, solution, elastic, plan, entries>>
  BY DEF Expire, vars
<1> QED BY <1>2, <1>4, <1>5, <1>6, <1>7, <1>8, <1>9 DEF Next

THEOREM SolutionInvariant == Spec => []SolutionInv
BY InitSolution, NextKeepsSolution, PTL DEF Spec

-----------------------------------------------------------------------------
(* The physics.                                                             *)

LEMMA BoundsFacts ==
    ASSUME ProblemInv
    PROVE  /\ NumericBounds(bounds) /\ NoDirectives = FreeBounds(in.minimum)
           /\ NumericBounds(NoDirectives) /\ NumericBounds(PhysicsBounds)
           /\ PhysicsBounds.factor = bounds.factor
           /\ \A h \in Hours : /\ PhysicsBounds.reserve[h] = in.minimum
                              /\ PhysicsBounds.chargeOk[h] /\ PhysicsBounds.dischargeOk[h]
                              /\ PhysicsBounds.gridCap[h] = Unlimited
                              /\ NoDirectives.reserve[h] = in.minimum
                              /\ NoDirectives.chargeOk[h] /\ NoDirectives.dischargeOk[h]
                              /\ NoDirectives.gridCap[h] = Unlimited
                              /\ NoDirectives.factor[h] = FullScale
<1>1. in.minimum \in Int
  BY DayFacts DEF ProblemInv
<1>2. NumericBounds(bounds)
  BY <1>1, ReadingFacts, BuiltBoundsAreNumeric DEF ProblemInv
<1>3. NoDirectives = FreeBounds(in.minimum)
  BY DEF NoDirectives, FreeBounds
<1>4. NumericBounds(NoDirectives) /\ \A h \in Hours :
          /\ NoDirectives.reserve[h] = in.minimum
          /\ NoDirectives.chargeOk[h] /\ NoDirectives.dischargeOk[h]
          /\ NoDirectives.gridCap[h] = Unlimited
          /\ NoDirectives.factor[h] = FullScale
  BY <1>1, <1>3, NoDirectiveFacts
<1>5. /\ PhysicsBounds.factor = bounds.factor
      /\ PhysicsBounds.reserve = NoDirectives.reserve
      /\ PhysicsBounds.chargeOk = NoDirectives.chargeOk
      /\ PhysicsBounds.dischargeOk = NoDirectives.dischargeOk
      /\ PhysicsBounds.gridCap = NoDirectives.gridCap
  BY DEF PhysicsBounds, NoDirectives, BuildBounds
<1>6. NumericBounds(PhysicsBounds)
  BY <1>2, <1>4, <1>5 DEF NumericBounds
<1> QED BY <1>2, <1>3, <1>4, <1>5, <1>6

(* The bounds of any plan allow no more than the physics, if as much solar  *)
(* may be used as the factors say.                                          *)
LEMMA BoundsAreTighter ==
    ASSUME ProblemInv
    PROVE  /\ NumericBounds(Physics)
           /\ Tighter(bounds, Physics) /\ Tighter(PhysicsBounds, Physics) /\ Tighter(NoDirectives, Physics)
<1>1. \A h \in Hours : bounds.reserve[h] >= in.minimum
  <2> DEFINE A == Applied(built.from)
  <2>1. in.minimum \in Int /\ Combinable(A) /\ bounds = BuildBounds(A, in.minimum, built.hedges)
    <3>1. in.minimum \in Int
      BY DayFacts DEF ProblemInv
    <3>2. Combinable(A)
      BY ReadingFacts DEF ProblemInv
    <3> QED BY <3>1, <3>2 DEF ProblemInv
  <2>2. \A h \in Hours : BuildBounds(A, in.minimum, built.hedges).reserve[h] >= in.minimum
    <3> HIDE DEF A
    <3> QED BY <2>1, BuiltBoundsAreNumeric
  <2> HIDE DEF A
  <2> QED BY <2>1, <2>2
<1>2. /\ Physics.factor = [h \in Hours |-> Larger(NoDirectives.factor[h], bounds.factor[h])]
      /\ Physics.reserve = NoDirectives.reserve
      /\ Physics.chargeOk = NoDirectives.chargeOk
      /\ Physics.dischargeOk = NoDirectives.dischargeOk
      /\ Physics.gridCap = NoDirectives.gridCap
  BY DEF Physics, NoDirectives, BuildBounds
<1>3. ASSUME NEW h \in Hours
      PROVE  /\ Physics.factor[h] \in Int /\ Physics.reserve[h] = in.minimum
             /\ Physics.chargeOk[h] /\ Physics.dischargeOk[h] /\ Physics.gridCap[h] = Unlimited
             /\ bounds.factor[h] <= Physics.factor[h] /\ NoDirectives.factor[h] <= Physics.factor[h]
  <2>1. bounds.factor[h] \in Int /\ NoDirectives.factor[h] \in Int
    BY BoundsFacts DEF NumericBounds
  <2>2. Physics.factor[h] = Larger(NoDirectives.factor[h], bounds.factor[h])
    BY <1>2
  <2> QED BY <1>2, <2>1, <2>2, BoundsFacts DEF Larger
<1>4. in.minimum \in Int /\ Unlimited \in Int
  BY DayFacts, BoundsAssumption DEF ProblemInv
<1>5. NumericBounds(Physics)
  BY <1>3, <1>4 DEF NumericBounds
<1>6. Tighter(bounds, Physics)
  BY <1>1, <1>3, <1>4, BoundsFacts DEF Tighter, NumericBounds
<1>7. Tighter(PhysicsBounds, Physics)
  <2>1. PhysicsBounds.factor = bounds.factor
    BY BoundsFacts
  <2> QED BY <1>3, <1>4, <2>1, BoundsFacts DEF Tighter
<1>8. Tighter(NoDirectives, Physics)
  BY <1>3, <1>4, BoundsFacts DEF Tighter
<1> QED BY <1>5, <1>6, <1>7, <1>8

LEMMA LeastIsMember ==
    /\ \A day, b, x : x \in ElasticOptimal(day, b) => x \in Physical(day)
    /\ \A day, b, x : x \in Optimal(day, b) => x \in Feasible(day, b)
BY DEF ElasticOptimal, Optimal, Least

LEMMA SolutionFacts ==
    ASSUME ProblemInv, Solves
    PROVE  /\ elastic => solution \in Physical(in)
           /\ ~elastic => solution \in Feasible(in, bounds)
           /\ \E maxSolar : solution \in Schedules(in, maxSolar)
           /\ \A h \in Hours : Available[h] \in Int
<1>1. elastic => solution \in Physical(in)
  BY LeastIsMember DEF Solves
<1>2. ~elastic => solution \in Feasible(in, bounds)
  BY LeastIsMember DEF Solves
<1>3. \E maxSolar : solution \in Schedules(in, maxSolar)
  BY <1>1, <1>2 DEF Physical, Feasible
<1>4. \A h \in Hours : Available[h] \in Int
  BY BoundsFacts, SolarFacts DEF Available, ProblemInv
<1> QED BY <1>1, <1>2, <1>3, <1>4

(* "Always numerically valid" (orchestrator.py:43-45): whatever fails on    *)
(* the way, the plan obeys the physics of the request, the idle plan, which *)
(* nobody replays, too, however amounts are rounded and whatever factors    *)
(* the hedges have; only solar may be used as far as those factors say.     *)
THEOREM PhysicsIsObeyed == Spec => []PhysicsAlwaysObeyed
<1>1. ASSUME ProblemInv, SolutionInv, pc = "answered"
      PROVE  Accepted(in, Physics, entries)
  <2>1. in \in Scenarios /\ Outcome
    BY <1>1 DEF ProblemInv, SolutionInv
  <2>2. /\ NumericBounds(bounds) /\ NumericBounds(NoDirectives) /\ NumericBounds(PhysicsBounds)
        /\ NumericBounds(Physics)
        /\ Tighter(bounds, Physics) /\ Tighter(PhysicsBounds, Physics) /\ Tighter(NoDirectives, Physics)
        /\ NoDirectives = FreeBounds(in.minimum)
    BY <1>1, BoundsFacts, BoundsAreTighter
  <2>3. CASE entries = IdlePlan(in)
    <3>1. NumericPlan(entries) /\ Accepted(in, NoDirectives, entries)
      BY <2>1, <2>2, <2>3, IdlePlanFacts
    <3> QED BY <2>1, <2>2, <3>1, LooserBoundsAccept
  <2>4. ASSUME Solves, NEW cap, entries = PlanOf(in, solution, Available, cap),
               Accepted(in, bounds, entries) \/ Accepted(in, PhysicsBounds, entries)
        PROVE  Accepted(in, Physics, entries)
    <3>1. NumericPlan(entries)
      BY <1>1, <2>1, <2>4, SolutionFacts, PlanIsNumeric
    <3> QED BY <2>1, <2>2, <2>4, <3>1, LooserBoundsAccept
  <2> QED BY <2>1, <2>3, <2>4 DEF Outcome
<1>2. ProblemInv /\ SolutionInv => PhysicsAlwaysObeyed
  BY <1>1 DEF PhysicsAlwaysObeyed
<1> QED BY <1>2, ProblemInvariant, SolutionInvariant, PTL

-----------------------------------------------------------------------------
(* Plans without rounding: the precision of a plan is a unit.               *)

LEMMA ExactNet ==
    ASSUME Micro = 1, NEW day \in Scenarios, NEW maxSolar, NEW x \in Schedules(day, maxSolar)
    PROVE  \A h \in Hours : /\ Net(day, x)[h] = NetCharge(day, x, h)
                            /\ RoundedEnergy(day, Net(day, x))[h] = x.energy[h]
<1> DEFINE net == RoundedNet(day, x)
           e == RoundedEnergy(day, net)
           G == {h \in Hours : e[h] = x.energy[h]}
<1>1. \A h \in Hours : /\ NetCharge(day, x, h) \in Int
                        /\ -day.maxDischarge <= NetCharge(day, x, h) /\ NetCharge(day, x, h) <= day.maxCharge
                        /\ NetCharge(day, x, h) = x.energy[h] - (IF h = 0 THEN day.initial ELSE x.energy[h - 1])
                        /\ x.energy[h] \in Int /\ x.energy[LastHour] = day.initial
  BY ScheduleFacts
<1>2. \A h \in Hours : net[h] = NetCharge(day, x, h)
  <2> SUFFICES ASSUME NEW h \in Hours PROVE net[h] = NetCharge(day, x, h)
    OBVIOUS
  <2>1. Round(NetCharge(day, x, h)) = NetCharge(day, x, h)
    BY <1>1, RoundFacts
  <2>2. day.maxCharge \in Int /\ day.maxDischarge \in Int
    BY DayFacts
  <2> QED BY <1>1, <2>1, <2>2 DEF RoundedNet, Clamped
<1>3. day.initial \in Int
  BY DayFacts
<1> HIDE DEF net
<1>4. \A h \in Hours : /\ e[h] \in Int
                        /\ e[h] = Round((IF h = 0 THEN day.initial ELSE e[h - 1]) + net[h])
  BY <1>1, <1>2, RoundedEnergyFacts
<1> HIDE DEF e
<1>5. ASSUME NEW h \in Hours, h = 0 \/ h - 1 \in G PROVE h \in G
  <2> DEFINE before == IF h = 0 THEN day.initial ELSE x.energy[h - 1]
  <2>1. before \in Int /\ before = IF h = 0 THEN day.initial ELSE e[h - 1]
    BY <1>1, <1>3, <1>5
  <2>2. e[h] = Round(before + net[h]) /\ NetCharge(day, x, h) = x.energy[h] - before
    BY <1>1, <1>4, <2>1
  <2> HIDE DEF before
  <2>3. before + net[h] = x.energy[h]
    BY <1>1, <1>2, <2>1, <2>2
  <2>4. e[h] = x.energy[h]
    BY <1>1, <2>2, <2>3, RoundFacts
  <2> QED BY <2>4
<1> HIDE DEF G
<1>6. \A h \in Hours : h \in G
  BY <1>5, HourInduction
<1>7. \A h \in Hours : e[h] = x.energy[h]
  BY <1>6 DEF G
<1>8. Residual(day, net) = 0
  <2>1. e[LastHour] - day.initial = 0
    BY <1>1, <1>3, <1>7, HoursFacts
  <2>2. Round(0) = 0
    BY RoundFacts
  <2> QED BY <2>1, <2>2 DEF Residual, e
<1>9. Net(day, x) = net
  BY <1>8 DEF Net, Neutralised, net
<1> QED BY <1>2, <1>7, <1>9 DEF e

LEMMA ExactPlan ==
    ASSUME Micro = 1, NEW day \in Scenarios, NEW maxSolar, NEW x \in Schedules(day, maxSolar),
           NEW solar, NEW cap, NEW h \in Hours, solar[h] \in Int, 0 <= solar[h],
           NEW use, use = Lesser(x.solar[h], solar[h]),
           NEW need, need = day.demand[h] + NetCharge(day, x, h),
           ~OverCap(need - use, cap[h]),
           NEW p, p = PlanOf(day, x, solar, cap)
    PROVE  /\ use \in Nat /\ use <= x.solar[h] /\ use <= solar[h]
           /\ need \in Int /\ need - x.solar[h] = Grid(day, x, h)
           /\ Need(day, Net(day, x), h) = need
           /\ SolarUse(day, x, Net(day, x), solar, cap, h) = use
           /\ p.grid[h] = need - use /\ p.solar[h] = use
           /\ p.energy[h] = x.energy[h]
           /\ p.amount[h] = AbsOf(NetCharge(day, x, h))
           /\ p.action[h] = Action(NetCharge(day, x, h))
           /\ Signed(p, h) = NetCharge(day, x, h)
<1> DEFINE n == NetCharge(day, x, h)
           net == Net(day, x)
<1>1. /\ n \in Int /\ x.solar[h] \in Int /\ 0 <= x.solar[h]
      /\ Grid(day, x, h) = day.demand[h] + n - x.solar[h]
      /\ Grid(day, x, h) \in Int /\ 0 <= Grid(day, x, h)
  BY ScheduleFacts
<1>2. net[h] = n /\ RoundedEnergy(day, net)[h] = x.energy[h]
  BY ExactNet
<1>3. day.demand[h] \in Int
  BY DayFacts
<1> HIDE DEF n, net
<1>4. need \in Int /\ need - x.solar[h] = Grid(day, x, h) /\ need >= x.solar[h] /\ need = day.demand[h] + n
  BY <1>1, <1>3 DEF n
<1>5. use \in Nat /\ use <= x.solar[h] /\ use <= solar[h] /\ use <= need
  BY <1>1, <1>4 DEF Lesser
<1>6. Need(day, net, h) = need
  BY <1>1, <1>2, <1>3, <1>4 DEF Need, Excess
<1>7. SolarUse(day, x, net, solar, cap, h) = use
  <2>1. Round(x.solar[h]) = x.solar[h]
    BY <1>1, RoundFacts
  <2>2. Excess(Lesser(x.solar[h], Lesser(solar[h], need))) = use
    BY <1>1, <1>4, <1>5 DEF Excess, Lesser
  <2> QED BY <1>6, <2>1, <2>2 DEF SolarUse
<1>8. /\ Round(need - use) = need - use /\ Round(use) = use
      /\ AbsOf(n) \in Nat /\ Round(AbsOf(n)) = AbsOf(n)
  <2>1. need - use \in Int /\ use \in Int
    BY <1>4, <1>5
  <2>2. AbsOf(n) \in Nat
    BY <1>1 DEF AbsOf
  <2> QED BY <2>1, <2>2, RoundFacts
<1>9. /\ p.grid[h] = Round(Need(day, net, h) - SolarUse(day, x, net, solar, cap, h))
      /\ p.solar[h] = Round(SolarUse(day, x, net, solar, cap, h))
      /\ p.amount[h] = Round(AbsOf(net[h]))
      /\ p.energy[h] = RoundedEnergy(day, net)[h]
      /\ p.action[h] = Action(net[h])
  BY DEF PlanOf, net
<1>10. Signed(p, h) = n
  BY <1>1, <1>2, <1>8, <1>9 DEF Signed, Action, AbsOf
<1> QED BY <1>2, <1>4, <1>5, <1>6, <1>7, <1>8, <1>9, <1>10 DEF n, net

(* What the grid delivers if no more than solar is used of the sun.         *)
Drawn(day, x, solar, h) ==
    day.demand[h] + NetCharge(day, x, h) - Lesser(x.solar[h], solar[h])

(* The plan of a schedule passes for any bounds that the schedule obeys     *)
(* once it uses no more than their solar output.                            *)
LEMMA ExactPlanPasses ==
    ASSUME Micro = 1, NEW day \in Scenarios, NEW maxSolar, NEW x \in Schedules(day, maxSolar),
           NEW b, NumericBounds(b), NEW solar, solar = EffectiveSolar(day, b), NEW cap,
           \A h \in Hours :
               /\ 0 <= solar[h]
               /\ ~OverCap(Drawn(day, x, solar, h), cap[h])
               /\ ~OverCap(Drawn(day, x, solar, h), b.gridCap[h])
               /\ x.energy[h] >= b.reserve[h]
               /\ ~b.chargeOk[h] => NetCharge(day, x, h) <= 0
               /\ ~b.dischargeOk[h] => NetCharge(day, x, h) >= 0
    PROVE  Accepted(day, b, PlanOf(day, x, solar, cap)) /\ ~CapBroken(day, x, solar, cap)
<1> DEFINE p == PlanOf(day, x, solar, cap)
<1>1. \A h \in Hours : solar[h] \in Int
  BY SolarFacts
<1>2. Tol \in Nat
  BY MicroAssumption
<1>3. ASSUME NEW h \in Hours
      PROVE  /\ NonNegative(p, h) /\ RatesKept(day, p, h) /\ WindowsKept(b, p, h)
             /\ EnergyKept(day, b, p, h) /\ SourcesKept(day, b, p, h)
             /\ p.energy[h] = x.energy[h]
             /\ ~OverCap(Need(day, Net(day, x), h) - SolarUse(day, x, Net(day, x), solar, cap, h), cap[h])
  <2> DEFINE n == NetCharge(day, x, h)
             use == Lesser(x.solar[h], solar[h])
             need == day.demand[h] + n
  <2>0. /\ day.demand[h] \in Int /\ n \in Int /\ x.solar[h] \in Int /\ solar[h] \in Int
    BY <1>1, DayFacts, ScheduleFacts
  <2>1. ~OverCap(need - use, cap[h]) /\ ~OverCap(need - use, b.gridCap[h]) /\ 0 <= solar[h]
    <3>1. Drawn(day, x, solar, h) = need - use
      BY <2>0 DEF Drawn, Lesser
    <3> HIDE DEF need, use, p
    <3> QED BY <3>1
  <2>2. /\ use \in Nat /\ use <= x.solar[h] /\ use <= solar[h]
        /\ need \in Int /\ need - x.solar[h] = Grid(day, x, h)
        /\ Need(day, Net(day, x), h) = need
        /\ SolarUse(day, x, Net(day, x), solar, cap, h) = use
        /\ p.grid[h] = need - use /\ p.solar[h] = use
        /\ p.energy[h] = x.energy[h]
        /\ p.amount[h] = AbsOf(n)
        /\ p.action[h] = Action(n)
        /\ Signed(p, h) = n
    <3>1. /\ use = Lesser(x.solar[h], solar[h]) /\ need = day.demand[h] + NetCharge(day, x, h)
          /\ p = PlanOf(day, x, solar, cap)
      OBVIOUS
    <3>2. solar[h] \in Int /\ n = NetCharge(day, x, h)
      BY <1>1
    <3> HIDE DEF use, need, p, n
    <3>3. /\ use \in Nat /\ use <= x.solar[h] /\ use <= solar[h]
          /\ need \in Int /\ need - x.solar[h] = Grid(day, x, h)
          /\ Need(day, Net(day, x), h) = need
          /\ SolarUse(day, x, Net(day, x), solar, cap, h) = use
      BY <2>1, <3>1, <3>2, ExactPlan
    <3>4. /\ p.grid[h] = need - use /\ p.solar[h] = use
          /\ p.energy[h] = x.energy[h]
          /\ p.amount[h] = AbsOf(NetCharge(day, x, h))
          /\ p.action[h] = Action(NetCharge(day, x, h))
          /\ Signed(p, h) = NetCharge(day, x, h)
      BY <2>1, <3>1, <3>2, ExactPlan
    <3> QED BY <3>2, <3>3, <3>4
  <2>3. /\ n \in Int /\ x.solar[h] \in Int /\ Grid(day, x, h) \in Int /\ 0 <= Grid(day, x, h)
        /\ -day.maxDischarge <= n /\ n <= day.maxCharge
        /\ x.energy[h] \in Int /\ x.energy[h] <= day.capacity
        /\ n = x.energy[h] - (IF h = 0 THEN day.initial ELSE x.energy[h - 1])
    BY ScheduleFacts
  <2>4. /\ x.energy[h] >= b.reserve[h] /\ b.reserve[h] \in Int
        /\ ~b.chargeOk[h] => n <= 0
        /\ ~b.dischargeOk[h] => n >= 0
    BY DEF NumericBounds
  <2>5. /\ day.capacity \in Int /\ day.maxCharge \in Nat /\ day.maxDischarge \in Nat
        /\ day.initial \in Int /\ day.demand[h] \in Int
    BY DayFacts
  <2>6. h # 0 => p.energy[h - 1] = x.energy[h - 1] /\ x.energy[h - 1] \in Int
    <3>1. \A j \in Hours : p.energy[j] = RoundedEnergy(day, Net(day, x))[j]
      BY DEF PlanOf
    <3>2. \A j \in Hours : RoundedEnergy(day, Net(day, x))[j] = x.energy[j] /\ x.energy[j] \in Int
      BY ExactNet, ScheduleFacts
    <3> HIDE DEF p
    <3> QED BY <3>1, <3>2, HoursFacts
  <2>7. need = day.demand[h] + n
    OBVIOUS
  <2> HIDE DEF p, n, use, need
  <2>8. NonNegative(p, h)
    BY <1>2, <2>2, <2>3 DEF NonNegative, AbsOf
  <2>9. RatesKept(day, p, h)
    BY <1>2, <2>2, <2>3, <2>5 DEF RatesKept, Action, AbsOf
  <2>10. WindowsKept(b, p, h)
    BY <2>2, <2>3, <2>4 DEF WindowsKept, Action
  <2>11. EnergyKept(day, b, p, h)
    <3>1. p.energy[h] - EnergyBefore(day, p, h) - Signed(p, h) = 0
      BY <2>2, <2>3, <2>5, <2>6 DEF EnergyBefore
    <3> QED BY <1>2, <2>2, <2>3, <2>4, <2>5, <3>1 DEF EnergyKept, AbsOf
  <2>12. SourcesKept(day, b, p, h)
    <3>1. p.grid[h] + p.solar[h] - day.demand[h] - Signed(p, h) = 0
      BY <2>2, <2>3, <2>5, <2>7
    <3>2. p.solar[h] <= EffectiveSolar(day, b)[h] + Tol
      BY <1>1, <1>2, <2>2
    <3> QED BY <1>2, <2>1, <2>2, <3>1, <3>2 DEF SourcesKept, AbsOf
  <2> QED BY <2>1, <2>2, <2>8, <2>9, <2>10, <2>11, <2>12
<1>4. AbsOf(p.energy[LastHour] - day.initial) <= Tol
  <2>1. p.energy[LastHour] = day.initial /\ day.initial \in Int
    <3> HIDE DEF p
    <3> QED BY <1>3, HoursFacts, ScheduleFacts, DayFacts
  <2> HIDE DEF p
  <2> QED BY <1>2, <2>1 DEF AbsOf
<1> HIDE DEF p
<1>5. Accepted(day, b, p)
  BY <1>3, <1>4 DEF Accepted
<1>6. ~CapBroken(day, x, solar, cap)
  BY <1>3 DEF CapBroken
<1> QED BY <1>5, <1>6 DEF p

LEMMA FeasiblePlanPasses ==
    ASSUME Micro = 1, NEW day \in Scenarios, NEW b, NumericBounds(b), NEW x \in Feasible(day, b)
    PROVE  /\ Accepted(day, b, PlanOf(day, x, EffectiveSolar(day, b), b.gridCap))
           /\ ~CapBroken(day, x, EffectiveSolar(day, b), b.gridCap)
           /\ \A h \in Hours : Lesser(x.solar[h], EffectiveSolar(day, b)[h]) = x.solar[h]
<1> DEFINE solar == EffectiveSolar(day, b)
<1>1. ASSUME NEW h \in Hours
      PROVE  /\ x \in Schedules(day, solar)
             /\ ~b.chargeOk[h] => NetCharge(day, x, h) <= 0
             /\ ~b.dischargeOk[h] => NetCharge(day, x, h) >= 0
             /\ Grid(day, x, h) <= b.gridCap[h]
             /\ x.energy[h] >= b.reserve[h]
  BY FeasibleFacts
<1>2. x \in Schedules(day, solar)
  BY DEF Feasible
<1>3. \A h \in Hours : solar[h] \in Int /\ b.gridCap[h] \in Int
  BY SolarFacts DEF NumericBounds
<1> HIDE DEF solar
<1>4. ASSUME NEW h \in Hours
      PROVE  /\ 0 <= solar[h] /\ Lesser(x.solar[h], solar[h]) = x.solar[h]
             /\ ~OverCap(Drawn(day, x, solar, h), b.gridCap[h])
  <2>1. /\ x.solar[h] \in Int /\ 0 <= x.solar[h] /\ x.solar[h] <= solar[h]
        /\ Grid(day, x, h) \in Int
        /\ Grid(day, x, h) = day.demand[h] + NetCharge(day, x, h) - x.solar[h]
    BY <1>2, ScheduleFacts
  <2>2. Lesser(x.solar[h], solar[h]) = x.solar[h]
    BY <2>1 DEF Lesser
  <2>3. Tol \in Nat
    BY MicroAssumption
  <2>4. Drawn(day, x, solar, h) = Grid(day, x, h)
    BY <2>1, <2>2 DEF Drawn
  <2>5. Grid(day, x, h) <= b.gridCap[h]
    BY <1>1
  <2> QED BY <1>3, <2>1, <2>2, <2>3, <2>4, <2>5 DEF OverCap
<1>5. Accepted(day, b, PlanOf(day, x, solar, b.gridCap)) /\ ~CapBroken(day, x, solar, b.gridCap)
  <2>1. solar = EffectiveSolar(day, b)
    BY DEF solar
  <2> QED BY <1>1, <1>2, <1>4, <2>1, ExactPlanPasses
<1> QED BY <1>4, <1>5 DEF solar

LEMMA ElasticPlanPasses ==
    ASSUME Micro = 1, NEW day \in Scenarios, NEW b, NumericBounds(b), NEW x \in Physical(day),
           \A h \in Hours : /\ 0 <= b.factor[h] /\ b.reserve[h] = day.minimum
                            /\ b.chargeOk[h] /\ b.dischargeOk[h] /\ b.gridCap[h] = Unlimited,
           NEW cap, \A h \in Hours : cap[h] = Unlimited
    PROVE  /\ Accepted(day, b, PlanOf(day, x, EffectiveSolar(day, b), cap))
           /\ ~CapBroken(day, x, EffectiveSolar(day, b), cap)
<1> DEFINE solar == EffectiveSolar(day, b)
<1>1. x \in Schedules(day, day.solar)
  BY DEF Physical
<1>2. \A h \in Hours : x.energy[h] >= b.reserve[h]
  BY <1>1, ScheduleFacts, DayFacts
<1>3. \A h \in Hours : 0 <= solar[h]
  BY SolarFacts
<1>4. \A g, h : h \in Hours => ~OverCap(g, cap[h]) /\ ~OverCap(g, b.gridCap[h])
  BY DEF OverCap
<1>5. solar = EffectiveSolar(day, b)
  OBVIOUS
<1> HIDE DEF solar
<1>6. Accepted(day, b, PlanOf(day, x, solar, cap)) /\ ~CapBroken(day, x, solar, cap)
  BY <1>1, <1>2, <1>3, <1>4, <1>5, ExactPlanPasses
<1> QED BY <1>5, <1>6

-----------------------------------------------------------------------------
(* Without rounding no fallback is needed.                                  *)

Plain == {"diagnose", "correct", "resolve", "resolveAgain", "policy"}

ExactOutcome ==
    \/ ~elastic /\ plan = [kind |-> "optimal", checked |-> "directives"]
    \/ elastic /\ plan = [kind |-> "elastic", checked |-> "physics"]

(* The inductive invariant: an elastic plan is made without hedges, and a   *)
(* plan passes its replay.                                                  *)
ExactInv ==
    /\ pc \in Plain \/ elastic => built.hedges = FALSE
    /\ pc = "answered" => ExactOutcome

LEMMA PrimaryFactors ==
    ASSUME ProblemInv, built.hedges = FALSE
    PROVE  \A h \in Hours : 0 <= bounds.factor[h]
<1> DEFINE D == Kept(Applied(built.from), FALSE)
<1>1. Combinable(D) /\ FactorsNotNegative(D)
  BY ReadingFacts, KeptFacts DEF ProblemInv
<1>2. \A h \in Hours : bounds.factor[h] = Factor(D, h)
  BY DEF ProblemInv, BuildBounds
<1> HIDE DEF D
<1> QED BY <1>1, <1>2, FactorRange

LEMMA ExactReplay ==
    ASSUME Micro = 1, ProblemInv, Solves, elastic \in BOOLEAN, elastic => built.hedges = FALSE,
           NEW cap, cap = IF elastic THEN NoCaps ELSE bounds.gridCap
    PROVE  /\ ~CapBroken(in, solution, Available, cap)
           /\ Accepted(in, IF elastic THEN PhysicsBounds ELSE bounds, PlanOf(in, solution, Available, cap))
<1>1. in \in Scenarios /\ NumericBounds(bounds) /\ NumericBounds(PhysicsBounds)
  BY BoundsFacts DEF ProblemInv
<1>2. CASE ~elastic
  <2>1. solution \in Feasible(in, bounds) /\ cap = bounds.gridCap /\ Available = EffectiveSolar(in, bounds)
    BY <1>2, SolutionFacts DEF Available
  <2> QED BY <1>1, <1>2, <2>1, FeasiblePlanPasses
<1>3. CASE elastic
  <2>1. solution \in Physical(in) /\ \A h \in Hours : cap[h] = Unlimited
    BY <1>3, SolutionFacts DEF NoCaps
  <2>2. Available = EffectiveSolar(in, PhysicsBounds)
    BY BoundsFacts DEF Available, EffectiveSolar
  <2>3. \A h \in Hours : /\ 0 <= PhysicsBounds.factor[h] /\ PhysicsBounds.reserve[h] = in.minimum
                         /\ PhysicsBounds.chargeOk[h] /\ PhysicsBounds.dischargeOk[h]
                         /\ PhysicsBounds.gridCap[h] = Unlimited
    BY <1>3, BoundsFacts, PrimaryFactors
  <2> QED BY <1>1, <1>3, <2>1, <2>2, <2>3, ElasticPlanPasses
<1> QED BY <1>2, <1>3

LEMMA ExactReplayPasses ==
    ASSUME Micro = 1, ProblemInv, SolutionInv, ExactInv, pc = "replay"
    PROVE  ReplayPassed
<1>1. /\ elastic \in BOOLEAN /\ Solves /\ (elastic => built.hedges = FALSE)
      /\ entries = PlanOf(in, solution, Available, IF elastic THEN NoCaps ELSE bounds.gridCap)
  BY DEF SolutionInv, ExactInv
<1> QED BY <1>1, ExactReplay DEF ReplayPassed

LEMMA InitExact == Init => ExactInv
BY DEF Init, ExactInv, Plain

LEMMA NextKeepsExact ==
    ASSUME Micro = 1, ProblemInv, SolutionInv, ExactInv, [Next]_vars
    PROVE  ExactInv'
<1>1. ASSUME NEW hedges, NEW stage, pc \in Early, RebuildAndSolve(hedges, stage),
             stage \in Plain => hedges = FALSE, stage # "answered"
      PROVE  ExactInv'
  <2>1. /\ elastic' = elastic /\ elastic = FALSE /\ built'.hedges = hedges
        /\ pc' = stage \/ pc' = "postprocess"
    BY <1>1 DEF RebuildAndSolve, SolutionInv
  <2> QED BY <1>1, <2>1 DEF ExactInv, Plain
<1>2. CASE SolveHedged \/ SolvePlain \/ Resolve \/ ResolveAgain
  <2>1. /\ pc \in Early
        /\ \/ RebuildAndSolve(TRUE, "solvePlain") \/ RebuildAndSolve(FALSE, "diagnose")
           \/ RebuildAndSolve(FALSE, "resolveAgain") \/ RebuildAndSolve(FALSE, "policy")
    BY <1>2 DEF SolveHedged, SolvePlain, Resolve, ResolveAgain, Early
  <2>2. "solvePlain" \notin Plain
    BY DEF Plain
  <2> QED BY <1>1, <2>1, <2>2
<1>3. CASE Interpret \/ Diagnose \/ CorrectNote \/ CorrectionDone \/ Policy \/ Expire
  <2>1. /\ built' = built /\ pc' # "answered"
        /\ pc' \in Plain \/ elastic' => pc \in Plain \/ elastic
    BY <1>3 DEF Interpret, Diagnose, CorrectNote, CorrectionDone, Policy, Expire, Plain
  <2> QED BY <2>1 DEF ExactInv
<1>4. CASE Postprocess
  <2>1. /\ elastic \in BOOLEAN /\ Solves /\ (elastic => built.hedges = FALSE)
    BY <1>4 DEF Postprocess, SolutionInv, ExactInv
  <2>2. ~CapBroken(in, solution, Available, IF elastic THEN NoCaps ELSE bounds.gridCap)
    BY <2>1, ExactReplay
  <2>3. elastic' = elastic /\ built' = built /\ pc' = "replay"
    BY <1>4, <2>2 DEF Postprocess
  <2> QED BY <2>1, <2>3 DEF ExactInv, Plain
<1>5. CASE Replay
  <2>1. ReplayPassed
    BY <1>5, ExactReplayPasses DEF Replay
  <2>2. /\ plan' = [plan EXCEPT !.checked = IF elastic THEN "physics" ELSE "directives"]
        /\ elastic' = elastic /\ built' = built /\ pc' = "answered"
    BY <1>5, <2>1 DEF Replay
  <2>3. plan = Kind(elastic) /\ elastic \in BOOLEAN
    BY <1>5 DEF Replay, SolutionInv
  <2>4. ExactOutcome'
    <3>1. CASE elastic
      BY <2>2, <2>3, <3>1 DEF ExactOutcome, Kind
    <3>2. CASE ~elastic
      BY <2>2, <2>3, <3>2 DEF ExactOutcome, Kind
    <3> QED BY <3>1, <3>2
  <2> QED BY <2>2, <2>4 DEF ExactInv, Plain
<1>6. CASE UNCHANGED vars
  BY <1>6 DEF vars, ExactInv, ExactOutcome
<1> QED BY <1>2, <1>3, <1>4, <1>5, <1>6 DEF Next

LEMMA ExactInvariant ==
    ASSUME Micro = 1
    PROVE  Spec => []ExactInv
<1>1. ProblemInv /\ SolutionInv /\ ExactInv /\ [Next]_vars => ExactInv'
  BY NextKeepsExact
<1> QED BY <1>1, InitExact, ProblemInvariant, SolutionInvariant, PTL DEF Spec

(* A plan of the elastic program obeys the physics once its solar use is    *)
(* clipped to what the reported directives leave (orchestrator.py:131-142). *)
THEOREM ElasticPlansPass ==
    ASSUME Micro = 1
    PROVE  Spec => []ElasticPasses
<1>1. ProblemInv /\ SolutionInv /\ ExactInv => ElasticPasses
  BY ExactReplayPasses DEF ElasticPasses
<1> QED BY <1>1, ProblemInvariant, SolutionInvariant, ExactInvariant, PTL

-----------------------------------------------------------------------------
(* The reported readings.                                                   *)

Rereading == {"interpret", "solveHedged", "correct", "resolve"}

(* The inductive invariant: but for the stages that change the readings,    *)
(* and the one that follows, the bounds are those of the reported readings, *)
(* until the idle plan replaces them.                                       *)
ReportedInv ==
    pc \notin Rereading => built.from = reading \/ (pc = "answered" /\ plan.kind = "idle")

LEMMA NextKeepsReported == ReportedInv /\ [Next]_vars => ReportedInv'
<1> SUFFICES ASSUME ReportedInv, [Next]_vars PROVE ReportedInv'
  OBVIOUS
<1>1. ASSUME NEW hedges, NEW stage, RebuildAndSolve(hedges, stage)
      PROVE  ReportedInv'
  BY <1>1 DEF RebuildAndSolve, ReportedInv
<1>2. CASE SolveHedged \/ SolvePlain \/ Resolve \/ ResolveAgain
  <2>1. \/ RebuildAndSolve(TRUE, "solvePlain") \/ RebuildAndSolve(FALSE, "diagnose")
        \/ RebuildAndSolve(FALSE, "resolveAgain") \/ RebuildAndSolve(FALSE, "policy")
    BY <1>2 DEF SolveHedged, SolvePlain, Resolve, ResolveAgain
  <2> QED BY <1>1, <2>1
<1>3. CASE Interpret \/ CorrectNote \/ CorrectionDone
  BY <1>3 DEF Interpret, CorrectNote, CorrectionDone, ReportedInv, Rereading
<1>4. CASE Diagnose \/ Policy \/ Postprocess \/ Expire
  BY <1>4 DEF Diagnose, Policy, Postprocess, Expire, ReportedInv, Rereading
<1>6. CASE Replay
  <2>1. /\ pc = "replay" /\ pc' = "answered" /\ reading' = reading
        /\ GoIdle \/ UNCHANGED built
    BY <1>6 DEF Replay
  <2>2. CASE GoIdle
    BY <2>1, <2>2 DEF GoIdle, ReportedInv
  <2> QED BY <2>1, <2>2 DEF ReportedInv, Rereading
<1>5. CASE UNCHANGED vars
  BY <1>5 DEF vars, ReportedInv
<1> QED BY <1>2, <1>3, <1>4, <1>5, <1>6 DEF Next

LEMMA ReportedInvariant == Spec => []ReportedInv
<1>1. Init => ReportedInv
  BY DEF Init, ReportedInv, Rereading
<1> QED BY <1>1, NextKeepsReported, PTL DEF Spec

(* Guardrails lets a hedge have a negative factor, but none of these has.   *)
NegativesOf(D) == {d \in D : d.type = "solar_reduction" /\ d.value < 0}

NoNegatives == \A n \in Notes : \A r \in ReadingsOf[n] : NegativesOf(r) = {}

(* The plan satisfies the replay for whichever of a note's readings is the  *)
(* true one: "more restrictive constraints keep a plan valid under the      *)
(* looser truth" (planning.md 4.9).  Factors that are not negative are      *)
(* needed: with two notes, one of a negative factor, the solar that is left *)
(* may grow with another directive.                                         *)
THEOREM AnyReadingIsObeyed ==
    ASSUME NoNegatives
    PROVE  Spec => []ValidForEveryReading
<1>1. ASSUME ProblemInv, SolutionInv, ReportedInv, pc = "answered",
             plan = [kind |-> "optimal", checked |-> "directives"],
             NEW true, true \subseteq Kept(Applied(reading), built.hedges)
      PROVE  Accepted(in, BuildBounds(true, in.minimum, TRUE), entries)
  <2> DEFINE A == Applied(reading)
             all == TRUE
  <2>1. /\ in \in Scenarios /\ in.minimum \in Int /\ Outcome /\ built.from = reading
        /\ IsReading(reading) /\ bounds = BuildBounds(A, in.minimum, built.hedges)
    BY <1>1, DayFacts DEF ProblemInv, SolutionInv, ReportedInv, Rereading
  <2>2. Solves /\ ~elastic /\ entries = PlanOf(in, solution, Available, bounds.gridCap)
        /\ Accepted(in, bounds, entries)
    BY <1>1, <2>1 DEF Outcome
  <2>3. NumericPlan(entries)
    BY <1>1, <2>1, <2>2, SolutionFacts, PlanIsNumeric
  <2>4. Combinable(A) /\ FactorsNotNegative(A)
    <3>1. \A n \in Notes : NegativesOf(reading[n]) = {}
      BY <2>1 DEF IsReading, NoNegatives, NegativesOf
    <3>2. \A d \in A : d.type = "solar_reduction" => ~(d.value < 0)
      BY <3>1 DEF NegativesOf, Applied
    <3>3. Combinable(A)
      BY <2>1, ReadingFacts
    <3> HIDE DEF A
    <3> QED BY <3>2, <3>3 DEF FactorsNotNegative, Combinable
  <2>5. Combinable(true) /\ Kept(true, all) \subseteq Kept(A, built.hedges)
    <3>1. true \subseteq A /\ Kept(true, all) = true /\ Kept(true, all) \subseteq Kept(A, built.hedges)
      BY <1>1 DEF Kept
    <3> HIDE DEF A, all
    <3> QED BY <2>4, <3>1, FS_Subset DEF Combinable
  <2>6. FactorsNotNegative(Kept(A, built.hedges))
    <3> HIDE DEF A
    <3> QED BY <2>4, KeptFacts
  <2>7. /\ Tighter(bounds, BuildBounds(true, in.minimum, all))
        /\ NumericBounds(bounds) /\ NumericBounds(BuildBounds(true, in.minimum, all))
    <3> HIDE DEF A, all
    <3> QED BY <2>1, <2>4, <2>5, <2>6, MoreDirectivesTighten, BuiltBoundsAreNumeric
  <2>8. Accepted(in, BuildBounds(true, in.minimum, all), entries)
    <3> HIDE DEF A, all
    <3> QED BY <2>1, <2>2, <2>3, <2>7, LooserBoundsAccept
  <2> QED BY <2>8
<1>2. ProblemInv /\ SolutionInv /\ ReportedInv => ValidForEveryReading
  <2>1. ASSUME NEW true \in OneOfEach([n \in Notes |-> Kept(reading[n], built.hedges)])
        PROVE  true \subseteq Kept(Applied(reading), built.hedges)
    BY <2>1 DEF OneOfEach, Kept, Applied
  <2> QED BY <1>1, <2>1 DEF ValidForEveryReading
<1> QED BY <1>2, ProblemInvariant, SolutionInvariant, ReportedInvariant, PTL

-----------------------------------------------------------------------------
(* The optima.  There are finitely many schedules, so that some are best.   *)

LEMMA FunctionsAreFinite ==
    ASSUME NEW S, IsFiniteSet(S), NEW T, IsFiniteSet(T)
    PROVE  IsFiniteSet([S -> T])
<1> DEFINE Graph(e) == {<<x, e[x]>> : x \in S}
           g == [e \in [S -> T] |-> Graph(e)]
<1>1. IsFiniteSet(SUBSET (S \X T))
  BY FS_Product, FS_SUBSET
<1>2. \A e \in [S -> T] : Graph(e) \in SUBSET (S \X T)
  OBVIOUS
<1>3. ASSUME NEW d \in [S -> T], NEW e \in [S -> T], Graph(d) = Graph(e)
      PROVE  d = e
  <2>1. ASSUME NEW x \in S PROVE d[x] = e[x]
    <3>1. <<x, d[x]>> \in Graph(e)
      BY <1>3
    <3>2. PICK y \in S : <<x, d[x]>> = <<y, e[y]>>
      BY <3>1
    <3> QED BY <3>2
  <2> QED BY <2>1
<1>4. g \in [[S -> T] -> SUBSET (S \X T)] /\ \A e \in [S -> T] : g[e] = Graph(e)
  <2> HIDE DEF Graph
  <2> QED BY <1>2
<1>5. g \in Injection([S -> T], SUBSET (S \X T))
  <2> HIDE DEF g, Graph
  <2> QED BY <1>3, <1>4 DEF Injection, IsInjective
<1> HIDE DEF g, Graph
<1> QED BY <1>1, <1>5, FS_Injection

LEMMA SchedulesAreFinite ==
    ASSUME NEW day \in Scenarios, NEW maxSolar, \A h \in Hours : maxSolar[h] \in Int
    PROVE  IsFiniteSet(Schedules(day, maxSolar))
<1> DEFINE most == Max({maxSolar[h] : h \in Hours})
           E == [Hours -> day.minimum .. day.capacity]
           S == [Hours -> 0 .. most]
           X == Schedules(day, maxSolar)
           g == [x \in X |-> <<x.energy, x.solar>>]
<1>1. most \in Int
  <2> DEFINE T == {maxSolar[h] : h \in Hours}
  <2>1. T \subseteq Int /\ T # {}
    BY BoundsAssumption
  <2>2. IsFiniteSet(T)
    BY BoundsAssumption, ImageIsFinite
  <2> HIDE DEF T
  <2>3. Max(T) \in Int
    BY <2>1, <2>2, MaxFacts
  <2> QED BY <2>3 DEF T
<1>2. IsFiniteSet(E) /\ IsFiniteSet(S)
  <2>1. IsFiniteSet(day.minimum .. day.capacity) /\ IsFiniteSet(0 .. most)
    <3> HIDE DEF most
    <3> QED BY <1>1, DayFacts, FS_Interval
  <2> HIDE DEF most
  <2> QED BY <2>1, BoundsAssumption, FunctionsAreFinite
<1>3. IsFiniteSet(E \X S)
  <2> HIDE DEF E, S
  <2> QED BY <1>2, FS_Product
<1>4. X \subseteq [energy : E, solar : S]
  BY DEF Schedules
<1> HIDE DEF E, S, X
<1>5. g \in [X -> E \X S] /\ \A x \in X : g[x] = <<x.energy, x.solar>>
  BY <1>4
<1> HIDE DEF g
<1>6. \A x, y \in X : g[x] = g[y] => x = y
  BY <1>4, <1>5
<1>7. g \in Injection(X, E \X S)
  BY <1>5, <1>6 DEF Injection, IsInjective
<1>8. IsFiniteSet(X)
  BY <1>3, <1>7, FS_Injection
<1> QED BY <1>8 DEF X

LEMMA LeastFacts ==
    ASSUME NEW S, IsFiniteSet(S), NEW f, \A x \in S : f[x] \in Int,
           NEW T, \A x \in S : f[x] \in T, \A t \in T : \E x \in S : f[x] = t,
           NEW L, \A x : x \in L <=> x \in S /\ f[x] = Min(T)
    PROVE  /\ L \subseteq S /\ (S # {} => L # {})
           /\ \A x \in L, y \in S : f[x] <= f[y]
<1> DEFINE g == [x \in S |-> f[x]]
<1>1. g \in Surjection(S, T)
  BY Zenon DEF Surjection
<1> HIDE DEF g
<1>2. IsFiniteSet(T) /\ T \subseteq Int
  BY <1>1, FS_Surjection
<1>3. CASE S # {}
  <2>1. Min(T) \in T /\ \A t \in T : Min(T) <= t
    BY <1>2, <1>3, MinFacts
  <2> QED BY <2>1
<1>4. CASE S = {}
  BY <1>4
<1> QED BY <1>3, <1>4

(* A total over the hours is a fold, and compares term by term.             *)
LEMMA SumIsFold ==
    ASSUME NEW f
    PROVE  IsFold("sum", Hours, f, SumOver(f))
<1> DEFINE Equation(r) == r = [s \in SUBSET Hours |->
                                   IF s = {} THEN 0
                                   ELSE f[CHOOSE x \in s : TRUE] + r[s \ {CHOOSE x \in s : TRUE}]]
<1>1. PICK g : Folds("sum", Hours, f, g)
  BY BoundsAssumption, FoldExists
<1>2. ASSUME NEW r PROVE Equation(r) <=> Folds("sum", Hours, f, r)
  <2>1. ASSUME NEW s \in SUBSET Hours
        PROVE  Folded("sum", f, s, r) =
                  IF s = {} THEN 0
                  ELSE f[CHOOSE x \in s : TRUE] + r[s \ {CHOOSE x \in s : TRUE}]
    <3>1. CASE s = {}
      BY <3>1 DEF Folded
    <3>2. CASE s # {}
      <4>1. Folded("sum", f, s, r) = f[Chosen(s)] + r[s \ {Chosen(s)}]
        BY <3>2 DEF Folded
      <4> QED BY <3>2, <4>1, Zenon DEF Chosen
    <3> QED BY <3>1, <3>2
  <2> QED BY <2>1, Zenon DEF Folds
<1>3. SumOver(f) = (CHOOSE r : Equation(r))[Hours]
  BY DEF SumOver, MapThenSumSet, MapThenFoldSet
<1> HIDE DEF Equation
<1>4. Equation(CHOOSE r : Equation(r))
  BY <1>1, <1>2, Zenon
<1> QED BY <1>2, <1>3, <1>4 DEF IsFold

LEMMA SumsCompare ==
    ASSUME NEW e, NEW f, \A h \in Hours : e[h] \in Int /\ f[h] \in Int /\ e[h] <= f[h]
    PROVE  SumOver(e) \in Int /\ SumOver(f) \in Int /\ SumOver(e) <= SumOver(f)
<1>1. IsFold("sum", Hours, e, SumOver(e)) /\ IsFold("sum", Hours, f, SumOver(f))
  BY SumIsFold
<1> QED BY <1>1, BoundsAssumption, SumIsMonotone

LEMMA MeasuresAreNumbers ==
    ASSUME NEW day \in Scenarios, NEW maxSolar, NEW x \in Schedules(day, maxSolar),
           NEW b, NumericBounds(b)
    PROVE  Cost(day, x) \in Int /\ Cycling(day, x) \in Int /\ Slack(day, b, x) \in Int
<1> DEFINE cost == [h \in Hours |-> day.tariff[h] * Grid(day, x, h)]
           cycles == [h \in Hours |-> Charge(day, x, h) + Discharge(day, x, h)]
           slack == [h \in Hours |->
                        Excess(Grid(day, x, h) - b.gridCap[h])
                         + Excess(x.solar[h] - EffectiveSolar(day, b)[h])
                         + (IF b.chargeOk[h] THEN 0 ELSE Charge(day, x, h))
                         + (IF b.dischargeOk[h] THEN 0 ELSE Discharge(day, x, h))
                         + Excess(b.reserve[h] - x.energy[h])]
<1>1. ASSUME NEW h \in Hours
      PROVE  /\ NetCharge(day, x, h) \in Int /\ Grid(day, x, h) \in Int /\ x.solar[h] \in Int
             /\ x.energy[h] \in Int /\ day.tariff[h] \in Int /\ EffectiveSolar(day, b)[h] \in Int
             /\ b.gridCap[h] \in Int /\ b.reserve[h] \in Int
  BY ScheduleFacts, DayFacts, SolarFacts DEF NumericBounds
<1>2. \A n \in Int : Excess(n) \in Int
  BY DEF Excess
<1>3. \A h \in Hours : Charge(day, x, h) \in Int /\ Discharge(day, x, h) \in Int
  BY <1>1, <1>2 DEF Charge, Discharge
<1>4. \A h \in Hours : cost[h] \in Int
  BY <1>1
<1>5. \A h \in Hours : cycles[h] \in Int
  BY <1>3
<1>6. \A h \in Hours : slack[h] \in Int
  <2> SUFFICES ASSUME NEW h \in Hours PROVE slack[h] \in Int
    OBVIOUS
  <2>1. /\ Excess(Grid(day, x, h) - b.gridCap[h]) \in Int
        /\ Excess(x.solar[h] - EffectiveSolar(day, b)[h]) \in Int
        /\ Excess(b.reserve[h] - x.energy[h]) \in Int
    BY <1>1, <1>2
  <2> QED BY <1>3, <2>1
<1>7. Cost(day, x) = SumOver(cost) /\ Cycling(day, x) = SumOver(cycles) /\ Slack(day, b, x) = SumOver(slack)
  BY DEF Cost, Cycling, Slack
<1> HIDE DEF cost, cycles, slack
<1>8. SumOver(cost) \in Int /\ SumOver(cycles) \in Int /\ SumOver(slack) \in Int
  BY <1>4, <1>5, <1>6, SumsCompare
<1> QED BY <1>7, <1>8

LEMMA OptimalFacts ==
    ASSUME NEW day \in Scenarios, NEW b, NumericBounds(b)
    PROVE  /\ Optimal(day, b) = {} <=> Feasible(day, b) = {}
           /\ \A x \in Optimal(day, b), y \in Feasible(day, b) : Cost(day, x) <= Cost(day, y)
<1> DEFINE valid == Feasible(day, b)
           costs == {Cost(day, y) : y \in valid}
           cheapest == {x \in valid : Cost(day, x) = Min(costs)}
           lengths == {Cycling(day, y) : y \in cheapest}
           calm == {x \in cheapest : Cycling(day, x) = Min(lengths)}
           cost == [x \in valid |-> Cost(day, x)]
           length == [x \in cheapest |-> Cycling(day, x)]
<1>1. /\ valid = {} => Optimal(day, b) = {}
      /\ valid # {} => Optimal(day, b) = cheapest \/ Optimal(day, b) = calm
  BY DEF Optimal, Least
<1>2. IsFiniteSet(valid)
  <2>1. valid \subseteq Schedules(day, EffectiveSolar(day, b))
    BY DEF Feasible
  <2>2. IsFiniteSet(Schedules(day, EffectiveSolar(day, b)))
    BY SolarFacts, SchedulesAreFinite
  <2> HIDE DEF valid
  <2> QED BY <2>1, <2>2, FS_Subset
<1>3. \A x \in valid : Cost(day, x) \in Int /\ Cycling(day, x) \in Int
  <2>1. \A x \in valid : x \in Schedules(day, EffectiveSolar(day, b))
    BY DEF Feasible
  <2> HIDE DEF valid
  <2> QED BY <2>1, MeasuresAreNumbers
<1> HIDE DEF valid
<1>4. /\ cheapest \subseteq valid /\ (valid # {} => cheapest # {})
      /\ \A x \in cheapest, y \in valid : cost[x] <= cost[y]
  <2>1. /\ \A x \in valid : cost[x] \in Int /\ cost[x] \in costs
        /\ \A t \in costs : \E x \in valid : cost[x] = t
        /\ \A x : x \in cheapest <=> x \in valid /\ cost[x] = Min(costs)
    BY <1>3
  <2> HIDE DEF cost, costs, cheapest
  <2> QED BY <1>2, <2>1, LeastFacts
<1>5. calm \subseteq cheapest /\ (cheapest # {} => calm # {})
  <2>1. IsFiniteSet(cheapest) /\ \A x \in cheapest : Cycling(day, x) \in Int
    <3> HIDE DEF cheapest
    <3> QED BY <1>2, <1>3, <1>4, FS_Subset
  <2> HIDE DEF cheapest
  <2>2. /\ \A x \in cheapest : length[x] \in Int /\ length[x] \in lengths
        /\ \A t \in lengths : \E x \in cheapest : length[x] = t
        /\ \A x : x \in calm <=> x \in cheapest /\ length[x] = Min(lengths)
    BY <2>1
  <2> HIDE DEF length, lengths, calm
  <2> QED BY <2>1, <2>2, LeastFacts
<1>6. \A x \in valid : cost[x] = Cost(day, x)
  OBVIOUS
<1> HIDE DEF cost, calm, cheapest, length
<1>7. valid = Feasible(day, b)
  BY DEF valid
<1> QED BY <1>1, <1>4, <1>5, <1>6, <1>7

LEMMA ElasticFacts ==
    ASSUME NEW day \in Scenarios, NEW b, NumericBounds(b)
    PROVE  \A x \in ElasticOptimal(day, b), y \in Physical(day) : Slack(day, b, x) <= Slack(day, b, y)
<1> DEFINE possible == Physical(day)
           slacks == {Slack(day, b, y) : y \in possible}
           least == {x \in possible : Slack(day, b, x) = Min(slacks)}
           slack == [x \in possible |-> Slack(day, b, x)]
<1>1. ElasticOptimal(day, b) \subseteq least
  BY DEF ElasticOptimal, Least
<1>2. IsFiniteSet(possible)
  BY DayFacts, SchedulesAreFinite DEF Physical
<1>3. \A x \in possible : Slack(day, b, x) \in Int
  BY MeasuresAreNumbers DEF Physical
<1>4. possible = Physical(day)
  OBVIOUS
<1> HIDE DEF possible
<1>5. least \subseteq possible /\ \A x \in least, y \in possible : slack[x] <= slack[y]
  <2>1. /\ \A x \in possible : slack[x] \in Int /\ slack[x] \in slacks
        /\ \A t \in slacks : \E x \in possible : slack[x] = t
        /\ \A x : x \in least <=> x \in possible /\ slack[x] = Min(slacks)
    BY <1>3
  <2> HIDE DEF slack, slacks, least
  <2> QED BY <1>2, <2>1, LeastFacts
<1>6. \A x \in possible : slack[x] = Slack(day, b, x)
  OBVIOUS
<1> HIDE DEF slack, least
<1> QED BY <1>1, <1>4, <1>5, <1>6

LEMMA OptimumGrid ==
    ASSUME Micro = 1, NEW day \in Scenarios, NEW b, NumericBounds(b), NEW x \in Feasible(day, b), NEW h \in Hours
    PROVE  PlanOf(day, x, EffectiveSolar(day, b), b.gridCap).grid[h] = Grid(day, x, h)
<1> DEFINE solar == EffectiveSolar(day, b)
           use == Lesser(x.solar[h], solar[h])
           need == day.demand[h] + NetCharge(day, x, h)
           p == PlanOf(day, x, solar, b.gridCap)
<1>1. x \in Schedules(day, solar) /\ solar[h] \in Int /\ use = x.solar[h]
  BY FeasibleFacts, SolarFacts, FeasiblePlanPasses
<1>2. /\ 0 <= x.solar[h] /\ x.solar[h] <= solar[h] /\ x.solar[h] \in Int
      /\ Grid(day, x, h) = need - x.solar[h] /\ Grid(day, x, h) <= b.gridCap[h]
      /\ Grid(day, x, h) \in Int /\ b.gridCap[h] \in Int /\ day.demand[h] \in Nat
      /\ NetCharge(day, x, h) \in Int
  <2> HIDE DEF solar
  <2> QED BY <1>1, ScheduleFacts, FeasibleFacts, DayFacts DEF NumericBounds
<1>3. ~OverCap(need - use, b.gridCap[h])
  <2>1. need - use = Grid(day, x, h)
    BY <1>1, <1>2
  <2> QED BY <1>2, <2>1, MicroAssumption DEF OverCap
<1>4. 0 <= solar[h]
  <2> HIDE DEF solar
  <2> QED BY <1>1, <1>2
<1>5. p.grid[h] = need - use
  <2>1. use = Lesser(x.solar[h], solar[h]) /\ need = day.demand[h] + NetCharge(day, x, h)
        /\ p = PlanOf(day, x, solar, b.gridCap)
    OBVIOUS
  <2> HIDE DEF solar, use, need, p
  <2> QED BY <1>1, <1>3, <1>4, <2>1, ExactPlan
<1> QED BY <1>1, <1>2, <1>5

(* No plan that the replay accepts for these bounds, with every amount on   *)
(* the grid of the plan, is cheaper than the one returned (solver.py:60-79, *)
(* postprocess.py:66-82).                                                   *)
THEOREM CheapestPlanReturned ==
    ASSUME Micro = 1
    PROVE  Spec => []PlanIsCheapest
<1>1. ASSUME ProblemInv, SolutionInv, ExactInv, pc = "answered", plan.kind = "optimal",
             NEW x \in Feasible(in, bounds)
      PROVE  PlanCost(entries) <= Cost(in, x)
  <2>1. in \in Scenarios /\ NumericBounds(bounds) /\ Outcome /\ ExactOutcome
    BY <1>1, BoundsFacts DEF ProblemInv, SolutionInv, ExactInv
  <2>2. ~elastic /\ Solves /\ entries = PlanOf(in, solution, EffectiveSolar(in, bounds), bounds.gridCap)
    BY <1>1, <2>1 DEF Outcome, ExactOutcome, Available
  <2>3. solution \in Optimal(in, bounds) /\ solution \in Feasible(in, bounds)
    BY <1>1, <2>2, SolutionFacts DEF Solves
  <2>4. \A h \in Hours : entries.grid[h] = Grid(in, solution, h)
    BY <2>1, <2>2, <2>3, OptimumGrid
  <2>5. [h \in Hours |-> in.tariff[h] * entries.grid[h]]
            = [h \in Hours |-> in.tariff[h] * Grid(in, solution, h)]
    BY <2>4
  <2>6. PlanCost(entries) = Cost(in, solution)
    BY <2>5 DEF PlanCost, Cost
  <2> QED BY <2>1, <2>3, <2>6, OptimalFacts
<1>2. ProblemInv /\ SolutionInv /\ ExactInv => PlanIsCheapest
  BY <1>1 DEF PlanIsCheapest
<1> QED BY <1>2, ProblemInvariant, SolutionInvariant, ExactInvariant, PTL

(* Clipping the solar use of an elastic schedule does not bend more than    *)
(* the slack that the program has counted.                                  *)
LEMMA ClippingBends ==
    ASSUME Micro = 1, NEW day \in Scenarios, NEW b, NumericBounds(b), NEW x \in Physical(day), NEW h \in Hours,
           0 <= b.factor[h], NEW cap, cap[h] = Unlimited,
           NEW p, p = PlanOf(day, x, EffectiveSolar(day, b), cap)
    PROVE  /\ p.grid[h] \in Int /\ p.energy[h] = x.energy[h] /\ Signed(p, h) = NetCharge(day, x, h)
           /\ p.grid[h] = Grid(day, x, h) + Excess(x.solar[h] - EffectiveSolar(day, b)[h])
<1> DEFINE solar == EffectiveSolar(day, b)
           use == Lesser(x.solar[h], solar[h])
           need == day.demand[h] + NetCharge(day, x, h)
<1>1. x \in Schedules(day, day.solar) /\ solar[h] \in Int /\ 0 <= solar[h]
  BY SolarFacts DEF Physical
<1>2. ~OverCap(need - use, cap[h])
  BY DEF OverCap
<1>3. /\ use \in Nat /\ need \in Int /\ need - x.solar[h] = Grid(day, x, h)
      /\ p.grid[h] = need - use /\ p.energy[h] = x.energy[h] /\ Signed(p, h) = NetCharge(day, x, h)
  <2>1. use = Lesser(x.solar[h], solar[h]) /\ need = day.demand[h] + NetCharge(day, x, h)
        /\ p = PlanOf(day, x, solar, cap)
    OBVIOUS
  <2> HIDE DEF solar, use, need
  <2> QED BY <1>1, <1>2, <2>1, ExactPlan
<1>4. x.solar[h] \in Int /\ Grid(day, x, h) \in Int
  BY <1>1, ScheduleFacts
<1>5. x.solar[h] = use + Excess(x.solar[h] - solar[h]) /\ Excess(x.solar[h] - solar[h]) \in Int
  <2>1. use = Lesser(x.solar[h], solar[h])
    OBVIOUS
  <2> HIDE DEF solar, use
  <2> QED BY <1>1, <1>4, <2>1 DEF Lesser, Excess
<1>6. p.grid[h] = Grid(day, x, h) + Excess(x.solar[h] - solar[h]) /\ p.grid[h] \in Int
  <2> HIDE DEF solar, use, need
  <2> QED BY <1>3, <1>4, <1>5
<1> QED BY <1>3, <1>6

(* "A plan that violates directives as little as possible" (planning.md     *)
(* 5.3): although the elastic program may use solar that is not there and   *)
(* post-processing clips it, no plan without such solar bends less.         *)
THEOREM DirectivesBendLeast ==
    ASSUME Micro = 1
    PROVE  Spec => []BendsLeast
<1>1. ASSUME ProblemInv, SolutionInv, ExactInv, pc = "answered", plan.kind = "elastic",
             NEW x \in Physical(in)
      PROVE  BentBy(entries) <= Slack(in, bounds, x)
  <2>1. in \in Scenarios /\ NumericBounds(bounds) /\ Outcome /\ ExactOutcome
    BY <1>1, BoundsFacts DEF ProblemInv, SolutionInv, ExactInv
  <2>2. elastic /\ Solves /\ entries = PlanOf(in, solution, EffectiveSolar(in, bounds), NoCaps)
        /\ \A h \in Hours : 0 <= bounds.factor[h]
    <3>1. elastic /\ Solves /\ entries = PlanOf(in, solution, EffectiveSolar(in, bounds), NoCaps)
      BY <1>1, <2>1 DEF Outcome, ExactOutcome, Available
    <3>2. built.hedges = FALSE
      BY <1>1, <3>1 DEF ExactInv
    <3> QED BY <1>1, <3>1, <3>2, PrimaryFactors
  <2>3. solution \in ElasticOptimal(in, bounds) /\ solution \in Physical(in)
    BY <1>1, <2>2, SolutionFacts DEF Solves
  <2> DEFINE bent == [h \in Hours |->
                         Excess(entries.grid[h] - bounds.gridCap[h])
                         + (IF bounds.chargeOk[h] THEN 0 ELSE Excess(Signed(entries, h)))
                         + (IF bounds.dischargeOk[h] THEN 0 ELSE Excess(-Signed(entries, h)))
                         + Excess(bounds.reserve[h] - entries.energy[h])]
             slack == [h \in Hours |->
                          Excess(Grid(in, solution, h) - bounds.gridCap[h])
                           + Excess(solution.solar[h] - EffectiveSolar(in, bounds)[h])
                           + (IF bounds.chargeOk[h] THEN 0 ELSE Charge(in, solution, h))
                           + (IF bounds.dischargeOk[h] THEN 0 ELSE Discharge(in, solution, h))
                           + Excess(bounds.reserve[h] - solution.energy[h])]
  <2>4. ASSUME NEW h \in Hours
        PROVE  bent[h] \in Int /\ slack[h] \in Int /\ bent[h] <= slack[h]
    <3> DEFINE over == Excess(solution.solar[h] - EffectiveSolar(in, bounds)[h])
    <3>1. /\ entries.grid[h] \in Int /\ entries.energy[h] = solution.energy[h]
          /\ Signed(entries, h) = NetCharge(in, solution, h)
          /\ entries.grid[h] = Grid(in, solution, h) + over
      <4>1. NoCaps[h] = Unlimited
        BY DEF NoCaps
      <4> QED BY <2>1, <2>2, <2>3, <4>1, ClippingBends
    <3>2. /\ Grid(in, solution, h) \in Int /\ NetCharge(in, solution, h) \in Int
          /\ solution.energy[h] \in Int /\ bounds.reserve[h] \in Int /\ bounds.gridCap[h] \in Int
          /\ over \in Int /\ 0 <= over
      <4>1. solution \in Schedules(in, in.solar)
        BY <2>3 DEF Physical
      <4>2. solution.solar[h] \in Int /\ EffectiveSolar(in, bounds)[h] \in Int
        BY <2>1, <4>1, ScheduleFacts, SolarFacts
      <4> QED BY <2>1, <4>1, <4>2, ScheduleFacts DEF NumericBounds, Excess
    <3> DEFINE windows == (IF bounds.chargeOk[h] THEN 0 ELSE Charge(in, solution, h))
                           + (IF bounds.dischargeOk[h] THEN 0 ELSE Discharge(in, solution, h))
               short == Excess(bounds.reserve[h] - solution.energy[h])
               drawn == Excess(Grid(in, solution, h) - bounds.gridCap[h])
               taken == Excess(entries.grid[h] - bounds.gridCap[h])
    <3>3. windows \in Int /\ short \in Int /\ drawn \in Int /\ taken \in Int
      BY <3>1, <3>2 DEF Charge, Discharge, Excess
    <3>4. taken <= drawn + over
      <4> HIDE DEF over
      <4> QED BY <3>1, <3>2 DEF Excess
    <3>5. bent[h] = taken + windows + short /\ slack[h] = drawn + over + windows + short
      <4>1. /\ Excess(Signed(entries, h)) = Charge(in, solution, h)
            /\ Excess(-Signed(entries, h)) = Discharge(in, solution, h)
            /\ Charge(in, solution, h) \in Int /\ Discharge(in, solution, h) \in Int
        BY <3>1, <3>2 DEF Charge, Discharge, Excess
      <4> HIDE DEF over, taken, drawn, short
      <4>2. /\ bent[h] = taken + (IF bounds.chargeOk[h] THEN 0 ELSE Charge(in, solution, h))
                          + (IF bounds.dischargeOk[h] THEN 0 ELSE Discharge(in, solution, h)) + short
            /\ slack[h] = drawn + over + (IF bounds.chargeOk[h] THEN 0 ELSE Charge(in, solution, h))
                          + (IF bounds.dischargeOk[h] THEN 0 ELSE Discharge(in, solution, h)) + short
        BY <3>1, <4>1 DEF taken, drawn, short, over
      <4> QED BY <3>2, <3>3, <4>1, <4>2
    <3> HIDE DEF bent, slack, over, windows, short, drawn, taken
    <3> QED BY <3>2, <3>3, <3>4, <3>5
  <2>5. BentBy(entries) = SumOver(bent) /\ Slack(in, bounds, solution) = SumOver(slack)
    BY DEF BentBy, Slack
  <2> HIDE DEF bent, slack
  <2>6. SumOver(bent) \in Int /\ SumOver(slack) \in Int /\ SumOver(bent) <= SumOver(slack)
    BY <2>4, SumsCompare
  <2>7. Slack(in, bounds, solution) <= Slack(in, bounds, x) /\ Slack(in, bounds, x) \in Int
    BY <1>1, <2>1, <2>3, ElasticFacts, MeasuresAreNumbers DEF Physical
  <2> QED BY <2>5, <2>6, <2>7
<1>2. ProblemInv /\ SolutionInv /\ ExactInv => BendsLeast
  BY <1>1 DEF BendsLeast, Honest
<1> QED BY <1>2, ProblemInvariant, SolutionInvariant, ExactInvariant, PTL

-----------------------------------------------------------------------------
(* What solve finds is what Pipeline assumes that it may find.              *)

(* Without directives the battery may stand still. *)
LEMMA FreeIsFeasible ==
    ASSUME NEW day \in Scenarios
    PROVE  Feasible(day, FreeBounds(day.minimum)) # {}
<1> DEFINE b == FreeBounds(day.minimum)
           x == [energy |-> [h \in Hours |-> day.initial], solar |-> [h \in Hours |-> 0]]
           T == {EffectiveSolar(day, b)[h] : h \in Hours}
<1>1. /\ NumericBounds(b)
      /\ \A h \in Hours : /\ b.factor[h] = FullScale /\ b.reserve[h] = day.minimum
                         /\ b.chargeOk[h] /\ b.dischargeOk[h] /\ b.gridCap[h] = Unlimited
  BY DayFacts, NoDirectiveFacts
<1> HIDE DEF b
<1>2. \A h \in Hours : EffectiveSolar(day, b)[h] \in Int /\ 0 <= EffectiveSolar(day, b)[h]
  BY <1>1, DayFacts, SolarFacts
<1>3. Max(T) \in Int /\ 0 <= Max(T)
  <2>1. IsFiniteSet(T)
    BY BoundsAssumption, ImageIsFinite
  <2>2. T \subseteq Int /\ T # {} /\ \A t \in T : 0 <= t
    BY <1>2, BoundsAssumption
  <2> HIDE DEF T
  <2> QED BY <2>1, <2>2, MaxFacts
<1>4. ASSUME NEW h \in Hours
      PROVE  /\ NetCharge(day, x, h) = 0 /\ Charge(day, x, h) = 0 /\ Discharge(day, x, h) = 0
             /\ Grid(day, x, h) = day.demand[h]
  <2>1. NetCharge(day, x, h) = 0
    BY HoursFacts, DayFacts DEF NetCharge
  <2> HIDE DEF x
  <2>2. x.solar[h] = 0
    BY DEF x
  <2> QED BY <2>1, <2>2, DayFacts DEF Charge, Discharge, Grid, Excess
<1>5. x \in Schedules(day, EffectiveSolar(day, b))
  <2>1. x.energy \in {e \in [Hours -> day.minimum .. day.capacity] : e[LastHour] = day.initial}
    BY HoursFacts, DayFacts
  <2>2. x.solar \in {s \in [Hours -> 0 .. Max(T)] : \A h \in Hours : s[h] <= EffectiveSolar(day, b)[h]}
    <3> HIDE DEF T
    <3> QED BY <1>2, <1>3
  <2>3. \A h \in Hours : /\ Charge(day, x, h) <= day.maxCharge
                         /\ Discharge(day, x, h) <= day.maxDischarge
                         /\ Grid(day, x, h) >= 0
    <3> HIDE DEF x
    <3> QED BY <1>4, DayFacts
  <2>4. x = [energy |-> x.energy, solar |-> x.solar]
    OBVIOUS
  <2> HIDE DEF x
  <2> QED BY <2>1, <2>2, <2>3, <2>4 DEF Schedules
<1>6. \A h \in Hours : Grid(day, x, h) <= b.gridCap[h] /\ x.energy[h] >= b.reserve[h]
  <2> SUFFICES ASSUME NEW h \in Hours
               PROVE  Grid(day, x, h) <= b.gridCap[h] /\ x.energy[h] >= b.reserve[h]
    OBVIOUS
  <2>1. x.energy[h] = day.initial
    OBVIOUS
  <2> HIDE DEF x
  <2> QED BY <1>1, <1>4, <2>1, DayFacts, BoundsAssumption
<1>7. x \in Feasible(day, b)
  <2> HIDE DEF x
  <2> QED BY <1>1, <1>4, <1>5, <1>6 DEF Feasible
<1> QED BY <1>7 DEF b

LEMMA SolvableFacts ==
    ASSUME in \in Scenarios, NEW r, IsReading(r)
    PROVE  /\ Solvable(r).hedged \in BOOLEAN /\ Solvable(r).plain \in BOOLEAN
           /\ (\A n \in Notes : r[n] = {}) => Solvable(r).hedged
           /\ (\A n \in Notes : \A d \in r[n] : ~d.hedge) => Solvable(r).hedged = Solvable(r).plain
<1> DEFINE A == Applied(r)
           all == TRUE
           no == FALSE
           loose == BuildBounds(A, in.minimum, no)
           tight == BuildBounds(A, in.minimum, all)
<1>1. /\ Solvable(r).hedged = (Feasible(in, tight) # {})
      /\ Solvable(r).plain = (Feasible(in, loose) # {})
  BY DEF Solvable
<1>5. ASSUME \A n \in Notes : r[n] = {} PROVE Feasible(in, tight) # {}
  <2>1. Kept(A, all) = {} /\ Kept({}, no) = {}
    BY <1>5 DEF Applied, Kept
  <2>2. tight = FreeBounds(in.minimum)
    <3> HIDE DEF A, all
    <3> QED BY <2>1 DEF BuildBounds, FreeBounds
  <2> HIDE DEF tight
  <2> QED BY <2>2, FreeIsFeasible
<1>6. ASSUME \A n \in Notes : \A d \in r[n] : ~d.hedge PROVE tight = loose
  <2>1. Kept(A, all) = Kept(A, no)
    BY <1>6 DEF Applied, Kept
  <2> HIDE DEF A, all, no
  <2> QED BY <2>1 DEF BuildBounds
<1> HIDE DEF tight, loose
<1> QED BY <1>1, <1>5, <1>6

-----------------------------------------------------------------------------
(* diagnose names a note whose reading has directives.                      *)

LEMMA ReachableIsAbove ==
    ASSUME NEW day \in Scenarios, NEW b
    PROVE  \A h \in Hours : Reachable(day, b)[h] \in Int /\ Reachable(day, b)[h] >= day.initial
<1> DEFINE e == Reachable(day, b)
           G == {h \in Hours : e[h] >= day.initial}
<1>1. /\ e \in [Hours -> Int]
      /\ \A h \in Hours :
             LET most == (IF h = 0 THEN day.initial ELSE e[h - 1])
                           + (IF b.chargeOk[h] THEN day.maxCharge ELSE 0)
             IN  e[h] = IF most > day.capacity THEN day.capacity ELSE most
  BY ReachableFacts
<1> HIDE DEF e
<1>2. \A h \in Hours : (h = 0 \/ h - 1 \in G) => h \in G
  <2> SUFFICES ASSUME NEW h \in Hours, h = 0 \/ h - 1 \in G PROVE e[h] >= day.initial
    OBVIOUS
  <2> DEFINE before == IF h = 0 THEN day.initial ELSE e[h - 1]
             gain == IF b.chargeOk[h] THEN day.maxCharge ELSE 0
  <2>1. before \in Int /\ before >= day.initial
    BY <1>1, DayFacts, HoursFacts
  <2>2. gain \in Int /\ gain >= 0
    BY DayFacts
  <2>3. e[h] = IF before + gain > day.capacity THEN day.capacity ELSE before + gain
    BY <1>1
  <2> HIDE DEF before, gain
  <2> QED BY <2>1, <2>2, <2>3, DayFacts
<1>3. \A h \in Hours : h \in G
  <2> HIDE DEF G
  <2> QED BY <1>2, HourInduction
<1>4. \A h \in Hours : e[h] \in Int /\ e[h] >= day.initial
  BY <1>1, <1>3
<1> QED BY <1>4 DEF e

LEMMA TouchingFacts ==
    ASSUME NEW A, NEW type, NEW h
    PROVE  /\ \A n \in Touching(A, type, h) : \E d \in A : d.note = n
           /\ \A hedges : On(Kept(A, hedges), type, h) # {} => Touching(A, type, h) # {}
BY DEF Touching, On, Kept

LEMMA BlameFacts ==
    ASSUME NEW day, NEW b, NEW A
    PROVE  \A n \in Implicated(day, b, A) : \E d \in A : d.note = n
<1>1. \A n \in CapBlame(day, b, A) : \E d \in A : d.note = n
  <2> SUFFICES ASSUME NEW n \in CapBlame(day, b, A) PROVE \E d \in A : d.note = n
    OBVIOUS
  <2>1. \E type, h : n \in Touching(A, type, h)
    BY DEF CapBlame
  <2> QED BY <2>1, TouchingFacts
<1>2. \A n \in ReserveBlame(day, b, A) : \E d \in A : d.note = n
  <2> SUFFICES ASSUME NEW n \in ReserveBlame(day, b, A) PROVE \E d \in A : d.note = n
    OBVIOUS
  <2>1. \/ \E h : n \in Touching(A, "minimum_battery_reserve", h)
        \/ \E h : n \in ChargeForbiddenBy(A, h)
    BY DEF ReserveBlame
  <2> QED BY <2>1, TouchingFacts DEF ChargeForbiddenBy
<1>3. \A n \in EndBlame(day, b, A) : \E d \in A : d.note = n
  <2> SUFFICES ASSUME NEW n \in EndBlame(day, b, A) PROVE \E d \in A : d.note = n
    OBVIOUS
  <2>1. n \in Touching(A, "minimum_battery_reserve", LastHour)
    BY DEF EndBlame
  <2> QED BY <2>1, TouchingFacts
<1> QED BY <1>1, <1>2, <1>3 DEF Implicated

LEMMA SomeoneIsBlamed ==
    ASSUME NEW day \in Scenarios, NEW A, Combinable(A), NEW hedges,
           NEW b, b = BuildBounds(A, day.minimum, hedges), Feasible(day, b) = {}
    PROVE  Implicated(day, b, A) # {}
<1> DEFINE D == Kept(A, hedges)
<1>1. /\ day.minimum \in Int /\ day.initial \in Int /\ day.minimum <= day.initial
  BY DayFacts
<1>2. \A h \in Hours : b.gridCap[h] = GridCap(D, h) /\ b.reserve[h] = Reserve(D, day.minimum, h)
  BY DEF BuildBounds
<1>3. NumericBounds(b)
  BY <1>1, BuiltBoundsAreNumeric
<1>4. \A h \in Hours : b.gridCap[h] # Unlimited => Touching(A, "max_grid_window", h) # {}
  <2> SUFFICES ASSUME NEW h \in Hours, b.gridCap[h] # Unlimited
               PROVE  Touching(A, "max_grid_window", h) # {}
    OBVIOUS
  <2>1. On(D, "max_grid_window", h) # {}
    <3> HIDE DEF D
    <3> QED BY <1>1, <1>2, HourFrom
  <2> QED BY <2>1, TouchingFacts
<1>5. \A h \in Hours : b.reserve[h] > day.initial => Touching(A, "minimum_battery_reserve", h) # {}
  <2> SUFFICES ASSUME NEW h \in Hours, b.reserve[h] > day.initial
               PROVE  Touching(A, "minimum_battery_reserve", h) # {}
    OBVIOUS
  <2>1. Reserve(D, day.minimum, h) # day.minimum
    <3> HIDE DEF D
    <3> QED BY <1>1, <1>2
  <2>2. On(D, "minimum_battery_reserve", h) # {}
    <3> HIDE DEF D
    <3> QED BY <1>1, <2>1, HourFrom
  <2> QED BY <2>2, TouchingFacts
<1>6. CASE CapConflicts(day, b) # {}
  <2>1. PICK h \in Hours : CapTooLow(day, b, h)
    BY <1>6 DEF CapConflicts
  <2>2. Touching(A, "max_grid_window", h) # {}
    BY <1>4, <2>1 DEF CapTooLow
  <2>3. Touching(A, "max_grid_window", h) \subseteq CapBlame(day, b, A)
    BY <2>1 DEF CapBlame, CapConflicts
  <2> QED BY <1>6, <2>2, <2>3 DEF Implicated, CauseFound
<1>7. CASE Unreachable(day, b) # {}
  <2> DEFINE h == Min(Unreachable(day, b))
  <2>1. h \in Unreachable(day, b)
    <3>1. Unreachable(day, b) \subseteq Int /\ IsFiniteSet(Unreachable(day, b))
      BY HoursFacts, FS_Subset DEF Unreachable
    <3> QED BY <1>7, <3>1, MinFacts
  <2>2. h \in Hours /\ b.reserve[h] > Reachable(day, b)[h]
    BY <2>1 DEF Unreachable
  <2>3. Touching(A, "minimum_battery_reserve", h) \subseteq ReserveBlame(day, b, A)
    BY <1>7 DEF ReserveBlame
  <2> HIDE DEF h
  <2>4. b.reserve[h] > day.initial
    BY <1>1, <1>3, <2>2, ReachableIsAbove DEF NumericBounds
  <2>5. Touching(A, "minimum_battery_reserve", h) # {}
    BY <1>5, <2>2, <2>4
  <2> QED BY <1>7, <2>3, <2>5 DEF Implicated, CauseFound
<1>8. CASE EndConflict(day, b)
  <2>1. Touching(A, "minimum_battery_reserve", LastHour) # {}
    BY <1>5, <1>8, HoursFacts DEF EndConflict
  <2> QED BY <1>8, <2>1 DEF Implicated, CauseFound, EndBlame
<1>9. CASE ~CauseFound(day, b)
  <2>1. A # {}
    <3> SUFFICES ASSUME A = {} PROVE FALSE
      OBVIOUS
    <3>1. D = {} /\ \A any : Kept({}, any) = {}
      BY DEF Kept
    <3>2. b = FreeBounds(day.minimum)
      <4> HIDE DEF D
      <4> QED BY <3>1 DEF BuildBounds, FreeBounds, D
    <3> QED BY <3>2, FreeIsFeasible
  <2> QED BY <1>9, <2>1 DEF Implicated
<1> QED BY <1>6, <1>7, <1>8, <1>9 DEF CauseFound

-----------------------------------------------------------------------------
(* The pipeline with its data implements Pipeline.                          *)

Unresolved == {"interpret", "solveHedged", "solvePlain", "diagnose"}

(* The inductive invariant: what solve finds is known of the current        *)
(* readings, and corrections are the only changes to those of the bounds.   *)
StagesInv ==
    /\ toCorrect \subseteq Notes /\ corrected \subseteq Notes
    /\ pc \in Unresolved => corrected = {}
    /\ pc \in {"solvePlain", "diagnose", "correct"} => built.corrected = {}
    /\ pc = "correct" /\ corrected = {} => reading = built.from
    /\ pc = "correct" => feasible = Solvable(built.from)
    /\ pc \notin {"interpret", "correct"} => feasible = Solvable(reading)
    /\ pc \in Plain => built.hedges = FALSE
    /\ pc = "diagnose" => Feasible(in, bounds) = {}

LEMMA InitStages == Init => StagesInv
BY DEF Init, StagesInv, Plain

LEMMA ImplicatedFacts ==
    ASSUME ProblemInv
    PROVE  \A n \in Implicated(in, bounds, Applied(reading)) : n \in Notes /\ reading[n] # {}
<1> SUFFICES ASSUME NEW n \in Implicated(in, bounds, Applied(reading))
             PROVE  n \in Notes /\ reading[n] # {}
  OBVIOUS
<1>1. PICK d \in Applied(reading) : d.note = n
  BY BlameFacts
<1>2. PICK m \in Notes : d \in reading[m]
  BY DEF Applied
<1>3. d.note = m
  BY <1>2, ReadingFacts DEF ProblemInv
<1> QED BY <1>1, <1>2, <1>3

LEMMA NextKeepsStages ==
    ASSUME ProblemInv, ReportedInv, StagesInv, [Next]_vars
    PROVE  StagesInv'
<1>1. ASSUME NEW hedges \in BOOLEAN, NEW stage, RebuildAndSolve(hedges, stage),
             pc \in {"solveHedged", "solvePlain", "resolve", "resolveAgain"},
             \/ pc = "solveHedged" /\ stage = "solvePlain"
             \/ hedges = FALSE /\ pc = "solvePlain" /\ stage = "diagnose"
             \/ hedges = FALSE /\ pc \in {"resolve", "resolveAgain"} /\ stage \in {"resolveAgain", "policy"}
      PROVE  StagesInv'
  <2>1. /\ built' = [from |-> reading, corrected |-> corrected, hedges |-> hedges]
        /\ UNCHANGED <<in, reading, corrected, feasible, toCorrect>>
        /\ pc' = stage \/ pc' = "postprocess"
        /\ pc' = stage => Optimal(in, bounds') = {} \/ stage = "postprocess"
        /\ bounds' = BuildBounds(Applied(reading), in.minimum, hedges)
    BY <1>1 DEF RebuildAndSolve
  <2>2. built'.corrected = corrected /\ built'.hedges = hedges
    BY <2>1
  <2>3. Solvable(reading)' = Solvable(reading)
    BY <2>1 DEF Solvable
  <2>4. pc' = "diagnose" => Feasible(in, bounds') = {}
    <3>1. in \in Scenarios /\ IsReading(reading)
      BY DEF ProblemInv
    <3>2. in.minimum \in Int
      BY <3>1, DayFacts
    <3>3. Combinable(Applied(reading))
      BY <3>1, ReadingFacts
    <3>4. NumericBounds(bounds')
      BY <2>1, <3>2, <3>3, BuiltBoundsAreNumeric
    <3>5. Optimal(in, bounds') = {} => Feasible(in, bounds') = {}
      BY <3>1, <3>4, OptimalFacts
    <3> QED BY <1>1, <2>1, <3>5
  <2>5. pc' # "interpret" /\ pc' # "correct" /\ (pc' \in Plain => hedges = FALSE)
        /\ (pc' \in Unresolved => pc \in Unresolved) /\ (pc' \in {"solvePlain", "diagnose"} => pc \in Unresolved)
    BY <1>1, <2>1 DEF Plain, Unresolved
  <2>6. feasible = Solvable(reading)
    BY <1>1 DEF StagesInv
  <2> QED BY <2>1, <2>2, <2>3, <2>4, <2>5, <2>6 DEF StagesInv
<1>2. CASE SolveHedged \/ SolvePlain \/ Resolve \/ ResolveAgain
  BY <1>1, <1>2 DEF SolveHedged, SolvePlain, Resolve, ResolveAgain
<1>3. CASE Interpret
  <2>1. feasible' = Solvable(reading') /\ pc' = "solveHedged" /\ pc = "interpret"
        /\ UNCHANGED <<in, corrected, toCorrect>>
    BY <1>3 DEF Interpret
  <2>2. Solvable(reading)' = Solvable(reading')
    BY <2>1 DEF Solvable
  <2> QED BY <2>1, <2>2 DEF StagesInv, Plain, Unresolved
<1>4. CASE Diagnose
  <2>1. Implicated(in, bounds, Applied(reading)) \subseteq Notes
    BY ImplicatedFacts
  <2>2. reading = built.from
    BY <1>4 DEF Diagnose, ReportedInv, Rereading
  <2>3. /\ pc = "diagnose" /\ pc' \in {"correct", "policy"} /\ toCorrect' \subseteq Notes
        /\ UNCHANGED <<in, reading, corrected, feasible, built, bounds>>
    BY <1>4, <2>1 DEF Diagnose, StagesInv
  <2>4. Solvable(reading)' = Solvable(reading) /\ Solvable(built.from)' = Solvable(reading)
    BY <2>2, <2>3 DEF Solvable
  <2> QED BY <2>2, <2>3, <2>4 DEF StagesInv, Plain, Unresolved
<1>5. CASE CorrectNote
  <2> DEFINE n == Min(toCorrect)
  <2>1. /\ pc = "correct" /\ toCorrect # {} /\ toCorrect' = toCorrect \ {n}
        /\ corrected' = corrected \cup {n} \/ UNCHANGED <<reading, corrected>>
        /\ UNCHANGED <<pc, in, feasible, built, bounds>>
    BY <1>5 DEF CorrectNote
  <2>2. n \in Notes
    <3>1. toCorrect \subseteq Notes /\ IsFiniteSet(Notes) /\ Notes \subseteq Nat
      BY BoundsAssumption DEF StagesInv
    <3>2. IsFiniteSet(toCorrect)
      BY <3>1, FS_Subset
    <3>3. toCorrect \subseteq Int
      BY <3>1
    <3>4. n \in toCorrect
      BY <2>1, <3>2, <3>3, MinFacts
    <3> QED BY <3>1, <3>4
  <2>3. Solvable(built.from)' = Solvable(built.from)
    BY <2>1 DEF Solvable
  <2> HIDE DEF n
  <2> QED BY <2>1, <2>2, <2>3 DEF StagesInv, Plain, Unresolved
<1>6. CASE CorrectionDone
  <2>1. feasible' = Solvable(reading) /\ pc' = "resolve" /\ pc = "correct"
        /\ UNCHANGED <<in, reading, corrected, built, toCorrect>>
    BY <1>6 DEF CorrectionDone
  <2>2. Solvable(reading)' = Solvable(reading)
    BY <2>1 DEF Solvable
  <2> QED BY <2>1, <2>2 DEF StagesInv, Plain, Unresolved
<1>7. CASE Policy \/ Postprocess \/ Replay
  <2>1. /\ pc \notin Unresolved \cup {"correct"} /\ pc' \notin Plain \cup Unresolved
        /\ UNCHANGED <<in, reading, corrected, feasible, toCorrect>>
    BY <1>7 DEF Policy, Postprocess, Replay, Plain, Unresolved
  <2>2. Solvable(reading)' = Solvable(reading)
    BY <2>1 DEF Solvable
  <2> QED BY <2>1, <2>2 DEF StagesInv, Plain, Unresolved
<1>8. ASSUME UNCHANGED <<pc, in, reading, corrected, feasible, built, bounds, toCorrect>>
      PROVE  StagesInv'
  BY <1>8 DEF StagesInv, Solvable
<1>9. Expire \/ UNCHANGED vars => UNCHANGED <<pc, in, reading, corrected, feasible, built, bounds, toCorrect>>
  BY DEF Expire, vars
<1> QED BY <1>2, <1>3, <1>4, <1>5, <1>6, <1>7, <1>8, <1>9 DEF Next

LEMMA StagesInvariant == Spec => []StagesInv
<1>1. ProblemInv /\ ReportedInv /\ StagesInv /\ [Next]_vars => StagesInv'
  BY NextKeepsStages
<1> QED BY <1>1, InitStages, ProblemInvariant, ReportedInvariant, PTL DEF Spec

LEMMA ReadingFields ==
    ASSUME NEW a, NEW h, NEW k,
           NEW q, q = [active |-> a, hedged |-> h, degraded |-> FALSE, corrected |-> k]
    PROVE  /\ q.active = a /\ q.hedged = h /\ q.corrected = k /\ q.degraded = FALSE
           /\ a \in BOOLEAN /\ h \in BOOLEAN /\ k \in BOOLEAN
                  => q \in [active : BOOLEAN, hedged : BOOLEAN, degraded : BOOLEAN, corrected : BOOLEAN]
OBVIOUS

LEMMA OneSummary ==
    ASSUME NEW s, NEW c, NEW n,
           NEW q, q = [active    |-> s # {},
                       hedged    |-> \E d \in s : d.hedge,
                       degraded  |-> FALSE,
                       corrected |-> n \in c]
    PROVE  /\ q \in Stages!Readings
           /\ q.active <=> (s # {})
           /\ q.hedged <=> (\E d \in s : d.hedge)
           /\ q.degraded = FALSE
           /\ q.corrected <=> (n \in c)
<1>1. PICK a \in BOOLEAN : a = (s # {})
  BY Zenon
<1>2. PICK h \in BOOLEAN : h = (\E d \in s : d.hedge)
  BY Zenon
<1>3. PICK k \in BOOLEAN : k = (n \in c)
  <2>1. CASE n \in c
    <3>1. TRUE = (n \in c)
      BY <2>1
    <3> QED BY <3>1, Zenon
  <2>2. CASE n \notin c
    <3>1. FALSE = (n \in c)
      BY <2>2
    <3> QED BY <3>1, Zenon
  <2> QED BY <2>1, <2>2
<1>4. q = [active |-> a, hedged |-> h, degraded |-> FALSE, corrected |-> k]
  BY <1>1, <1>2, <1>3, Zenon
<1>5. (a <=> s # {}) /\ (h <=> \E d \in s : d.hedge) /\ (k <=> n \in c)
  BY <1>1, <1>2, <1>3, Zenon
<1>6. h => a
  BY <1>5
<1>7. q.active = a /\ q.hedged = h /\ q.corrected = k /\ q.degraded = FALSE
  BY ONLY <1>4, ReadingFields
<1>8. q \in [active : BOOLEAN, hedged : BOOLEAN, degraded : BOOLEAN, corrected : BOOLEAN]
  <2>1. a \in BOOLEAN /\ h \in BOOLEAN /\ k \in BOOLEAN
    OBVIOUS
  <2> QED BY ONLY <1>4, <2>1, ReadingFields
<1>9. q \in Stages!Readings
  BY <1>6, <1>7, <1>8 DEF Stages!Readings
<1> QED BY <1>5, <1>7, <1>9, Zenon

LEMMA SummaryAt ==
    ASSUME NEW r, NEW c, NEW n \in Notes
    PROVE  /\ Summary(r, c)[n] \in Stages!Readings
           /\ Summary(r, c)[n].active <=> (r[n] # {})
           /\ Summary(r, c)[n].hedged <=> (\E d \in r[n] : d.hedge)
           /\ Summary(r, c)[n].degraded = FALSE
           /\ Summary(r, c)[n].corrected <=> (n \in c)
<1> SUFFICES ASSUME NEW q, q = Summary(r, c)[n]
             PROVE  /\ q \in Stages!Readings
                    /\ q.active <=> (r[n] # {})
                    /\ q.hedged <=> (\E d \in r[n] : d.hedge)
                    /\ q.degraded = FALSE
                    /\ q.corrected <=> (n \in c)
  BY Zenon
<1>1. q = [active    |-> r[n] # {},
           hedged    |-> \E d \in r[n] : d.hedge,
           degraded  |-> FALSE,
           corrected |-> n \in c]
  BY DEF Summary
<1> QED BY <1>1, OneSummary, Zenon

LEMMA SummaryFacts ==
    ASSUME NEW r, NEW c
    PROVE  /\ Summary(r, c) \in [Notes -> Stages!Readings]
           /\ Stages!Active(Summary(r, c)) = {n \in Notes : r[n] # {}}
           /\ \A n \in Notes : Summary(r, c)[n].hedged <=> (\E d \in r[n] : d.hedge)
           /\ \A n \in Notes : ~Summary(r, c)[n].degraded
           /\ \A n \in Notes : Summary(r, c)[n].corrected <=> (n \in c)
<1> DEFINE asm == Summary(r, c)
<1>1. asm = [n \in Notes |-> asm[n]]
  BY DEF Summary
<1>2. ASSUME NEW n \in Notes
      PROVE  /\ asm[n] \in Stages!Readings
             /\ asm[n].active <=> (r[n] # {})
             /\ asm[n].hedged <=> (\E d \in r[n] : d.hedge)
             /\ ~asm[n].degraded
             /\ asm[n].corrected <=> (n \in c)
  BY SummaryAt, Zenon
<1>3. Stages!Active(asm) = {n \in Notes : asm[n].active}
  BY DEF Stages!Active
<1> HIDE DEF asm
<1>4. asm \in [Notes -> Stages!Readings]
  BY <1>1, <1>2
<1>5. {n \in Notes : asm[n].active} = {n \in Notes : r[n] # {}}
  BY <1>2
<1>6. /\ Stages!Active(asm) = {n \in Notes : r[n] # {}}
      /\ \A n \in Notes : asm[n].hedged <=> (\E d \in r[n] : d.hedge)
      /\ \A n \in Notes : ~asm[n].degraded
      /\ \A n \in Notes : asm[n].corrected <=> (n \in c)
  BY <1>2, <1>3, <1>5, Zenon
<1> QED BY <1>4, <1>6, Zenon DEF asm

LEMMA NoneCorrected ==
    ASSUME NEW r
    PROVE  Summary(r, {}) \in [Notes -> {q \in Stages!Readings : ~q.corrected}]
<1> DEFINE none == {}
<1>1. Summary(r, none) \in [Notes -> Stages!Readings]
  BY SummaryFacts
<1>2. \A n \in Notes : Summary(r, none)[n].corrected <=> (n \in none)
  <2> HIDE DEF none
  <2> QED BY SummaryFacts
<1>3. \A n \in Notes : ~Summary(r, none)[n].corrected
  BY <1>2
<1> QED BY <1>1, <1>3

LEMMA OutcomesFacts ==
    ASSUME in \in Scenarios, NEW r, IsReading(r), NEW c
    PROVE  Solvable(r) \in Stages!Outcomes(Summary(r, c))
<1>1. /\ Solvable(r).hedged \in BOOLEAN /\ Solvable(r).plain \in BOOLEAN
      /\ (\A n \in Notes : r[n] = {}) => Solvable(r).hedged
      /\ (\A n \in Notes : \A d \in r[n] : ~d.hedge) => Solvable(r).hedged = Solvable(r).plain
  BY SolvableFacts
<1>2. Solvable(r) \in [hedged : BOOLEAN, plain : BOOLEAN]
  BY DEF Solvable
<1>3. Stages!Active(Summary(r, c)) = {} => Solvable(r).hedged
  <2>1. Stages!Active(Summary(r, c)) = {n \in Notes : r[n] # {}}
    BY SummaryFacts, Zenon
  <2> QED BY <1>1, <2>1
<1>4. (\A n \in Notes : ~Summary(r, c)[n].hedged) => Solvable(r).hedged = Solvable(r).plain
  BY <1>1, SummaryFacts
<1> QED BY <1>1, <1>2, <1>3, <1>4 DEF Stages!Outcomes

LEMMA NothingRead == Summary(Unread, {}) = Stages!NoReadings
<1> DEFINE none == {}
           asm == Summary(Unread, none)
<1>1. ASSUME NEW n \in Notes, NEW q, q = asm[n] PROVE q = Stages!NoReading
  <2>1. Unread[n] = none
    BY DEF Unread
  <2>2. \A c : /\ Summary(Unread, c)[n] \in Stages!Readings
               /\ Summary(Unread, c)[n].active <=> (Unread[n] # {})
               /\ ~Summary(Unread, c)[n].degraded
               /\ Summary(Unread, c)[n].corrected <=> (n \in c)
    BY SummaryAt, Zenon
  <2>3. q \in Stages!Readings /\ ~q.active /\ ~q.degraded /\ ~q.corrected
    BY <1>1, <2>1, <2>2
  <2> QED BY <2>3 DEF Stages!Readings, Stages!NoReading
<1>2. asm \in [Notes -> Stages!Readings]
  BY SummaryFacts
<1> HIDE DEF asm
<1>3. asm = [n \in Notes |-> Stages!NoReading]
  BY <1>1, <1>2
<1> QED BY <1>3 DEF asm, Stages!NoReadings

LEMMA InitRefines == Init => Stages!Init
<1> SUFFICES ASSUME Init PROVE Stages!Init
  OBVIOUS
<1>1. /\ Summary(reading, corrected) = Summary(Unread, {})
      /\ Summary(built.from, built.corrected) = Summary(Unread, {})
      /\ built.hedges = FALSE
  BY DEF Init, BuiltFromNone
<1> QED BY <1>1, NothingRead DEF Init, NoPlan, Stages!Init, Stages!Policies, Stages!NoPlan

LEMMA InterpretRefines ==
    ASSUME ProblemInv, ProblemInv', StagesInv, Interpret
    PROVE  Stages!Interpret
<1> DEFINE asm == Summary(reading, corrected)
<1>1. /\ pc = "interpret" /\ corrected' = corrected /\ corrected = {} /\ pc' = "solveHedged"
      /\ feasible' = Solvable(reading')
      /\ UNCHANGED <<policy, in, built, toCorrect, expired, elastic, plan>>
  BY DEF Interpret, StagesInv, Unresolved
<1>2. asm' \in [Notes -> {r \in Stages!Readings : ~r.corrected}]
  <2>1. asm' = Summary(reading', {})
    BY <1>1
  <2> QED BY <2>1, NoneCorrected
<1>3. feasible' \in Stages!Outcomes(asm')
  <2>1. IsReading(reading') /\ in \in Scenarios
    BY DEF ProblemInv
  <2>2. Solvable(reading') \in Stages!Outcomes(Summary(reading', corrected'))
    BY <2>1, OutcomesFacts
  <2> QED BY <1>1, <2>2
<1>4. FALSE = (\E n \in Notes : asm'[n].degraded)
  BY SummaryFacts
<1>5. /\ Summary(built.from, built.corrected)' = Summary(built.from, built.corrected)
      /\ built.hedges' = built.hedges
  BY <1>1
<1> QED BY <1>1, <1>2, <1>3, <1>4, <1>5 DEF Stages!Interpret

(* Solving, with or without hedges, has the outcome that is known.          *)
LEMMA RebuildRefines ==
    ASSUME ProblemInv, NEW hedges \in BOOLEAN, NEW stage, RebuildAndSolve(hedges, stage),
           feasible = Solvable(reading), NEW found \in BOOLEAN,
           found <=> (IF hedges THEN feasible.hedged ELSE feasible.plain)
    PROVE  /\ Stages!Rebuild(hedges)
           /\ pc' = IF found THEN "postprocess" ELSE stage
           /\ UNCHANGED <<policy, feasible, toCorrect, expired, elastic, plan>>
           /\ Summary(reading, corrected)' = Summary(reading, corrected)
<1>1. /\ built' = [from |-> reading, corrected |-> corrected, hedges |-> hedges]
      /\ bounds' = BuildBounds(Applied(reading), in.minimum, hedges)
      /\ pc' = IF Optimal(in, bounds') # {} THEN "postprocess" ELSE stage
      /\ UNCHANGED <<policy, in, reading, corrected, feasible, toCorrect, expired, elastic, plan>>
  BY DEF RebuildAndSolve
<1>2. Optimal(in, bounds') = {} <=> Feasible(in, bounds') = {}
  <2>1. in \in Scenarios /\ IsReading(reading)
    BY DEF ProblemInv
  <2>2. in.minimum \in Int
    BY <2>1, DayFacts
  <2>3. Combinable(Applied(reading))
    BY <2>1, ReadingFacts
  <2>4. NumericBounds(bounds')
    BY <1>1, <2>2, <2>3, BuiltBoundsAreNumeric
  <2> QED BY <2>1, <2>4, OptimalFacts
<1>3. found <=> Feasible(in, bounds') # {}
  <2>1. CASE hedges = TRUE
    BY <1>1, <2>1 DEF Solvable
  <2>2. CASE hedges = FALSE
    BY <1>1, <2>2 DEF Solvable
  <2> QED BY <2>1, <2>2
<1>4. /\ Summary(built.from, built.corrected)' = Summary(reading, corrected)
      /\ built'.hedges = hedges
  BY <1>1
<1>5. Stages!Rebuild(hedges)
  BY <1>4 DEF Stages!Rebuild
<1>6. Summary(reading, corrected)' = Summary(reading, corrected)
  BY <1>1
<1> QED BY <1>1, <1>2, <1>3, <1>5, <1>6

LEMMA SolvingRefines ==
    ASSUME ProblemInv, StagesInv, SolveHedged \/ SolvePlain \/ Resolve \/ ResolveAgain
    PROVE  Stages!Next
<1>1. /\ pc \in {"solveHedged", "solvePlain", "resolve", "resolveAgain"}
      /\ feasible = Solvable(reading)
  BY DEF SolveHedged, SolvePlain, Resolve, ResolveAgain, StagesInv
<1>2. feasible.hedged \in BOOLEAN /\ feasible.plain \in BOOLEAN
  BY <1>1, SolvableFacts DEF ProblemInv
<1>3. CASE SolveHedged
  <2>1. pc = "solveHedged" /\ RebuildAndSolve(TRUE, "solvePlain")
    BY <1>3 DEF SolveHedged
  <2> DEFINE all == TRUE
  <2>2. /\ Stages!Rebuild(all)
        /\ pc' = IF feasible.hedged THEN "postprocess" ELSE "solvePlain"
        /\ UNCHANGED <<policy, feasible, toCorrect, expired, elastic, plan>>
        /\ Summary(reading, corrected)' = Summary(reading, corrected)
    <3>1. /\ RebuildAndSolve(all, "solvePlain") /\ all \in BOOLEAN
          /\ feasible.hedged <=> (IF all THEN feasible.hedged ELSE feasible.plain)
      BY <2>1
    <3> HIDE DEF all
    <3> QED BY <1>1, <1>2, <3>1, RebuildRefines
  <2> QED BY <2>1, <2>2 DEF Stages!Next, Stages!Stage, Stages!SolveHedged
<1>4. ASSUME NEW stage, RebuildAndSolve(FALSE, stage)
      PROVE  /\ Stages!Rebuild(FALSE)
             /\ pc' = IF feasible.plain THEN "postprocess" ELSE stage
             /\ UNCHANGED <<policy, feasible, toCorrect, expired, elastic, plan>>
             /\ Summary(reading, corrected)' = Summary(reading, corrected)
  <2> DEFINE no == FALSE
  <2>1. /\ RebuildAndSolve(no, stage) /\ no \in BOOLEAN
        /\ feasible.plain <=> (IF no THEN feasible.hedged ELSE feasible.plain)
    BY <1>4
  <2>2. /\ Stages!Rebuild(no)
        /\ pc' = IF feasible.plain THEN "postprocess" ELSE stage
        /\ UNCHANGED <<policy, feasible, toCorrect, expired, elastic, plan>>
        /\ Summary(reading, corrected)' = Summary(reading, corrected)
    <3> HIDE DEF no
    <3> QED BY <1>1, <1>2, <2>1, RebuildRefines
  <2> QED BY <2>2
<1>5. CASE SolvePlain
  BY <1>4, <1>5 DEF SolvePlain, Stages!Next, Stages!Stage, Stages!SolvePlain
<1>6. CASE Resolve
  BY <1>4, <1>6 DEF Resolve, Stages!Next, Stages!Stage, Stages!Resolve
<1>7. CASE ResolveAgain
  BY <1>4, <1>7 DEF ResolveAgain, Stages!Next, Stages!Stage, Stages!ResolveAgain
<1> QED BY <1>3, <1>5, <1>6, <1>7

LEMMA DiagnoseRefines ==
    ASSUME ProblemInv, ReportedInv, StagesInv, Diagnose
    PROVE  Stages!Diagnose
<1> DEFINE asm == Summary(reading, corrected)
           implicated == Implicated(in, bounds, Applied(reading))
<1>1. /\ pc = "diagnose" /\ Feasible(in, bounds) = {} /\ built.hedges = FALSE
      /\ built.from = reading
  BY DEF Diagnose, StagesInv, Plain, ReportedInv, Rereading
<1>2. implicated \in SUBSET Stages!Active(asm)
  <2>1. Stages!Active(asm) = {n \in Notes : reading[n] # {}}
    BY SummaryFacts
  <2> QED BY <2>1, ImplicatedFacts
<1>3. implicated # {}
  <2> DEFINE no == FALSE
  <2>1. in \in Scenarios /\ IsReading(reading)
    BY DEF ProblemInv
  <2>2. Combinable(Applied(reading))
    BY <2>1, ReadingFacts
  <2>3. bounds = BuildBounds(Applied(reading), in.minimum, no)
    BY <1>1 DEF ProblemInv
  <2> HIDE DEF no
  <2> QED BY <1>1, <2>1, <2>2, <2>3, SomeoneIsBlamed
<1>4. /\ \/ ~expired /\ toCorrect' = implicated /\ pc' = "correct"
         \/ expired /\ pc' = "policy" /\ UNCHANGED toCorrect
      /\ UNCHANGED <<policy, in, reading, corrected, feasible, built, expired, elastic, plan>>
  <2> HIDE DEF implicated
  <2> QED BY <1>3 DEF Diagnose, implicated
<1>5. /\ asm' = asm
      /\ Summary(built.from, built.corrected)' = Summary(built.from, built.corrected)
      /\ built.hedges' = built.hedges
  BY <1>4
<1> HIDE DEF implicated
<1> QED BY <1>1, <1>2, <1>3, <1>4, <1>5 DEF Stages!Diagnose

LEMMA SameSummary ==
    ASSUME NEW r, NEW s, NEW c, NEW e, NEW m \in Notes, s[m] = r[m], m \in e <=> m \in c
    PROVE  Summary(s, e)[m] = Summary(r, c)[m]
<1>1. (m \in e) = (m \in c)
  OBVIOUS
<1>2. Summary(s, e)[m] = [active    |-> s[m] # {},
                          hedged    |-> \E d \in s[m] : d.hedge,
                          degraded  |-> FALSE,
                          corrected |-> m \in e]
  BY DEF Summary
<1>3. Summary(r, c)[m] = [active    |-> r[m] # {},
                          hedged    |-> \E d \in r[m] : d.hedge,
                          degraded  |-> FALSE,
                          corrected |-> m \in c]
  BY DEF Summary
<1> QED BY ONLY <1>1, <1>2, <1>3, s[m] = r[m], Zenon

LEMMA CorrectNoteRefines ==
    ASSUME ProblemInv, StagesInv, CorrectNote
    PROVE  Stages!CorrectNote
<1> DEFINE n == Min(toCorrect)
           asm == Summary(reading, corrected)
<1>1. /\ pc = "correct" /\ toCorrect # {} /\ toCorrect' = toCorrect \ {n}
      /\ \/ /\ \E r \in ReadingsOf[n] : reading' = [reading EXCEPT ![n] = r]
            /\ corrected' = corrected \cup {n}
         \/ UNCHANGED <<reading, corrected>>
      /\ UNCHANGED <<policy, pc, feasible, built, expired, elastic, plan>>
  BY DEF CorrectNote
<1>2. n = CHOOSE i \in toCorrect : \A m \in toCorrect : i <= m
  BY DEF Min
<1>3. n \in Notes
  <2>1. toCorrect \subseteq Notes /\ IsFiniteSet(Notes) /\ Notes \subseteq Nat
    BY BoundsAssumption DEF StagesInv
  <2>2. IsFiniteSet(toCorrect)
    BY <2>1, FS_Subset
  <2>3. toCorrect \subseteq Int
    BY <2>1
  <2>4. n \in toCorrect
    BY <1>1, <2>2, <2>3, MinFacts
  <2> QED BY <2>1, <2>4
<1>4. asm \in [Notes -> Stages!Readings]
  BY SummaryFacts
<1>5. \E q \in {q \in Stages!Readings : q.corrected} \cup {asm[n]} : asm' = [asm EXCEPT ![n] = q]
  <2> HIDE DEF n
  <2>1. CASE UNCHANGED <<reading, corrected>>
    <3>1. asm' = asm
      BY <2>1
    <3> HIDE DEF asm
    <3>2. asm' = [asm EXCEPT ![n] = asm[n]]
      BY <1>4, <3>1
    <3> QED BY <3>2
  <2>2. ASSUME NEW r \in ReadingsOf[n], reading' = [reading EXCEPT ![n] = r], corrected' = corrected \cup {n}
        PROVE  \E q \in {q \in Stages!Readings : q.corrected} : asm' = [asm EXCEPT ![n] = q]
    <3> DEFINE other == [reading EXCEPT ![n] = r]
               more == corrected \cup {n}
               q == Summary(other, more)[n]
    <3>1. asm' = Summary(other, more)
      BY <2>2
    <3>2. q \in Stages!Readings /\ (q.corrected <=> n \in more)
      <4> HIDE DEF other, more
      <4> QED BY <1>3, SummaryAt, Zenon
    <3>3. q.corrected
      BY <3>2
    <3>4. ASSUME NEW m \in Notes, m # n PROVE Summary(other, more)[m] = asm[m]
      <4>1. other[m] = reading[m] /\ (m \in more <=> m \in corrected)
        BY <3>4 DEF ProblemInv, IsReading
      <4> HIDE DEF other, more
      <4> QED BY <4>1, SameSummary
    <3>5. Summary(other, more) \in [Notes -> Stages!Readings]
      BY SummaryFacts
    <3>6. Summary(other, more) = [asm EXCEPT ![n] = q]
      <4>1. Summary(other, more)[n] = q
        OBVIOUS
      <4> HIDE DEF other, more, q, asm
      <4> QED BY <1>3, <1>4, <3>4, <3>5, <4>1
    <3> HIDE DEF q, other, more, asm
    <3> QED BY <3>1, <3>2, <3>3, <3>6
  <2> QED BY <1>1, <2>1, <2>2
<1>6. /\ Summary(built.from, built.corrected)' = Summary(built.from, built.corrected)
      /\ built.hedges' = built.hedges
  BY <1>1
<1> HIDE DEF n, asm
<1> QED BY <1>1, <1>2, <1>5, <1>6 DEF Stages!CorrectNote, asm

LEMMA CorrectionDoneRefines ==
    ASSUME ProblemInv, StagesInv, CorrectionDone
    PROVE  Stages!CorrectionDone
<1> DEFINE asm == Summary(reading, corrected)
           old == Summary(built.from, built.corrected)
<1>1. /\ pc = "correct" /\ toCorrect = {} /\ feasible' = Solvable(reading) /\ pc' = "resolve"
      /\ UNCHANGED <<policy, in, reading, corrected, built, toCorrect, expired, elastic, plan>>
  BY DEF CorrectionDone
<1>2. /\ corrected \subseteq Notes /\ built.corrected = {} /\ feasible = Solvable(built.from)
      /\ corrected = {} => reading = built.from
      /\ built.hedges = FALSE
  BY <1>1 DEF StagesInv, Plain
<1>3. feasible' \in Stages!Outcomes(asm)
  <2>1. in \in Scenarios /\ IsReading(reading)
    BY DEF ProblemInv
  <2>2. Solvable(reading) \in Stages!Outcomes(asm)
    BY <2>1, OutcomesFacts
  <2> QED BY <1>1, <2>2
<1>4. asm = [from |-> old, hedges |-> built.hedges].from => feasible' = feasible
  <2> SUFFICES ASSUME asm = old PROVE corrected = {}
    BY <1>1, <1>2
  <2>1. ASSUME NEW n \in corrected PROVE FALSE
    <3>1. n \in Notes /\ n \notin built.corrected
      BY <1>2, <2>1
    <3>2. /\ asm[n].corrected <=> n \in corrected
          /\ old[n].corrected <=> n \in built.corrected
      BY <3>1, SummaryFacts
    <3> HIDE DEF asm, old
    <3> QED BY <2>1, <3>1, <3>2
  <2> QED BY <2>1
<1>5. /\ asm' = asm
      /\ old' = old
      /\ built.hedges' = built.hedges
  BY <1>1
<1> QED BY <1>1, <1>3, <1>4, <1>5 DEF Stages!CorrectionDone

(* Only a grid cap can be broken, and only a directive sets one.            *)
LEMMA CapFromDirective ==
    ASSUME ProblemInv, NEW solar, CapBroken(in, solution, solar, bounds.gridCap)
    PROVE  \E n \in Notes : built.from[n] # {}
<1> DEFINE D == Kept(Applied(built.from), built.hedges)
<1>1. PICK h \in Hours : bounds.gridCap[h] # Unlimited
  BY DEF CapBroken, OverCap
<1>2. bounds.gridCap[h] = GridCap(D, h)
  BY DEF ProblemInv, BuildBounds
<1>3. On(D, "max_grid_window", h) # {}
  <2> HIDE DEF D
  <2> QED BY <1>1, <1>2, HourFrom
<1> QED BY <1>3 DEF On, Kept, Applied

LEMMA AnsweringRefines ==
    ASSUME ProblemInv, SolutionInv, Policy \/ Postprocess \/ Expire
    PROVE  Stages!Next
<1>1. UNCHANGED <<policy, reading, corrected, feasible, built, toCorrect>>
  BY DEF Policy, Postprocess, Expire
<1>2. /\ Summary(reading, corrected)' = Summary(reading, corrected)
      /\ Summary(built.from, built.corrected)' = Summary(built.from, built.corrected)
      /\ built.hedges' = built.hedges
  BY <1>1
<1>3. CASE Policy
  <2>1. /\ pc = "policy"
        /\ \/ policy = "error" /\ pc' = "refused" /\ UNCHANGED elastic
           \/ policy # "error" /\ pc' = "postprocess" /\ elastic' = TRUE
        /\ UNCHANGED <<expired, plan>>
    BY <1>3 DEF Policy
  <2> QED BY <1>1, <1>2, <2>1 DEF Stages!Next, Stages!Stage, Stages!Policy
<1>4. CASE Postprocess
  <2>1. pc = "postprocess" /\ elastic \in BOOLEAN
    BY <1>4 DEF Postprocess, SolutionInv
  <2>2. /\ \/ UNCHANGED elastic
           \/ elastic' = TRUE /\ CapBroken(in, solution, Available, IF elastic THEN NoCaps ELSE bounds.gridCap)
        /\ plan' = Kind(elastic)' /\ pc' = "replay" /\ UNCHANGED expired
    BY <1>4 DEF Postprocess, Kind
  <2>3. CASE UNCHANGED elastic
    BY <1>1, <1>2, <2>1, <2>2, <2>3 DEF Kind, Stages!Next, Stages!Stage, Stages!Postprocess
  <2>4. CASE /\ elastic' = TRUE
             /\ CapBroken(in, solution, Available, IF elastic THEN NoCaps ELSE bounds.gridCap)
    <3>1. elastic = FALSE
      BY <2>1, <2>4 DEF CapBroken, OverCap, NoCaps
    <3>2. Stages!Active(Summary(built.from, built.corrected)) # {}
      <4>1. \E n \in Notes : built.from[n] # {}
        BY <2>4, <3>1, CapFromDirective
      <4>2. Stages!Active(Summary(built.from, built.corrected)) = {n \in Notes : built.from[n] # {}}
        BY SummaryFacts
      <4> QED BY <4>1, <4>2
    <3>3. plan' = [kind |-> "elastic", checked |-> "nothing"]
      BY <2>2, <2>4 DEF Kind
    <3> QED BY <1>1, <1>2, <2>1, <2>2, <2>4, <3>1, <3>2, <3>3
               DEF Stages!Next, Stages!Stage, Stages!Postprocess
  <2> QED BY <2>2, <2>3, <2>4
<1>5. CASE Expire
  BY <1>1, <1>2, <1>5 DEF Expire, Stages!Next, Stages!Expire
<1> QED BY <1>3, <1>4, <1>5

LEMMA ReplayRefines ==
    ASSUME Replay
    PROVE  Stages!Replay
<1>1. /\ UNCHANGED <<policy, reading, corrected, feasible, toCorrect, expired>>
      /\ pc = "replay" /\ pc' = "answered"
  BY DEF Replay
<1>2. Summary(reading, corrected)' = Summary(reading, corrected)
  BY <1>1
<1>3. ASSUME UNCHANGED built
      PROVE  /\ Summary(built.from, built.corrected)' = Summary(built.from, built.corrected)
             /\ built'.hedges = built.hedges
  BY <1>3
<1>4. ASSUME GoIdle PROVE Stages!IdleFallback
  <2>1. built'.from = Unread /\ built'.corrected = {} /\ built'.hedges = FALSE
    BY <1>4 DEF GoIdle, BuiltFromNone
  <2>2. Summary(built.from, built.corrected)' = Summary(Unread, {})
    BY <2>1 DEF Summary
  <2> QED BY <1>4, <2>1, <2>2, NothingRead DEF GoIdle, Stages!IdleFallback
<1>5. \/ /\ plan' = [plan EXCEPT !.checked = IF elastic THEN "physics" ELSE "directives"]
         /\ UNCHANGED <<built, elastic>>
      \/ elastic /\ UNCHANGED elastic /\ GoIdle
      \/ /\ ~elastic /\ elastic' = TRUE
         /\ \/ plan' = [kind |-> "elastic", checked |-> "directives"] /\ UNCHANGED built
            \/ GoIdle
  BY DEF Replay
<1> QED BY <1>1, <1>2, <1>3, <1>4, <1>5 DEF Stages!Replay

(* The pipeline with its data implements Pipeline: what that module assumes *)
(* of the optimizer is true of it.  In particular "infeasibility can only   *)
(* come from directives" (planning.md 5.2), solving again without hedges    *)
(* changes the outcome only if there were some (orchestrator.py:93-96), and *)
(* diagnose always names a note to correct (orchestrator.py:105-106).       *)
THEOREM DispatchImplementsPipeline == Spec => ImplementsPipeline
<1>1. ASSUME ProblemInv, ProblemInv', SolutionInv, ReportedInv, StagesInv, [Next]_vars
      PROVE  [Stages!Next]_Stages!vars
  <2>1. CASE Interpret
    BY <1>1, <2>1, InterpretRefines DEF Stages!Next, Stages!Stage
  <2>2. CASE SolveHedged \/ SolvePlain \/ Resolve \/ ResolveAgain
    BY <1>1, <2>2, SolvingRefines
  <2>3. CASE Diagnose
    BY <1>1, <2>3, DiagnoseRefines DEF Stages!Next, Stages!Stage
  <2>4. CASE CorrectNote
    BY <1>1, <2>4, CorrectNoteRefines DEF Stages!Next, Stages!Stage
  <2>5. CASE CorrectionDone
    BY <1>1, <2>5, CorrectionDoneRefines DEF Stages!Next, Stages!Stage
  <2>6. CASE Policy \/ Postprocess \/ Expire
    BY <1>1, <2>6, AnsweringRefines
  <2>8. CASE Replay
    BY <2>8, ReplayRefines DEF Stages!Next, Stages!Stage
  <2>7. CASE UNCHANGED vars
    <3>1. UNCHANGED Stages!vars
      BY <2>7 DEF vars, Stages!vars, Summary
    <3> QED BY <3>1
  <2> QED BY <1>1, <2>1, <2>2, <2>3, <2>4, <2>5, <2>6, <2>7, <2>8 DEF Next
<1>2. ProblemInv /\ ProblemInv' /\ SolutionInv /\ ReportedInv /\ StagesInv /\ [Next]_vars
          => [Stages!Next]_Stages!vars
  BY <1>1
<1> QED BY <1>2, InitRefines, ProblemInvariant, SolutionInvariant, ReportedInvariant, StagesInvariant,
           PTL DEF Spec, ImplementsPipeline, Stages!Spec

-----------------------------------------------------------------------------
(* Without rounding no directive is dropped.                                *)

(* The inductive invariant: only a problem that cannot be solved comes to   *)
(* the elastic program.                                                     *)
UnsolvedInv == pc = "policy" \/ elastic => ~feasible.plain

LEMMA NextKeepsUnsolved ==
    ASSUME Micro = 1, ProblemInv, SolutionInv, ExactInv, ReportedInv, StagesInv, UnsolvedInv,
           [Next]_vars
    PROVE  UnsolvedInv'
<1>1. ASSUME pc' # "policy", elastic' = FALSE PROVE UnsolvedInv'
  BY <1>1 DEF UnsolvedInv
<1>2. ASSUME pc \in Early PROVE elastic = FALSE
  BY <1>2 DEF SolutionInv
<1>3. ASSUME NEW hedges, NEW stage, stage # "policy", RebuildAndSolve(hedges, stage), pc \in Early
      PROVE  UnsolvedInv'
  <2>1. elastic' = elastic /\ pc' # "policy"
    BY <1>3 DEF RebuildAndSolve
  <2> QED BY <1>1, <1>2, <1>3, <2>1
<1>4. CASE SolveHedged \/ SolvePlain \/ Resolve
  <2>1. /\ pc \in Early
        /\ \/ RebuildAndSolve(TRUE, "solvePlain") \/ RebuildAndSolve(FALSE, "diagnose")
           \/ RebuildAndSolve(FALSE, "resolveAgain")
    BY <1>4 DEF SolveHedged, SolvePlain, Resolve, Early
  <2> QED BY <1>3, <2>1
<1>5. CASE ResolveAgain
  <2> DEFINE no == FALSE
             found == Feasible(in, BuildBounds(Applied(reading), in.minimum, no)) # {}
  <2>1. /\ pc = "resolveAgain" /\ feasible = Solvable(reading)
        /\ RebuildAndSolve(no, "policy") /\ no \in BOOLEAN
    BY <1>5 DEF ResolveAgain, StagesInv
  <2>2. feasible.plain = found /\ found \in BOOLEAN
    BY <2>1 DEF Solvable
  <2>3. found <=> (IF no THEN feasible.hedged ELSE feasible.plain)
    BY <2>2
  <2> HIDE DEF no, found
  <2>4. (pc' = IF found THEN "postprocess" ELSE "policy") /\ feasible' = feasible /\ elastic' = elastic
    BY <2>1, <2>2, <2>3, RebuildRefines
  <2>5. elastic = FALSE
    BY <1>2, <2>1 DEF Early
  <2> QED BY <2>2, <2>4, <2>5 DEF UnsolvedInv
<1>6. CASE Diagnose
  <2> DEFINE no == FALSE
  <2>1. /\ pc = "diagnose" /\ Feasible(in, bounds) = {} /\ built.hedges = no
        /\ built.from = reading /\ feasible = Solvable(reading)
        /\ feasible' = feasible /\ elastic' = elastic
    BY <1>6 DEF Diagnose, StagesInv, Plain, ReportedInv, Rereading
  <2>2. bounds = BuildBounds(Applied(reading), in.minimum, no)
    BY <2>1 DEF ProblemInv
  <2>3. feasible.plain = (Feasible(in, bounds) # {})
    BY <2>1, <2>2 DEF Solvable
  <2> QED BY <2>1, <2>3 DEF UnsolvedInv
<1>7. CASE Interpret \/ CorrectNote \/ CorrectionDone
  <2>1. pc \in Early /\ elastic' = elastic /\ pc' # "policy"
    BY <1>7 DEF Interpret, CorrectNote, CorrectionDone, Early
  <2> QED BY <1>1, <1>2, <2>1
<1>8. CASE Policy \/ Expire
  <2>1. feasible' = feasible /\ (pc' = "policy" \/ elastic' => pc = "policy" \/ elastic)
    BY <1>8 DEF Policy, Expire
  <2> QED BY <2>1 DEF UnsolvedInv
<1>9. CASE Postprocess
  <2>1. /\ elastic \in BOOLEAN /\ Solves /\ (elastic => built.hedges = FALSE)
    BY <1>9 DEF Postprocess, SolutionInv, ExactInv
  <2>2. ~CapBroken(in, solution, Available, IF elastic THEN NoCaps ELSE bounds.gridCap)
    BY <2>1, ExactReplay
  <2>3. elastic' = elastic /\ feasible' = feasible /\ pc' = "replay"
    BY <1>9, <2>2 DEF Postprocess
  <2> QED BY <2>3 DEF UnsolvedInv
<1>10. CASE Replay
  <2>1. ReplayPassed
    BY <1>10, ExactReplayPasses DEF Replay
  <2>2. elastic' = elastic /\ feasible' = feasible /\ pc' = "answered"
    BY <1>10, <2>1 DEF Replay
  <2> QED BY <2>2 DEF UnsolvedInv
<1>11. CASE UNCHANGED vars
  BY <1>11 DEF vars, UnsolvedInv
<1> QED BY <1>4, <1>5, <1>6, <1>7, <1>8, <1>9, <1>10, <1>11 DEF Next

(* Without rounding, a problem whose directives can be obeyed gets a plan   *)
(* that obeys them, whatever the corrections have made of it, and the retry *)
(* "with epsilon-tightened bounds" (planning.md:390) is never needed: only  *)
(* rounding makes the code drop directives (orchestrator.py:151-170).       *)
THEOREM OnlyRoundingDrops ==
    ASSUME Micro = 1
    PROVE  Spec => []DirectivesNeverDropped
<1>1. Init => UnsolvedInv
  BY DEF Init, UnsolvedInv
<1>2. ProblemInv /\ SolutionInv /\ ExactInv /\ ReportedInv /\ StagesInv /\ UnsolvedInv /\ [Next]_vars
        => UnsolvedInv'
  BY NextKeepsUnsolved
<1>3. ExactInv /\ UnsolvedInv => DirectivesNeverDropped
  BY DEF ExactInv, ExactOutcome, UnsolvedInv, DirectivesNeverDropped
<1> QED BY <1>1, <1>2, <1>3, ProblemInvariant, SolutionInvariant, ExactInvariant, ReportedInvariant,
           StagesInvariant, PTL DEF Spec
=============================================================================
