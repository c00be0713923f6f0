------------------------------ MODULE Dispatch ------------------------------
(***************************************************************************)
(* The linear programs of src/app/optimizer/lp_model.py and solver.py, by  *)
(* what they compute: the set of optimal schedules.  The balance and the   *)
(* battery dynamics are equalities, so a schedule is given by the energy   *)
(* after each hour and the solar use; the rest follows.  Charging and      *)
(* discharging in one hour is left out: postprocess reads the difference.  *)
(* The constraint matrix is that of a flow in a network: for whole numbers *)
(* its vertices, among which the solver chooses, are whole too.            *)
(*                                                                         *)
(* in is one request: demand, solar and tariff by hour, and the battery.   *)
(***************************************************************************)
EXTENDS DirectiveBounds

CONSTANT SecondaryObjective  \* enable_secondary_objective

LastHour == Max(Hours)

SumOver(f) == MapThenSumSet(LAMBDA h : f[h], Hours)

Excess(n) == IF n > 0 THEN n ELSE 0

(* build_balance_dynamics, solved for charge, discharge and grid *)
NetCharge(in, x, h) == x.energy[h] - (IF h = 0 THEN in.initial ELSE x.energy[h - 1])
Charge(in, x, h) == Excess(NetCharge(in, x, h))
Discharge(in, x, h) == Excess(-NetCharge(in, x, h))
Grid(in, x, h) == in.demand[h] + NetCharge(in, x, h) - x.solar[h]

(* What the battery, the sun and the end of the day allow. *)
Schedules(in, maxSolar) ==
    {x \in [energy : {e \in [Hours -> in.minimum .. in.capacity] : e[LastHour] = in.initial},
            solar  : {s \in [Hours -> 0 .. Max({maxSolar[h] : h \in Hours})] :
                          \A h \in Hours : s[h] <= maxSolar[h]}] :
        \A h \in Hours :
            /\ Charge(in, x, h) <= in.maxCharge
            /\ Discharge(in, x, h) <= in.maxDischarge
            /\ Grid(in, x, h) >= 0}

EffectiveSolar(in, b) == [h \in Hours |-> (in.solar[h] * b.factor[h]) \div FullScale]

(* Mutant: a window that forbids charging is overlooked. *)
FeasibleAnyWindow(in, b) ==
    {x \in Schedules(in, EffectiveSolar(in, b)) :
        \A h \in Hours :
            /\ ~b.dischargeOk[h] => Discharge(in, x, h) = 0
            /\ Grid(in, x, h) <= b.gridCap[h]
            /\ x.energy[h] >= b.reserve[h]}

(* base_bounds: the directives restrict the schedules further. *)
Feasible(in, b) ==
    {x \in Schedules(in, EffectiveSolar(in, b)) :
        \A h \in Hours :
            /\ ~b.chargeOk[h] => Charge(in, x, h) = 0
            /\ ~b.dischargeOk[h] => Discharge(in, x, h) = 0
            /\ Grid(in, x, h) <= b.gridCap[h]
            /\ x.energy[h] >= b.reserve[h]}

Cost(in, x) == SumOver([h \in Hours |-> in.tariff[h] * Grid(in, x, h)])

Cycling(in, x) == SumOver([h \in Hours |-> Charge(in, x, h) + Discharge(in, x, h)])

Least(S, Measure(_)) == LET m == Min({Measure(x) : x \in S}) IN {x \in S : Measure(x) = m}

(* Mutant: the objectives in the wrong order. *)
OptimalByCycling(in, b) ==
    IF Feasible(in, b) = {} THEN {}
    ELSE Least(Least(Feasible(in, b), LAMBDA x : Cycling(in, x)), LAMBDA x : Cost(in, x))

(* What solve may return: the schedules of least cost, and of these the     *)
(* ones that cycle the battery least.  It is Infeasible if there are none.  *)
Optimal(in, b) ==
    LET cheapest == Least(Feasible(in, b), LAMBDA x : Cost(in, x))
    IN  IF Feasible(in, b) = {} THEN {}
        ELSE IF SecondaryObjective THEN Least(cheapest, LAMBDA x : Cycling(in, x))
        ELSE cheapest

-----------------------------------------------------------------------------
(* The elastic program. *)

(* The slack an elastic schedule needs: what it takes beyond each bound     *)
(* that a directive has set.                                                *)
Slack(in, b, x) ==
    SumOver([h \in Hours |->
        Excess(Grid(in, x, h) - b.gridCap[h])
         + Excess(x.solar[h] - EffectiveSolar(in, b)[h])
         + (IF b.chargeOk[h] THEN 0 ELSE Charge(in, x, h))
         + (IF b.dischargeOk[h] THEN 0 ELSE Discharge(in, x, h))
         + Excess(b.reserve[h] - x.energy[h])])

(* The physics stays hard: build_elastic_model without its slack. *)
Physical(in) == Schedules(in, in.solar)

(* Mutant: the objectives in the wrong order. *)
ElasticByCost(in, b) ==
    Least(Least(Physical(in), LAMBDA x : Cost(in, x)), LAMBDA x : Slack(in, b, x))

(* What solve_elastic may return: least total slack first, then least cost. *)
ElasticOptimal(in, b) ==
    Least(Least(Physical(in), LAMBDA x : Slack(in, b, x)), LAMBDA x : Cost(in, x))
=============================================================================
