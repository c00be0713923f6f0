---------------------------- MODULE Postprocess ----------------------------
(***************************************************************************)
(* From the solution of a linear program to the hourly plan of the         *)
(* response, postprocess of src/app/optimizer/postprocess.py, and the      *)
(* check of that plan, replay of src/app/verification/replay.py.           *)
(*                                                                         *)
(* The code rounds amounts to 1e-6 kWh, here to multiples of Micro, and     *)
(* forgives a difference of 1e-6 kWh, here Tol.  With the unit 1 kWh both  *)
(* are less than a unit: Micro = 1 rounds nothing and Tol = 0.  Two         *)
(* roundings are forgiven.                                                 *)
(***************************************************************************)
EXTENDS Dispatch

CONSTANTS Micro, Tol

ASSUME MicroAssumption == Micro \in Nat /\ Micro % 2 = 1 /\ Tol \in Nat /\ Micro - 1 <= Tol

Lesser(x, y) == IF x <= y THEN x ELSE y
AbsOf(x) == IF x < 0 THEN -x ELSE x

(* round(x, 6): Micro is odd, so nothing is half way. *)
Round(x) == ((x + Micro \div 2) \div Micro) * Micro

Clamped(in, n) ==
    IF n > in.maxCharge THEN in.maxCharge
    ELSE IF n < -in.maxDischarge THEN -in.maxDischarge ELSE n

WithinRates(in, n) == Clamped(in, n) = n

(* The net charge of each hour, before the end of the day is made to match. *)
RoundedNet(in, x) == [h \in Hours |-> Clamped(in, Round(NetCharge(in, x, h)))]

RoundedEnergy(in, net) ==
    LET e[h \in Hours] == Round((IF h = 0 THEN in.initial ELSE e[h - 1]) + net[h]) IN e

Residual(in, net) == Round(RoundedEnergy(in, net)[LastHour] - in.initial)

(* The residual is taken from the hour with the largest net charge, the     *)
(* earliest of several, that it does not push over a rate.                  *)
Neutralised(in, net) ==
    LET r    == Residual(in, net)
        able == {h \in Hours : WithinRates(in, Round(net[h] - r))}
        most == {h \in able : \A j \in able : AbsOf(net[j]) <= AbsOf(net[h])}
    IN  IF r = 0 \/ able = {} THEN net
        ELSE [net EXCEPT ![Min(most)] = Round(net[Min(most)] - r)]

Net(in, x) == Neutralised(in, RoundedNet(in, x))

Need(in, net, h) == Excess(in.demand[h] + net[h])

OverCap(g, cap) == cap # Unlimited /\ g > cap + Tol

(* Mutant: solar use is not limited by what the directives leave. *)
SolarUsePhantom(in, x, net, solar, cap, h) == Lesser(Round(x.solar[h]), Need(in, net, h))

(* Solar use: the solution's, or all there is if the grid cap requires it.  *)
SolarUse(in, x, net, solar, cap, h) ==
    LET need   == Need(in, net, h)
        wanted == Excess(Lesser(Round(x.solar[h]), Lesser(solar[h], need)))
    IN  IF OverCap(need - wanted, cap[h]) THEN Lesser(solar[h], need) ELSE wanted

(* PostprocessError *)
CapBroken(in, x, solar, cap) ==
    \E h \in Hours :
        OverCap(Need(in, Net(in, x), h) - SolarUse(in, x, Net(in, x), solar, cap, h), cap[h])

Action(n) == IF n > 0 THEN "charge" ELSE IF n < 0 THEN "discharge" ELSE "idle"

PlanOf(in, x, solar, cap) ==
    LET net    == Net(in, x)
        energy == RoundedEnergy(in, net)
        use    == [h \in Hours |-> SolarUse(in, x, net, solar, cap, h)]
    IN  [grid   |-> [h \in Hours |-> Round(Need(in, net, h) - use[h])],
         solar  |-> [h \in Hours |-> Round(use[h])],
         action |-> [h \in Hours |-> Action(net[h])],
         amount |-> [h \in Hours |-> Round(AbsOf(net[h]))],
         energy |-> energy]

(* _idle_fallback: no directive, an idle battery, all the solar of the day. *)
IdlePlan(in) ==
    LET solar == [h \in Hours |-> Lesser(in.solar[h], in.demand[h])]
    IN  [grid   |-> [h \in Hours |-> Round(in.demand[h] - solar[h])],
         solar  |-> [h \in Hours |-> Round(solar[h])],
         action |-> [h \in Hours |-> "idle"],
         amount |-> [h \in Hours |-> 0],
         energy |-> [h \in Hours |-> Round(in.initial)]]

-----------------------------------------------------------------------------
(* replay: the plan breaks no rule in any hour and ends the day neutral.    *)
(* Its checks of hour order, enumerations and totals hold by construction   *)
(* of the plan and are left out.                                            *)

Signed(p, h) ==
    IF p.action[h] = "charge" THEN p.amount[h]
    ELSE IF p.action[h] = "discharge" THEN -p.amount[h] ELSE 0

NonNegative(p, h) == p.grid[h] >= -Tol /\ p.solar[h] >= -Tol /\ p.amount[h] >= -Tol

RatesKept(in, p, h) ==
    /\ p.action[h] = "idle" => AbsOf(p.amount[h]) <= Tol
    /\ p.action[h] = "charge" => p.amount[h] <= in.maxCharge + Tol
    /\ p.action[h] = "discharge" => p.amount[h] <= in.maxDischarge + Tol

WindowsKept(b, p, h) ==
    /\ p.action[h] = "charge" => b.chargeOk[h]
    /\ p.action[h] = "discharge" => b.dischargeOk[h]

EnergyBefore(in, p, h) == IF h = 0 THEN in.initial ELSE p.energy[h - 1]

EnergyKept(in, b, p, h) ==
    /\ AbsOf(p.energy[h] - EnergyBefore(in, p, h) - Signed(p, h)) <= Tol
    /\ p.energy[h] >= b.reserve[h] - Tol
    /\ p.energy[h] <= in.capacity + Tol

SourcesKept(in, b, p, h) ==
    /\ p.solar[h] <= EffectiveSolar(in, b)[h] + Tol
    /\ ~OverCap(p.grid[h], b.gridCap[h])
    /\ AbsOf(p.grid[h] + p.solar[h] - in.demand[h] - Signed(p, h)) <= Tol

Accepted(in, b, p) ==
    /\ \A h \in Hours :
        /\ NonNegative(p, h)
        /\ RatesKept(in, p, h)
        /\ WindowsKept(b, p, h)
        /\ EnergyKept(in, b, p, h)
        /\ SourcesKept(in, b, p, h)
    /\ AbsOf(p.energy[LastHour] - in.initial) <= Tol
=============================================================================
