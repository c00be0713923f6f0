---------------------------- MODULE Diagnostics ----------------------------
(***************************************************************************)
(* diagnose of src/app/optimizer/diagnostics.py: which notes an infeasible *)
(* problem is blamed on.  A conflict is the set of notes it implicates.    *)
(***************************************************************************)
EXTENDS Dispatch

Touching(applied, type, h) == {d.note : d \in On(applied, type, h)}

Deliverable(in, b, h) == IF b.dischargeOk[h] THEN in.maxDischarge ELSE 0

(* Mutant: the solar output is forgotten. *)
CapTooLowInTheDark(in, b, h) ==
    b.gridCap[h] # Unlimited /\ in.demand[h] - Deliverable(in, b, h) > b.gridCap[h]

(* The demand of hour h exceeds solar, battery and the grid cap together. *)
CapTooLow(in, b, h) ==
    /\ b.gridCap[h] # Unlimited
    /\ in.demand[h] - EffectiveSolar(in, b)[h] - Deliverable(in, b, h) > b.gridCap[h]

(* The most energy the battery can hold at the end of each hour. *)
Reachable(in, b) ==
    LET e[h \in Hours] ==
            LET charge == IF b.chargeOk[h] THEN in.maxCharge ELSE 0
                most   == (IF h = 0 THEN in.initial ELSE e[h - 1]) + charge
            IN  IF most > in.capacity THEN in.capacity ELSE most
    IN  e

Unreachable(in, b) == {h \in Hours : b.reserve[h] > Reachable(in, b)[h]}

ChargeForbiddenBy(applied, h) ==
    {d.note : d \in {d \in applied : d.type = "no_charge_window" /\ \E j \in d.hours : j <= h}}

(* The hours with a conflict of the first kind, and the notes of all three. *)
CapConflicts(in, b) == {h \in Hours : CapTooLow(in, b, h)}

CapBlame(in, b, applied) ==
    UNION {Touching(applied, type, h) :
              type \in {"max_grid_window", "solar_reduction", "no_discharge_window"},
              h \in CapConflicts(in, b)}

ReserveBlame(in, b, applied) ==
    IF Unreachable(in, b) = {} THEN {}
    ELSE LET h == Min(Unreachable(in, b))
         IN  Touching(applied, "minimum_battery_reserve", h) \cup ChargeForbiddenBy(applied, h)

EndConflict(in, b) == b.reserve[LastHour] > in.initial

EndBlame(in, b, applied) ==
    IF EndConflict(in, b) THEN Touching(applied, "minimum_battery_reserve", LastHour) ELSE {}

CauseFound(in, b) == CapConflicts(in, b) # {} \/ Unreachable(in, b) # {} \/ EndConflict(in, b)

(* Mutant: no blame without a cause in a single hour. *)
ImplicatedByCause(in, b, applied) ==
    CapBlame(in, b, applied) \cup ReserveBlame(in, b, applied) \cup EndBlame(in, b, applied)

Implicated(in, b, applied) ==
    IF CauseFound(in, b)
    THEN CapBlame(in, b, applied) \cup ReserveBlame(in, b, applied) \cup EndBlame(in, b, applied)
    ELSE {d.note : d \in applied}
=============================================================================
