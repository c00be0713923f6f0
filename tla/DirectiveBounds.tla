-------------------------- MODULE DirectiveBounds --------------------------
(***************************************************************************)
(* From directives to hourly bounds: build_bounds of                       *)
(* src/app/optimizer/constraints.py.  The list of directives is a set: the *)
(* code combines them with min, max, union and product only.               *)
(***************************************************************************)
EXTENDS Integers, FiniteSetsExt

CONSTANTS
    Hours,      \* 0 .. 23 in the code
    Notes,      \* note indices
    Whole,      \* a solar factor is a multiple of 1/Whole
    Unlimited   \* float("inf"): more than any hour can draw from the grid

ASSUME BoundsAssumption ==
    /\ IsFiniteSet(Hours) /\ Hours # {} /\ Hours = 0 .. Cardinality(Hours) - 1
    /\ Notes \subseteq Nat /\ IsFiniteSet(Notes)
    /\ Whole \in Nat \ {0}
    /\ Unlimited \in Nat

Types == {"solar_reduction", "minimum_battery_reserve", "no_charge_window",
          "no_discharge_window", "max_grid_window"}

(* value is the factor (out of Whole), minimum_energy_kwh or max_grid_kwh;  *)
(* it may be negative (Guardrails).                                         *)
Directives == [note : Notes, type : Types, hours : SUBSET Hours, value : Int, hedge : BOOLEAN]

(* The scale of a product of factors, one for each note. *)
FullScale == FoldSet(LAMBDA n, p : p * Whole, 1, Notes)

Bounds == [factor      : [Hours -> 0 .. FullScale],
           reserve     : [Hours -> Nat],
           chargeOk    : [Hours -> BOOLEAN],
           dischargeOk : [Hours -> BOOLEAN],
           gridCap     : [Hours -> 0 .. Unlimited]]

Kept(applied, hedges) == {d \in applied : hedges \/ ~d.hedge}

On(D, type, h) == {d \in D : d.type = type /\ h \in d.hours}

Values(D) == {d.value : d \in D}

(* Within a note the lowest factor counts ... *)
NoteFactor(D, n, h) ==
    Min({Whole} \cup Values({d \in On(D, "solar_reduction", h) : d.note = n}))

(* ... and the factors of different notes are multiplied. *)
Factor(D, h) == FoldSet(LAMBDA n, p : p * NoteFactor(D, n, h), 1, Notes)

(* Mutant: the last reserve wins, and not the highest. *)
ReserveOverwritten(D, base, h) ==
    IF On(D, "minimum_battery_reserve", h) = {} THEN base
    ELSE Min(Values(On(D, "minimum_battery_reserve", h)))

Reserve(D, base, h) == Max({base} \cup Values(On(D, "minimum_battery_reserve", h)))

GridCap(D, h) == Min({Unlimited} \cup Values(On(D, "max_grid_window", h)))

BuildBounds(applied, base, hedges) ==
    LET D == Kept(applied, hedges)
    IN  [factor      |-> [h \in Hours |-> Factor(D, h)],
         reserve     |-> [h \in Hours |-> Reserve(D, base, h)],
         chargeOk    |-> [h \in Hours |-> On(D, "no_charge_window", h) = {}],
         dischargeOk |-> [h \in Hours |-> On(D, "no_discharge_window", h) = {}],
         gridCap     |-> [h \in Hours |-> GridCap(D, h)]]

(* b allows no more than c: the sense in which a directive, or a hedge, is  *)
(* "more restrictive" (planning.md 4.9).                                    *)
Tighter(b, c) ==
    \A h \in Hours :
        /\ b.factor[h] <= c.factor[h]
        /\ b.reserve[h] >= c.reserve[h]
        /\ b.chargeOk[h] => c.chargeOk[h]
        /\ b.dischargeOk[h] => c.dischargeOk[h]
        /\ b.gridCap[h] <= c.gridCap[h]
=============================================================================
