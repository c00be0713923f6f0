------------------------- MODULE MCDispatchPipeline -------------------------
(* Instances of DispatchPipeline for TLC: a day of two hours.               *)
EXTENDS DispatchPipeline

TwoHours == 0 .. 1

Request(demand, solar, tariff, initial) ==
    [demand |-> demand, solar |-> solar, tariff |-> tariff,
     capacity |-> 2, minimum |-> 0, initial |-> initial, maxCharge |-> 1, maxDischarge |-> 1]

By(x, y) == [h \in Hours |-> IF h = 0 THEN x ELSE y]

(* Dear evening, solar in the morning; a flat day; a negative tariff.       *)
Requests ==
    {Request(By(2, 3), By(4, 0), By(1, 3), 1),
     Request(By(3, 3), By(4, 4), By(2, 1), 1),
     Request(By(1, 2), By(0, 4), By(-1, 2), 1)}

D(n, type, hours, value, hedge) ==
    [note |-> n, type |-> type, hours |-> hours, value |-> value, hedge |-> hedge]

Primary(n, type, hours, value) == {D(n, type, hours, value, FALSE)}
Hedged(n, type, hours, value, wider, other) ==
    {D(n, type, hours, value, FALSE), D(n, type, wider, other, TRUE)}

ReadingsOfNote(n) ==
    {{},
     Primary(n, "solar_reduction", {0, 1}, 0),
     Hedged(n, "solar_reduction", {0}, 1, {0, 1}, 1),
     Primary(n, "minimum_battery_reserve", {1}, 2),
     Hedged(n, "minimum_battery_reserve", {0}, 1, {0}, 2),
     Primary(n, "no_charge_window", {0, 1}, 0),
     Hedged(n, "no_discharge_window", {1}, 0, {0, 1}, 0),
     Primary(n, "max_grid_window", {0, 1}, 1),
     Hedged(n, "max_grid_window", {1}, 2, {0, 1}, 1)}

(* Amounts that are no multiple of the precision of a plan, five units: the  *)
(* battery charges at most two units an hour, or is emptied three by three.  *)
FourHours == 0 .. 3
Last(x, y) == [h \in Hours |-> IF h = 3 THEN y ELSE x]

SlowCharge ==
    [demand |-> Last(9, 9), solar |-> Last(0, 0), tariff |-> Last(1, 2), capacity |-> 6,
     minimum |-> 0, initial |-> 0, maxCharge |-> 2, maxDischarge |-> 6]

FastCharge == [SlowCharge EXCEPT !.maxCharge = 6, !.tariff = Last(1, 1)]

Emptied ==
    [demand |-> Last(3, 0), solar |-> Last(0, 0), tariff |-> Last(2, 1), capacity |-> 11,
     minimum |-> 1, initial |-> 10, maxCharge |-> 15, maxDischarge |-> 5]

Sunny == [SlowCharge EXCEPT !.demand = Last(0, 9), !.solar = Last(0, 1), !.capacity = 1]

FineRequests == {SlowCharge, FastCharge, Emptied, Sunny}
ForcedRequests == {SlowCharge}

(* Hedges whose factor nobody has validated: with that of another note it   *)
(* makes nine times the solar there is, enough for a grid cap that cannot   *)
(* be kept without.                                                         *)
Absurd(n, type, value) ==
    {D(n, type, {3}, value, FALSE), D(n, "solar_reduction", {3}, -3, TRUE)}

FineReadings ==
    [n \in Notes |->
        IF n = 1 THEN {{}, Absurd(n, "solar_reduction", 1)}
        ELSE {{}, Absurd(n, "solar_reduction", 1), Absurd(n, "max_grid_window", 3),
              Primary(n, "minimum_battery_reserve", {2}, 6), Primary(n, "max_grid_window", {3}, 3),
              Primary(n, "minimum_battery_reserve", {3}, 11), Primary(n, "max_grid_window", {3}, 0)}]

MCReadings == [n \in Notes |-> ReadingsOfNote(n)]

=============================================================================
