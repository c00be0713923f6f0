----------------------------- MODULE MCReadings -----------------------------
(* An instance of Readings for TLC: a day of four hours, a clock of twice   *)
(* two, factors in halves.  Note 0 takes every phrase the parser knows, and *)
(* note 1 one of each type of directive.                                    *)
EXTENDS Readings

FourHours == 0 .. 3

MCBatteries == {[capacity |-> 4, minimum |-> 1]}

Clocks ==
    {Clock(k, FALSE, mark) : k \in 1 .. 2, mark \in {"am", "pm"}}
    \cup {Clock(k, TRUE, mark) : k \in 1 .. 2, mark \in Dotted} \cup {Clock(1, FALSE, "p.m.")}
    \cup {Clock(k, TRUE, "none") : k \in {1, 3, 4}} \cup {Clock(k, FALSE, "h") : k \in {1, 3}}
    \cup {Clock(1, FALSE, "none")}

(* The ends of ranges, one of each kind.                                    *)
EndClocks ==
    {Clock(1, FALSE, "pm"), Clock(2, FALSE, "am"), Clock(2, TRUE, "p.m."), Clock(3, TRUE, "none"),
     Clock(3, FALSE, "h"), Clock(1, FALSE, "none")}

NoClock == Clock(0, FALSE, "none")
Phrase(kind, from, to, count) == [kind |-> kind, from |-> from, to |-> to, count |-> count]

Phrases ==
    {Phrase("allDay", NoClock, NoClock, 1)}
    \cup {Phrase("range", c, d, 1) : c \in Clocks, d \in EndClocks}
    \cup {Phrase(kind, c, NoClock, k) : kind \in {"for", "starting"}, c \in Clocks, k \in {1, 2, 4}}
    \cup {Phrase(kind, c, NoClock, 1) : kind \in {"after", "onwards", "at"}, c \in Clocks}
    \cup {Phrase("until", NoClock, c, 1) : c \in Clocks}

NothingFound == [type \in ValueTypes |-> {}]
Finding(type, value, unit) == [NothingFound EXCEPT ![type] = {Quantity(value, unit)}]

Text(numbers, phrases, topics, found) ==
    [numbers |-> numbers, phrases |-> phrases, topics |-> topics, found |-> found]

AtNight == Phrase("range", Clock(1, FALSE, "pm"), Clock(1, FALSE, "am"), 1)

MCTexts ==
    [n \in Notes |->
        IF n = 0
        THEN {Text({2}, {p}, {"charge", "blocked"}, NothingFound) : p \in Phrases}
             \cup {Text({1, 2}, {AtNight, Phrase("until", NoClock, Clock(1, TRUE, "none"), 1)},
                        {"battery", "reserve"},
                        Finding("minimum_battery_reserve", v, "percent_of_capacity")) :
                       v \in {2, 6}}
             \cup {Text({3}, {AtNight}, {"gridCap"}, Finding("max_grid_window", 3, "kwh")),
                   Text({2}, {AtNight}, {"solar"}, Finding("solar_reduction", 2, "percent_reduction")),
                   Text({6}, {AtNight}, {"solar"}, Finding("solar_reduction", 6, "percent_reduction")),
                   Text({2}, {AtNight}, {"battery", "discharge", "blocked"}, NothingFound),
                   Text({2}, {AtNight}, {"otherPeriod", "charge", "blocked"}, NothingFound)}
        ELSE {Text({2}, {}, {}, NothingFound)}]

Reply(type, affects, windows, quantity, hours, value, alternative) ==
    [type |-> type, affects |-> affects, windows |-> windows, quantity |-> quantity,
     hours |-> hours, value |-> value, alternative |-> alternative]

Other(type, windows, quantity) == {[type |-> type, windows |-> windows, quantity |-> quantity]}

Late == {Window(3, 1)}
Half == {Quantity(2, "percent_remaining")}
TooMuch == {Quantity(6, "percent_reduction")}

MCReplies ==
    [n \in Notes |->
        IF n = 0
        THEN {Reply("solar_reduction", TRUE, Late, Half, {0, 3}, {1}, {}),
              Reply("solar_reduction", TRUE, {}, Half, Day, {1}, Other("solar_reduction", Late, TooMuch)),
              Reply("solar_reduction", TRUE, Late, TooMuch, {0, 3}, {-1}, {}),
              Reply("minimum_battery_reserve", TRUE, {Window(1, 4)},
                    {Quantity(6, "percent_of_capacity")}, {1, 2, 3}, {6}, {}),
              Reply("minimum_battery_reserve", TRUE, {Window(0, 2)},
                    {Quantity(2, "kwh_above_base_minimum")}, {0, 1}, {3},
                    Other("minimum_battery_reserve", {Window(0, 1)}, {Quantity(2, "kwh")})),
              Reply("max_grid_window", TRUE, Late, {Quantity(2, "mwh")}, {0, 3}, {4},
                    Other("max_grid_window", {}, {})),
              Reply("max_grid_window", FALSE, Late, {Quantity(-2, "kwh")}, {0, 3}, {-2}, {}),
              Reply("no_charge_window", TRUE, {Window(2, 2)}, {}, {2}, {}, {}),
              Reply("no_charge_window", TRUE, {Window(1, 2), Window(3, 4)}, {}, {1, 3}, {},
                    Other("no_discharge_window", {Window(1, 2)}, {})),
              Reply("no_discharge_window", TRUE, {}, {}, {1}, {}, {}),
              Reply("no_op", TRUE, {}, {}, {}, {}, {}),
              Reply("no_op", FALSE, {}, {}, {}, {}, {})}
        ELSE {Reply("solar_reduction", TRUE, {Window(0, 2)}, Half, {0, 1}, {1},
                    Other("solar_reduction", {Window(0, 3)}, {Quantity(0, "fraction_remaining")})),
              Reply("minimum_battery_reserve", TRUE, {Window(0, 3)},
                    {Quantity(2, "fraction_of_capacity")}, {0, 1, 2}, {}, {})}]
=============================================================================
