----------------------------- MODULE MCService -----------------------------
(* An instance of Service for TLC: a day of two hours, two notes.  Bodies   *)
(* differ from a valid one in a place or two, or have any battery.          *)
EXTENDS Service

CONSTANTS k1, k2

TwoHours == 0 .. 1
MCModels == 1 .. NModels
MCRequestOf == [t \in Tasks |-> req]
MCKeyOf == [t \in Tasks |-> IF t = 0 THEN k1 ELSE k2]
MCDelays == {NoDelay, 1}

Hour(h, demand, solar, tariff) ==
    [hour |-> {h}, demand |-> {demand}, solar |-> {solar}, tariff |-> {tariff}]

Battery(capacity, initial, minimum, maxCharge) ==
    [capacity |-> {capacity}, initial |-> {initial}, minimum |-> {minimum},
     maxCharge |-> {maxCharge}, maxDischarge |-> {1}]

Good ==
    [form |-> "object", scenario |-> {"named"}, notes |-> {<<"text", "text">>},
     hours |-> {<<Hour(0, 2, 0, -1), Hour(1, 0, 3, 2)>>}, battery |-> {Battery(2, 1, 0, 1)}]

Forms == {[Good EXCEPT !.form = f] : f \in {"empty", "tooLarge", "notJson", "notObject"}}

Named == {[Good EXCEPT !.scenario = s] : s \in {{}, {"blank"}}}

NoteLists ==
    {[Good EXCEPT !.notes = l] :
        l \in {{}, {<<>>}, {<<"text">>}, {<<"text", "text", "text">>}, {<<"text", "blank">>},
               {<<"wrongType", "text">>}, {<<"long", "text">>},
               {<<"text", "text", "text", "text">>}}}

HourLists ==
    {[Good EXCEPT !.hours = l] :
        l \in {{}, {<<Hour(0, 1, 1, 1)>>}, {<<Hour(1, 2, 0, 1), Hour(0, 1, 1, 1)>>},
               {<<Hour(0, 1, 1, 1), Hour(0, 2, 2, 2)>>}, {<<Hour(0, 1, 1, 1), Hour(2, 1, 1, 1)>>},
               {<<Hour(0, 1, 1, 1), Hour(1, 1, 1, 1), Hour(1, 1, 1, 1)>>},
               {<<Hour(0, -1, 1, 1), Hour(1, 1, 1, 1)>>}, {<<Hour(0, 1, 1, 1), Hour(1, 1, -1, 1)>>},
               {<<Hour(0, 10, 1, 1), Hour(1, 1, 1, 1)>>}, {<<Hour(0, 1, 1, -10), Hour(1, 1, 1, 1)>>},
               {<<[Hour(0, 1, 1, 1) EXCEPT !.demand = {}], Hour(1, -1, 1, 1)>>}}}

BatteryRecords ==
    {[Good EXCEPT !.battery = {Battery(c, i, m, x)}] :
        c \in {-1, 0, 1, 2, 10}, i \in -1 .. 2, m \in -1 .. 2, x \in -1 .. 1}
    \cup {[Good EXCEPT !.battery = b] : b \in {{}, {[Battery(2, 1, 0, 1) EXCEPT !.minimum = {}]}}}

(* A structural error hides semantic ones. *)
TwoFaults ==
    {[Good EXCEPT !.scenario = {}, !.battery = {Battery(-1, 0, 0, 1)}],
     [Good EXCEPT !.notes = {<<"long", "text">>}, !.battery = {Battery(0, 1, 0, 1)}]}

MCBodies == UNION {{Good}, Forms, Named, NoteLists, HourLists, BatteryRecords, TwoFaults}
=============================================================================
