----------------------------- MODULE Guardrails -----------------------------
(***************************************************************************)
(* What src/app/guardrails does with one note: normalizer.py, validator.py,*)
(* assembler.py, quantities.py and rule_interpreter.py, and the verdict    *)
(* that _try_models of interpreter.py reaches with them.                   *)
(*                                                                         *)
(* Numbers are counted in units of 1/Whole, hundredths in the code: a      *)
(* factor, an amount of energy, and the number the LLM has read in a note, *)
(* so that 20 % is the number 20 * Whole.  What is no multiple of the unit *)
(* is cut to one (the code rounds to six places).                          *)
(***************************************************************************)
EXTENDS TimeWindows, DirectiveBounds

CONSTANT Thousand  \* kWh in a MWh

ASSUME GuardrailAssumption == Hours = Day /\ Thousand \in Nat

ValueTypes == {"solar_reduction", "minimum_battery_reserve", "max_grid_window"}

UnitsFor(type) ==
    CASE type = "solar_reduction" -> {"percent_remaining", "percent_reduction",
                                      "fraction_remaining", "fraction_reduction"}
      [] type = "minimum_battery_reserve" -> {"kwh", "mwh", "percent_of_capacity",
                                              "fraction_of_capacity", "kwh_above_base_minimum"}
      [] type = "max_grid_window" -> {"kwh", "mwh"}
      [] OTHER -> {}

Quantity(value, unit) == [value |-> value, unit |-> unit]

(* quantity_to_value, for a unit that its type allows *)
Amount(q, battery) ==
    CASE q.unit = "percent_remaining"      -> q.value \div Whole
      [] q.unit = "percent_reduction"      -> Whole - q.value \div Whole
      [] q.unit = "fraction_remaining"     -> q.value
      [] q.unit = "fraction_reduction"     -> Whole - q.value
      [] q.unit = "kwh"                    -> q.value
      [] q.unit = "mwh"                    -> q.value * Thousand
      [] q.unit = "percent_of_capacity"    -> (q.value * battery.capacity) \div (Whole * Whole)
      [] q.unit = "fraction_of_capacity"   -> (q.value * battery.capacity) \div Whole
      [] q.unit = "kwh_above_base_minimum" -> battery.minimum + q.value

(* What the LLM has written, or its alternative reading, has windows and an *)
(* optional quantity that directives of this type may have.                 *)
WellFormed(out, type) ==
    /\ \A w \in out.windows : WindowOk(w)
    /\ type \in ValueTypes => \A q \in out.quantity : q.unit \in UnitsFor(type)

(* normalize: when it raises no NormalizationError, and its result, which   *)
(* is channel A.                                                            *)
Normalizable(out) == WellFormed(out, out.type) /\ (out.type \in ValueTypes => out.quantity # {})

ValueOf(out, type, battery) ==
    IF type \in ValueTypes THEN {Amount(q, battery) : q \in out.quantity} ELSE {}

Normalize(out, battery) ==
    [hours |-> WindowsHours(out.windows, out.type), value |-> ValueOf(out, out.type, battery)]

-----------------------------------------------------------------------------
(* validator.py *)

InRange(type, v, battery) ==
    CASE type = "solar_reduction"         -> 0 <= v /\ v <= Whole
      [] type = "minimum_battery_reserve" -> 0 <= v /\ v <= battery.capacity
      [] type = "max_grid_window"         -> 0 <= v
      [] OTHER -> TRUE

RangeRule(type) ==
    CASE type = "solar_reduction" -> "G6" [] type = "minimum_battery_reserve" -> "G7"
      [] type = "max_grid_window" -> "G8" [] OTHER -> "none"

(* is_grounded: the number is in the note, or 100 times or 1/100 of it is. *)
Grounded(q, numbers) ==
    \E m \in numbers : q.value \in {m, m * Whole} \/ m = q.value * Whole

Issue(code, broken) == IF broken THEN {code} ELSE {}

(* G1 cannot be broken: the schema of the LLM's output has the six types    *)
(* only.                                                                    *)
FormIssues(out, norm, battery) ==
    UNION {Issue("G5", out.type # "no_op" /\ (norm.hours = {} \/ ~(norm.hours \subseteq Day))),
           Issue(RangeRule(out.type),
                 out.type \in ValueTypes
                 /\ (norm.value = {} \/ \E v \in norm.value : ~InRange(out.type, v, battery))),
           Issue("G9", out.type \in ValueTypes /\ out.quantity = {})}

(* Channel A, the evidence, against channel B, the LLM's own result: hours  *)
(* as sets, values up to a thousandth, which is less than a unit.           *)
ChannelsDiffer(out, norm) ==
    \/ norm.hours # out.hours
    \/ out.type \in ValueTypes /\ out.value # {} /\ norm.value # {} /\ out.value # norm.value

Issues(out, norm, note, battery) ==
    LET form == FormIssues(out, norm, battery)
    IN  UNION {form,
               Issue("G10", out.type # "no_op" /\ form = {} /\ ChannelsDiffer(out, norm)),
               Issue("G11", out.type # "no_op"
                            /\ \E q \in out.quantity : ~Grounded(q, note.numbers)),
               Issue("G12", out.affects = (out.type = "no_op"))}

Blocking == {"G1", "G5", "G9"}

(* What _try_models makes of a reply: Verdicts of NoteInterpreter. *)
Verdict(out, note, battery) ==
    IF ~Normalizable(out) THEN "normError"
    ELSE LET issues == Issues(out, Normalize(out, battery), note, battery)
         IN  IF issues \cap Blocking # {} THEN "blocking"
             ELSE IF issues # {} THEN "soft" ELSE "clean"

(* Mutant: what is out of range is taken as it is. *)
SoftFallbackNone(norm, type, battery) == norm

(* _apply_soft_fallback: a factor and a reserve out of range are moved to   *)
(* the end of the range, a grid cap is not.                                 *)
SoftFallback(norm, type, battery) ==
    LET top == IF type = "solar_reduction" THEN Whole ELSE battery.capacity
    IN  IF type \in {"solar_reduction", "minimum_battery_reserve"}
        THEN [norm EXCEPT !.value = {IF v < 0 THEN 0 ELSE IF v > top THEN top ELSE v : v \in @}]
        ELSE norm

-----------------------------------------------------------------------------
(* assembler.py *)

(* A directive that needs no value has 0. *)
Directive(n, type, hours, value, hedge) ==
    [note |-> n, type |-> type, hours |-> hours,
     value |-> IF value = {} THEN 0 ELSE CHOOSE v \in value : TRUE, hedge |-> hedge]

Primary(n, out, norm) == Directive(n, out.type, norm.hours, norm.value, FALSE)

(* The alternative reading is applied if it is of the same type and can be  *)
(* normalized; its value is not validated.                                  *)
AlternativeHedges(n, out, norm, battery) ==
    {Directive(n, out.type, WindowsHours(alt.windows, out.type),
               IF alt.quantity = {} THEN norm.value ELSE ValueOf(alt, out.type, battery), TRUE) :
        alt \in {alt \in out.alternative : alt.type = out.type /\ WellFormed(alt, out.type)}}

(* The hours that the note's own expressions name are added to the LLM's.  *)
ParsedHedges(n, out, norm, note) ==
    IF Disagrees(note.phrases, norm.hours)
    THEN {Directive(n, out.type, norm.hours \cup RegexHours(note.phrases), norm.value, TRUE)} ELSE {}

(* assemble_note: the directives to apply. *)
Assemble(n, out, norm, note, battery, hedging) ==
    IF out.type = "no_op" THEN {}
    ELSE {Primary(n, out, norm)}
         \cup (IF hedging THEN AlternativeHedges(n, out, norm, battery)
                               \cup ParsedHedges(n, out, norm, note) ELSE {})

(* The entry of the response, with its structured_adjustment. *)
Entry(out, norm) ==
    IF out.type = "no_op"
    THEN [applies |-> FALSE, type |-> "no_op", hours |-> {}, value |-> {}]
    ELSE [applies |-> TRUE, type |-> out.type, hours |-> norm.hours, value |-> norm.value]

-----------------------------------------------------------------------------
(* rule_interpreter.py.  A note has topics, those of the patterns that its  *)
(* text matches, and for each type the number found in it, with what its    *)
(* wording makes of the number.                                             *)

Topics == {"otherPeriod", "gridCap", "solar", "battery", "stored", "reserve", "atLeast",
           "blocked", "charge", "discharge"}

RuleEntry(type, hours, value) ==
    [applies |-> TRUE, type |-> type, hours |-> hours, value |-> value]

Found(note, type, battery) == {Amount(q, battery) : q \in note.found[type]}

(* A reserve is to be kept, unless charging or discharging is blocked and   *)
(* no least amount is named.                                                *)
AboutReserve(topics) ==
    /\ "reserve" \in topics
    /\ topics \cap {"battery", "stored"} # {}
    /\ "blocked" \in topics /\ topics \cap {"charge", "discharge"} # {} => "atLeast" \in topics

(* interpret: the reading of a note without the LLM, if there is one. *)
RuleReading(note, battery) ==
    LET topics  == note.topics
        hours   == RegexHours(note.phrases)
        cap     == Found(note, "max_grid_window", battery)
        factor  == Found(note, "solar_reduction", battery) \cap 0 .. Whole
        reserve == Found(note, "minimum_battery_reserve", battery) \cap 0 .. battery.capacity
    IN  IF "otherPeriod" \in topics \/ hours = {} THEN {}
        ELSE IF "gridCap" \in topics /\ cap # {} THEN {RuleEntry("max_grid_window", hours, cap)}
        ELSE IF "solar" \in topics /\ "battery" \notin topics
        THEN {RuleEntry("solar_reduction", hours, {v}) : v \in factor}
        ELSE IF AboutReserve(topics) /\ reserve # {}
        THEN {RuleEntry("minimum_battery_reserve", hours, reserve)}
        ELSE IF {"discharge", "blocked"} \subseteq topics
        THEN {RuleEntry("no_discharge_window", hours, {})}
        ELSE IF {"charge", "blocked"} \subseteq topics
        THEN {RuleEntry("no_charge_window", hours, {})}
        ELSE {}
=============================================================================
