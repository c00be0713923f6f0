--------------------------- MODULE RequestSchema ---------------------------
(***************************************************************************)
(* From the bytes of a request to an OptimizeRequest, or to the error it is*)
(* answered with: src/app/api/request_parser.py and                        *)
(* src/app/schemas/request.py.                                             *)
(*                                                                         *)
(* A field is the set of its value, {} if it is missing or of another type:*)
(* a boolean is no number, a numeric string neither.  Fields that the      *)
(* models do not name are ignored and left out.                            *)
(***************************************************************************)
EXTENDS Integers, Sequences, FiniteSets

CONSTANTS
    Day,       \* 0 .. 23
    MaxNotes,  \* 3
    Huge       \* 1e9; numbers beyond the range of a float are beyond it too

ASSUME RequestAssumption ==
    Day # {} /\ IsFiniteSet(Day) /\ Day \subseteq Nat /\ MaxNotes \in Nat /\ Huge \in Nat

HourFields == {"hour", "demand", "solar", "tariff"}
BatteryFields == {"capacity", "initial", "minimum", "maxCharge", "maxDischarge"}

(* Every condition of a request that the models check.  form: "empty",     *)
(* "tooLarge", "notJson" (NaN and Infinity too), "notObject" or "object".  *)
(* A note is "text", "blank", "long" or "wrongType".                       *)

The(field) == CHOOSE v \in field : TRUE

-----------------------------------------------------------------------------
(* Structure: the validators of single fields. *)

HourEntryOk(e) == (\A f \in HourFields : e[f] # {}) /\ e.hour \subseteq Day

BatteryOk(b) == \A f \in BatteryFields : b[f] # {}

NotesOk(notes) ==
    /\ Len(notes) \in 1 .. MaxNotes
    /\ \A i \in DOMAIN notes : notes[i] \notin {"blank", "wrongType"}

HoursOk(hours) ==
    /\ \A i \in DOMAIN hours : HourEntryOk(hours[i])
    /\ Len(hours) = Cardinality(Day)
    /\ {The(hours[i].hour) : i \in DOMAIN hours} = Day

(* The errors of pydantic, by the field they are located at. *)
StructuralErrors(body) ==
    {f \in {"scenario_id", "operator_notes", "hours", "battery"} :
        CASE f = "scenario_id"    -> body.scenario # {"named"}
          [] f = "operator_notes" -> ~\E v \in body.notes : NotesOk(v)
          [] f = "hours"          -> ~\E v \in body.hours : HoursOk(v)
          [] f = "battery"        -> ~\E v \in body.battery : BatteryOk(v)}

-----------------------------------------------------------------------------
(* The model, for a body without structural errors; request.hours is the    *)
(* list as it came, in any order.                                           *)
Model(body) ==
    LET number(e) == [f \in DOMAIN e |-> The(e[f])]
        hours     == The(body.hours)
    IN  [notes |-> The(body.notes), hours |-> [i \in DOMAIN hours |-> number(hours[i])],
         battery |-> number(The(body.battery))]

TooLarge(v) == v > Huge \/ -v > Huge

(* Mutant: the energy at the start of the day is not compared with the      *)
(* capacity.                                                                *)
BatteryErrorsLax(b) ==
    {f \in BatteryFields : b[f] < 0}
    \cup (IF b.minimum > b.capacity \/ b.minimum > b.initial THEN {"minimum"} ELSE {})

BatteryErrors(b) ==
    {f \in BatteryFields \ {"initial"} : b[f] < 0}
    \cup (IF b.minimum > b.capacity THEN {"minimum"} ELSE {})
    \cup (IF b.minimum <= b.initial /\ b.initial <= b.capacity THEN {} ELSE {"initial"})

SignErrors(entry) == {f \in {"demand", "solar"} : entry[f] < 0}
SizeErrors(record, fields) == {f \in fields : TooLarge(record[f])}

(* semantic_checks: a pair for each field that is refused. *)
SemanticErrors(req) ==
    (IF \E i \in DOMAIN req.notes : req.notes[i] = "long" THEN {<<"note", "long">>} ELSE {})
    \cup {<<"battery", f>> : f \in BatteryErrors(req.battery) \cup SizeErrors(req.battery, BatteryFields)}
    \cup UNION {{<<e.hour, f>> : f \in SignErrors(e) \cup SizeErrors(e, HourFields \ {"hour"})} :
                   e \in {req.hours[i] : i \in DOMAIN req.hours}}

(* parse_request: 400, 422, or 0 for a request that is accepted.  Semantic  *)
(* checks are only made of a body without structural errors.                *)
Parse(body) ==
    IF body.form # "object" \/ StructuralErrors(body) # {} THEN 400
    ELSE IF SemanticErrors(Model(body)) # {} THEN 422
    ELSE 0

(* _series: what the optimizer gets, in the order of the hours. *)
Series(req) ==
    [f \in HourFields |->
        [h \in Day |-> (CHOOSE e \in {req.hours[i] : i \in DOMAIN req.hours} : e.hour = h)[f]]]

Scenario(req) ==
    [demand       |-> Series(req)["demand"],
     solar        |-> Series(req)["solar"],
     tariff       |-> Series(req)["tariff"],
     capacity     |-> req.battery.capacity,
     minimum      |-> req.battery.minimum,
     initial      |-> req.battery.initial,
     maxCharge    |-> req.battery.maxCharge,
     maxDischarge |-> req.battery.maxDischarge]
=============================================================================
