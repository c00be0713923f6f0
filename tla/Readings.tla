------------------------------ MODULE Readings ------------------------------
(***************************************************************************)
(* The reading of the notes of one request with its data: what the LLM     *)
(* writes passes through the guardrails, is repaired, corrected, accepted  *)
(* or replaced, and ends as directives for the optimizer (_interpret_one,  *)
(* correct_note and _try_models of src/app/llm/interpreter.py).  Keys,     *)
(* breakers, waits and the cache are in NoteInterpreter: here a call       *)
(* brings a reply or fails.                                                *)
(***************************************************************************)
EXTENDS Guardrails

CONSTANTS
    NModels,       \* length of the model chain
    MaxRepairs,    \* llm_max_repairs
    Hedging,       \* enable_hedging
    RuleFallback,  \* enable_rule_fallback
    Batteries,     \* of the requests: capacity and base minimum
    Texts,         \* note -> what it may say
    Replies        \* note -> what the LLM may write about it

ASSUME ReadingsAssumption ==
    /\ NModels \in Nat /\ MaxRepairs \in Nat
    /\ Hedging \in BOOLEAN /\ RuleFallback \in BOOLEAN
    /\ \A b \in Batteries : b.minimum \in Nat /\ b.capacity \in Nat /\ b.minimum <= b.capacity

VARIABLES
    battery,
    text,     \* note -> what it says
    job,      \* note -> the locals of _try_models
    reading   \* note -> its assembly, and the reply it was made from

vars == <<battery, text, job, reading>>

Starting(correction) ==
    [pc |-> "reading", correction |-> correction, at |-> 1, repairs |-> MaxRepairs]

Reading(by, reply, entry, applied) ==
    [by |-> by, reply |-> reply, entry |-> entry, applied |-> applied]

NoEntry == [applies |-> FALSE, type |-> "no_op", hours |-> {}, value |-> {}]

Unread == Reading("nobody", {}, NoEntry, {})

-----------------------------------------------------------------------------
MoveOn(n) ==
    /\ job' = [job EXCEPT ![n].at = @ + 1, ![n].repairs = MaxRepairs]
    /\ UNCHANGED reading

Finish(n, r) ==
    /\ job' = [job EXCEPT ![n].pc = "done"]
    /\ reading' = [reading EXCEPT ![n] = r]

AskedFor(n) == job[n].pc = "reading" /\ job[n].at <= NModels

Accepted(n, out, verdict) ==
    LET read == Normalize(out, battery)
        norm == IF verdict = "soft" THEN SoftFallback(read, out.type, battery) ELSE read
    IN  Reading("model", {out}, Entry(out, norm),
                Assemble(n, out, norm, text[n], battery, Hedging))

(* A reply is sent back with its issues, given up, or accepted. *)
Answer(n, out) ==
    /\ AskedFor(n)
    /\ LET verdict == Verdict(out, text[n], battery)
       IN  \/ /\ verdict # "clean" /\ job[n].repairs > 0
              /\ job' = [job EXCEPT ![n].repairs = @ - 1]
              /\ UNCHANGED reading
           \/ /\ verdict \in {"normError", "blocking"} /\ job[n].repairs = 0
              /\ MoveOn(n)
           \/ /\ verdict = "clean" \/ (verdict = "soft" /\ job[n].repairs = 0)
              /\ Finish(n, Accepted(n, out, verdict))
    /\ UNCHANGED <<battery, text>>

(* The call fails, or the model is skipped. *)
Fail(n) == AskedFor(n) /\ MoveOn(n) /\ UNCHANGED <<battery, text>>

(* What a note is without the LLM: what the rules make of it, or nothing. *)
Degraded(n) ==
    LET found == RuleReading(text[n], battery)
    IN  IF RuleFallback /\ found # {}
        THEN {Reading("rule", {}, e, {Directive(n, e.type, e.hours, e.value, FALSE)}) : e \in found}
        ELSE {Reading("none", {}, NoEntry, {})}

(* No model is left.  A correction that fails keeps the previous reading. *)
GiveUp(n) ==
    /\ job[n].pc = "reading" /\ job[n].at > NModels
    /\ IF job[n].correction THEN Finish(n, reading[n]) ELSE \E r \in Degraded(n) : Finish(n, r)
    /\ UNCHANGED <<battery, text>>

AllRead == \A n \in Notes : job[n].pc = "done"

(* The pipeline has a note whose directives conflict read again. *)
Correct(n) ==
    /\ AllRead /\ ~job[n].correction /\ reading[n].applied # {}
    /\ job' = [job EXCEPT ![n] = Starting(TRUE)]
    /\ UNCHANGED <<battery, text, reading>>

Init ==
    /\ battery \in Batteries
    /\ text \in {t \in [Notes -> UNION {Texts[n] : n \in Notes}] : \A n \in Notes : t[n] \in Texts[n]}
    /\ job = [n \in Notes |-> Starting(FALSE)]
    /\ reading = [n \in Notes |-> Unread]

Next ==
    \E n \in Notes :
        \/ \E out \in Replies[n] : Answer(n, out)
        \/ Fail(n) \/ GiveUp(n) \/ Correct(n)

Spec == Init /\ [][Next]_vars

-----------------------------------------------------------------------------
(* Whatever the LLM writes, the directive that is reported and applied      *)
(* names hours of the day, a factor between 0 and 1 and a reserve the       *)
(* battery can hold (validator.py:38-61, interpreter.py:366-368,            *)
(* rule_interpreter.py:129-140).  A negative grid cap is not among the      *)
(* promises: only the rules, which find no such cap, keep it.               *)
PrimaryOf(r) == {d \in r.applied : ~d.hedge}

AppliedInRange ==
    \A n \in Notes :
        /\ reading[n].entry.applies <=> PrimaryOf(reading[n]) # {}
        /\ \A d \in PrimaryOf(reading[n]) :
              /\ d.hours # {} /\ d.hours \subseteq Day
              /\ d.type # "max_grid_window" \/ reading[n].by = "rule"
                     => InRange(d.type, d.value, battery)

(* The hours of a note that the parser understands are constrained: a       *)
(* reading that applies covers what the phrase means, through the hedge if  *)
(* the LLM has read other hours; right hours are not widened, and the rules *)
(* take none but the hours meant (cross_check.py:23-29,                     *)
(* assembler.py:126-138, rule_interpreter.py:117-146).  Not so for the      *)
(* phrases that the parser takes for others.                                *)
HoursMeantAreCovered ==
    \A n \in Notes : \A p \in text[n].phrases :
        text[n].phrases = {p} /\ ~Misheard(p) /\ reading[n].entry.applies =>
            /\ Hedging /\ RegexHours({p}) # {} =>
                   Meaning(p) \subseteq UNION {d.hours : d \in reading[n].applied}
            /\ reading[n].entry.hours = Meaning(p) =>
                   \A d \in reading[n].applied :
                       d.hedge => \E out \in reading[n].reply : out.alternative # {}
            /\ reading[n].by = "rule" => reading[n].entry.hours = Meaning(p)

(* Hedges only take away: "more restrictive constraints keep a plan valid   *)
(* under the looser truth" (planning.md 4.9), for all notes together, as    *)
(* long as the alternative factor of at most one of them is negative:       *)
(* nobody validates it (assembler.py:112-121, constraints.py:28-45).        *)
Negative(n) == \E d \in reading[n].applied : d.type = "solar_reduction" /\ d.value < 0

HedgesOnlyTighten ==
    AllRead /\ (\A n, m \in Notes : Negative(n) /\ Negative(m) => n = m) =>
        LET applied == UNION {reading[n].applied : n \in Notes}
        IN  Tighter(BuildBounds(applied, battery.minimum, TRUE),
                    BuildBounds(applied, battery.minimum, FALSE))

(* What the reply says in both channels, with hours counted clockwise and   *)
(* amounts by the definition of their units.                                *)
MeansTheSame(q, v) ==
    CASE q.unit = "percent_remaining"      -> v * Whole = q.value
      [] q.unit = "percent_reduction"      -> (Whole - v) * Whole = q.value
      [] q.unit = "fraction_remaining"     -> v = q.value
      [] q.unit = "fraction_reduction"     -> v + q.value = Whole
      [] q.unit = "kwh"                    -> v = q.value
      [] q.unit = "mwh"                    -> v = Thousand * q.value
      [] q.unit = "percent_of_capacity"    -> v * Whole * Whole = q.value * battery.capacity
      [] q.unit = "fraction_of_capacity"   -> v * Whole = q.value * battery.capacity
      [] q.unit = "kwh_above_base_minimum" -> v - battery.minimum = q.value

Right(n, out) ==
    /\ out.affects = (out.type # "no_op")
    /\ \A w \in out.windows : WindowOk(w)
    /\ out.hours = IF out.type = "no_op" THEN {}
                   ELSE IF out.windows = {} THEN Day
                   ELSE UNION {Clockwise(w.start, Span(w)) : w \in out.windows}
    /\ IF out.type \in ValueTypes
       THEN \E q \in out.quantity, v \in out.value :
               /\ q.unit \in UnitsFor(out.type) /\ InRange(out.type, v, battery)
               /\ q.value \in text[n].numbers /\ MeansTheSame(q, v)
       ELSE out.quantity = {}

(* No false alarm: a reply that is right in both channels, with a number    *)
(* the note contains, is accepted as it stands, without a repair, which     *)
(* costs a call (validator.py:24-97 after normalizer.py:21-41).             *)
RightReplyAccepted ==
    [][\A n \in Notes : \A out \in Replies[n] :
          Answer(n, out) /\ Right(n, out) =>
              /\ reading'[n].reply = {out} /\ job'[n].pc = "done"
              /\ out.type # "no_op" => reading'[n].entry.hours = out.hours
              /\ out.type \in ValueTypes => reading'[n].entry.value = out.value]_vars
=============================================================================
