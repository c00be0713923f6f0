--------------------------- MODULE ReadingsProofs ---------------------------
(***************************************************************************)
(* Proofs about the guardrails and Readings, for a day of any even length, *)
(* any replies and any texts: windows mean hours clockwise, no reply gets  *)
(* past normalize with a blocking issue, and what is applied is in range;  *)
(* a right reply is accepted at once, whatever the rules make of the text, *)
(* and the hours a note names are constrained.                             *)
(***************************************************************************)
EXTENDS Readings, BoundsProofs

-----------------------------------------------------------------------------
(* Windows. *)

(* The hour i after s, on a clock. *)
LEMMA OnTheClock ==
    ASSUME NEW s \in Int, NEW i \in Int, 0 <= s + i, s + i < 2 * DayLength
    PROVE  (s + i) % DayLength = IF s + i < DayLength THEN s + i ELSE s + i - DayLength
BY DayAssumption, SMTT(30)

(* window_to_hours (normalizer.py:27-41) gives the hours from its start     *)
(* clockwise to its end, over midnight too, for a day of any length.        *)
THEOREM WindowsAreClockwise ==
    ASSUME NEW w, WindowOk(w)
    PROVE  /\ WindowHours(w) = Clockwise(w.start, Span(w))
           /\ WindowHours(w) # {}
           /\ WindowHours(w) \subseteq Day
<1> DEFINE s == w.start
           e == w.end
<1>1. /\ DayLength \in Nat \ {0} /\ s \in Int /\ e \in Int
      /\ 0 <= s /\ s < DayLength /\ 0 <= e /\ e <= DayLength /\ s # e
  BY DayAssumption DEF WindowOk, Day
<1>2. /\ WindowHours(w) = IF s < e THEN s .. e - 1 ELSE s .. DayLength - 1 \cup 0 .. e - 1
      /\ Span(w) = IF s < e THEN e - s ELSE e - s + DayLength
  BY DEF WindowHours, Span
<1>3. Clockwise(s, Span(w)) = {(s + i) % DayLength : i \in 0 .. Span(w) - 1}
  BY DEF Clockwise
<1> HIDE DEF s, e
<1>4. ASSUME NEW h
      PROVE  h \in WindowHours(w) <=>
                /\ h \in Int
                /\ IF s < e THEN s <= h /\ h < e
                            ELSE (s <= h /\ h < DayLength) \/ (0 <= h /\ h < e)
  <2>1. CASE s < e
    <3>1. WindowHours(w) = s .. e - 1
      BY <1>2, <2>1
    <3> QED BY <1>1, <2>1, <3>1
  <2>2. CASE ~(s < e)
    <3>1. WindowHours(w) = s .. DayLength - 1 \cup 0 .. e - 1
      BY <1>2, <2>2
    <3> QED BY <1>1, <2>2, <3>1
  <2> QED BY <2>1, <2>2
<1>5. Span(w) \in Int /\ \A i \in 0 .. Span(w) - 1 : s + i \in 0 .. 2 * DayLength - 1
  BY <1>1, <1>2
<1>6. ASSUME NEW i \in 0 .. Span(w) - 1
      PROVE  (s + i) % DayLength = IF s + i < DayLength THEN s + i ELSE s + i - DayLength
  <2>1. i \in Int /\ s \in Int /\ 0 <= s + i /\ s + i < 2 * DayLength
    BY <1>1, <1>5
  <2> QED BY <2>1, OnTheClock, Zenon
<1>7. ASSUME NEW i \in 0 .. Span(w) - 1
      PROVE  (s + i) % DayLength \in WindowHours(w)
  BY <1>1, <1>2, <1>4, <1>6
<1>8. ASSUME NEW h \in WindowHours(w)
      PROVE  \E i \in 0 .. Span(w) - 1 : h = (s + i) % DayLength
  <2> DEFINE i == IF h < s THEN h - s + DayLength ELSE h - s
  <2>1. i \in 0 .. Span(w) - 1
    BY <1>1, <1>2, <1>4
  <2>2. h = IF s + i < DayLength THEN s + i ELSE s + i - DayLength
    BY <1>1, <1>2, <1>4
  <2> HIDE DEF i
  <2>3. h = (s + i) % DayLength
    BY <1>6, <2>1, <2>2
  <2> QED BY <2>1, <2>3
<1>9. WindowHours(w) = Clockwise(s, Span(w))
  BY <1>3, <1>7, <1>8
<1>10. WindowHours(w) # {} /\ WindowHours(w) \subseteq Day
  <2>1. s \in WindowHours(w)
    BY <1>1, <1>4
  <2>2. \A h \in WindowHours(w) : h \in 0 .. DayLength - 1
    BY <1>1, <1>4
  <2> QED BY <2>1, <2>2 DEF Day
<1> QED BY <1>9, <1>10 DEF s

-----------------------------------------------------------------------------
(* Replies. *)

Quantities == [value : Int, unit : STRING]

(* What the schema of the LLM's output allows (llm_output.py). *)
IsReply(out) ==
    /\ out.type \in Types \cup {"no_op"}
    /\ out.quantity \subseteq Quantities

(* A quantity is one of a type that has one; its unit is of the type.       *)
LEMMA AmountIsNumber ==
    ASSUME NEW type \in ValueTypes, NEW q \in Quantities, q.unit \in UnitsFor(type),
           NEW b, b.capacity \in Nat, b.minimum \in Nat
    PROVE  Amount(q, b) \in Int
<1>1. q.value \in Int /\ Whole \in Nat \ {0} /\ Thousand \in Nat
  BY BoundsAssumption, GuardrailAssumption DEF Quantities
<1>2. Whole * Whole \in Nat \ {0}
  BY <1>1
<1>3. /\ q.value \div Whole \in Int
      /\ (q.value * b.capacity) \div (Whole * Whole) \in Int
      /\ (q.value * b.capacity) \div Whole \in Int
  BY <1>1, <1>2
<1>4. q.unit \in {"percent_remaining", "percent_reduction", "fraction_remaining",
                  "fraction_reduction", "kwh", "mwh", "percent_of_capacity",
                  "fraction_of_capacity", "kwh_above_base_minimum"}
  BY DEF UnitsFor, ValueTypes
<1> QED BY <1>1, <1>3, <1>4 DEF Amount

LEMMA NormalizedHours ==
    ASSUME NEW out, IsReply(out), out.type # "no_op", WellFormed(out, out.type)
    PROVE  /\ WindowsHours(out.windows, out.type) # {}
           /\ WindowsHours(out.windows, out.type) \subseteq Day
<1>1. Day # {}
  BY DayAssumption DEF Day
<1>2. ASSUME NEW w \in out.windows
      PROVE  WindowHours(w) # {} /\ WindowHours(w) \subseteq Day
  BY WindowsAreClockwise DEF WellFormed
<1> QED BY <1>1, <1>2 DEF WindowsHours

(* A reply that normalize accepts has hours and, if its type needs one, a   *)
(* value: G1, G5 and G9 (validator.py:32-70), for which _try_models would   *)
(* give a model up, are never found after it.                               *)
THEOREM BlockingIsUnreachable ==
    ASSUME NEW out, IsReply(out), NEW note, NEW b
    PROVE  Verdict(out, note, b) # "blocking"
<1> DEFINE norm == Normalize(out, b)
           issues == Issues(out, norm, note, b)
<1>1. SUFFICES ASSUME Normalizable(out) PROVE issues \cap Blocking = {}
  BY DEF Verdict
<1>2. norm.hours = WindowsHours(out.windows, out.type)
  BY DEF Normalize
<1>3. out.type # "no_op" => norm.hours # {} /\ norm.hours \subseteq Day
  BY <1>1, <1>2, NormalizedHours DEF Normalizable
<1>4. out.type \in ValueTypes => out.quantity # {}
  BY <1>1 DEF Normalizable
<1> HIDE DEF norm
<1>5. "G1" \notin issues /\ "G5" \notin issues /\ "G9" \notin issues
  BY <1>3, <1>4 DEF Issues, FormIssues, Issue, RangeRule
<1> QED BY <1>5 DEF Blocking

-----------------------------------------------------------------------------
(* Ranges. *)

IsBattery(b) == b.capacity \in Nat /\ b.minimum \in Nat

(* AppliedInRange, of one reading. *)
ReadingOK(r, b) ==
    /\ r.entry.applies <=> PrimaryOf(r) # {}
    /\ \A d \in PrimaryOf(r) :
          /\ d.hours # {} /\ d.hours \subseteq Day
          /\ d.type # "max_grid_window" \/ r.by = "rule" => InRange(d.type, d.value, b)

(* The values of an accepted reply, moved into the range or not. *)
LEMMA AcceptedValue ==
    ASSUME NEW out, IsReply(out), Normalizable(out), NEW note, NEW b, IsBattery(b),
           NEW verdict \in {"clean", "soft"}, Verdict(out, note, b) = verdict,
           out.type # "max_grid_window",
           NEW norm, norm = IF verdict = "soft" THEN SoftFallback(Normalize(out, b), out.type, b)
                                                ELSE Normalize(out, b),
           NEW v, out.type \in ValueTypes => v \in norm.value
    PROVE  InRange(out.type, v, b)
<1> DEFINE read == Normalize(out, b)
<1>1. CASE out.type \notin ValueTypes
  <2>1. out.type \notin {"solar_reduction", "minimum_battery_reserve", "max_grid_window"}
    BY <1>1 DEF ValueTypes
  <2> QED BY <2>1 DEF InRange
<1>2. CASE out.type \in ValueTypes
  <2>1. out.type \in {"solar_reduction", "minimum_battery_reserve"} /\ v \in norm.value
    BY <1>2 DEF ValueTypes
  <2>2. read.value = {Amount(q, b) : q \in out.quantity}
    BY <1>2 DEF Normalize, ValueOf
  <2>3. \A u \in read.value : u \in Int
    BY <1>2, <2>2, AmountIsNumber DEF Normalizable, WellFormed, IsReply, IsBattery
  <2>4. CASE verdict = "clean"
    <3>1. Issues(out, read, note, b) = {}
      BY <2>4 DEF Verdict
    <3>2. FormIssues(out, read, b) = {}
      BY <3>1 DEF Issues
    <3>3. Issue(RangeRule(out.type),
                 out.type \in ValueTypes
                 /\ (read.value = {} \/ \E u \in read.value : ~InRange(out.type, u, b))) = {}
      BY <3>2 DEF FormIssues
    <3>4. \A u \in read.value : InRange(out.type, u, b)
      BY <1>2, <3>3 DEF Issue
    <3> QED BY <2>1, <2>4, <3>4
  <2>5. CASE verdict = "soft"
    <3> DEFINE top == IF out.type = "solar_reduction" THEN Whole ELSE b.capacity
    <3>1. norm = [read EXCEPT !.value =
                     {IF u < 0 THEN 0 ELSE IF u > top THEN top ELSE u : u \in @}]
      BY <2>1, <2>5 DEF SoftFallback
    <3>2. norm.value = {IF u < 0 THEN 0 ELSE IF u > top THEN top ELSE u : u \in read.value}
      BY <3>1 DEF Normalize
    <3>3. top \in Nat
      BY BoundsAssumption DEF IsBattery
    <3> HIDE DEF top
    <3>4. 0 <= v /\ v <= top
      BY <2>1, <2>3, <3>2, <3>3
    <3> QED BY <2>1, <3>4 DEF InRange, top
  <2> QED BY <2>4, <2>5
<1> QED BY <1>1, <1>2

(* An accepted reply is in range. *)
LEMMA AcceptedOK ==
    ASSUME NEW n \in Notes, NEW out, IsReply(out), IsBattery(battery),
           NEW verdict \in {"clean", "soft"}, Verdict(out, text[n], battery) = verdict
    PROVE  ReadingOK(Accepted(n, out, verdict), battery)
<1> DEFINE read == Normalize(out, battery)
           norm == IF verdict = "soft" THEN SoftFallback(read, out.type, battery) ELSE read
           r == Accepted(n, out, verdict)
           hedges == AlternativeHedges(n, out, norm, battery)
                       \cup ParsedHedges(n, out, norm, text[n])
<1>1. /\ r.by = "model" /\ r.entry = Entry(out, norm)
      /\ r.applied = Assemble(n, out, norm, text[n], battery, Hedging)
  BY DEF Accepted, Reading
<1>2. Normalizable(out)
  BY DEF Verdict
<1>3. norm.hours = WindowsHours(out.windows, out.type)
  BY DEF Normalize, SoftFallback
<1>4. CASE out.type = "no_op"
  BY <1>1, <1>4 DEF ReadingOK, PrimaryOf, Assemble, Entry
<1>5. CASE out.type # "no_op"
  <2> DEFINE p == Primary(n, out, norm)
  <2>1. \A d \in hedges : d.hedge
    BY DEF AlternativeHedges, ParsedHedges, Directive
  <2>2. ~p.hedge /\ p.type = out.type /\ p.hours = norm.hours
    BY DEF Primary, Directive
  <2>3. r.applied = {p} \cup (IF Hedging THEN hedges ELSE {})
    BY <1>1, <1>5 DEF Assemble
  <2>4. p.value = IF norm.value = {} THEN 0 ELSE CHOOSE v \in norm.value : TRUE
    BY DEF Primary, Directive
  <2>5. out.type \in ValueTypes => norm.value # {}
    BY <1>2 DEF Normalizable, Normalize, ValueOf, SoftFallback
  <2>6. out.type # "max_grid_window" => InRange(out.type, p.value, battery)
    <3>1. out.type \in ValueTypes => p.value \in norm.value
      BY <2>4, <2>5
    <3> QED BY <1>2, <3>1, AcceptedValue
  <2>7. norm.hours # {} /\ norm.hours \subseteq Day
    BY <1>2, <1>3, <1>5, NormalizedHours DEF Normalizable
  <2>8. r.entry.applies
    BY <1>1, <1>5 DEF Entry
  <2> HIDE DEF p, r, hedges, norm
  <2>9. PrimaryOf(r) = {p}
    BY <2>1, <2>2, <2>3 DEF PrimaryOf
  <2>10. ReadingOK(r, battery)
    BY <1>1, <2>2, <2>6, <2>7, <2>8, <2>9 DEF ReadingOK
  <2> QED BY <2>10 DEF r
<1> QED BY <1>4, <1>5

(* The numbers that the rules find in a note: of a unit of their type, and  *)
(* no grid cap is negative, for their patterns match digits only            *)
(* (rule_interpreter.py:63-68).                                             *)
IsText(t) ==
    /\ \A q \in t.found["max_grid_window"] :
          q.value \in Nat /\ q.unit \in UnitsFor("max_grid_window")

(* What the rules read is in range, with its grid cap.                      *)
LEMMA RuleReadingOK ==
    ASSUME NEW t, IsText(t), NEW b, IsBattery(b), NEW e \in RuleReading(t, b)
    PROVE  /\ e.applies /\ e.hours # {} /\ e.hours \subseteq Day
           /\ e.type \in ValueTypes => e.value # {}
           /\ \A v : (e.type \in ValueTypes => v \in e.value) => InRange(e.type, v, b)
<1> DEFINE hours == RegexHours(t.phrases)
           cap == Found(t, "max_grid_window", b)
           factor == Found(t, "solar_reduction", b) \cap 0 .. Whole
           reserve == Found(t, "minimum_battery_reserve", b) \cap 0 .. b.capacity
<1>1. hours \subseteq Day
  BY WindowsAreClockwise DEF RegexHours
<1>2. \A v \in cap : 0 <= v
  <2>1. \A q \in t.found["max_grid_window"] : Amount(q, b) \in {q.value, q.value * Thousand}
    BY DEF IsText, UnitsFor, Amount
  <2>2. \A q \in t.found["max_grid_window"] : 0 <= Amount(q, b)
    BY <2>1, GuardrailAssumption DEF IsText
  <2> QED BY <2>2 DEF Found
<1>3. /\ \A v \in factor : 0 <= v /\ v <= Whole
      /\ \A v \in reserve : 0 <= v /\ v <= b.capacity
  OBVIOUS
<1> HIDE DEF hours, cap, factor, reserve
<1>4. /\ hours # {}
      /\ \/ e = RuleEntry("max_grid_window", hours, cap) /\ cap # {}
         \/ \E v \in factor : e = RuleEntry("solar_reduction", hours, {v})
         \/ e = RuleEntry("minimum_battery_reserve", hours, reserve) /\ reserve # {}
         \/ e = RuleEntry("no_discharge_window", hours, {})
         \/ e = RuleEntry("no_charge_window", hours, {})
  BY DEF RuleReading, hours, cap, factor, reserve
<1>5. e.applies /\ e.hours = hours
  BY <1>4 DEF RuleEntry
<1>6. CASE e = RuleEntry("max_grid_window", hours, cap) /\ cap # {}
  <2>1. e.type = "max_grid_window" /\ e.value = cap
    BY <1>6 DEF RuleEntry
  <2> QED BY <1>1, <1>2, <1>4, <1>5, <1>6, <2>1 DEF ValueTypes, InRange
<1>7. CASE \E v \in factor : e = RuleEntry("solar_reduction", hours, {v})
  <2>1. PICK v \in factor : e = RuleEntry("solar_reduction", hours, {v})
    BY <1>7
  <2>2. e.type = "solar_reduction" /\ e.value = {v} /\ 0 <= v /\ v <= Whole
    BY <1>3, <2>1 DEF RuleEntry
  <2> QED BY <1>1, <1>4, <1>5, <2>2 DEF ValueTypes, InRange
<1>8. CASE e = RuleEntry("minimum_battery_reserve", hours, reserve) /\ reserve # {}
  <2>1. e.type = "minimum_battery_reserve" /\ e.value = reserve
    BY <1>8 DEF RuleEntry
  <2> QED BY <1>1, <1>3, <1>4, <1>5, <1>8, <2>1 DEF ValueTypes, InRange
<1>9. CASE e \in {RuleEntry(type, hours, {}) : type \in {"no_discharge_window", "no_charge_window"}}
  <2>1. e.type \in {"no_discharge_window", "no_charge_window"}
    BY <1>9 DEF RuleEntry
  <2> QED BY <1>1, <1>4, <1>5, <2>1 DEF ValueTypes, InRange
<1> QED BY <1>4, <1>6, <1>7, <1>8, <1>9

LEMMA DegradedOK ==
    ASSUME NEW n \in Notes, IsText(text[n]), IsBattery(battery), NEW r \in Degraded(n)
    PROVE  ReadingOK(r, battery)
<1>1. CASE r = Reading("none", {}, NoEntry, {})
  BY <1>1 DEF Reading, NoEntry, ReadingOK, PrimaryOf
<1>2. ASSUME NEW e \in RuleReading(text[n], battery),
             r = Reading("rule", {}, e, {Directive(n, e.type, e.hours, e.value, FALSE)})
      PROVE  ReadingOK(r, battery)
  <2> DEFINE d == Directive(n, e.type, e.hours, e.value, FALSE)
  <2>1. /\ ~d.hedge /\ d.hours = e.hours /\ d.type = e.type
        /\ d.value = IF e.value = {} THEN 0 ELSE CHOOSE v \in e.value : TRUE
    BY DEF Directive
  <2>2. /\ e.applies /\ e.hours # {} /\ e.hours \subseteq Day
        /\ e.type \in ValueTypes => e.value # {}
        /\ \A v : (e.type \in ValueTypes => v \in e.value) => InRange(e.type, v, battery)
    BY RuleReadingOK
  <2>3. InRange(d.type, d.value, battery)
    BY <2>1, <2>2
  <2>4. r.entry = e /\ r.applied = {d}
    BY <1>2 DEF Reading
  <2> HIDE DEF d
  <2>5. PrimaryOf(r) = {d}
    BY <2>1, <2>4 DEF PrimaryOf
  <2> QED BY <2>1, <2>2, <2>3, <2>4, <2>5 DEF ReadingOK
<1> QED BY <1>1, <1>2 DEF Degraded

-----------------------------------------------------------------------------
(* Whatever sequence of replies, failures, repairs and corrections: the     *)
(* directive that is applied and reported names hours of the day, a factor  *)
(* between 0 and 1 and a reserve the battery can hold (validator.py:38-61,  *)
(* interpreter.py:366-368, rule_interpreter.py:117-146).                    *)
THEOREM RangesHold ==
    ASSUME \A n \in Notes : (\A out \in Replies[n] : IsReply(out)) /\ (\A t \in Texts[n] : IsText(t))
    PROVE  Spec => []AppliedInRange
<1> DEFINE Inv == /\ battery \in Batteries
                  /\ \A n \in Notes : text[n] \in Texts[n]
                  /\ reading = [n \in Notes |-> reading[n]]
                  /\ \A n \in Notes : ReadingOK(reading[n], battery)
<1>1. Init => Inv
  BY DEF Init, Unread, Reading, NoEntry, ReadingOK, PrimaryOf
<1>2. Inv /\ [Next]_vars => Inv'
  <2> SUFFICES ASSUME Inv, [Next]_vars PROVE Inv'
    OBVIOUS
  <2>1. IsBattery(battery)
    BY ReadingsAssumption DEF IsBattery
  <2>2. battery' = battery /\ text' = text
    BY DEF Next, vars, Answer, Fail, GiveUp, Correct
  <2>3. ASSUME NEW n \in Notes, NEW r, ReadingOK(r, battery), reading' = [reading EXCEPT ![n] = r]
        PROVE  Inv'
    BY <2>2, <2>3
  <2>4. CASE reading' = reading
    BY <2>2, <2>4
  <2>5. ASSUME NEW n \in Notes, NEW out \in Replies[n], Answer(n, out)
        PROVE  Inv'
    <3> DEFINE verdict == Verdict(out, text[n], battery)
    <3>1. \/ reading' = reading
          \/ /\ verdict \in {"clean", "soft"}
             /\ reading' = [reading EXCEPT ![n] = Accepted(n, out, verdict)]
      BY <2>5 DEF Answer, MoveOn, Finish
    <3>2. verdict \in {"clean", "soft"} => ReadingOK(Accepted(n, out, verdict), battery)
      BY <2>1, AcceptedOK
    <3> QED BY <2>3, <2>4, <3>1, <3>2
  <2>6. ASSUME NEW n \in Notes, GiveUp(n)
        PROVE  Inv'
    <3>1. CASE job[n].correction
      BY <2>3, <2>6, <3>1 DEF GiveUp, Finish
    <3>2. CASE ~job[n].correction
      <4>1. PICK r \in Degraded(n) : reading' = [reading EXCEPT ![n] = r]
        BY <2>6, <3>2 DEF GiveUp, Finish
      <4>2. ReadingOK(r, battery)
        BY <2>1, <4>1, DegradedOK
      <4> QED BY <2>3, <4>1, <4>2
    <3> QED BY <3>1, <3>2
  <2>7. ASSUME NEW n \in Notes, Fail(n) \/ Correct(n)
        PROVE  Inv'
    BY <2>4, <2>7 DEF Fail, MoveOn, Correct
  <2>8. CASE UNCHANGED vars
    BY <2>4, <2>8 DEF vars
  <2> QED BY <2>5, <2>6, <2>7, <2>8 DEF Next
<1>3. Inv => AppliedInRange
  BY DEF AppliedInRange, ReadingOK
<1> HIDE DEF Inv
<1> QED BY <1>1, <1>2, <1>3, PTL DEF Spec

-----------------------------------------------------------------------------
(* The directives of a reading can be combined with those of the others.    *)

(* The alternative that the LLM may add: one at most, with a quantity of    *)
(* numbers (llm_output.py).                                                 *)
HasAlternative(out) ==
    /\ IsFiniteSet(out.alternative)
    /\ \A alt \in out.alternative : alt.quantity \subseteq Quantities

ReadingCombines(n, r) ==
    /\ Combinable(r.applied)
    /\ \A d \in r.applied : d.note = n

(* The value of a directive: that of the reading, or zero.                  *)
Sole(value) == IF value = {} THEN 0 ELSE CHOOSE v \in value : TRUE

LEMMA SoleIsNumber ==
    ASSUME NEW S, S \subseteq Int
    PROVE  Sole(S) \in Int
<1>1. CASE S = {}
  BY <1>1 DEF Sole
<1>2. CASE S # {}
  <2> DEFINE some == CHOOSE v \in S : TRUE
  <2>1. some \in S
    BY <1>2
  <2>2. Sole(S) = some
    BY <1>2 DEF Sole
  <2> HIDE DEF some
  <2> QED BY <2>1, <2>2
<1> QED BY <1>1, <1>2

LEMMA ValueIsNumber ==
    ASSUME NEW out, NEW type, WellFormed(out, type), out.quantity \subseteq Quantities,
           NEW b, IsBattery(b)
    PROVE  ValueOf(out, type, b) \subseteq Int
<1>1. ASSUME NEW q \in out.quantity, type \in ValueTypes PROVE Amount(q, b) \in Int
  BY <1>1, AmountIsNumber DEF WellFormed, IsBattery
<1> QED BY <1>1 DEF ValueOf

LEMMA AcceptedCombines ==
    ASSUME NEW n \in Notes, NEW out, IsReply(out), HasAlternative(out), IsBattery(battery),
           NEW verdict \in {"clean", "soft"}, Verdict(out, text[n], battery) = verdict
    PROVE  ReadingCombines(n, Accepted(n, out, verdict))
<1> DEFINE read == Normalize(out, battery)
           norm == IF verdict = "soft" THEN SoftFallback(read, out.type, battery) ELSE read
           r == Accepted(n, out, verdict)
           fit == {alt \in out.alternative : alt.type = out.type /\ WellFormed(alt, out.type)}
           hedgeOf == [alt \in out.alternative |->
                          Directive(n, out.type, WindowsHours(alt.windows, out.type),
                                    IF alt.quantity = {} THEN norm.value
                                    ELSE ValueOf(alt, out.type, battery), TRUE)]
           others == {hedgeOf[alt] : alt \in fit}
           p == Primary(n, out, norm)
           parsed == Directive(n, out.type, norm.hours \cup RegexHours(text[n].phrases), norm.value, TRUE)
<1>1. WellFormed(out, out.type)
  BY DEF Verdict, Normalizable
<1>2. read.value \subseteq Int
  BY <1>1, ValueIsNumber DEF Normalize, IsReply
<1>3. norm.value \subseteq Int
  <2>1. CASE norm = read
    BY <1>2, <2>1
  <2>2. CASE norm # read
    <3> DEFINE top == IF out.type = "solar_reduction" THEN Whole ELSE battery.capacity
    <3>1. norm = [read EXCEPT !.value =
                     {IF u < 0 THEN 0 ELSE IF u > top THEN top ELSE u : u \in @}]
      BY <2>2 DEF SoftFallback
    <3>2. norm.value = {IF u < 0 THEN 0 ELSE IF u > top THEN top ELSE u : u \in read.value}
      BY <3>1 DEF Normalize
    <3>3. top \in Int
      BY BoundsAssumption DEF IsBattery
    <3> HIDE DEF top, norm
    <3> QED BY <1>2, <3>2, <3>3
  <2> QED BY <2>1, <2>2
<1>4. \A alt \in fit : hedgeOf[alt].value \in Int /\ hedgeOf[alt].note = n
  <2> TAKE alt \in fit
  <2> DEFINE value == IF alt.quantity = {} THEN norm.value ELSE ValueOf(alt, out.type, battery)
  <2>1. value \subseteq Int
    <3>1. ASSUME alt.quantity # {} PROVE ValueOf(alt, out.type, battery) \subseteq Int
      BY ValueIsNumber DEF HasAlternative
    <3> HIDE DEF norm
    <3> QED BY <1>3, <3>1
  <2>2. hedgeOf[alt].value = Sole(value) /\ hedgeOf[alt].note = n
    BY DEF Directive, Sole
  <2> HIDE DEF value, hedgeOf
  <2> QED BY <2>1, <2>2, SoleIsNumber
<1>5. IsFiniteSet(others)
  <2>1. IsFiniteSet(fit)
    BY FS_Subset DEF HasAlternative
  <2> HIDE DEF fit, hedgeOf
  <2> QED BY <2>1, ImageIsFinite
<1>6. AlternativeHedges(n, out, norm, battery) = others
  <2> HIDE DEF norm
  <2> QED BY DEF AlternativeHedges
<1>7. p.value \in Int /\ p.note = n /\ parsed.value \in Int /\ parsed.note = n
  <2>1. /\ p.value = Sole(norm.value) /\ p.note = n
        /\ parsed.value = Sole(norm.value) /\ parsed.note = n
    <3> HIDE DEF norm
    <3> QED BY DEF Primary, Directive, Sole
  <2>2. Sole(norm.value) \in Int
    <3> HIDE DEF norm
    <3> QED BY <1>3, SoleIsNumber
  <2> HIDE DEF p, parsed, norm
  <2> QED BY <2>1, <2>2
<1>8. r.applied \subseteq {p, parsed} \cup others
  <2>1. r.applied = Assemble(n, out, norm, text[n], battery, Hedging)
    BY DEF Accepted, Reading
  <2> HIDE DEF norm, r, others
  <2> QED BY <1>6, <2>1 DEF Assemble, ParsedHedges
<1>9. IsFiniteSet({p, parsed} \cup others)
  <2> HIDE DEF p, parsed, others
  <2>1. IsFiniteSet({p}) /\ IsFiniteSet({parsed})
    BY FS_Singleton
  <2>2. IsFiniteSet({p} \cup {parsed})
    BY <2>1, FS_Union
  <2>3. IsFiniteSet(({p} \cup {parsed}) \cup others)
    BY <1>5, <2>2, FS_Union
  <2>4. ({p} \cup {parsed}) \cup others = {p, parsed} \cup others
    OBVIOUS
  <2> QED BY <2>3, <2>4
<1>10. \A d \in {p, parsed} \cup others : d.value \in Int /\ d.note = n
  <2> HIDE DEF p, parsed, hedgeOf, fit
  <2> QED BY <1>4, <1>7
<1> HIDE DEF r, p, parsed, others
<1>11. IsFiniteSet(r.applied)
  BY <1>8, <1>9, FS_Subset
<1>12. ReadingCombines(n, r)
  BY <1>8, <1>10, <1>11 DEF ReadingCombines, Combinable
<1> QED BY <1>12 DEF r

LEMMA DegradedCombines ==
    ASSUME NEW n \in Notes, IsText(text[n]), IsBattery(battery), NEW r \in Degraded(n)
    PROVE  ReadingCombines(n, r)
<1>1. CASE r = Reading("none", {}, NoEntry, {})
  BY <1>1, FS_EmptySet DEF Reading, ReadingCombines, Combinable
<1>2. ASSUME NEW e \in RuleReading(text[n], battery),
             r = Reading("rule", {}, e, {Directive(n, e.type, e.hours, e.value, FALSE)})
      PROVE  ReadingCombines(n, r)
  <2> DEFINE d == Directive(n, e.type, e.hours, e.value, FALSE)
  <2>1. e.value \subseteq Int
    <3> DEFINE cap == Found(text[n], "max_grid_window", battery)
    <3>1. cap \subseteq Int
      <4>1. \A q \in text[n].found["max_grid_window"] : Amount(q, battery) \in {q.value, q.value * Thousand}
        BY DEF IsText, UnitsFor, Amount
      <4>2. \A q \in text[n].found["max_grid_window"] : Amount(q, battery) \in Int
        BY <4>1, GuardrailAssumption DEF IsText
      <4> QED BY <4>2 DEF Found
    <3> DEFINE factor  == Found(text[n], "solar_reduction", battery) \cap 0 .. Whole
               reserve == Found(text[n], "minimum_battery_reserve", battery) \cap 0 .. battery.capacity
    <3>2. factor \subseteq Int /\ reserve \subseteq Int
      BY BoundsAssumption DEF IsBattery
    <3> HIDE DEF cap, factor, reserve
    <3>3. e.value = cap \/ e.value = reserve \/ e.value = {} \/ \E v \in factor : e.value = {v}
      BY <1>2 DEF RuleReading, RuleEntry, cap, factor, reserve
    <3> QED BY <3>1, <3>2, <3>3
  <2>2. d.value \in Int /\ d.note = n
    <3>1. d.value = Sole(e.value) /\ d.note = n
      BY DEF Directive, Sole
    <3> QED BY <2>1, <3>1, SoleIsNumber
  <2>3. r.applied = {d}
    BY <1>2 DEF Reading
  <2> HIDE DEF d
  <2> QED BY <2>2, <2>3, FS_Singleton DEF ReadingCombines, Combinable
<1> QED BY <1>1, <1>2 DEF Degraded

(* "More restrictive constraints keep a plan valid under the looser truth"  *)
(* (planning.md 4.9): whatever is read, the bounds with hedges allow no     *)
(* more than those without, in any hour, as long as the alternative factor  *)
(* of at most one note is negative (assembler.py:112-121,                   *)
(* constraints.py:28-45).                                                   *)
THEOREM HedgesAreRestrictive ==
    ASSUME \A n \in Notes : /\ \A out \in Replies[n] : IsReply(out) /\ HasAlternative(out)
                            /\ \A t \in Texts[n] : IsText(t)
    PROVE  Spec => []HedgesOnlyTighten
<1> DEFINE Inv == /\ battery \in Batteries
                  /\ \A n \in Notes : text[n] \in Texts[n]
                  /\ reading = [n \in Notes |-> reading[n]]
                  /\ \A n \in Notes : ReadingCombines(n, reading[n])
<1>1. Init => Inv
  <2> SUFFICES ASSUME Init PROVE Inv
    OBVIOUS
  <2>1. \A n \in Notes : reading[n] = Unread
    BY DEF Init
  <2>2. \A n : ReadingCombines(n, Unread)
    BY FS_EmptySet DEF Unread, Reading, ReadingCombines, Combinable
  <2>3. reading = [n \in Notes |-> reading[n]]
    BY DEF Init
  <2> QED BY <2>1, <2>2, <2>3 DEF Init
<1>2. Inv /\ [Next]_vars => Inv'
  <2> SUFFICES ASSUME Inv, [Next]_vars PROVE Inv'
    OBVIOUS
  <2>1. IsBattery(battery)
    BY ReadingsAssumption DEF IsBattery
  <2>2. battery' = battery /\ text' = text
    BY DEF Next, vars, Answer, Fail, GiveUp, Correct
  <2>3. ASSUME NEW n \in Notes, NEW r, ReadingCombines(n, r), reading' = [reading EXCEPT ![n] = r]
        PROVE  Inv'
    BY <2>2, <2>3
  <2>4. CASE reading' = reading
    BY <2>2, <2>4
  <2>5. ASSUME NEW n \in Notes, NEW out \in Replies[n], Answer(n, out)
        PROVE  Inv'
    <3> DEFINE verdict == Verdict(out, text[n], battery)
    <3>1. \/ reading' = reading
          \/ /\ verdict \in {"clean", "soft"}
             /\ reading' = [reading EXCEPT ![n] = Accepted(n, out, verdict)]
      BY <2>5 DEF Answer, MoveOn, Finish
    <3>2. verdict \in {"clean", "soft"} => ReadingCombines(n, Accepted(n, out, verdict))
      BY <2>1, AcceptedCombines
    <3> QED BY <2>3, <2>4, <3>1, <3>2
  <2>6. ASSUME NEW n \in Notes, GiveUp(n)
        PROVE  Inv'
    <3>1. CASE job[n].correction
      BY <2>3, <2>6, <3>1 DEF GiveUp, Finish
    <3>2. CASE ~job[n].correction
      <4>1. PICK r \in Degraded(n) : reading' = [reading EXCEPT ![n] = r]
        BY <2>6, <3>2 DEF GiveUp, Finish
      <4>2. ReadingCombines(n, r)
        BY <2>1, <4>1, DegradedCombines
      <4> QED BY <2>3, <4>1, <4>2
    <3> QED BY <3>1, <3>2
  <2>7. ASSUME NEW n \in Notes, Fail(n) \/ Correct(n)
        PROVE  Inv'
    BY <2>4, <2>7 DEF Fail, MoveOn, Correct
  <2>8. CASE UNCHANGED vars
    BY <2>4, <2>8 DEF vars
  <2> QED BY <2>5, <2>6, <2>7, <2>8 DEF Next
<1>3. Inv /\ AppliedInRange => HedgesOnlyTighten
  <2> SUFFICES ASSUME Inv, AppliedInRange,
                      \A n, m \in Notes : Negative(n) /\ Negative(m) => n = m
               PROVE  LET applied == UNION {reading[n].applied : n \in Notes}
                      IN  Tighter(BuildBounds(applied, battery.minimum, TRUE),
                                  BuildBounds(applied, battery.minimum, FALSE))
    BY DEF HedgesOnlyTighten
  <2> DEFINE appliedOf == [n \in Notes |-> reading[n].applied]
             applied == UNION {reading[n].applied : n \in Notes}
  <2>1. Combinable(applied)
    <3>1. IsFiniteSet({appliedOf[n] : n \in Notes})
      <4> HIDE DEF appliedOf
      <4> QED BY BoundsAssumption, ImageIsFinite
    <3>2. \A s \in {appliedOf[n] : n \in Notes} : IsFiniteSet(s)
      BY DEF ReadingCombines, Combinable
    <3>3. UNION {appliedOf[n] : n \in Notes} = applied
      OBVIOUS
    <3>4. IsFiniteSet(applied)
      <4> HIDE DEF appliedOf, applied
      <4> QED BY <3>1, <3>2, <3>3, FS_UNION
    <3> QED BY <3>4 DEF ReadingCombines, Combinable
  <2>2. FactorsNotNegative(Kept(applied, FALSE))
    <3> SUFFICES ASSUME NEW n \in Notes, NEW d \in reading[n].applied, ~d.hedge,
                        d.type = "solar_reduction"
                 PROVE  d.value >= 0
      BY DEF FactorsNotNegative, Kept
    <3>1. InRange(d.type, d.value, battery)
      BY DEF AppliedInRange, PrimaryOf
    <3>2. d.value \in Int
      BY DEF ReadingCombines, Combinable
    <3> QED BY <3>1, <3>2 DEF InRange
  <2>3. ASSUME NEW d \in applied, NEW e \in applied,
               d.type = "solar_reduction", d.value < 0, e.type = "solar_reduction", e.value < 0
        PROVE  d.note = e.note
    <3>1. PICK n \in Notes : d \in reading[n].applied
      OBVIOUS
    <3>2. PICK m \in Notes : e \in reading[m].applied
      OBVIOUS
    <3>3. n = m
      BY <2>3, <3>1, <3>2 DEF Negative
    <3> QED BY <3>1, <3>2, <3>3 DEF ReadingCombines
  <2>4. battery.minimum \in Int
    BY ReadingsAssumption
  <2> HIDE DEF applied
  <2>5. Tighter(BuildBounds(applied, battery.minimum, TRUE),
                BuildBounds(applied, battery.minimum, FALSE))
    BY <2>1, <2>2, <2>3, <2>4, HedgesTighten
  <2> QED BY <2>5 DEF applied
<1>4. Spec => []AppliedInRange
  BY RangesHold
<1> HIDE DEF Inv
<1> QED BY <1>1, <1>2, <1>3, <1>4, PTL DEF Spec

-----------------------------------------------------------------------------
(* Right replies. *)

LEMMA ExactQuotient ==
    ASSUME NEW v \in Int, NEW k \in Nat \ {0}
    PROVE  (v * k) \div k = v
BY SMTT(30)

(* quantity_to_value gives the amount that a quantity means, where that is  *)
(* a multiple of the unit.                                                  *)
LEMMA AmountIsMeant ==
    ASSUME NEW type \in ValueTypes, NEW q \in Quantities, q.unit \in UnitsFor(type),
           battery.capacity \in Nat, battery.minimum \in Nat,
           NEW v \in Int, MeansTheSame(q, v)
    PROVE  Amount(q, battery) = v
<1> DEFINE x == q.value
           cap == battery.capacity
<1>1. x \in Int /\ cap \in Nat /\ Whole \in Nat \ {0} /\ Thousand \in Nat
  BY BoundsAssumption, GuardrailAssumption DEF Quantities
<1>2. Whole * Whole \in Nat \ {0}
  BY <1>1
<1>3. CASE q.unit = "percent_remaining"
  <2>1. x = v * Whole /\ Amount(q, battery) = x \div Whole
    BY <1>3 DEF MeansTheSame, Amount
  <2> QED BY <1>1, <2>1, ExactQuotient
<1>4. CASE q.unit = "percent_reduction"
  <2>1. x = (Whole - v) * Whole /\ Amount(q, battery) = Whole - x \div Whole
    BY <1>4 DEF MeansTheSame, Amount
  <2>2. Whole - v \in Int
    BY <1>1
  <2>3. x \div Whole = Whole - v
    BY <1>1, <2>1, <2>2, ExactQuotient
  <2> QED BY <1>1, <2>1, <2>3
<1>5. CASE q.unit \in {"fraction_remaining", "kwh"}
  BY <1>5 DEF MeansTheSame, Amount
<1>6. CASE q.unit = "fraction_reduction"
  <2>1. v + x = Whole /\ Amount(q, battery) = Whole - x
    BY <1>6 DEF MeansTheSame, Amount
  <2> HIDE DEF x
  <2> QED BY <1>1, <2>1
<1>7. CASE q.unit = "mwh"
  <2>1. v = Thousand * x /\ Amount(q, battery) = x * Thousand
    BY <1>7 DEF MeansTheSame, Amount
  <2> HIDE DEF x
  <2> QED BY <1>1, <2>1
<1>8. CASE q.unit = "percent_of_capacity"
  <2>1. v * Whole * Whole = x * cap /\ Amount(q, battery) = (x * cap) \div (Whole * Whole)
    BY <1>8 DEF MeansTheSame, Amount
  <2>2. v * Whole * Whole = v * (Whole * Whole)
    BY <1>1
  <2> QED BY <1>2, <2>1, <2>2, ExactQuotient
<1>9. CASE q.unit = "fraction_of_capacity"
  <2>1. v * Whole = x * cap /\ Amount(q, battery) = (x * cap) \div Whole
    BY <1>9 DEF MeansTheSame, Amount
  <2> QED BY <1>1, <2>1, ExactQuotient
<1>10. CASE q.unit = "kwh_above_base_minimum"
  <2>1. v - battery.minimum = x /\ Amount(q, battery) = battery.minimum + x
    BY <1>10 DEF MeansTheSame, Amount
  <2> HIDE DEF x
  <2> QED BY <1>1, <2>1
<1> QED BY <1>3, <1>4, <1>5, <1>6, <1>7, <1>8, <1>9, <1>10 DEF UnitsFor, ValueTypes

(* An optional number of a reply is one number at most. *)
AtMostOne(s) == \A x, y \in s : x = y

IsExactReply(out) ==
    /\ IsReply(out)
    /\ AtMostOne(out.quantity)
    /\ out.value \subseteq Int /\ AtMostOne(out.value)

LEMMA RightIsClean ==
    ASSUME NEW n \in Notes, NEW out, IsExactReply(out), IsBattery(battery), Right(n, out)
    PROVE  /\ Verdict(out, text[n], battery) = "clean"
           /\ out.type # "no_op" => Normalize(out, battery).hours = out.hours
           /\ out.type \in ValueTypes => Normalize(out, battery).value = out.value
<1> DEFINE norm == Normalize(out, battery)
<1>1. /\ out.affects = (out.type # "no_op")
      /\ \A w \in out.windows : WindowOk(w)
  BY DEF Right
<1>2. /\ norm.hours = WindowsHours(out.windows, out.type)
      /\ norm.value = ValueOf(out, out.type, battery)
  BY DEF Normalize
<1>3. ASSUME out.type # "no_op"
      PROVE  norm.hours = out.hours /\ norm.hours # {} /\ norm.hours \subseteq Day
  <2>1. \A w \in out.windows : WindowHours(w) = Clockwise(w.start, Span(w))
    BY <1>1, WindowsAreClockwise
  <2>2. norm.hours = IF out.windows = {} THEN Day ELSE UNION {WindowHours(w) : w \in out.windows}
    BY <1>2, <1>3 DEF WindowsHours
  <2>3. out.hours = IF out.windows = {} THEN Day
                    ELSE UNION {Clockwise(w.start, Span(w)) : w \in out.windows}
    BY <1>3 DEF Right
  <2>4. norm.hours = out.hours
    BY <2>1, <2>2, <2>3
  <2>5. \A w \in out.windows : WindowHours(w) # {} /\ WindowHours(w) \subseteq Day
    BY <1>1, WindowsAreClockwise
  <2>6. Day # {}
    BY DayAssumption DEF Day
  <2> HIDE DEF norm
  <2> QED BY <2>2, <2>4, <2>5, <2>6
<1>4. ASSUME out.type \in ValueTypes
      PROVE  \E q \in out.quantity, v \in out.value :
                /\ out.quantity = {q} /\ out.value = {v} /\ norm.value = {v}
                /\ q.unit \in UnitsFor(out.type)
                /\ InRange(out.type, v, battery) /\ q.value \in text[n].numbers
  <2>1. PICK q \in out.quantity, v \in out.value :
            /\ q.unit \in UnitsFor(out.type) /\ InRange(out.type, v, battery)
            /\ q.value \in text[n].numbers /\ MeansTheSame(q, v)
    BY <1>4 DEF Right
  <2>2. out.quantity = {q} /\ out.value = {v} /\ q \in Quantities /\ v \in Int
    BY DEF IsExactReply, IsReply, AtMostOne
  <2>3. Amount(q, battery) = v
    BY <1>4, <2>1, <2>2, AmountIsMeant DEF IsBattery
  <2>4. norm.value = {v}
    BY <1>2, <1>4, <2>2, <2>3 DEF ValueOf
  <2> QED BY <2>1, <2>2, <2>4
<1>5. out.type \notin ValueTypes => out.quantity = {}
  BY DEF Right
<1>6. Normalizable(out)
  BY <1>1, <1>4 DEF Normalizable, WellFormed
<1> HIDE DEF norm
<1>7. FormIssues(out, norm, battery) = {}
  BY <1>3, <1>4 DEF FormIssues, Issue, ValueTypes
<1>8. out.type # "no_op" => ~ChannelsDiffer(out, norm)
  BY <1>3, <1>4 DEF ChannelsDiffer
<1>9. \A q \in out.quantity : Grounded(q, text[n].numbers)
  BY <1>4, <1>5 DEF Grounded
<1>10. out.affects # (out.type = "no_op")
  BY <1>1
<1>11. Issues(out, norm, text[n], battery) = {}
  BY <1>7, <1>8, <1>9, <1>10 DEF Issues, Issue
<1>12. Verdict(out, text[n], battery) = "clean"
  BY <1>6, <1>11 DEF Verdict, norm
<1> QED BY <1>3, <1>4, <1>12 DEF norm

Jobs == [pc : {"reading", "done"}, correction : BOOLEAN, at : Int, repairs : Int]

(* A reply that is right in both channels, with a number the note contains, *)
(* raises no issue and costs no repair (validator.py:24-97): for a day of   *)
(* any length, any number of windows, any unit and any battery.             *)
THEOREM NoFalseAlarm ==
    ASSUME \A n \in Notes : \A out \in Replies[n] : IsExactReply(out)
    PROVE  Spec => RightReplyAccepted
<1> DEFINE Inv == /\ battery \in Batteries
                  /\ DOMAIN reading = Notes /\ job \in [Notes -> Jobs]
           Good == \A n \in Notes : \A out \in Replies[n] :
                      Answer(n, out) /\ Right(n, out) =>
                          /\ reading'[n].reply = {out} /\ job'[n].pc = "done"
                          /\ out.type # "no_op" => reading'[n].entry.hours = out.hours
                          /\ out.type \in ValueTypes => reading'[n].entry.value = out.value
<1>1. Init => Inv
  BY ReadingsAssumption DEF Init, Starting, Jobs
<1>2. Inv /\ [Next]_vars => Inv'
  <2> SUFFICES ASSUME Inv, [Next]_vars PROVE Inv'
    OBVIOUS
  <2>1. battery' = battery
    BY DEF Next, vars, Answer, Fail, GiveUp, Correct
  <2>2. DOMAIN reading' = Notes
    BY DEF Next, vars, Answer, Fail, GiveUp, Correct, MoveOn, Finish
  <2>3. ASSUME NEW n \in Notes, MoveOn(n) \/ Correct(n)
               \/ (\E r : Finish(n, r)) \/ job' = [job EXCEPT ![n].repairs = @ - 1]
        PROVE  job' \in [Notes -> Jobs]
    <3>1. CASE MoveOn(n)
      <4> DEFINE next == [job EXCEPT ![n].at = @ + 1]
      <4>1. job[n] \in Jobs /\ MaxRepairs \in Int
        BY ReadingsAssumption
      <4>2. next \in [Notes -> Jobs]
        BY <4>1 DEF Jobs
      <4>3. job' = [next EXCEPT ![n].repairs = MaxRepairs]
        BY <3>1 DEF MoveOn
      <4> HIDE DEF next
      <4> QED BY <4>1, <4>2, <4>3 DEF Jobs
    <3>2. CASE \E r : Finish(n, r)
      BY <3>2 DEF Finish, Jobs
    <3>3. CASE job' = [job EXCEPT ![n].repairs = @ - 1]
      BY <3>3 DEF Jobs
    <3>4. CASE Correct(n)
      BY <3>4, ReadingsAssumption DEF Correct, Starting, Jobs
    <3> QED BY <2>3, <3>1, <3>2, <3>3, <3>4
  <2>4. \/ job' = job
        \/ \E n \in Notes : MoveOn(n) \/ Correct(n)
               \/ (\E r : Finish(n, r)) \/ job' = [job EXCEPT ![n].repairs = @ - 1]
    BY DEF Next, vars, Answer, Fail, GiveUp
  <2>5. job' \in [Notes -> Jobs]
    BY <2>3, <2>4
  <2> QED BY <2>1, <2>2, <2>5
<1>3. Inv /\ [Next]_vars => Good
  <2> SUFFICES ASSUME Inv, NEW n \in Notes, NEW out \in Replies[n], Answer(n, out), Right(n, out)
               PROVE  /\ reading'[n].reply = {out} /\ job'[n].pc = "done"
                      /\ out.type # "no_op" => reading'[n].entry.hours = out.hours
                      /\ out.type \in ValueTypes => reading'[n].entry.value = out.value
    OBVIOUS
  <2>1. IsBattery(battery)
    BY ReadingsAssumption DEF IsBattery
  <2>2. /\ Verdict(out, text[n], battery) = "clean"
        /\ out.type # "no_op" => Normalize(out, battery).hours = out.hours
        /\ out.type \in ValueTypes => Normalize(out, battery).value = out.value
    BY <2>1, RightIsClean
  <2>3. Finish(n, Accepted(n, out, "clean"))
    BY <2>2 DEF Answer
  <2>4. reading'[n] = Accepted(n, out, "clean") /\ job'[n].pc = "done"
    BY <2>3 DEF Finish, Jobs
  <2>5. /\ Accepted(n, out, "clean").reply = {out}
        /\ Accepted(n, out, "clean").entry = Entry(out, Normalize(out, battery))
    BY DEF Accepted, Reading
  <2>6. out.type # "no_op" =>
            /\ Entry(out, Normalize(out, battery)).hours = Normalize(out, battery).hours
            /\ Entry(out, Normalize(out, battery)).value = Normalize(out, battery).value
    BY DEF Entry
  <2>7. out.type \in ValueTypes => out.type # "no_op"
    BY DEF ValueTypes
  <2> QED BY <2>2, <2>4, <2>5, <2>6, <2>7
<1> HIDE DEF Inv
<1> QED BY <1>1, <1>2, <1>3, PTL DEF Spec, RightReplyAccepted

-----------------------------------------------------------------------------
(* Hours that a note names. *)

Marks == Morning \cup Evening \cup {"h", "none"}

(* A time a clock can show: an hour with a mark is no later than twelve.    *)
IsClock(c) ==
    /\ c \in [number : Nat, minutes : BOOLEAN, mark : Marks]
    /\ c.mark \in Morning \cup Evening => c.number <= Noon

(* A phrase of the parser; nobody plans more than a day ahead.              *)
IsPhrase(p) == p.kind \in Kinds /\ IsClock(p.from) /\ IsClock(p.to) /\ p.count \in 1 .. DayLength

(* The hour a clock time means is one hour of the day, and where the token  *)
(* is not cut the parser finds it or nothing.                               *)
LEMMA TimeIsTheHour ==
    ASSUME NEW c, IsClock(c)
    PROVE  /\ HourOf(c) = {} \/ \E t \in Day : HourOf(c) = {t}
           /\ Time(c) = HourOf(c)
           /\ Bare(c) <=> Time(c) = {}
<1> DEFINE k == c.number
<1>1. /\ k \in Nat /\ c.minutes \in BOOLEAN /\ c.mark \in Marks
      /\ DayLength \in Nat \ {0} /\ Noon \in Nat \ {0} /\ DayLength = 2 * Noon
  BY DayAssumption DEF IsClock, Noon
<1>2. k % DayLength \in Day
  BY <1>1 DEF Day
<1>3. CASE c.mark \in Morning \cup Evening
  <2>1. k \in 0 .. Noon
    BY <1>1, <1>3 DEF IsClock
  <2>2. k % Noon = IF k = Noon THEN 0 ELSE k
    BY <1>1, <2>1
  <2> DEFINE a == IF k = Noon THEN 0 ELSE k
  <2>3. a \in 0 .. Noon - 1
    BY <1>1, <2>1
  <2>4. CASE c.mark \in Morning
    <3>1. c.mark \notin Evening /\ c.mark # "none"
      BY <2>4 DEF Morning, Evening
    <3>2. a % DayLength = a /\ a \in Day
      BY <1>1, <2>3 DEF Day
    <3>3. HourOf(c) = {a}
      BY <2>2, <2>4 DEF HourOf, Morning, Evening
    <3>4. Time(c) = {(a + 0) % DayLength}
      BY <2>4, <3>1 DEF Time
    <3>5. a + 0 = a
      BY <2>3
    <3> HIDE DEF a
    <3> QED BY <3>1, <3>2, <3>3, <3>4, <3>5 DEF Bare
  <2>5. CASE c.mark \in Evening
    <3>1. c.mark \notin Morning /\ c.mark # "none"
      BY <2>5 DEF Morning, Evening
    <3>2. (a + Noon) % DayLength = Noon + a /\ Noon + a \in Day
      BY <1>1, <2>3 DEF Day
    <3>3. HourOf(c) = {Noon + a}
      BY <2>2, <2>5 DEF HourOf, Morning, Evening
    <3>4. Time(c) = {(a + Noon) % DayLength}
      BY <2>5 DEF Time
    <3> HIDE DEF a
    <3> QED BY <3>1, <3>2, <3>3, <3>4 DEF Bare
  <2> QED BY <1>3, <2>4, <2>5
<1>4. CASE c.mark \notin Morning \cup Evening
  <2>1. c.mark \in {"h", "none"} /\ c.mark \notin Morning /\ c.mark \notin Evening
    BY <1>1, <1>4 DEF Marks
  <2>2. CASE c.minutes \/ c.mark = "h"
    BY <1>2, <2>1, <2>2 DEF Time, HourOf, Bare
  <2>3. CASE ~c.minutes /\ c.mark = "none"
    BY <2>1, <2>3 DEF Time, HourOf, Bare
  <2> QED BY <2>1, <2>2, <2>3
<1> QED BY <1>3, <1>4

(* Where the pattern cuts a token, what it leaves denotes the same hour or  *)
(* none, unless the mark matters.                                           *)
LEMMA SeenRight ==
    ASSUME NEW c, IsClock(c), NEW place, place = "boundary" => ~MarkMatters(c)
    PROVE  /\ Time(Seen(c, place)) \in {{}, HourOf(c)}
           /\ Time(Seen(c, place)) # {} => ~Bare(c)
<1> DEFINE k == c.number
           cut == [c EXCEPT !.mark = "none"]
<1>1. /\ k \in Nat /\ c.minutes \in BOOLEAN /\ c.mark \in Marks
      /\ DayLength \in Nat \ {0} /\ Noon \in Nat \ {0} /\ DayLength = 2 * Noon
  BY DayAssumption DEF IsClock, Noon
<1>2. CASE place = "boundary" /\ c.mark \in Dotted
  <2>1. Seen(c, place) = cut
    BY <1>2 DEF Seen
  <2>2. cut.number = k /\ cut.minutes = c.minutes /\ cut.mark = "none"
    BY DEF IsClock
  <2>3. ~Bare(c) /\ c.mark \in Morning \cup Evening
    BY <1>2 DEF Bare, Dotted, Morning, Evening
  <2>4. CASE ~c.minutes
    BY <2>1, <2>2, <2>3, <2>4 DEF Time, Morning, Evening
  <2>5. CASE c.minutes
    <3>1. Time(cut) = {k % DayLength}
      BY <2>2, <2>5 DEF Time, Morning, Evening
    <3>2. k \in 0 .. Noon
      BY <1>1, <2>3 DEF IsClock
    <3>3. (c.mark = "p.m.") <=> (k = Noon)
      BY <1>2, <2>5 DEF MarkMatters
    <3>4. k % DayLength = k
      BY <1>1, <3>2
    <3>5. CASE c.mark = "a.m."
      <4>1. k # Noon /\ k % Noon = k
        BY <1>1, <3>2, <3>3, <3>5
      <4>2. HourOf(c) = {k}
        BY <3>5, <4>1 DEF HourOf, Morning, Evening
      <4> QED BY <2>1, <2>3, <3>1, <3>4, <4>2
    <3>6. CASE c.mark = "p.m."
      <4>1. k = Noon /\ Noon + (k % Noon) = k
        BY <1>1, <3>3, <3>6
      <4>2. HourOf(c) = {k}
        BY <3>6, <4>1 DEF HourOf, Morning, Evening
      <4> QED BY <2>1, <2>3, <3>1, <3>4, <4>2
    <3> QED BY <1>2, <3>5, <3>6 DEF Dotted
  <2> QED BY <2>4, <2>5
<1>3. CASE place = "open" /\ c.mark = "h"
  <2>1. Seen(c, place) = Clock(k, FALSE, "none")
    BY <1>3 DEF Seen
  <2>2. Time(Clock(k, FALSE, "none")) = {}
    BY DEF Time, Clock, Morning, Evening
  <2> QED BY <2>1, <2>2
<1>4. CASE ~(place = "boundary" /\ c.mark \in Dotted) /\ ~(place = "open" /\ c.mark = "h")
  <2>1. Seen(c, place) = c
    BY <1>4 DEF Seen
  <2> QED BY <2>1, TimeIsTheHour
<1> QED BY <1>2, <1>3, <1>4

(* The hours of a phrase alone: of what it denotes, or else of its "at".    *)
LEMMA OnePhrase ==
    ASSUME NEW p, p.kind \in Kinds
    PROVE  RegexHours({p}) =
               UNION {WindowHours(w) :
                         w \in {w \in IF Denoted(p) # {} THEN Denoted(p) ELSE AtWindow(p) :
                                   WindowOk(w)}}
<1> DEFINE Has(kind) == \E q \in {p} : q.kind = kind
           hidden == {kind \in {"until", "after"} :
                         Has(IF kind = "until" THEN "range" ELSE "onwards")}
           shown == {q \in {p} : q.kind \notin hidden}
<1>1. Has("range") <=> p.kind = "range"
  OBVIOUS
<1>2. Has("onwards") <=> p.kind = "onwards"
  OBVIOUS
<1> HIDE DEF Has
<1>3. p.kind \notin hidden
  BY <1>1, <1>2
<1>4. shown = {p}
  BY <1>3
<1> USE DEF Has
<1>5. FindWindows({p}) =
          IF UNION {Denoted(q) : q \in shown} # {} THEN UNION {Denoted(q) : q \in shown}
          ELSE UNION {AtWindow(q) : q \in {p}}
  BY DEF FindWindows
<1> HIDE DEF shown
<1>6. UNION {Denoted(q) : q \in shown} = Denoted(p) /\ UNION {AtWindow(q) : q \in {p}} = AtWindow(p)
  BY <1>4
<1>7. FindWindows({p}) = IF Denoted(p) # {} THEN Denoted(p) ELSE AtWindow(p)
  BY <1>5, <1>6
<1> QED BY <1>7 DEF RegexHours

LEMMA OneWindow ==
    ASSUME NEW p, p.kind \in Kinds, NEW s \in Day, NEW e \in 0 .. DayLength, NEW k,
           Denoted(p) = {Window(s, e)} \/ (Denoted(p) = {} /\ AtWindow(p) = {Window(s, e)}),
           Meaning(p) = Clockwise(s, k),
           s # e => k = IF s < e THEN e - s ELSE e - s + DayLength
    PROVE  RegexHours({p}) \in {{}, Meaning(p)}
<1> DEFINE w == Window(s, e)
<1>1. w.start = s /\ w.end = e
  BY DEF Window
<1>2. RegexHours({p}) = UNION {WindowHours(v) : v \in {v \in {w} : WindowOk(v)}}
  BY OnePhrase
<1>3. CASE ~WindowOk(w)
  <2>1. {v \in {w} : WindowOk(v)} = {}
    BY <1>3
  <2> QED BY <1>2, <2>1
<1>4. CASE WindowOk(w)
  <2>1. {v \in {w} : WindowOk(v)} = {w}
    BY <1>4
  <2>2. RegexHours({p}) = WindowHours(w)
    BY <1>2, <2>1
  <2>3. WindowHours(w) = Clockwise(s, Span(w))
    BY <1>1, <1>4, WindowsAreClockwise
  <2>4. Span(w) = k
    BY <1>1, <1>4 DEF Span, WindowOk
  <2> QED BY <2>2, <2>3, <2>4
<1> QED BY <1>3, <1>4

(* find_windows (time_expressions.py:63-122) has no opinion on a phrase, or *)
(* the right one: the hours its clock times mean, counted clockwise, for a  *)
(* day of any even length.  Misheard phrases are the only exceptions.       *)
THEOREM ParserIsRight ==
    ASSUME NEW p, IsPhrase(p), ~Misheard(p)
    PROVE  RegexHours({p}) \in {{}, Meaning(p)}
<1>1. /\ DayLength \in Nat \ {0} /\ Day = 0 .. DayLength - 1
      /\ p.kind \in Kinds /\ p.count \in Int /\ 1 <= p.count /\ p.count <= DayLength
      /\ IsClock(p.from) /\ IsClock(p.to)
  BY DayAssumption DEF IsPhrase, Day
<1> DEFINE At == Time(Seen(p.from, "boundary"))
<1>2. /\ HourOf(p.from) = {} \/ \E t \in Day : HourOf(p.from) = {t}
      /\ HourOf(p.to) = {} \/ \E t \in Day : HourOf(p.to) = {t}
  BY <1>1, TimeIsTheHour
<1>3. /\ Starts(p) \in {{}, HourOf(p.from)} /\ (Starts(p) # {} => ~Bare(p.from))
      /\ Ends(p) \in {{}, HourOf(p.to)} /\ (Ends(p) # {} => ~Bare(p.to))
      /\ p.kind = "at" => At \in {{}, HourOf(p.from)}
  <2>1. StartPlace(p) = "boundary" => ~MarkMatters(p.from)
    BY DEF StartPlace, Misheard
  <2>2. (IF p.kind = "until" THEN "boundary" ELSE "open") = "boundary" => ~MarkMatters(p.to)
    BY DEF Misheard
  <2>3. p.kind = "at" => ~MarkMatters(p.from)
    BY DEF Misheard
  <2> QED BY <1>1, <2>1, <2>2, <2>3, SeenRight DEF Starts, Ends
<1>4. ASSUME Denoted(p) = {}, AtWindow(p) = {} PROVE RegexHours({p}) = {}
  BY <1>1, <1>4, OnePhrase
<1>5. p.kind \notin {"at", "starting"} => AtWindow(p) = {}
  BY DEF AtWindow
<1>6. CASE p.kind = "allDay"
  <2>1. Denoted(p) = {Window(0, DayLength)} /\ Meaning(p) = Day
    BY <1>6 DEF Denoted, Meaning
  <2>2. Window(0, DayLength).start = 0 /\ Window(0, DayLength).end = DayLength
    BY DEF Window
  <2>3. Day = Clockwise(0, DayLength)
    <3>1. \A k \in Day : (0 + k) % DayLength = k
      BY <1>1
    <3> QED BY <1>1, <3>1 DEF Clockwise
  <2> QED BY <1>1, <2>1, <2>3, OneWindow
<1>7. CASE p.kind = "range"
  <2>1. CASE Starts(p) = {} \/ Ends(p) = {}
    <3>1. Denoted(p) = {}
      BY <1>7, <2>1 DEF Denoted
    <3> QED BY <1>4, <1>5, <1>7, <3>1
  <2>2. CASE Starts(p) # {} /\ Ends(p) # {}
    <3>1. PICK s \in Day, e \in Day :
              Starts(p) = {s} /\ Ends(p) = {e} /\ HourOf(p.from) = {s} /\ HourOf(p.to) = {e}
      BY <1>2, <1>3, <2>2
    <3>2. Denoted(p) = {Window(s, e)}
      BY <1>7, <3>1 DEF Denoted
    <3>3. Shared(p.from, p.to) = p.from /\ Shared(p.to, p.from) = p.to
      BY <1>3, <2>2 DEF Shared
    <3>4. Meaning(p) = Clockwise(s, (e - s) % DayLength)
      BY <1>7, <3>1, <3>3 DEF Meaning
    <3>5. s # e => (e - s) % DayLength = IF s < e THEN e - s ELSE e - s + DayLength
      BY <1>1, SMTT(30)
    <3>6. e \in 0 .. DayLength
      BY <1>1
    <3> QED BY <1>1, <3>2, <3>4, <3>5, <3>6, OneWindow
  <2> QED BY <2>1, <2>2
<1>8. CASE p.kind \in {"for", "starting"}
  <2>1. CASE Starts(p) = {}
    <3>1. Denoted(p) = {}
      BY <1>8, <2>1 DEF Denoted
    <3>2. CASE p.kind = "for" \/ At = {}
      <4>1. AtWindow(p) = {}
        BY <1>5, <1>8, <3>2 DEF AtWindow
      <4> QED BY <1>4, <3>1, <4>1
    <3>3. CASE p.kind = "starting" /\ At # {}
      <4>1. Starts(p) = Time(Seen(p.from, "open"))
        BY <3>3 DEF Starts, StartPlace
      <4>2. p.from.mark = "h"
        <5>1. SUFFICES ASSUME p.from.mark # "h" PROVE FALSE
          OBVIOUS
        <5>2. Seen(p.from, "open") = p.from
          BY <5>1 DEF Seen
        <5>3. Bare(p.from)
          BY <1>1, <2>1, <4>1, <5>2, TimeIsTheHour
        <5>4. p.from.mark \notin Dotted
          BY <5>3 DEF Bare, Dotted
        <5>5. Seen(p.from, "boundary") = p.from
          BY <5>4 DEF Seen
        <5> QED BY <2>1, <3>3, <4>1, <5>2, <5>5
      <4>3. p.count = 1
        BY <3>3, <4>2 DEF Misheard
      <4>4. Seen(p.from, "boundary") = p.from
        BY <4>2 DEF Seen, Dotted
      <4>5. At = HourOf(p.from)
        BY <1>1, <4>4, TimeIsTheHour
      <4>6. PICK s \in Day : At = {s} /\ HourOf(p.from) = {s}
        BY <1>2, <3>3, <4>5
      <4>7. AtWindow(p) = {Window(s, s + 1)} /\ Meaning(p) = Clockwise(s, 1)
        BY <3>3, <4>3, <4>6 DEF AtWindow, Meaning
      <4>8. s + 1 \in 0 .. DayLength /\ 1 = (s + 1) - s /\ s < s + 1
        BY <1>1
      <4> QED BY <1>1, <3>1, <4>7, <4>8, OneWindow
    <3> QED BY <1>8, <3>2, <3>3
  <2>2. ASSUME NEW s \in Day, Starts(p) = {s}, HourOf(p.from) = {s}
        PROVE  RegexHours({p}) \in {{}, Meaning(p)}
    <3> DEFINE k == p.count
               e == IF p.kind = "for" THEN ForEnd(s, k) ELSE StartingEnd(s, k)
    <3>1. Denoted(p) = {Window(s, e)} /\ Meaning(p) = Clockwise(s, k)
      <4>1. Meaning(p) = UNION {Clockwise(t, k) : t \in {s}}
        BY <1>8, <2>2 DEF Meaning
      <4>2. CASE p.kind = "for"
        <5>1. Denoted(p) = {Window(t, ForEnd(t, k)) : t \in {s}}
          BY <2>2, <4>2 DEF Denoted
        <5> QED BY <4>1, <4>2, <5>1
      <4>3. CASE p.kind = "starting"
        <5>1. Denoted(p) = {Window(t, StartingEnd(t, k)) : t \in {s}}
          BY <2>2, <4>3 DEF Denoted
        <5> QED BY <4>1, <4>3, <5>1
      <4> QED BY <1>8, <4>2, <4>3
    <3> HIDE DEF k
    <3>2. /\ s \in Int /\ 0 <= s /\ s < DayLength
          /\ k \in Int /\ 1 <= k /\ k <= DayLength
      BY <1>1 DEF k
    <3>3. (s + k) % DayLength = IF s + k < DayLength THEN s + k ELSE s + k - DayLength
      BY <1>1, <3>2, OnTheClock
    <3>4. e = IF s + k <= DayLength THEN s + k ELSE s + k - DayLength
      BY <1>1, <3>2, <3>3 DEF ForEnd, StartingEnd
    <3> HIDE DEF e
    <3>5. /\ e \in 0 .. DayLength
          /\ s # e => k = IF s < e THEN e - s ELSE e - s + DayLength
      BY <1>1, <3>2, <3>4
    <3> QED BY <1>1, <3>1, <3>5, OneWindow
  <2> QED BY <1>2, <1>3, <2>1, <2>2
<1>9. CASE p.kind \in {"after", "onwards"}
  <2>1. CASE Starts(p) = {}
    <3>1. Denoted(p) = {}
      BY <1>9, <2>1 DEF Denoted
    <3> QED BY <1>4, <1>5, <1>9, <3>1
  <2>2. ASSUME NEW s \in Day, Starts(p) = {s}, HourOf(p.from) = {s}
        PROVE  RegexHours({p}) \in {{}, Meaning(p)}
    <3>1. /\ Denoted(p) = {Window(t, DayLength) : t \in {s}}
          /\ Meaning(p) = UNION {Clockwise(t, DayLength - t) : t \in {s}}
      BY <1>9, <2>2 DEF Denoted, Meaning
    <3>2. Denoted(p) = {Window(s, DayLength)} /\ Meaning(p) = Clockwise(s, DayLength - s)
      BY <3>1
    <3>3. DayLength \in 0 .. DayLength /\ s < DayLength
      BY <1>1
    <3> QED BY <1>1, <3>2, <3>3, OneWindow
  <2> QED BY <1>2, <1>3, <2>1, <2>2
<1>10. CASE p.kind = "until"
  <2>1. CASE Ends(p) = {}
    <3>1. Denoted(p) = {}
      BY <1>10, <2>1 DEF Denoted
    <3> QED BY <1>4, <1>5, <1>10, <3>1
  <2>2. ASSUME NEW e \in Day, Ends(p) = {e}, HourOf(p.to) = {e}
        PROVE  RegexHours({p}) \in {{}, Meaning(p)}
    <3>1. Denoted(p) = {Window(0, e)} /\ Meaning(p) = Clockwise(0, e)
      BY <1>10, <2>2 DEF Denoted, Meaning
    <3>2. 0 \in Day /\ e \in 0 .. DayLength
          /\ (0 # e => e = IF 0 < e THEN e - 0 ELSE e - 0 + DayLength)
      BY <1>1
    <3> QED BY <1>1, <3>1, <3>2, OneWindow
  <2> QED BY <1>2, <1>3, <2>1, <2>2
<1>11. CASE p.kind = "at"
  <2>1. Denoted(p) = {}
    BY <1>11 DEF Denoted
  <2>2. CASE At = {}
    <3>1. AtWindow(p) = {}
      BY <2>2 DEF AtWindow
    <3> QED BY <1>4, <2>1, <3>1
  <2>3. ASSUME NEW s \in Day, At = {s}, HourOf(p.from) = {s}
        PROVE  RegexHours({p}) \in {{}, Meaning(p)}
    <3>1. /\ AtWindow(p) = {Window(t, t + 1) : t \in {s}}
          /\ Meaning(p) = UNION {Clockwise(t, 1) : t \in {s}}
      BY <1>11, <2>3 DEF AtWindow, Meaning
    <3>2. AtWindow(p) = {Window(s, s + 1)} /\ Meaning(p) = Clockwise(s, 1)
      BY <3>1
    <3>3. s + 1 \in 0 .. DayLength /\ 1 = (s + 1) - s /\ s < s + 1
      BY <1>1
    <3> QED BY <1>1, <2>1, <3>2, <3>3, OneWindow
  <2> QED BY <1>2, <1>3, <1>11, <2>2, <2>3
<1> QED BY <1>1, <1>6, <1>7, <1>8, <1>9, <1>10, <1>11 DEF Kinds

(* HoursMeantAreCovered, of one reading. *)
Covers(r, t) ==
    \A p \in t.phrases :
        t.phrases = {p} /\ ~Misheard(p) /\ r.entry.applies =>
            /\ Hedging /\ RegexHours({p}) # {} => Meaning(p) \subseteq UNION {d.hours : d \in r.applied}
            /\ r.entry.hours = Meaning(p) =>
                   \A d \in r.applied : d.hedge => \E out \in r.reply : out.alternative # {}
            /\ r.by = "rule" => r.entry.hours = Meaning(p)

IsTimed(t) == \A p \in t.phrases : IsPhrase(p)

LEMMA AcceptedCovers ==
    ASSUME NEW n \in Notes, NEW out, NEW verdict, IsTimed(text[n])
    PROVE  Covers(Accepted(n, out, verdict), text[n])
<1> DEFINE read == Normalize(out, battery)
           norm == IF verdict = "soft" THEN SoftFallback(read, out.type, battery) ELSE read
           r == Accepted(n, out, verdict)
           alternatives == AlternativeHedges(n, out, norm, battery)
           parsed == ParsedHedges(n, out, norm, text[n])
           first == Primary(n, out, norm)
<1>1. /\ r.by = "model" /\ r.reply = {out} /\ r.entry = Entry(out, norm)
      /\ r.applied = Assemble(n, out, norm, text[n], battery, Hedging)
  BY DEF Accepted, Reading
<1>2. r.entry.applies => out.type # "no_op" /\ r.entry.hours = norm.hours
  BY <1>1 DEF Entry
<1>3. out.type # "no_op" =>
          r.applied = {first} \cup (IF Hedging THEN alternatives \cup parsed ELSE {})
  BY <1>1 DEF Assemble
<1>4. first.hours = norm.hours /\ ~first.hedge
  BY DEF Primary, Directive
<1>5. alternatives # {} => out.alternative # {}
  BY DEF AlternativeHedges
<1>6. /\ Disagrees(text[n].phrases, norm.hours) =>
             \E d \in parsed : RegexHours(text[n].phrases) \subseteq d.hours
      /\ ~Disagrees(text[n].phrases, norm.hours) => parsed = {}
  BY DEF ParsedHedges, Directive
<1> HIDE DEF r, norm, first, alternatives, parsed
<1>7. ASSUME NEW p \in text[n].phrases, text[n].phrases = {p}, ~Misheard(p), r.entry.applies
      PROVE  /\ Hedging /\ RegexHours({p}) # {} =>
                    Meaning(p) \subseteq UNION {d.hours : d \in r.applied}
             /\ r.entry.hours = Meaning(p) => \A d \in r.applied : d.hedge => out.alternative # {}
  <2>1. RegexHours({p}) \in {{}, Meaning(p)}
    BY <1>7, ParserIsRight DEF IsTimed
  <2>2. Disagrees(text[n].phrases, norm.hours) <=> RegexHours({p}) \notin {{}, norm.hours}
    BY <1>7 DEF Disagrees
  <2>3. ASSUME Hedging, RegexHours({p}) # {}
        PROVE  Meaning(p) \subseteq UNION {d.hours : d \in r.applied}
    <3>1. Meaning(p) = RegexHours({p})
      BY <2>1, <2>3
    <3>2. \E d \in r.applied : RegexHours({p}) \subseteq d.hours
      BY <1>2, <1>3, <1>4, <1>6, <1>7, <2>2, <2>3
    <3> QED BY <3>1, <3>2
  <2>4. ASSUME r.entry.hours = Meaning(p), NEW d \in r.applied, d.hedge
        PROVE  out.alternative # {}
    <3>1. parsed = {}
      BY <1>2, <1>6, <1>7, <2>1, <2>2, <2>4
    <3>2. d \in alternatives
      BY <1>2, <1>3, <1>4, <1>7, <2>4, <3>1
    <3> QED BY <1>5, <3>2
  <2> QED BY <2>3, <2>4
<1>8. Covers(r, text[n])
  BY <1>1, <1>7 DEF Covers
<1> QED BY <1>8 DEF r

LEMMA DegradedCovers ==
    ASSUME NEW n \in Notes, IsTimed(text[n]), NEW r \in Degraded(n)
    PROVE  Covers(r, text[n])
<1>1. CASE r = Reading("none", {}, NoEntry, {})
  <2>1. ~r.entry.applies
    BY <1>1 DEF Reading, NoEntry
  <2> QED BY <2>1 DEF Covers
<1>2. ASSUME NEW e \in RuleReading(text[n], battery),
             r = Reading("rule", {}, e, {Directive(n, e.type, e.hours, e.value, FALSE)})
      PROVE  Covers(r, text[n])
  <2> DEFINE d == Directive(n, e.type, e.hours, e.value, FALSE)
  <2>1. ~d.hedge /\ d.hours = e.hours
    BY DEF Directive
  <2>2. r.entry = e /\ r.applied = {d}
    BY <1>2 DEF Reading
  <2> HIDE DEF d
  <2>3. e.hours = RegexHours(text[n].phrases) /\ e.hours # {}
    BY DEF RuleReading, RuleEntry
  <2>4. ASSUME NEW p \in text[n].phrases, text[n].phrases = {p}, ~Misheard(p)
        PROVE  e.hours = Meaning(p)
    <3>1. RegexHours({p}) \in {{}, Meaning(p)}
      BY <2>4, ParserIsRight DEF IsTimed
    <3> QED BY <2>3, <2>4, <3>1
  <2>5. UNION {x.hours : x \in r.applied} = e.hours
    BY <2>1, <2>2
  <2> QED BY <2>1, <2>2, <2>4, <2>5 DEF Covers
<1> QED BY <1>1, <1>2 DEF Degraded

(* Whatever the LLM reads in a note with one phrase that the parser         *)
(* understands and does not mishear, the hours the phrase means are         *)
(* constrained; hours that the LLM has read right are not widened; and the  *)
(* rules take the hours meant and no others (cross_check.py:23-29,          *)
(* assembler.py:126-138, rule_interpreter.py:117-146).                      *)
THEOREM NamedHoursAreConstrained ==
    ASSUME \A n \in Notes : \A t \in Texts[n] : IsTimed(t)
    PROVE  Spec => []HoursMeantAreCovered
<1> DEFINE Inv == /\ \A n \in Notes : text[n] \in Texts[n]
                  /\ DOMAIN reading = Notes
                  /\ \A n \in Notes : Covers(reading[n], text[n])
<1>1. Init => Inv
  <2>1. \A t : Covers(Unread, t)
    BY DEF Unread, Reading, NoEntry, Covers
  <2> QED BY <2>1 DEF Init
<1>2. Inv /\ [Next]_vars => Inv'
  <2> SUFFICES ASSUME Inv, [Next]_vars PROVE Inv'
    OBVIOUS
  <2>1. text' = text
    BY DEF Next, vars, Answer, Fail, GiveUp, Correct
  <2>2. ASSUME NEW n \in Notes, NEW r, Covers(r, text[n]), reading' = [reading EXCEPT ![n] = r]
        PROVE  Inv'
    BY <2>1, <2>2
  <2>3. CASE reading' = reading
    BY <2>1, <2>3
  <2>4. ASSUME NEW n \in Notes, NEW out \in Replies[n], Answer(n, out)
        PROVE  Inv'
    <3> DEFINE verdict == Verdict(out, text[n], battery)
    <3>1. \/ reading' = reading
          \/ reading' = [reading EXCEPT ![n] = Accepted(n, out, verdict)]
      BY <2>4 DEF Answer, MoveOn, Finish
    <3>2. Covers(Accepted(n, out, verdict), text[n])
      BY AcceptedCovers
    <3> QED BY <2>2, <2>3, <3>1, <3>2
  <2>5. ASSUME NEW n \in Notes, GiveUp(n)
        PROVE  Inv'
    <3>1. CASE job[n].correction
      BY <2>2, <2>5, <3>1 DEF GiveUp, Finish
    <3>2. CASE ~job[n].correction
      <4>1. PICK r \in Degraded(n) : reading' = [reading EXCEPT ![n] = r]
        BY <2>5, <3>2 DEF GiveUp, Finish
      <4> QED BY <2>2, <4>1, DegradedCovers
    <3> QED BY <3>1, <3>2
  <2>6. ASSUME NEW n \in Notes, Fail(n) \/ Correct(n)
        PROVE  Inv'
    BY <2>3, <2>6 DEF Fail, MoveOn, Correct
  <2>7. CASE UNCHANGED vars
    BY <2>3, <2>7 DEF vars
  <2> QED BY <2>4, <2>5, <2>6, <2>7 DEF Next
<1>3. Inv => HoursMeantAreCovered
  BY DEF HoursMeantAreCovered, Covers
<1> HIDE DEF Inv
<1> QED BY <1>1, <1>2, <1>3, PTL DEF Spec
=============================================================================
