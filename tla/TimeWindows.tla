---------------------------- MODULE TimeWindows ----------------------------
(***************************************************************************)
(* Windows of hours: what the LLM's windows mean (normalizer.py), and the  *)
(* windows that the time expressions of a note denote (time_expressions.py,*)
(* cross_check.py of src/app/guardrails).  A list of hours is a set: the   *)
(* code sorts it and removes repetitions.                                  *)
(***************************************************************************)
EXTENDS Integers

CONSTANT DayLength  \* 24

ASSUME DayAssumption == DayLength \in Nat \ {0} /\ DayLength % 2 = 0

Day == 0 .. DayLength - 1
Noon == DayLength \div 2

Window(start, end) == [start |-> start, end |-> end]

-----------------------------------------------------------------------------
(* normalizer.py *)

(* window_to_hours raises NormalizationError otherwise. *)
WindowOk(w) == w.start \in Day /\ w.end \in 0 .. DayLength /\ w.start # w.end

(* Mutant: a window past midnight is cut at midnight. *)
CutAtMidnight(w) ==
    IF w.start < w.end THEN w.start .. w.end - 1 ELSE w.start .. DayLength - 1

(* The end is excluded; a window that ends before it begins passes midnight. *)
WindowHours(w) ==
    IF w.start < w.end THEN w.start .. w.end - 1
    ELSE w.start .. DayLength - 1 \cup 0 .. w.end - 1

(* windows_to_hours: a directive without a window is for the whole day. *)
WindowsHours(windows, type) ==
    IF windows = {} THEN (IF type = "no_op" THEN {} ELSE Day)
    ELSE UNION {WindowHours(w) : w \in windows}

-----------------------------------------------------------------------------
(* time_expressions.py.  A clock time of a note is a number, perhaps with   *)
(* minutes (13:30; the hour counts), and a mark: am, p.m., h (1300h) or     *)
(* none.  Noon and midnight are 12 pm and 12 am; a dotted mark comes after  *)
(* a space.  An optional value is a set of at most one element, here and in *)
(* the modules that use this one.                                           *)

Clock(number, minutes, mark) == [number |-> number, minutes |-> minutes, mark |-> mark]

Dotted == {"a.m.", "p.m."}
Morning == {"am", "a.m."}
Evening == {"pm", "p.m."}

(* What the pattern of a clock time takes of it: before another word all of *)
(* it; where the token has to end in a word boundary, which a dotted mark   *)
(* never does, all but that mark; and where nothing is asked of what        *)
(* follows, of 1500h the 15.                                                *)
Seen(c, place) ==
    IF place = "boundary" /\ c.mark \in Dotted THEN [c EXCEPT !.mark = "none"]
    ELSE IF place = "open" /\ c.mark = "h" THEN Clock(c.number, FALSE, "none")
    ELSE c

(* Mutant: a bare number is taken for an hour of the 24-hour clock. *)
TimeOfAny(c) ==
    IF c.mark \in Morning \cup Evening
    THEN {(c.number % Noon) + (IF c.mark \in Evening THEN Noon ELSE 0)}
    ELSE {c.number % DayLength}

(* _parse_single_time: a bare number is not parsed. *)
Time(c) ==
    IF c.mark \in Morning \cup Evening
    THEN {((IF c.number = Noon THEN 0 ELSE c.number)
               + (IF c.mark \in Evening THEN Noon ELSE 0)) % DayLength}
    ELSE IF c.minutes \/ c.mark = "h" THEN {c.number % DayLength} ELSE {}

(* The end of n hours from a: "from a for n hours", "n hours starting at a". *)
ForEnd(a, n) ==
    IF a + n > DayLength \/ (a + n) % DayLength # 0 THEN (a + n) % DayLength ELSE DayLength
StartingEnd(a, n) == IF a + n <= DayLength THEN a + n ELSE (a + n) % DayLength

(* A phrase of a note that its patterns recognise: "all day", "from a to b",*)
(* "from a for n hours", "n hours starting at a", "after a", "from a        *)
(* onwards", "until b", "at a"; the fields that its kind does not name are  *)
(* not used.  Of every kind but "range" a note has one phrase at most, and  *)
(* one of "starting" and "at": the first, which search finds.               *)
Kinds == {"allDay", "range", "for", "starting", "after", "onwards", "until", "at"}

StartPlace(p) ==
    CASE p.kind \in {"after", "at"} -> "boundary"
      [] p.kind = "starting" -> "open"
      [] OTHER -> "word"

Starts(p) == Time(Seen(p.from, StartPlace(p)))
Ends(p) == Time(Seen(p.to, IF p.kind = "until" THEN "boundary" ELSE "open"))

Denoted(p) ==
    CASE p.kind = "allDay" -> {Window(0, DayLength)}
      [] p.kind = "range" -> {Window(s, e) : s \in Starts(p), e \in Ends(p)}
      [] p.kind = "for" -> {Window(s, ForEnd(s, p.count)) : s \in Starts(p)}
      [] p.kind = "starting" -> {Window(s, StartingEnd(s, p.count)) : s \in Starts(p)}
      [] p.kind \in {"after", "onwards"} -> {Window(s, DayLength) : s \in Starts(p)}
      [] p.kind = "until" -> {Window(0, e) : e \in Ends(p)}
      [] p.kind = "at" -> {}

(* What the pattern of "at a" finds, in "starting at a" too. *)
AtWindow(p) ==
    IF p.kind \in {"at", "starting"}
    THEN {Window(s, s + 1) : s \in Time(Seen(p.from, "boundary"))} ELSE {}

(* find_windows: a range hides "until", "onwards" hides "after", and any    *)
(* window hides "at".                                                       *)
FindWindows(phrases) ==
    LET Has(kind) == \E p \in phrases : p.kind = kind
        hidden == {kind \in {"until", "after"} :
                      Has(IF kind = "until" THEN "range" ELSE "onwards")}
        firm   == UNION {Denoted(p) : p \in {p \in phrases : p.kind \notin hidden}}
    IN  IF firm # {} THEN firm ELSE UNION {AtWindow(p) : p \in phrases}

(* regex_hours; none is no opinion. *)
RegexHours(phrases) == UNION {WindowHours(w) : w \in {w \in FindWindows(phrases) : WindowOk(w)}}

(* disagrees *)
Disagrees(phrases, hours) == RegexHours(phrases) \notin {{}, hours}

-----------------------------------------------------------------------------
(* What a phrase means to its reader: so many hours clockwise from a start. *)

Clockwise(start, n) == {(start + i) % DayLength : i \in 0 .. n - 1}

Span(w) == IF w.start < w.end THEN w.end - w.start ELSE w.end - w.start + DayLength

(* The hour a clock time means, however it is written. *)
HourOf(c) ==
    CASE c.mark \in Morning -> {c.number % Noon}
      [] c.mark \in Evening -> {Noon + (c.number % Noon)}
      [] c.mark = "h" \/ (c.mark = "none" /\ c.minutes) -> {c.number % DayLength}
      [] OTHER -> {}

(* "1 to 3 p.m.": a bare number shares the mark of the other end.          *)
Bare(c) == c.mark = "none" /\ ~c.minutes
Shared(c, other) == IF Bare(c) THEN [c EXCEPT !.mark = other.mark] ELSE c

Meaning(p) ==
    CASE p.kind = "allDay" -> Day
      [] p.kind = "range" ->
             UNION {Clockwise(s, (e - s) % DayLength) :
                       s \in HourOf(Shared(p.from, p.to)), e \in HourOf(Shared(p.to, p.from))}
      [] p.kind \in {"for", "starting"} -> UNION {Clockwise(s, p.count) : s \in HourOf(p.from)}
      [] p.kind \in {"after", "onwards"} ->
             UNION {Clockwise(s, DayLength - s) : s \in HourOf(p.from)}
      [] p.kind = "until" -> UNION {Clockwise(0, e) : e \in HourOf(p.to)}
      [] p.kind = "at" -> UNION {Clockwise(s, 1) : s \in HourOf(p.from)}

(* The phrases that find_windows confidently takes for other hours: without *)
(* its dotted mark "5:30 p.m." is five in the morning and "12:30 a.m." is   *)
(* noon, after "after", "until" and "at" (lines 102-120), and of "2 hours   *)
(* starting at 1500h" it finds "at 1500h" alone (lines 95-99 and 118).      *)
MarkMatters(c) == c.mark \in Dotted /\ c.minutes /\ (c.mark = "p.m.") # (c.number = Noon)

Misheard(p) ==
    \/ p.kind \in {"after", "at"} /\ MarkMatters(p.from)
    \/ p.kind = "until" /\ MarkMatters(p.to)
    \/ p.kind = "starting" /\ p.from.mark = "h" /\ p.count # 1
=============================================================================
