# GridWise, specified

GridWise answers `POST /optimize-energy`: a day of demand, solar, tariffs and a
battery, with a few *operator notes* in free English ("no charging after 6 pm").
An LLM reads each note into directives, a linear program (LP) turns them into a plan
of 24 hours, and the plan is rounded, checked again and returned. This directory
holds TLA+ modules of that program, the TLC runs that check them and the theorems
TLAPS proves about them. Paths below are relative to the repository root, `src/`.

- [The system](#the-system)
- [The modules](#the-modules)
- [The runs](#the-runs)
- [Divergences](#divergences-between-code-and-documents)
- [Fairness](#fairness)
- [Proofs](#proofs)
- [Not modelled](#what-is-not-modelled)
- [Plan](#plan)

## The system

| Component | Source (`src/app/...`) | State | Operations |
|---|---|---|---|
| Gemini client | `llm/gemini_client.py`, `llm/base.py` | park timer per model and key, models that refuse a thinking config, round-robin index, one frame per open call | `generate`, `_call`, `_call_once` |
| Provider chain, deadline | `llm/provider_chain.py`, `pipeline/deadline.py` | a breaker per model; the end of a request | `is_disabled`, `call_model`, `timeout_for` |
| Interpretation cache | `llm/cache.py` | an LRU store | `get`, `put` |
| Note interpreter | `llm/interpreter.py` | the coroutine of each note | `interpret_request`, `correct_note` |
| Pipeline | `pipeline/orchestrator.py` | the locals of `run_pipeline` | its stages |
| Hourly bounds | `optimizer/constraints.py` | none | `build_bounds` |
| Linear programs | `optimizer/lp_model.py`, `solver.py` | none | `solve`, `solve_elastic` |
| Diagnostics | `optimizer/diagnostics.py` | none | `diagnose` |
| Post-processing, replay | `optimizer/postprocess.py`, `verification/replay.py` | none | `postprocess`, `replay` |
| Guardrails | `guardrails/normalizer.py`, `validator.py`, `assembler.py`, `cross_check.py`, `time_expressions.py`, `quantities.py` | none | `normalize`, `validate`, `assemble_note`, `disagrees`, `find_windows` |
| Rule interpreter | `guardrails/rule_interpreter.py` | none | `interpret` |
| HTTP interface | `api/*.py`, `schemas/request.py`, `main.py` | none | `parse_request`, `optimize_energy`, the handlers of errors |

How they interact. A request starts one coroutine per note (`asyncio.gather`). All
coroutines of all requests run on one event loop and share one client, one breaker
table and one cache; each goes from `await` to `await` without interruption. A
coroutine asks the cache, then the models of the chain in turn; the client tries its
keys in turn. When all notes are read, `run_pipeline` builds bounds and solves; if the
directives conflict it asks the LLM again about the notes `diagnose` names, and
otherwise bends the directives (*elastic* LP) or refuses, as configured. The plan is
rounded (`postprocess`) and verified (`replay`), and two fallbacks exist.

What is hard to test in it, and what must be true:

* **Client.** Lists made before an `await` and used after it; a 429 that parks a key
  another call is about to ask; timers of different calls and models; a call must ask
  each available key once, and the wait it reports must be neither too short nor void.
* **Interpreter.** Repairs, model switches and one wait for a rate limit, all against
  one deadline; degraded readings must never enter the cache; every note must get a
  reading, whatever Gemini does; no answer may outlive the request it belongs to.
* **Cache.** Eviction order after hits, overwrites, and at `max_size` 0.
* **Pipeline.** Five solving stages with and without hedges, readings that change in the
  middle, three kinds of plan. The plan must belong to the readings the response
  reports, nothing is given up that can be solved without hedges, and bending is announced.
* **Guardrails.** Windows that are half-open and pass midnight, units, two channels that
  must say the same, a reading with faults that is accepted when its repairs are used up,
  alternative readings that nobody validates. Whatever the LLM writes, what is applied is
  in range and covers the hours the note names; a right reply costs no repair.
* **HTTP interface.** The order of checks, limits of the battery that are equal, hours out
  of order or twice. The status is the documented one, whatever earlier requests left
  behind, and Gemini is awaited past the deadline no longer than one call may take, corrections included.
* **Optimizer.** What solving promises must survive rounding, clipping and checking with
  tolerances; blame must fall on notes that really conflict; of two readings of a note
  the stricter must win.

`PROJECT.json` lists these hazards line by line with the properties that cover them.

## The modules

```
GeminiClient              PlanService (abstract)
     |                         ^ refines
ProviderChain               Pipeline  <----------------+
     |                         ^ refines               | refines
NoteInterpreter         DispatchPipeline            Service
     |  INSTANCE           /         \               /     \
InterpretationCache  Postprocess  Diagnostics  NoteInterp. RequestSchema
     |                    |           |
CacheHistory           Dispatch      /     Readings
                          |         /         |
                       DirectiveBounds <-- Guardrails
                                              |
                                          TimeWindows
```

**GeminiClient.** One action per stretch of `_call` between two awaits. `Begin` is the
part up to the first request (no keys, all keys parked, or the first key asked);
`ReceiveBody`, `Receive429`, `Receive400`, `ReceiveAuthError`, `ReceiveServerError` and
`TimeOut` are what may end the await of `_call_once`, each with the code that follows up
to the next await. Deadlines on the monotonic clock are kept as the time they have left
(`parked`, `left`), which is all the code compares; `ClientTick` lets one unit pass, and
cannot pass an overdue timer of `wait_for`. `skipped` and `refused` in a frame are
history: which keys were parked when the call began and which answered 429.

**ProviderChain** adds the breakers and the timeout of an attempt. The three limits that meet there
are constants of their own: `TimeoutFor` returns no less than `TimeoutFloor` (0.05 s), no attempt is
made with `Cutoff` (0.1 s) or less, and `wait_for` is given `MinWait` (0.5 s) at least. An attempt may
thus be made with less time than its request is given: it ends after the deadline.

**NoteInterpreter** has one job per note: the locals of `_interpret_one`,
`_call_and_validate` and `_try_models`. `running` is the coroutine that holds the event
loop; until it awaits nobody else runs and no time passes, exactly as in asyncio. The
four verdicts of the guardrails are chosen freely in `HandleReading`: they are
functions of the model's text, which is arbitrary. `Arrive`, `Gather`, `Correct` and
`Complete` are the request around the notes; a request may be sent again and again.

**InterpretationCache** is the `OrderedDict`, and **CacheHistory** adds the history that
the meaning of "least recently used" needs.

**TimeWindows** is what a window of hours means (`window_to_hours`) and the windows that
`find_windows` takes from the phrases of a note ("from a to b", "for n hours", "until b").
A phrase is its kind with its clock times, a clock time its number, whether it has minutes, and its
mark; finding phrases in English is left out. `Seen` is what a pattern takes of a clock time: a
dotted "p.m." is cut off where the pattern ends in `\b`, and of "1500h" only the 15 is left where nothing
follows. `Meaning` is the reference definition, independent of the parser's `Time`: so many hours
clockwise from the hour a clock time means (`HourOf`). `Misheard` are the phrases that the parser takes for other hours.
**Guardrails** is `normalize`, `validate` with its issues, the soft fallback,
`assemble_note` with both kinds of hedges, and the rule interpreter. The LLM's reply is
a record of the fields of its schema that these read; its two channels (what it quotes,
what it computes) are separate, and a reply may say anything in either. **Readings** is
the loop of `_try_models` with this data: replies are sent back, given up or accepted,
corrected, and become directives; keys, waits and the cache are left to NoteInterpreter,
whose four verdicts are those that Readings computes.

**RequestSchema** is the validation of a request: a field is the set of its value, empty
if it is missing or of another type. **Service** composes it with NoteInterpreter and
Pipeline: one request from its body to its status. `Receive` is `parse_request`, `Start`
makes the deadline, `NoteRuns` and `TimePasses` are the steps of the coroutines while
`run_pipeline` awaits them, `StageTakesTime` lets time pass, and the deadline too, while the stages hold the event loop, `AllInterpreted` and `Corrected` hand their readings to the
stages, `AskForCorrection` is the correction loop, which goes on as long as the deadline
it looks at is that of the coroutines (`expired`), and `Solving` is the rest. `ServiceInit` has what
earlier requests, or the warm-up, may have left: parked keys, open breakers, a cached
reading. Service refines Pipeline, so the flags and readings Pipeline chooses freely are
those the coroutines can produce.

**PlanService** is the promise to the client: one answer, a plan that obeys the reported
directives or says that it may not, or a refusal if so configured. **Pipeline** is the
control of `run_pipeline`, with every result of the optimizer left open that the inputs
allow, and refines PlanService under `Response`. When the idle plan replaces another, `bounds`
becomes that of no directive, as in the code. **DispatchPipeline** runs the same stages on
real directives, bounds, schedules and plans, and refines Pipeline (`ImplementsPipeline`):
what Pipeline assumes of the optimizer (`diagnose` always names somebody, without directives every
problem is solvable, only hedges make a difference between its two outcomes) is checked there.

**DirectiveBounds** is `build_bounds`; `Tighter` is the order on bounds, and `FullScale` the unit in which the
factors of all notes multiply to a whole number. **Dispatch** gives
the LPs as sets of optimal schedules over whole numbers: a schedule is the energy after
each hour and the solar used, since charge, discharge and grid follow from these by
`build_balance_dynamics`. The solver's choice among optima is free. A schedule that
charges and discharges in the same hour is left out because `postprocess` reads the
difference only and it costs nothing to drop the common part. **Postprocess** holds `postprocess`
and `replay`; `Micro` is the rounding unit (1e-6 kWh in the code) and `Tol` the tolerance of
`replay`, both counted in the units of the amounts. `MicroAssumption` lets the tolerance
forgive two roundings, as that of the code does (1e-6 for two errors of half of it). **Diagnostics** is `diagnose`, reduced to the notes it names.

The modules named `*Proofs` hold theorems only; the `MC*` modules
hold the values of constants for TLC.

Definitions commented "Mutant" are not used by the specifications. Each is a plausible
mistake in the code; put in the place of the right definition it violates one of the
checked properties (the list is in `PROJECT.json`), which shows that the property can fail.

## The runs

`tlc -workers 2 -config <run>.cfg <module>.tla`. Each finishes within four minutes on two cores.

| Run | Module | Expected | Shows |
|---|---|---|---|
| `client` | MCGeminiClient | pass | `KeysAccounted`: in every open call each key is parked, refused, asked or still to be asked, exactly one of these. `GivenUpOnlyWhenEveryKeyRefused`, `WaitSuffices`: a call reports a rate limit only if every key is parked or refused, and the wait it names frees a key. `ParkedKeyAskedFromOldList`: a parked key is asked only if another call has parked it since the list of keys was made. `CallReturns`: every call ends. |
| `thinking_resent` | MCGeminiClient | violation | A model that has refused a thinking config gets one again. |
| `note_requests` | MCNoteInterpreter | pass | Two requests with the *same* note, over and over and side by side, one correctable: types, `DegradedNeverCached`; how far a call may outlast the deadline (`OverrunBounded`); when a stored reading changes (`ReplacedOnlyByOverlap`); which calls pass an open breaker (`OnlyRepairsPassBreakers`). |
| `note_alone` | MCNoteInterpreter | pass | One note, two models, corrections: `SleepLeavesTime` and `WaitNotInVain` (after the wait there is time for an attempt, and some key and model can be asked), and the liveness `RequestInterpreted`. |
| `note_overrun` | MCNoteInterpreter | violation | A second request of one call exceeds the deadline. |
| `cache` | CacheHistory | pass | The store holds the `max_size` most recently used keys with their latest values. |
| `pipeline` | Pipeline | pass | Every path, both policies: `PlanIsForReportedNotes`, `GivesUpOnlyWithoutHedges`, `DegradationAnnounced`, and the refinement of PlanService with its liveness, `AlwaysAnswers`. |
| `dispatch` | MCDispatchPipeline | pass | Real data, exact arithmetic: a problem that can be solved gets a plan checked against its directives (`DirectivesNeverDropped`), an elastic plan passes its replay (`ElasticPasses`), the plan is valid whichever reading of a note is the true one (`ValidForEveryReading`), cheapest (`PlanIsCheapest`), bends least (`BendsLeast`), conflicts are real (`ConflictsAreReal`), and Pipeline is refined. |
| `dispatch_fine` | MCDispatchPipeline | pass | Amounts finer than the rounding unit: post-processing and replay fail, every fallback happens, and the plan obeys the physics all the same (`PhysicsAlwaysObeyed`), with hedges of two notes whose factors are negative, too. |
| `dispatch_dropped` | MCDispatchPipeline | violation | Rounding makes the service drop directives that can be obeyed. |
| `guardrails` | MCReadings | pass | Two notes, whatever the LLM writes about them: what is applied is in range (`AppliedInRange`) and covers the hours that a phrase means which is not misheard, right hours not being widened (`HoursMeantAreCovered`); hedges only tighten the bounds (`HedgesOnlyTighten`); a right reply is accepted at once (`RightReplyAccepted`). |
| `service` | MCService | pass | One request from its body to its answer, two notes: no coroutine is at work when the stages run (`CallsBelongToNotes`), the status is the documented one (`StatusAsDocumented`), Gemini is awaited past the deadline no longer than `Overrun` (`AnsweredInTime`), and Pipeline is refined (`ImplementsPipeline`). |

### Bounds, and why they are enough

* *Time.* A unit has no fixed length: what is kept is the order of the limits and the gaps between them. As in
  the code the floor of a timeout is not above the cutoff, the cutoff is below the margin, and a unit more than the cutoff, with
  the margin, is still less than `MinWait` (0, 0, 1 and 3 in the runs): an attempt is made that ends after the deadline, with one key too.
  Parks of 1 and 2 units, a default park of 2, timeouts from 1 to 4 and a deadline of 4 to 7 units let each
  timer run out before and after each other one.
* *Keys and models.* Two keys are enough for a rotation that starts in the middle, for a key that is skipped,
  refused and untried at once within a call, and for a second request to the next key. Two
  models are enough to skip one, to fail over and to come to the end of the chain.
  The proofs cover any number of keys, models and tasks of the client, no key
  at all included.
* *Tasks.* Two coroutines reach every pair of interleaved stretches; state is shared
  pairwise only (a key, a breaker, a cache entry).
* *Cache.* Four keys for two places: an eviction always has a choice of two stored
  and two absent keys. `max_size` 0 is covered by the proofs.
* *Notes.* Two notes let one be corrected and the other not, and let directives of different notes
  conflict; `build_bounds` treats directives of one note and of different notes differently, and both cases occur (a
  reading with a hedge has two directives of one note).
* *Hours.* Two hours in `dispatch`: one to store in and one to use in, with the end of the day at
  the second. `dispatch_fine` has four hours, since the errors of rounding must add up over
  three hours before they exceed the tolerance.
* *Amounts.* `Whole = 2` makes a solar factor 0, 1/2 or 1. In `dispatch` every amount is a multiple of the
  rounding unit, hence `Micro = 1`, `Tol = 0`: this run says nothing of rounding, `dispatch_fine` does. In `dispatch_fine` the unit of rounding is 5 and the
  tolerance too, like 1e-6 and 1e-6 in the code: amounts there stand for the part of an
  amount below a few microkilowatthours; adding whole multiples of the unit to demand, reserve and grid changes
  no rounding error. Its two notes have readings with an alternative factor of -3 each: alone it makes the hedged problem
  infeasible, together they promise nine times the solar there is.
* *`guardrails`.* A day of four hours, a clock of twice two and factors in halves: every
  order of start, end, noon and midnight occurs, and so do numbers at, within and beyond
  each end of their range. Note 0 takes every kind of phrase the parser knows, with every kind of clock
  time, dotted marks with and without minutes among them, at its start, and one of each kind at the end of a range; note 1 a directive with an unvalidated alternative, to meet those of note 0 in
  the bounds. The proofs cover days of any even length.
* *`service`.* A day of two hours: hours can be out of order, twice, missing and beyond the
  day. The bodies differ from a valid one in one place or two, or have any battery of small numbers. One
  model with one key, a deadline of 4 units and a wait that must leave 2: enough for a
  repair, a wait, and a correction that meets the end of the deadline or passes it. Both notes may be corrected.

Deadlock is checked wherever the system goes on for ever. `Pipeline`, `DispatchPipeline` and `Readings` model one
request and stop when it is over, hence `CHECK_DEADLOCK FALSE` there; that Pipeline does
not stop earlier is `AlwaysAnswers`. Service has the step `Over` for a request that is over, so that it is
checked not to stop earlier.

## Divergences between code and documents

Three runs find one, each quoted in `PROJECT.json` under `findings`:

1. `thinking_resent`. `_call` decides on the thinking config once. After the 400 that makes the client
   remember the model, a 429 to the repeated request leads to the next key, which is sent the
   config again (`gemini_client.py:124`), although lines 8-9 promise "never send a thinking
   config to it again (no double call per note)".
2. `note_overrun`. The timeout of an attempt is taken from the deadline once per call, and each further request of
   that call gets all of it again (`gemini_client.py:124, 130`). With `NKeys = 1` the same property fails for another reason: an
   attempt is made with more than 0.1 s for it (`provider_chain.py:34`), and `wait_for` is given 0.5 s then
   (`gemini_client.py:90`). `planning.md:110` has no such floor. `OverrunBounded` says how much is lost at most: by the default
   settings 0.1 s with one key, and one timeout (9 s) more with each further key, less the margin.
3. `dispatch_dropped`. When errors of rounding add up beyond the tolerance, the replay of an optimal plan fails; the retry uses
   the same bounds, fails again, and the idle plan drops every directive. `planning.md:390` promises
   "re-solve with eps-tightened bounds".

The following were met with the same modules, and have no run of their own. To see one, give the cfg
of the first column the changes of the second and check the property of the third.

| cfg | Change | Property | What happens |
|---|---|---|---|
| `thinking_resent` | `Tasks = {t1, t2}` | `ParkedKeyNotAsked` | The list of available keys is made before the first await; a key that another call parks meanwhile is asked (`gemini_client.py:115`, promise in line 7). |
| `note_requests` | none | `BreakerRespected` | A repair goes to a model whose breaker another note has tripped (`interpreter.py:295`). |
| `note_alone` | `RetryDelays <- MCDelaysWithZero` | `WaitNotInVain` | `e.retry_after_s or 10.0` parks the key for 10 s when the suggested delay is 0, while the interpreter is told 0 and wakes up after 0.2 s to find the key parked. |
| `note_requests` | none | `CachedReadingStable` | Two identical notes both miss the cache and the later reading overwrites the earlier one ("bit-identical", `cache.py:1-4`). |
| `client` | `RetryDelays <- MCDelays` (as it is) | `ParkNeverShortened` | A 429 of another call overwrites the park of a key, with a shorter delay too (`gemini_client.py:132`). |
| `note_requests` | none | `InvalidTripsBreaker` | A 400 leaves the breaker closed ("circuit-break it too", `base.py:24`). |
| `pipeline` | none | `DegradationTrue` | A correction replaces the only degraded reading and the summary still reports one. |
| `pipeline` | none | `EveryPlanReplayed` | The idle plan is returned without a replay (`orchestrator.py:154`; `README.md:186`: "every response"). |
| `dispatch` | none | `ElasticPlanCheapest` | The elastic LP may use solar the directives exclude; once clipped, its plan costs more than another that bends as little. |

The second column "none" means that the cfg as it is, with this property in the place of its own, shows the violation. What
holds instead, with the same interleavings, is checked: `ParkedKeyAskedFromOldList`, `OnlyRepairsPassBreakers`,
`ReplacedOnlyByOverlap`, `OverrunBounded`.

Read off the definitions, without a cfg of their own:

* *A dotted mark* (`Misheard`). The patterns of `time_expressions.py:102-120` end in `\b`, which does not match after "p.m.": "after 5 p.m." gives no
  opinion, and "after 5:30 p.m." is taken for 5 in the morning, a confident wrong answer (lines 2-4 and 64). A reply
  that reads 17 to 24 right is widened to 5 to 24, and the rules take 5 to 24. The same for "until", "before" and "at", and for "12:30 a.m.".
  Ranges, "from ... for n hours", "from ... onwards" and "starting at" read dotted marks right.
* "2 hours starting at 1500h": the token of line 95 takes 15 alone, so that "at 1500h" is left, one hour. A range that ends at "1500h"
  gives no opinion. A number beyond 12 with a mark ("17:30 pm") is read as 5 (line 52); the theorems exclude it.

* The LPs run on the event loop, although `planning.md:106` gives them a thread pool. Nobody looks at the deadline
  meanwhile; Service lets it pass (`StageTakesTime`), and `AnsweredInTime` counts only the time for which Gemini is awaited after it.
* `planning.md:285` applies the primary reading together with the alternative one; `assembler.py:104` drops an alternative of
  another type (`AlternativeHedges`).
* "More restrictive constraints keep a plan valid" (`planning.md:275`) needs factors that are not negative. Alternative
  factors are not validated, and of two notes with negative ones `build_bounds` makes a positive product: `HedgesOnlyTighten` is stated for
  at most one negative factor. The plan then uses solar that does not exist, and its replay, which takes the effective solar from the same bounds,
  accepts it: `PhysicsAlwaysObeyed` with `NoDirectives` for `Physics` is violated by `dispatch_fine`. One absurd alternative makes the hedged LP infeasible, and then the hedges of all notes are dropped.
* The verification call of `planning.md:263` for hours that disagree with the parser's is not made; the hedge is.
* `planning.md:269` allows a second repair if time remains; `llm_max_repairs` is fixed. After the repairs a
  `no_op` with `affects_schedule` true is accepted as a `no_op` (line 256 says what wins only when the type is another).
* The issues for which `_try_models` would give a model up (G1, G5, G9) cannot occur after `normalize` (`BlockingIsUnreachable`): that branch of
  `interpreter.py` is dead. A negative grid cap (G8) that persists is accepted as it is.
* A directive that can be obeyed may be bent: a `PostprocessError` (`orchestrator.py:145-149`) and a failed replay (156-170) call the elastic
  program, or the idle plan, though the problem has a solution. `GivesUpOnlyWithoutHedges` is about what is known before that; without
  rounding it cannot happen (`OnlyRoundingDrops`).
* "1 to 3 pm": the branch for a shared suffix never yields a window, since a bare number is not parsed. The parser then has no
  opinion, which is safe. "for n hours" with n beyond 24 gives a window that is not meant; run and proof count to a day.

## Fairness

Fairness is assumed only where the runtime gives it:

* `FairSpec` of GeminiClient: time passes, and a timer of `wait_for` that is due fires. *Nothing* is assumed
  of Gemini: it may never answer, or answer each key with a 429. Calls return
  because each request is bounded by `wait_for` and each key is asked once.
* `NoteFairness`: a coroutine that can run does run (`running = t`), a note that is ready starts, a due `sleep` or
  `wait_for` ends, `gather` returns when its tasks are done, and time passes. These are what an asyncio loop does. The arrival of requests is not fair.
* `FairSpec` of Pipeline: the stages are run one after the other until an answer is given.

## Proofs

Run `tlapm` on each module. Every theorem is for all values of the constants that the assumptions named in the modules
allow; what more a theorem assumes is in its statement and below.

**GeminiClientProofs** holds for any number of keys, models, tasks, timeouts and delays under
`ClientAssumption`. The five theorems are `ClientTypes` (`TypeOK`), `EveryKeyAccounted`
(`KeysAccounted`), `GivenUpForAReason` (`GivenUpOnlyWhenEveryKeyRefused`), `ReportedWaitSuffices`
(`WaitSuffices`) and `OnlyOldListsAskParkedKeys` (`ParkedKeyAskedFromOldList`).

None of these is inductive alone. That an ended call had every key parked or refused follows from the accounting
of the frame just before it ended; the accounting needs the types, since the next key is picked by `CHOOSE` and is one of the
untried keys only if these are numbers and not empty; and a frame that has ended must not be changed by the passage of
time. The invariant `ClientInv` joins these: `TypeOK`, and for each frame `FrameOK`. It is shown for `Begin`, for each way
a call is resumed and for `ClientTick`, one lemma each. `LeastArgument` is the one fact about numbers that is needed:
a function from a nonempty set to the naturals has an argument with the least value, so that `NextKey` and
`ShortestPark` have a witness.

`ReportedWaitSuffices` has a hypothesis that the others have not: 0 is not among the
suggested delays. The row of `WaitNotInVain` in the table above shows why the interpreter needs it too.

**CacheProofs** holds for any set of keys and any `max_size`, zero (an allowed setting, caching off) and negative ones included:
`CacheTypes` (`TypeOK`), `StoreStaysConsistent` (`StoreConsistent`), `HitsAreLatest` (`HitIsLatest`) and
`MostRecentAreKept` (`KeepsMostRecent`). The work is in
the lemmas about sequences of distinct keys: what remains after a removal from the middle, after `move_to_end` and after an
eviction, and that an eviction never removes the key just put, because the store then has at least two. The last theorem relates
the store to the history of uses: the store is the end of it.

**NoteInterpreterProofs** holds for any number of requests, notes, models and keys. Its invariant `NoteInv` joins three parts: `SharedOK`
(the client's `ClientInv`, the breakers, the cache's invariant, no degraded entry), `NoteTypes`, and for each note
`TaskOK`, which says who awaits a call and who holds the event loop. None is inductive without the others: a reading may be
cached because its call was answered, the call is the note's own because nobody else is at work, and the index into the chain is
a model because the loop checked it before the await. One lemma for each action of a note and of a request. From it follow
`NoteTypesKept`, `CallsHaveAnOwner` and `NoDegradedReadingStored`, and with one more conjunct each

* `SleepsInTime` (`SleepLeavesTime`), if the wait leaves more than the safety margin and the cutoff together (6 s against 0.4 s) and the first
  model has a timeout above the cutoff;
* `CallsEndSoonAfterDeadline` (`OverrunBounded`), for any number of keys and with or without a thinking config. The invariant `CallFits` is about all
  requests an open call may still send: when it begins the deadline leaves the timeout, the margin and more than the cutoff; each answer takes one request off what is
  to come, and each unit of time takes one off both sides;
* `BreakersYieldOnlyToRepairs` (`OnlyRepairsPassBreakers`): between the look at the breaker and the first attempt nobody else runs;
* `OnlyOverlappingNotesReplace` (`ReplacedOnlyByOverlap`): who puts a reading into the store has looked for it when it began;
* `LoneNoteWaitsForAReason` (`WaitNotInVain`) for one note, if 0 is not among the suggested delays (the table again). Its invariant
  `WaitIsReal` says of the shortest wait noted so far, while the loop goes on, that it is that of a model before the present place in the chain
  whose breaker is closed and which has a key parked for no longer than that. Time passes only while the note sleeps or awaits
  a call, and brings the end of the park as near as that of the sleep.

**PipelineProofs** holds for any number of notes and both policies. `PipelineInv` strengthens the checked invariants: the
bounds are known to be infeasible from `diagnose` on, not only when the service gives up, and a degraded reading is
flagged at every stage. From it follow `PipelineTypes`; `PlansAreForReportedNotes`, where the idle plan is the announced exception; `HedgesGoFirst`, which says what
is infeasible when the service gives up and what is feasible when it does not; `DegradationIsAnnounced`; and
`PipelineKeepsPromise`: Pipeline implements the safety part of PlanService (`KeepsPromise`), each step being the one answer or a stutter.

**ServiceProofs** is about the composition. Every step of Service is one of NoteInterpreter or leaves it alone, so `NoteInv` holds from the
richer initial states too (`ServiceCallsHaveAnOwner`).

* `AnswerInTime` (`AnsweredInTime`), if the wait leaves more than the safety margin and the cutoff together. `DeadlineInv` joins `CallFits`,
  `SleepLeavesTime` and a bound on `late`: once the deadline has passed only an open call is awaited, and what it may still take, with the time
  it has taken since, is within `Overrun`. No sleep reaches the deadline, no attempt is begun after it, and the correction
  loop begins corrections then only to have them give up at once. The stages may take any time.
* `ServiceImplementsPipeline` (`ImplementsPipeline`): the readings of the coroutines are readings Pipeline allows. `ServiceInv` says that the
  stages and the phases of the request belong together, `ReadingsOK` that a model's reading is never degraded, and `NotesOK` that a note whose job ended degraded is reported so; the
  step that matters is `Corrected`, where a correction that fails keeps the reading and none makes a reading degraded that was not.
* `AcceptedIsSound` and `StatusIsAsDocumented` (`StatusAsDocumented`), for bodies whose fields are of their types or missing: 400, 422 and acceptance are
  given as documented, and what is accepted is a sound day. The schema compares the number of entries, and the set of their hours, with the day;
  that the documented condition, an entry for each hour, says the same is a pigeonhole argument (`OneEntryEach`). That 422 at the end is given only
  under the policy "error", for directives that cannot be obeyed, comes from Pipeline through the refinement.

**ReadingsProofs** holds for a day of any even length, any texts and any replies.

* `WindowsAreClockwise`: `window_to_hours` gives the hours clockwise from start to end. `ParserIsRight`: of any phrase that is not
  in `Misheard`, with a count of at most a day and clock times a clock can show, the parser makes its meaning or nothing. `TimeIsTheHour` and `SeenRight` compare
  its arithmetic of marks with `HourOf`, token by token.
* `BlockingIsUnreachable`, by cases of `normalize`.
* `RangesHold` (`AppliedInRange`), for replies and texts of their types; the invariant is `ReadingOK` of each reading, which the soft fallback,
  the rules and a correction each preserve.
* `NamedHoursAreConstrained` (`HoursMeantAreCovered`), for the same phrases.
* `HedgesAreRestrictive` (`HedgesOnlyTighten`), for texts and replies of their types, an alternative being a finite set of quantities. The invariant says that the directives
  of each reading can be combined (`ReadingCombines`), the rest is `HedgesTighten` below.
* `NoFalseAlarm` (`RightReplyAccepted`), if a reply has at most one quantity and one value, as its schema has: each issue of `validate` is shown absent in a
  lemma.

**BoundsProofs** is about `build_bounds`, for any hours, any number of notes and any finite set of directives. The theorems of the library
for induction take an operator as a parameter, which no installed prover can instantiate. Instead of a predicate the lemmas here take a
*set*: `InductionUpTo` and `InductionOnSubsets` say that a set which has the first member, and with each the next, has all of
them; they follow from the least counterexample, which exists because `<` on the naturals is well-founded. With them come the minimum and maximum of a finite set,
and the products and sums that the folds of the community modules compute (`FoldExists`, `ProductIsMonotone`,
`ProductWithNegative`, `SumIsMonotone`). `MoreDirectivesTighten` and `HedgesTighten` conclude: more directives give tighter
bounds, if no factor is negative, or if those which are belong to one note.

**DispatchProofs** holds for a day of any length, any notes, and any requests and readings that satisfy `ScenarioAssumption` (a valid
request, and no more demand than `Unlimited`) and `ReadingAssumption` (directives of the note, those reported being in range). Six inductive invariants
build on one another: `ProblemInv` (the bounds are those of the readings they were built from),
`SolutionInv` (a solution is an optimum of these bounds, and an answer is one of four outcomes), `ReportedInv`
(the bounds belong to the readings reported), `StagesInv` (what is known to be solvable of which readings, stage by stage), and
for arithmetic without rounding `ExactInv` (a plan passes its replay) and `UnsolvedInv` (only a problem without solution is bent).

* `BlameIsJustified` (`ConflictsAreReal`): each cause of `diagnose` is a conflict that no schedule avoids. By induction on the hours:
  what the battery can hold at most, with all hours charging as fast as allowed, bounds the energy of each schedule.
* `PhysicsIsObeyed` (`PhysicsAlwaysObeyed`), for any `Micro`: every plan returned, the idle plan included, is accepted by the replay of the physics, where an
  hour has the solar of the request or of the combined factors, whichever is more. (Factors that hedges have made negative combine to more than the
  request has only when two notes have one.)
* `AnyReadingIsObeyed` (`ValidForEveryReading`), for any `Micro`: a plan that passed its replay passes that of any choice among the readings of the notes.
* Without rounding (`Micro = 1`): `ElasticPlansPass` (`ElasticPasses`), `CheapestPlanReturned`
  (`PlanIsCheapest`), `DirectivesBendLeast` (`BendsLeast`) and `OnlyRoundingDrops` (`DirectivesNeverDropped`). The
  run `dispatch_dropped` violates the last one by rounding; the theorem says that nothing else does. The cost of a plan is compared with that of a schedule hour by hour, and
  the optimum exists because the schedules are finitely many (`FunctionsAreFinite`).
* `DispatchImplementsPipeline` (`ImplementsPipeline`), for any `Micro`: what Pipeline leaves open is what the optimizer can do. No hypothesis on the factors is needed. The steps that matter are those of `solve`:
  without directives every problem is solvable, readings without hedges give the same bounds twice, and
  if `diagnose` finds no cause, it names every note with a directive, and there is one.

One hypothesis is about hedges, whose factors nobody validates. `NoNegatives` (`AnyReadingIsObeyed`):
one negative factor shows why. If note 0 says 1/2 with a hedge of -1, and note 1 says 1/2 with a hedge of 0, the bounds
with all hedges have the factor 0, whereas the readings -1 and 1/2 alone have -1/2, which no plan obeys. Readings with
factors in range, those of the run `dispatch` among them, satisfy it.

Only model-checked: the liveness properties (`CallReturns`, `RequestInterpreted`, the fairness part of `AlwaysAnswers`), which are outside the
prover's reach. Every other property of a passing run is a theorem, in some cases under a hypothesis that the statement names:
the divergences above and the paragraph before this one show what goes wrong where it fails. What rounding costs at most (`Micro > 1`) in money and in bent directives is neither
proved nor checked: the fallbacks make the plan obey the physics, and that is proved for any `Micro`.

## What is not modelled

* *Text.* The regular expressions that find phrases, numbers and topics in English: Readings starts from what they found. The wording of issues,
  conflicts, warnings and summaries.
* *The solver*: HiGHS is taken to return an optimum, exactly. Its tolerances, statuses other than optimal and infeasible, and the
  `RuntimeError` of `solver.py:100-102` are left out. The secondary objective is `SecondaryObjective`; its tolerance is left out.
* *Unexpected exceptions.* The 500 of `routes.py` and `main.py`; Service has the documented outcomes. `/health` and the endpoints of the demo page.
* *Warm-up* (`main.py:24-43`): a further request to the interpreter. What it may leave behind is in `ServiceInit`.
* *Totals of a plan, and the checks of `replay` that hold by the construction of a plan* (enumerations, order, totals).
* *Logging, traces, prompts, static page, frontend*: no influence on the properties.
* *Threads and processes*: there is one event loop.

## Plan

Done: every component with state, the guardrails, the validation of requests, and their composition, with the theorems above for every safety property the passing runs check. What is left, in this order:

1. Several requests in Service at once. NoteInterpreter has them; their stages share nothing but the event loop.
2. DispatchPipeline fed by Readings instead of by a set of readings that have passed the guardrails.
3. How far rounding may move the cost of a plan and the bending of directives (`Micro > 1`), as a bound that grows with the hours; and the longest run
   of hours for which errors of rounding stay within the tolerance, so that no directive is dropped.
