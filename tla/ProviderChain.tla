--------------------------- MODULE ProviderChain ---------------------------
(***************************************************************************)
(* The circuit breaker per model and the timeout of an attempt, of         *)
(* src/app/llm/provider_chain.py and src/app/pipeline/deadline.py, on top  *)
(* of the Gemini client.  A breaker is the time it stays open.             *)
(***************************************************************************)
EXTENDS GeminiClient

CONSTANTS
    NModels,          \* length of the model chain; models are 1 .. NModels
    PrimaryTimeout,   \* llm_timeout_s, for the first model
    FallbackTimeout,  \* llm_fallback_timeout_s, for the others
    SafetyMargin,     \* 0.3 s in timeout_for
    TimeoutFloor,     \* 0.05 s: timeout_for returns no less
    Cutoff,           \* 0.1 s: with no more than this no attempt is made
    BreakerTime       \* _AUTH_BREAKER_S

ASSUME ChainAssumption ==
    /\ NModels \in Nat \ {0}
    /\ Models = 1 .. NModels
    /\ PrimaryTimeout \in Nat /\ FallbackTimeout \in Nat
    /\ SafetyMargin \in Nat
    /\ TimeoutFloor \in Nat /\ Cutoff \in Nat /\ TimeoutFloor <= Cutoff
    /\ BreakerTime \in Nat \ {0}

VARIABLE openFor  \* model -> time its breaker stays open

chainVars == <<clientVars, openFor>>

IsDisabled(m) == openFor[m] > 0

BudgetFor(m) == IF m = 1 THEN PrimaryTimeout ELSE FallbackTimeout

(* Mutant: the deadline is not consulted. *)
TimeoutOfStage(stage, remaining) == stage

(* deadline.timeout_for(stage) *)
TimeoutFor(stage, remaining) ==
    LET room == IF stage <= remaining - SafetyMargin THEN stage ELSE remaining - SafetyMargin
    IN  IF room < TimeoutFloor THEN TimeoutFloor ELSE room

(* call_model up to its first await: too little time is a TimeoutError      *)
(* before the client is asked.  What is enough for an attempt may be less   *)
(* than wait_for then grants it.                                            *)
OutOfTime(m, remaining) == TimeoutFor(BudgetFor(m), remaining) <= Cutoff

CallModel(t, m, remaining, think) ==
    /\ ~OutOfTime(m, remaining)
    /\ Begin(t, m, TimeoutFor(BudgetFor(m), remaining), think)
    /\ UNCHANGED openFor

(* the except clauses of call_model, when the client has answered *)
TripBreaker(t) ==
    openFor' = IF call[t].out = "auth" THEN [openFor EXCEPT ![call[t].model] = BreakerTime]
                                       ELSE openFor

ChainResume(t) == Resume(t) /\ UNCHANGED openFor

ChainTick == ClientTick /\ openFor' = [m \in Models |-> Minus1(openFor[m])]

ChainInit == Init /\ openFor = [m \in Models |-> 0]

ChainTypeOK == TypeOK /\ openFor \in [Models -> Nat]
=============================================================================
