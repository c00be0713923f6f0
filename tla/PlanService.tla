---------------------------- MODULE PlanService ----------------------------
(***************************************************************************)
(* What POST /optimize-energy promises of one valid request: it is         *)
(* answered once, with a plan that either obeys the reported directives or *)
(* says that it may not, or with 422 when the service is configured to     *)
(* refuse (README.md:184-197, planning.md 5.3).                            *)
(***************************************************************************)
EXTENDS Integers

VARIABLES
    policy,  \* the configured infeasible_policy, "best_effort" or "error"
    answer

Pending == [status |-> "pending", checked |-> "nothing", announced |-> FALSE]

(* checked: what a replay of the plan has found it to satisfy.             *)
(* announced: the summary says that directives may not all be satisfied.   *)
Answers == [status : {"pending", "plan", "refused"},
            checked : {"directives", "physics", "nothing"},
            announced : BOOLEAN]

Acceptable(a) ==
    \/ a.status = "plan" /\ (a.checked = "directives" \/ a.announced)
    \/ a.status = "refused" /\ policy = "error"

Answer ==
    /\ answer = Pending
    /\ answer' \in {a \in Answers : Acceptable(a)}
    /\ UNCHANGED policy

Init == policy \in {"best_effort", "error"} /\ answer = Pending
Next == Answer
Spec == Init /\ [][Next]_<<policy, answer>>
FairSpec == Spec /\ WF_<<policy, answer>>(Next)
=============================================================================
