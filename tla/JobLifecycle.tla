---------------------------- MODULE JobLifecycle ----------------------------
(***************************************************************************)
(* What one background job promises to the rest of the workbench: its      *)
(* status moves along the legal-transition table of app/jobs.py and never  *)
(* leaves a terminal status, and the retries it has used never shrink and  *)
(* leave budget for every run that is still to come.                       *)
(*                                                                         *)
(* JobEngine is shown to implement this module.                            *)
(***************************************************************************)
EXTENDS Integers

CONSTANTS Jobs, MaxRetries

VARIABLES status, retries

lifeVars == <<status, retries>>

Statuses == {"queued", "running", "retry_wait", "cancelled", "succeeded", "failed"}

TerminalStatuses == {"succeeded", "failed", "cancelled"}

(* _ALLOWED_TRANSITIONS *)
AllowedTransitions ==
    {<<"queued", s>>     : s \in {"running", "cancelled", "failed"}} \cup
    {<<"running", s>>    : s \in {"succeeded", "retry_wait", "failed", "cancelled"}} \cup
    {<<"retry_wait", s>> : s \in {"running", "cancelled", "failed"}}

(* can_transition; a row is also inserted as queued (enqueue_job). *)
CanTransition(from, to) ==
    \/ from = "absent" /\ to = "queued"
    \/ <<from, to>> \in AllowedTransitions

-----------------------------------------------------------------------------

LifeInit ==
    /\ status = [j \in Jobs |-> "absent"]
    /\ retries = [j \in Jobs |-> 0]

(* A job that may run again has a retry left, or has not failed yet. *)
HasBudget(s, n) ==
    s \in {"queued", "running", "retry_wait"} => n < MaxRetries \/ n = 0

(* Job j takes a legal transition; only a failed attempt costs a retry.    *)
Transition(j) ==
    /\ CanTransition(status[j], status'[j])
    /\ \/ retries'[j] = retries[j]
       \/ /\ retries'[j] = retries[j] + 1
          /\ status[j] = "running"
          /\ status'[j] \in {"retry_wait", "failed"}
    /\ HasBudget(status'[j], retries'[j])

(* One commit may move several jobs (recover_expired_jobs), each legally.  *)
Step ==
    \A j \in Jobs :
        \/ status'[j] = status[j] /\ retries'[j] = retries[j]
        \/ Transition(j)

LifeSpec == LifeInit /\ [][Step]_lifeVars
=============================================================================
