------------------------------ MODULE Lifecycle ------------------------------
(***************************************************************************)
(* The guarded lifecycle of one collective: lifecycle.hpp.                  *)
(***************************************************************************)

\* A request id for which the scheduler keeps no record has no lifecycle.
ABSENT == "ABSENT"

LifecycleState ==
  {"DECLARED", "WAITING", "READY", "ELIGIBLE", "QUEUED", "GRANTED",
   "DISPATCHING", "ACTIVE", "DRAINING", "COMPLETED", "CANCELLED", "FAILED",
   "REVALIDATION_REQUIRED", "SUPERSEDED", "STALE", "RETIRED"}

\* The ways out that every state of live work, DRAINING apart, has in common.
withdrawals ==
  {"REVALIDATION_REQUIRED", "CANCELLED", "SUPERSEDED", "STALE", "RETIRED",
   "FAILED"}

\* Lifecycle::can_transition, as the set of states each state may move to.
successors(from) ==
  CASE from = "DECLARED"    -> {"WAITING", "READY"} \cup withdrawals
    [] from = "WAITING"     -> {"READY"} \cup withdrawals
    [] from = "READY"       -> {"ELIGIBLE", "WAITING"} \cup withdrawals
    [] from = "ELIGIBLE"    -> {"QUEUED"} \cup withdrawals
    [] from = "QUEUED"      -> {"GRANTED", "WAITING"} \cup withdrawals
    [] from = "GRANTED"     -> {"DISPATCHING"} \cup withdrawals
    [] from = "DISPATCHING" -> {"ACTIVE"} \cup withdrawals
    [] from = "ACTIVE"      -> {"COMPLETED", "DRAINING"} \cup withdrawals
    [] from = "DRAINING"    -> {"COMPLETED", "ACTIVE", "FAILED", "SUPERSEDED",
                                "STALE", "RETIRED"}
    [] from = "REVALIDATION_REQUIRED" ->
         {"READY", "WAITING"} \cup (withdrawals \ {"REVALIDATION_REQUIRED"})
    [] from = "FAILED"      -> {"REVALIDATION_REQUIRED", "RETIRED"}
    [] from \in {"COMPLETED", "CANCELLED", "SUPERSEDED", "STALE"} -> {"RETIRED"}
    [] OTHER                -> {}

can_transition(from, to) == to \in successors(from)

\* Lifecycle::transition where the caller catches the error: the state moves
\* when the table allows it and stays when it does not.
transition(from, to) == IF can_transition(from, to) THEN to ELSE from

\* is_terminal_state of scheduler.cpp; FAILED is not one of them.
terminal_states == {"COMPLETED", "CANCELLED", "SUPERSEDED", "STALE", "RETIRED"}

\* Mutation of withdrawable: work being handed off is not withdrawn.
withdrawable_before_dispatch == {"READY", "ELIGIBLE", "QUEUED", "GRANTED", "ACTIVE"}

\* The states a loss of participant authority withdraws work from: the case
\* labels that publishParticipant and fenceWorkerBoot share.
withdrawable ==
  {"READY", "ELIGIBLE", "QUEUED", "GRANTED", "DISPATCHING", "ACTIVE"}
==============================================================================
