-------------------------------- MODULE Claims --------------------------------
(***************************************************************************)
(* What the repository's documentation, comments and tests say of the        *)
(* scheduler and the code does not do.                                       *)
(***************************************************************************)
EXTENDS Scheduler, FiniteSetsExt

\* Two collectives that share a participant are never active together: "the two
\* collectives must NOT safely run concurrently" (conflict.hpp, forbids_overlap).
\* active_conflicts looks at active grants only, not at those granted or being
\* handed off.
ConflictingNeverBothActive ==
  \A r, s \in records :
    r # s /\ lifecycle[r] = "ACTIVE" /\ lifecycle[s] = "ACTIVE" =>
      members(request[r]) \cap members(request[s]) = {}

\* "a stale grant may not become ACTIVE" (lifecycle.hpp).  The second critical
\* section of handoff does not ask whether the grant has been ended meanwhile.
StaleGrantNeverActive == active \cap terminal = {}

\* The scheduler owns "active collective accounting" (README): active_grants
\* counts the active grants.  fenceWorkerBoot ends them without counting down,
\* and supersede counts down for a grant that never was active.
ActiveCountExact == active_grants = Cardinality(active)

\* supersede is to "Revoke any in-flight grant (external, after unlock)" (comment
\* in scheduler.cpp): what the fabric executes of a generation that is past is
\* about to be revoked, by supersede or by the handoff that has yet to return.
\* supersede never calls the fabric.
SupersededWorkIsRevoked ==
  \A g \in fabric :
    issued[g].request_gen # request_gen[issued[g].request] =>
      g \in revoking \/ dispatch[g] = "accepted"

\* "Dependency invalidates / advances before execution -> old grant rejects"
\* (test_semantics.cpp).  revalidate_grant compares generations only.
HandoffDependenciesSatisfied ==
  [][\A g \in dispatched_by_step :
       dependency_readiness(request[issued[g].request]) = "READY"]_vars

\* "Overlap is allowed only when constraints and resource evidence permit it"
\* (README): what a decision lets overlap fits in the residual bandwidth.
\* can_overlap adds up pairs, not the group.
GroupWithinResidual ==
  [][congestion # None /\ Cardinality(issued_by_step) > 1 =>
       MapThenSumSet(LAMBDA g : plans[issued'[g].body.plan].bandwidth, issued_by_step)
         <= congestion.residual]_vars

\* Work that was granted and then withdrawn, and that the next decision could grant.
withdrawn_yet_eligible(r) ==
  /\ r \in records /\ lifecycle[r] = "REVALIDATION_REQUIRED" /\ hard_eligible(r)
  /\ \E g \in GrantIds : issued[g] # None /\ issued[g].request = r

\* "Recovered GRANTED/ACTIVE work [...] requires fresh evidence and a fresh schedule
\* generation" (README): with both, it is granted again, unless it is cancelled or
\* the evidence moves on.  schedule() has no way out of REVALIDATION_REQUIRED.
RecoveredWorkIsRegranted ==
  \A r \in RequestIds : withdrawn_yet_eligible(r) ~> ~withdrawn_yet_eligible(r)

\* Somebody goes on calling schedule().
SchedulingSpec == Spec /\ WF_vars(schedule)
===============================================================================
