-------------------------------- MODULE MCFair --------------------------------
(* A small instance of FairScheduler: collectives that meet on two            *)
(* participants, with different priorities, deadlines and overlap modes.      *)
EXTENDS FairScheduler

CONSTANTS p1, p2, b1, plan1

Req(ms, collective, priority, overlap, deadline, cancellable) ==
  [collective_gen |-> 1, participants |-> [p \in ms |-> 1], plan |-> plan1, plan_gen |-> 1,
   dependencies |-> <<>>, reservation_gen |-> 0, demand |-> 1, resources |-> {},
   overlap |-> overlap, workload_gen |-> 1, well_formed |-> TRUE,
   window |-> [earliest |-> 0, latest |-> 0, deadline |-> deadline, duration |-> 1],
   collective |-> collective, priority |-> priority, authoritative |-> TRUE,
   cancellable |-> cancellable]

FairRequests ==
  {Req({p1}, 1, 0, "OVERLAP_ALLOWED", 0, TRUE), Req({p1}, 2, 1000, "OVERLAP_ALLOWED", 2, FALSE),
   Req({p2}, 3, 0, "EXCLUSIVE", 0, FALSE), Req({p1, p2}, 4, 500, "OVERLAP_LIMITED", 4, FALSE)}
FairParticipants == {[id |-> p, gen |-> 1, boot |-> b1, ready |-> TRUE] : p \in {p1, p2}}
FairPlans ==
  {[id |-> plan1, gen |-> 1, valid |-> TRUE, resources |-> {}, links |-> {}, bandwidth |-> 1]}
FairPolicy ==
  [max_collectives |-> 10, max_participants_per_collective |-> 10, max_active_grants |-> 2,
   max_overlap_group |-> 2, max_bypass_count |-> 2, deficit_steps |-> 2]
===============================================================================
