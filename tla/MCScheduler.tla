---------------------------- MODULE MCScheduler ----------------------------
(* Small instances of Scheduler for TLC. *)
EXTENDS Claims, GrantContract

CONSTANTS p1, p2, p3, b1, b2, b3, plan1, plan2, plan3, dep1

\* A request over the members and generations of ms.
Req(ms, plan, overlap) ==
  [collective_gen |-> 1, participants |-> ms, plan |-> plan, plan_gen |-> 1,
   dependencies |-> <<>>, reservation_gen |-> 0, demand |-> 1, resources |-> {},
   overlap |-> overlap, workload_gen |-> 1, well_formed |-> TRUE,
   window |-> [earliest |-> 0, latest |-> 0, deadline |-> 0, duration |-> 0]]

One(gen) == Req([p \in {p1} |-> gen], plan1, "OVERLAP_ALLOWED")
Both(gen) == Req([p \in {p1, p2} |-> gen], plan1, "OVERLAP_ALLOWED")
Alone(p, plan, overlap) == Req([q \in {p} |-> 1], plan, overlap)

Part(p, gen, b, ready) == [id |-> p, gen |-> gen, boot |-> b, ready |-> ready]
Plan(plan, gen, valid, link) ==
  [id |-> plan, gen |-> gen, valid |-> valid, resources |-> {}, links |-> {link},
   bandwidth |-> 1]
Dep(gen, satisfied) == [id |-> dep1, gen |-> gen, satisfied |-> satisfied]
Res(gen, valid) == [gen |-> gen, valid |-> valid]
Cong(gen, at_ceiling, residual) == [gen |-> gen, at_ceiling |-> at_ceiling, residual |-> residual]
Cap(gen, usable) == [gen |-> gen, usable |-> usable]

Policy(active_bound, group_bound) ==
  [max_collectives |-> 10, max_participants_per_collective |-> 10,
   max_active_grants |-> active_bound, max_overlap_group |-> group_bound]
Wide == Policy(10, 10)
Narrow == [max_collectives |-> 2, max_participants_per_collective |-> 1,
           max_active_grants |-> 2, max_overlap_group |-> 1]

Reserved(req) == [req EXCEPT !.reservation_gen = 1]

\* race: calls racing over requests that share a participant, a link or a
\* reservation, are exclusive, or may overlap; the participant p1 moves on
RaceRequests ==
  {Reserved(One(1)), Both(1), Alone(p1, plan1, "EXCLUSIVE"), Alone(p2, plan1, "OVERLAP_ALLOWED"),
   Alone(p2, plan2, "OVERLAP_LIMITED"), Reserved(Alone(p2, plan2, "OVERLAP_ALLOWED"))}
RaceParticipants == {Part(p1, 1, b1, TRUE), Part(p2, 1, b2, TRUE), Part(p1, 2, b3, TRUE)}
RacePlans == {Plan(plan1, 1, TRUE, "l1"), Plan(plan2, 1, TRUE, "l2")}
RaceReservations == {Res(1, TRUE)}
RacePolicies == {Narrow}

\* both_active: two requests that share p1
SharedRequests == {One(1), Both(1)}

\* reissue and the claims about one request
ReissueParticipants == {Part(p1, 1, b1, TRUE), Part(p1, 2, b3, TRUE)}
ReissuePlans == {Plan(plan1, 1, TRUE, "l1")}
ReissueRequests == {One(1)}

\* evidence: one request that depends on every kind of evidence
EvidenceRequests ==
  {[One(1) EXCEPT !.dependencies = <<[id |-> dep1, gen |-> 1]>>, !.reservation_gen = 1,
                  !.demand = 2,
                  !.window = [earliest |-> 1, latest |-> 2, deadline |-> 3, duration |-> 1]],
   [One(1) EXCEPT !.window.earliest = 2, !.window.latest = 1]}
EvidenceParticipants ==
  {Part(p1, 1, b1, TRUE), Part(p1, 1, b1, FALSE), Part(p1, 2, b1, TRUE)}
EvidencePlans == {Plan(plan1, 1, TRUE, "l1"), Plan(plan1, 1, FALSE, "l1"), Plan(plan1, 2, TRUE, "l1")}
EvidenceDeps == {Dep(1, TRUE), Dep(1, FALSE), Dep(2, TRUE)}
EvidenceReservations == {Res(1, TRUE), Res(2, TRUE)}
EvidenceCongestion == {Cong(1, FALSE, 2), Cong(2, TRUE, 0)}
EvidenceCapacity == {Cap(1, 2), Cap(2, 1)}

\* GroupWithinResidual: three plans of one unit each against a residual of two
TrioRequests == {Alone(p1, plan1, "OVERLAP_ALLOWED"), Alone(p2, plan2, "OVERLAP_ALLOWED"),
                 Alone(p3, plan3, "OVERLAP_ALLOWED")}
TrioParticipants == {Part(p1, 1, b1, TRUE), Part(p2, 1, b1, TRUE), Part(p3, 1, b1, TRUE)}
TrioPlans == {Plan(plan1, 1, TRUE, "l1"), Plan(plan2, 1, TRUE, "l2"), Plan(plan3, 1, TRUE, "l3")}
TrioCongestion == {Cong(1, FALSE, 2)}
============================================================================
