------------------------------ MODULE Scheduler ------------------------------
(***************************************************************************)
(* The scheduler of scheduler.cpp: one mutex, evidence published by           *)
(* generation, collectives driven through a guarded lifecycle, grants bound   *)
(* to the evidence they were issued on, and a handoff to the communication    *)
(* fabric that leaves the mutex while it calls out.                           *)
(*                                                                            *)
(* A method that holds the mutex from beginning to end is one action.  A      *)
(* method that calls out between two critical sections, or after the last     *)
(* one, is one action per critical section and one per call; any other        *)
(* method may run in between.  A method that throws or returns early without  *)
(* an assignment changes nothing and has no step.                             *)
(***************************************************************************)
EXTENDS Integers, FiniteSets, Functions, Lifecycle, Conflict

CONSTANTS
  Participants, Plans, Dependencies,
  Boots,              \* worker incarnations: worker, worker boot and source boot
  None,               \* an absent map entry or an empty optional
  RequestInputs,      \* the requests clients may submit or supersede with
  ParticipantInputs, PlanInputs, DependencyInputs, ReservationInputs,
  CongestionInputs, CapacityInputs,        \* the evidence that may be published
  PolicyInputs,       \* the configurations setPolicy may install
  InitialPolicy,
  FencedBoots,        \* the incarnations an operator may fence
  MaxRequestId, MaxRequestGen, MaxGrantId, MaxEpoch, MaxRecoveries,
  MaxAdvance,         \* the longest step time is advanced by
  TimeModulus         \* 2^64 in the code: times are uint64_t nanoseconds

RequestIds == 1..MaxRequestId
GrantIds == 1..MaxGrantId

\* What is kept of a published participant; ready stands for ready with a known
\* readiness source.
ParticipantState == [gen : Nat, boot : Boots, ready : BOOLEAN]

\* A grant, as clients carry it: the request, whose members and plan generations
\* are copied into the grant's body, and the evidence of the decision.
Grant == [request : RequestIds, request_gen : Nat, body : RequestInputs,
          epoch : Nat, congestion_gen : Nat]

\* How far a handoff has come.
CallState == {"none", "accepting", "accepted", "refused", "returned"}

ASSUME BoundsAssumption ==
  /\ {MaxRequestId, MaxRequestGen, MaxGrantId, MaxEpoch, MaxAdvance, MaxRecoveries} \subseteq Nat
  /\ TimeModulus \in Nat \ {0}

\* The inputs are values of their C++ types: they name known entities, and
\* their generations are unsigned.
ASSUME InputsAssumption ==
  /\ \A req \in RequestInputs :
       /\ DOMAIN req.participants \subseteq Participants
       /\ \A p \in DOMAIN req.participants : req.participants[p] \in Nat
       /\ req.plan \in Plans
  /\ \A in \in ParticipantInputs :
       in.id \in Participants /\ in.gen \in Nat /\ in.boot \in Boots /\ in.ready \in BOOLEAN
  /\ \A in \in PlanInputs : in.id \in Plans
  /\ \A in \in DependencyInputs : in.id \in Dependencies
  /\ \A in \in CongestionInputs \cup CapacityInputs : in.gen \in Nat

\* The dependencies of a request are numbered, and the bounds of a policy are sizes.
ASSUME SizesAssumption ==
  /\ \A req \in RequestInputs : DOMAIN req.dependencies \subseteq Nat
  /\ \A in \in PolicyInputs \cup {InitialPolicy} :
       in.max_overlap_group \in Nat /\ in.max_active_grants \in Nat

ASSUME NoneAssumption ==
  /\ None \notin RequestInputs \cup CongestionInputs \cup CapacityInputs
  /\ None \notin ParticipantState /\ None \notin Grant /\ None \notin GrantIds

VARIABLES
  \* struct Record
  lifecycle, request, request_gen, current_grant,
  \* published evidence, and the reverse index from participant to requests
  participants, plans, deps, reservation, congestion, capacity,
  participant_requests,
  \* struct GrantState: issued holds the values clients carry, grants the ids
  \* the scheduler still has in its table
  issued, grants, active, terminal, active_by_participant, active_grants,
  epoch, now, policy, next_request_id, next_grant_id,
  \* calls in progress outside the mutex, and what the fabric executes
  dispatch, revoking, fabric,
  recoveries

recordVars == <<lifecycle, request, request_gen, current_grant>>
evidenceVars == <<participants, plans, deps, reservation, congestion, capacity>>
grantVars == <<issued, grants, active, terminal, active_by_participant,
               active_grants, next_grant_id>>
callVars == <<dispatch, revoking, fabric>>
clockVars == <<epoch, now, policy>>
vars == <<recordVars, evidenceVars, participant_requests, grantVars, clockVars,
          next_request_id, callVars, recoveries>>

-------------------------------------------------------------------------------
(* Requests *)

\* The members of a request's participant list; the participants field maps
\* each of them to the generation the request requires.
members(req) == DOMAIN req.participants

\* well_formed stands for the checks that look at one field of the request
\* only (kind, duplicates, vector lengths, null ids, finite units, sum overflow)
\* and for the bounds on the numbers of claims and of dependencies.
validate_request(req) ==
  LET w == req.window IN
  /\ req.well_formed
  /\ members(req) # {}
  /\ Cardinality(members(req)) <= policy.max_participants_per_collective
  /\ w.latest # 0 => w.earliest <= w.latest
  /\ w.deadline # 0 => w.earliest <= w.deadline
  /\ w.deadline # 0 /\ w.latest # 0 => w.latest <= w.deadline

records == {r \in RequestIds : lifecycle[r] # ABSENT}

\* Mutation of is_terminal_state: a completed record is not seen as terminal.
is_withdrawn_state(r) == lifecycle[r] \in terminal_states \ {"COMPLETED"}

is_terminal_state(r) == lifecycle[r] \in terminal_states

\* Mutation of indexed_under: the reverse index is not maintained.
indexed_nowhere(r, req) == participant_requests

indexed_under(r, req) ==
  [p \in Participants |-> IF p \in members(req)
                          THEN participant_requests[p] \cup {r}
                          ELSE participant_requests[p]]

footprint(r) == make_footprint(request[r], plans[request[r].plan], None)
-------------------------------------------------------------------------------
(* Readiness and eligibility *)

participant_current(p, gen) == participants[p] # None /\ participants[p].gen = gen
participant_ready(p) == participants[p] # None /\ participants[p].ready

\* The outcome of the dependency loop, which stops at the first dependency that
\* is missing, of another generation, or unsatisfied.
dependency_readiness(req) ==
  LET stops(i) == LET d == req.dependencies[i] IN
                    \/ deps[d.id] = None
                    \/ deps[d.id].gen # d.gen
                    \/ ~deps[d.id].satisfied
      bad == {i \in DOMAIN req.dependencies : stops(i)}
      first == CHOOSE i \in bad : \A j \in bad : i <= j
      d == req.dependencies[first]
  IN  IF bad = {} THEN "READY"
      ELSE IF deps[d.id] # None /\ deps[d.id].gen # d.gen THEN "STALE"
      ELSE "WAITING_DEPENDENCY"

\* reservation_gen is zero until a reservation is published.
current_reservation_gen == IF reservation = None THEN 0 ELSE reservation.gen
current_congestion_gen == IF congestion = None THEN 0 ELSE congestion.gen

at_congestion_ceiling == congestion # None /\ congestion.at_ceiling

compute_readiness(r) ==
  LET req == request[r]
      plan == plans[req.plan]
      after_plan ==
        IF dependency_readiness(req) # "READY" THEN dependency_readiness(req)
        ELSE IF req.reservation_gen # 0 /\ req.reservation_gen # current_reservation_gen
          THEN "STALE"
        ELSE IF req.reservation_gen # 0 /\ ~reservation.valid
          THEN "WAITING_RESERVATION"
        ELSE IF at_congestion_ceiling THEN "BLOCKED_CONGESTION"
        ELSE IF capacity # None /\ req.demand > capacity.usable
          THEN "WAITING_CAPACITY"
        ELSE "READY"
  IN  IF \E p \in members(req) : /\ participants[p] # None
                                 /\ participants[p].gen # req.participants[p]
        THEN "STALE"
      ELSE IF \E p \in members(req) : ~participant_ready(p)
        THEN "WAITING_PARTICIPANT"
      ELSE IF plan = None THEN "WAITING_COMMUNICATION_PLAN"
      ELSE IF plan.gen # req.plan_gen THEN "STALE"
      ELSE IF ~plan.valid THEN "WAITING_COMMUNICATION_PLAN"
      ELSE after_plan

\* The start window; the sum is a 64-bit one and wraps.
window_open(w) ==
  /\ w.earliest # 0 => now >= w.earliest
  /\ w.latest # 0 => now <= w.latest
  /\ w.deadline # 0 => (now + w.duration) % TimeModulus <= w.deadline

\* The evidence checks that hard_eligible repeats were made by
\* compute_readiness in the same critical section and cannot differ from it.
hard_eligible(r) ==
  /\ compute_readiness(r) = "READY"
  /\ window_open(request[r].window)
  /\ request[r].workload_gen # 0

\* Mutation of derived: granted work that waits for its handoff is ready again.
derived_regranting(r) ==
  IF compute_readiness(r) = "READY" /\ lifecycle[r] \in {"DECLARED", "WAITING", "GRANTED"}
  THEN "READY" ELSE lifecycle[r]

\* The lifecycle schedule() derives from readiness before it ranks.  No record
\* rests in ELIGIBLE, from where the step back to WAITING would throw.
derived(r) ==
  LET rd == compute_readiness(r)
      s == lifecycle[r]
  IN  IF s = "DECLARED" THEN IF rd = "READY" THEN "READY" ELSE "WAITING"
      ELSE IF s = "WAITING" /\ rd = "READY" THEN "READY"
      ELSE IF s \in {"WAITING", "READY", "ELIGIBLE", "QUEUED"} /\ rd = "STALE"
        THEN "REVALIDATION_REQUIRED"
      ELSE IF /\ s = "QUEUED"
              /\ rd \in {"WAITING_DEPENDENCY", "WAITING_PARTICIPANT",
                         "WAITING_COMMUNICATION_PLAN", "WAITING_RESERVATION",
                         "WAITING_CAPACITY"}
        THEN "WAITING"
      ELSE s

candidates ==
  {r \in records : /\ derived(r) \in {"READY", "ELIGIBLE", "QUEUED"}
                   /\ hard_eligible(r)}
-------------------------------------------------------------------------------
(* Overlap and selection *)

can_overlap(a, b) ==
  LET bandwidth(r) == LET plan == plans[request[r].plan] IN
                        IF plan = None THEN 0 ELSE plan.bandwidth
  IN  /\ {request[a].overlap, request[b].overlap} \cap {"UNKNOWN", "EXCLUSIVE"} = {}
      /\ ~forbids_overlap(classify_conflict(footprint(a), footprint(b)))
      /\ ~(/\ request[a].reservation_gen # 0
           /\ request[a].reservation_gen = request[b].reservation_gen)
      /\ congestion # None => /\ bandwidth(a) + bandwidth(b) <= congestion.residual
                              /\ ~at_congestion_ceiling

\* Work already running that r would collide with.  Only grants indexed under
\* a participant of r are looked at.  The cached footprints were recomputed in
\* this critical section.
active_conflicts(r) ==
  \E p \in members(request[r]) : \E g \in active_by_participant[p] :
    /\ g \in grants /\ g \in active /\ g \notin terminal
    /\ issued[g].request \in records
    /\ forbids_overlap(classify_conflict(footprint(r), footprint(issued[g].request)))

exclusive(r) == request[r].overlap = "EXCLUSIVE"

\* Mutation of selectable: the group is not checked pairwise.
selectable_alone(r, before) ==
  /\ active_grants + Cardinality(before) < policy.max_active_grants
  /\ ~active_conflicts(r)
  /\ Cardinality(before) < policy.max_overlap_group

\* Whether the selection loop takes r after having taken the set before.  The
\* breaks are guards: each of them stays true for everything ranked after it.
selectable(r, before) ==
  /\ active_grants + Cardinality(before) < policy.max_active_grants
  /\ exclusive(r) => before = {}
  /\ \A s \in before : ~exclusive(s)
  /\ ~active_conflicts(r)
  /\ \A s \in before : can_overlap(r, s)
  /\ Cardinality(before) < policy.max_overlap_group

ranked_before(S, rank, r) == {s \in S : rank[s] < rank[r]}

\* S is what the loop selects from candidates ranked by rank.
is_selection(S, rank) ==
  \A r \in candidates : r \in S <=> selectable(r, ranked_before(S, rank, r))

\* create_grant: the grant carries the request's identity, generation, member
\* and plan generations (its body) and the evidence of the decision.
new_grant(r) ==
  [request |-> r, request_gen |-> request_gen[r], body |-> request[r],
   epoch |-> epoch, congestion_gen |-> current_congestion_gen]
-------------------------------------------------------------------------------
(* Grants *)

\* Mutation of revalidate_grant: only the epoch, the plan and the participants
\* are compared, not the request's own generation.
revalidate_any_generation(grant) ==
  LET body == grant.body
      plan == plans[body.plan]
  IN  /\ grant.request \in records
      /\ grant.epoch = epoch
      /\ plan # None /\ plan.gen = body.plan_gen /\ plan.valid
      /\ \A p \in members(body) :
           participant_current(p, body.participants[p]) /\ participant_ready(p)

\* Whether the scheduler accepts a grant, by its value, as VALID: what revalidate_grant checks,
\* and nothing else.  Neither capacity, nor the satisfaction of dependencies,
\* nor the validity of the reservation, nor conflicts are looked at again.
revalidate_grant(grant) ==
  LET r == grant.request
      req == request[r]
      plan == plans[grant.body.plan]
  IN  /\ r \in records
      /\ request_gen[r] = grant.request_gen
      /\ req.collective_gen = grant.body.collective_gen
      /\ grant.epoch = epoch
      /\ lifecycle[r] \notin {"CANCELLED", "SUPERSEDED", "STALE", "COMPLETED"}
      /\ plan # None /\ plan.gen = grant.body.plan_gen /\ plan.valid
      /\ Cardinality(members(grant.body)) = Cardinality(members(req))
      /\ \A p \in members(grant.body) :
           participant_current(p, grant.body.participants[p]) /\ participant_ready(p)
      /\ \A i \in DOMAIN req.dependencies :
           LET d == req.dependencies[i] IN deps[d.id] # None /\ deps[d.id].gen = d.gen
      /\ req.reservation_gen # 0 => req.reservation_gen = current_reservation_gen
      /\ congestion # None => congestion.gen = grant.congestion_gen

\* Mutation of index_active_grant: only one participant is indexed.
index_under_one(g) ==
  LET first == CHOOSE p \in members(issued[g].body) : TRUE IN
  [active_by_participant EXCEPT ![first] = @ \cup {g}]

index_active_grant(g) ==
  [p \in Participants |-> IF p \in members(issued[g].body)
                          THEN active_by_participant[p] \cup {g}
                          ELSE active_by_participant[p]]

\* Mutation of deindex_active_grants: ended grants stay in the index.
deindex_nothing(G) == active_by_participant

deindex_active_grants(G) ==
  [p \in Participants |->
     active_by_participant[p] \ {g \in G : p \in members(issued[g].body)}]

\* Mutation of minus_one: the decrement is not guarded.
minus_one_unguarded(n) == n - 1

\* Mutation of minus_one: the decrement is lost.
minus_nothing(n) == n

\* The guarded decrements of active_grants.
minus_one(n) == IF n > 0 THEN n - 1 ELSE n

\* Mutation of grant_of: whatever ends a record's grant finds none.
grant_of_nothing(r) == {}

\* The current grant of r, if the scheduler still has it in its table.
grant_of(r) == {current_grant[r]} \cap grants
-------------------------------------------------------------------------------
(* Evidence *)

publishParticipant(in) ==
  LET p == in.id
      old == participants[p]
      affected == IF old = None THEN {}
                  ELSE {r \in participant_requests[p] \cap records :
                          /\ in.gen > old.gen \/ in.boot # old.boot
                          /\ ~is_terminal_state(r)
                          /\ p \in members(request[r])
                          /\ request[r].participants[p] # in.gen}
  IN  /\ old # None => in.gen >= old.gen
      /\ participants' = [participants EXCEPT ![p] =
           [gen |-> in.gen, boot |-> in.boot, ready |-> in.ready]]
      /\ lifecycle' = [r \in RequestIds |->
           IF r \in affected /\ lifecycle[r] \in withdrawable
           THEN transition(lifecycle[r], "REVALIDATION_REQUIRED")
           ELSE lifecycle[r]]
      /\ UNCHANGED <<request, request_gen, current_grant, plans, deps, reservation,
                     congestion, capacity, participant_requests, grantVars,
                     clockVars, next_request_id, callVars, recoveries>>

otherThanEvidence == <<recordVars, participant_requests, grantVars, clockVars,
                       next_request_id, callVars, recoveries>>

publishPlan(in) ==
  /\ plans[in.id] # None => in.gen >= plans[in.id].gen
  /\ plans' = [plans EXCEPT ![in.id] = in]
  /\ UNCHANGED <<participants, deps, reservation, congestion, capacity, otherThanEvidence>>

publishDependency(in) ==
  /\ deps[in.id] # None => in.gen >= deps[in.id].gen
  /\ deps' = [deps EXCEPT ![in.id] = in]
  /\ UNCHANGED <<participants, plans, reservation, congestion, capacity, otherThanEvidence>>

\* The table keeps every reservation by generation, but only the one of the
\* current generation is ever read: the last one published.
publishReservation(in) ==
  /\ reservation' = in
  /\ UNCHANGED <<participants, plans, deps, congestion, capacity, otherThanEvidence>>

publishCongestion(in) ==
  /\ congestion # None => in.gen >= congestion.gen
  /\ congestion' = in
  /\ UNCHANGED <<participants, plans, deps, reservation, capacity, otherThanEvidence>>

publishCapacity(in) ==
  /\ capacity # None => in.gen >= capacity.gen
  /\ capacity' = in
  /\ UNCHANGED <<participants, plans, deps, reservation, congestion, otherThanEvidence>>

setPolicy(in) ==
  /\ policy' = in
  /\ UNCHANGED <<recordVars, evidenceVars, participant_requests, grantVars, epoch, now,
                 next_request_id, callVars, recoveries>>

advanceCoordinatorEpoch ==
  /\ \E e \in epoch + 1 .. MaxEpoch : epoch' = e
  /\ UNCHANGED <<recordVars, evidenceVars, participant_requests, grantVars, now, policy,
                 next_request_id, callVars, recoveries>>

advanceTime ==
  /\ \E d \in 1..MaxAdvance : now' = (now + d) % TimeModulus
  /\ UNCHANGED <<recordVars, evidenceVars, participant_requests, grantVars, epoch, policy,
                 next_request_id, callVars, recoveries>>
-------------------------------------------------------------------------------
(* Requests: submit, supersede, cancel *)

\* A malformed request is rejected after its id has been consumed.
submit(req) ==
  LET r == next_request_id IN
  /\ Cardinality(records) < policy.max_collectives
  /\ r \in RequestIds
  /\ next_request_id' = r + 1
  /\ IF validate_request(req)
     THEN /\ lifecycle' = [lifecycle EXCEPT ![r] = "DECLARED"]
          /\ request' = [request EXCEPT ![r] = req]
          /\ request_gen' = [request_gen EXCEPT ![r] = 1]
          /\ participant_requests' = indexed_under(r, req)
     ELSE UNCHANGED <<lifecycle, request, request_gen, participant_requests>>
  /\ UNCHANGED <<current_grant, evidenceVars, grantVars, clockVars, callVars, recoveries>>

\* The record is replaced whatever its lifecycle; the SUPERSEDED state of the
\* old record is overwritten before the mutex is released.  The fabric is not
\* told.  active_grants goes down whether or not the old grant was active.
supersede(r, req, gen) ==
  /\ r \in records
  /\ gen > request_gen[r]
  /\ validate_request(req)
  /\ lifecycle' = [lifecycle EXCEPT ![r] = "WAITING"]
  /\ request' = [request EXCEPT ![r] = req]
  /\ request_gen' = [request_gen EXCEPT ![r] = gen]
  /\ current_grant' = [current_grant EXCEPT ![r] = None]
  /\ participant_requests' = indexed_under(r, req)
  /\ active_by_participant' = deindex_active_grants(grant_of(r))
  /\ terminal' = terminal \cup grant_of(r)
  /\ active' = active \ grant_of(r)
  /\ active_grants' = IF current_grant[r] = None THEN active_grants
                      ELSE minus_one(active_grants)
  /\ UNCHANGED <<evidenceVars, issued, grants, next_grant_id, clockVars,
                 next_request_id, callVars, recoveries>>

\* The revocation is sent after the mutex is released: revoking.
cancel(r) ==
  LET live == grant_of(r) \ terminal IN
  /\ r \in records
  /\ ~is_terminal_state(r)
  /\ lifecycle' = [lifecycle EXCEPT ![r] = "CANCELLED"]
  /\ active_by_participant' = deindex_active_grants(live)
  /\ terminal' = terminal \cup live
  /\ active' = active \ live
  /\ active_grants' = IF live \cap active = {} THEN active_grants
                      ELSE minus_one(active_grants)
  /\ revoking' = revoking \cup live
  /\ UNCHANGED <<request, request_gen, current_grant, evidenceVars, participant_requests,
                 issued, grants, next_grant_id, clockVars, next_request_id, dispatch,
                 fabric, recoveries>>
-------------------------------------------------------------------------------
(* Decisions *)

\* create_grant numbers the selected requests in ranking order.
grant_id(S, rank, r) == next_grant_id + Cardinality(ranked_before(S, rank, r))

\* The records take the states derived from readiness; those selected are
\* promoted and given grants.
grant_selected(S, rank) ==
  /\ next_grant_id + Cardinality(S) <= MaxGrantId + 1
  /\ lifecycle' = [r \in RequestIds |-> IF r \in S THEN "GRANTED"
                                        ELSE IF r \in records THEN derived(r)
                                        ELSE ABSENT]
  /\ current_grant' = [r \in RequestIds |-> IF r \in S THEN grant_id(S, rank, r)
                                            ELSE current_grant[r]]
  /\ issued' = [g \in GrantIds |->
                  IF \E r \in S : g = grant_id(S, rank, r)
                  THEN new_grant(CHOOSE r \in S : g = grant_id(S, rank, r))
                  ELSE issued[g]]
  /\ grants' = grants \cup {grant_id(S, rank, r) : r \in S}
  /\ next_grant_id' = next_grant_id + Cardinality(S)
  /\ UNCHANGED <<request, request_gen, evidenceVars, participant_requests, active,
                 terminal, active_by_participant, active_grants, clockVars,
                 next_request_id, callVars, recoveries>>

\* Readiness of every record, candidates, selection and grants in one critical
\* section.  Nothing that follows depends on how candidates are ranked, so any
\* ranking is allowed here.
schedule ==
  \E rank \in Bijection(candidates, 1..Cardinality(candidates)),
     S \in SUBSET candidates :
    is_selection(S, rank) /\ grant_selected(S, rank)
-------------------------------------------------------------------------------
(* Handoff, completion, fencing, recovery *)

\* First critical section of handoff.
handoff(g) ==
  LET r == issued[g].request IN
  /\ issued[g] # None
  /\ revalidate_grant(issued[g])
  /\ can_transition(lifecycle[r], "DISPATCHING")
  /\ lifecycle' = [lifecycle EXCEPT ![r] = "DISPATCHING"]
  /\ dispatch' = [dispatch EXCEPT ![g] = "accepting"]
  /\ UNCHANGED <<request, request_gen, current_grant, evidenceVars, participant_requests,
                 grantVars, clockVars, next_request_id, revoking, fabric, recoveries>>

otherThanCalls == <<recordVars, evidenceVars, participant_requests, grantVars, clockVars,
                    next_request_id, recoveries>>

\* The fabric's answer, called without the mutex.
accept(g) ==
  /\ dispatch[g] = "accepting"
  /\ \/ /\ dispatch' = [dispatch EXCEPT ![g] = "accepted"]
        /\ fabric' = fabric \cup {g}
     \/ /\ dispatch' = [dispatch EXCEPT ![g] = "refused"]
        /\ UNCHANGED fabric
  /\ UNCHANGED <<revoking, otherThanCalls>>

\* What the second critical section of handoff makes of the record and of the
\* grant.  It looks at the record's lifecycle, not at whether g is still the
\* record's current grant.
committed_state(g) ==
  LET s == lifecycle[issued[g].request] IN
  IF s = "DISPATCHING" /\ dispatch[g] = "accepted" THEN "ACTIVE" ELSE s

becomes_active(g) == g \in grants /\ committed_state(g) = "ACTIVE"

\* Mutation of revoked_by_commit: an overtaken grant is not revoked.
revoked_never(g) == {}

\* Mutation of revoked_by_commit: whoever withdrew the work is trusted to have
\* told the fabric.
revoked_unless_withdrawn(g) ==
  IF becomes_active(g) \/ lifecycle[issued[g].request] = "REVALIDATION_REQUIRED"
  THEN {} ELSE {g}

revoked_by_commit(g) == IF becomes_active(g) THEN {} ELSE {g}

\* Second critical section of handoff.
handoff_commit(g) ==
  /\ dispatch[g] \in {"accepted", "refused"}
  /\ dispatch' = [dispatch EXCEPT ![g] = "returned"]
  /\ lifecycle' = [lifecycle EXCEPT ![issued[g].request] = committed_state(g)]
  /\ IF becomes_active(g)
     THEN /\ active' = active \cup {g}
          /\ active_grants' = active_grants + 1
          /\ active_by_participant' = index_active_grant(g)
     ELSE /\ active' = active \ {g}
          /\ UNCHANGED <<active_grants, active_by_participant>>
  /\ revoking' = revoking \cup revoked_by_commit(g)
  /\ UNCHANGED <<request, request_gen, current_grant, evidenceVars,
                 participant_requests, issued, grants, terminal, next_grant_id,
                 clockVars, next_request_id, fabric, recoveries>>

\* The revocation sent by handoff or by cancel, called without the mutex.
revoke(g) ==
  /\ g \in revoking
  /\ revoking' = revoking \ {g}
  /\ fabric' = fabric \ {g}
  /\ UNCHANGED <<dispatch, otherThanCalls>>

\* Mutation of completion_authorized: the epoch is not compared.
completion_any_epoch(g, grant, b) ==
  LET r == grant.request
  IN  /\ r \in records
      /\ g \in grants /\ g \notin terminal
      /\ lifecycle[r] \in {"ACTIVE", "DISPATCHING"}
      /\ current_grant[r] = g
      /\ request_gen[r] = grant.request_gen
      /\ \A p \in members(grant.body) :
           participant_current(p, grant.body.participants[p]) /\ participant_ready(p)
      /\ \E p \in members(grant.body) : participants[p].boot = b
      /\ can_transition(lifecycle[r], "COMPLETED")

\* What complete asks of the grant value a client reports, under the id g, as
\* incarnation b.  The identity of the collective is not among it.
completion_authorized(g, grant, b) ==
  LET r == grant.request
  IN  /\ r \in records
      /\ g \in grants /\ g \notin terminal
      /\ grant.epoch = epoch
      /\ lifecycle[r] \in {"ACTIVE", "DISPATCHING"}
      /\ current_grant[r] = g
      /\ request_gen[r] = grant.request_gen
      /\ request[r].collective_gen = grant.body.collective_gen
      /\ \A p \in members(grant.body) :
           participant_current(p, grant.body.participants[p]) /\ participant_ready(p)
      /\ \E p \in members(grant.body) : participants[p].boot = b
      /\ can_transition(lifecycle[r], "COMPLETED")

\* A completion reported by incarnation b.  The fabric has stopped executing g.
complete(g, b) ==
  LET r == issued[g].request
  IN  /\ issued[g] # None
      /\ completion_authorized(g, issued[g], b)
      /\ lifecycle' = [lifecycle EXCEPT ![r] = "COMPLETED"]
      /\ terminal' = terminal \cup {g}
      /\ active' = active \ {g}
      /\ active_by_participant' = deindex_active_grants({g})
      /\ active_grants' = minus_one(active_grants)
      /\ fabric' = fabric \ {g}
      /\ UNCHANGED <<request, request_gen, current_grant, evidenceVars,
                     participant_requests, issued, grants, next_grant_id, clockVars,
                     next_request_id, dispatch, revoking, recoveries>>

\* active_grants is left as it is, and nothing is revoked at the fabric.
fenceWorkerBoot(b) ==
  LET hit(p) == participants[p] # None /\ participants[p].boot = b
      affected == {r \in records : /\ ~is_terminal_state(r)
                                   /\ \E p \in members(request[r]) : hit(p)}
      cut == UNION {grant_of(r) : r \in affected}
  IN  /\ participants' = [p \in Participants |->
           IF hit(p) THEN [gen |-> participants[p].gen, boot |-> b, ready |-> FALSE]
           ELSE participants[p]]
      /\ lifecycle' = [r \in RequestIds |->
           IF r \in affected /\ lifecycle[r] \in withdrawable
           THEN transition(lifecycle[r], "REVALIDATION_REQUIRED")
           ELSE lifecycle[r]]
      /\ active_by_participant' = deindex_active_grants(cut)
      /\ terminal' = terminal \cup cut
      /\ active' = active \ cut
      /\ UNCHANGED <<request, request_gen, current_grant, plans, deps, reservation,
                     congestion, capacity, participant_requests, issued, grants,
                     active_grants, next_grant_id, clockVars, next_request_id, callVars,
                     recoveries>>

resetDynamicStateForRecovery ==
  /\ recoveries < MaxRecoveries
  /\ recoveries' = recoveries + 1
  /\ participants' = [p \in Participants |-> None]
  /\ plans' = [x \in Plans |-> None]
  /\ deps' = [d \in Dependencies |-> None]
  /\ reservation' = None /\ congestion' = None /\ capacity' = None
  /\ participant_requests' = [p \in Participants |-> {}]
  /\ active_grants' = 0
  /\ grants' = {} /\ active' = {} /\ terminal' = {}
  /\ active_by_participant' = [p \in Participants |-> {}]
  /\ lifecycle' = [r \in RequestIds |->
       IF r \in records /\ ~is_terminal_state(r) THEN "REVALIDATION_REQUIRED"
       ELSE lifecycle[r]]
  /\ current_grant' = [r \in RequestIds |-> None]
  /\ UNCHANGED <<request, request_gen, issued, next_grant_id, clockVars,
                 next_request_id, callVars>>
-------------------------------------------------------------------------------
Init ==
  /\ lifecycle = [r \in RequestIds |-> ABSENT]
  /\ request = [r \in RequestIds |-> None]
  /\ request_gen = [r \in RequestIds |-> 0]
  /\ current_grant = [r \in RequestIds |-> None]
  /\ participants = [p \in Participants |-> None]
  /\ plans = [x \in Plans |-> None]
  /\ deps = [d \in Dependencies |-> None]
  /\ reservation = None /\ congestion = None /\ capacity = None
  /\ participant_requests = [p \in Participants |-> {}]
  /\ issued = [g \in GrantIds |-> None]
  /\ grants = {} /\ active = {} /\ terminal = {}
  /\ active_by_participant = [p \in Participants |-> {}]
  /\ active_grants = 0
  /\ epoch = 1 /\ now = 0 /\ policy = InitialPolicy
  /\ next_request_id = 1 /\ next_grant_id = 1
  /\ dispatch = [g \in GrantIds |-> "none"]
  /\ revoking = {} /\ fabric = {}
  /\ recoveries = 0

Next ==
  \/ \E in \in ParticipantInputs : publishParticipant(in)
  \/ \E in \in PlanInputs : publishPlan(in)
  \/ \E in \in DependencyInputs : publishDependency(in)
  \/ \E in \in ReservationInputs : publishReservation(in)
  \/ \E in \in CongestionInputs : publishCongestion(in)
  \/ \E in \in CapacityInputs : publishCapacity(in)
  \/ \E in \in PolicyInputs : setPolicy(in)
  \/ advanceCoordinatorEpoch
  \/ advanceTime
  \/ \E req \in RequestInputs : submit(req)
  \/ \E r \in RequestIds, req \in RequestInputs, gen \in 1..MaxRequestGen :
       supersede(r, req, gen)
  \/ \E r \in RequestIds : cancel(r)
  \/ schedule
  \/ \E g \in GrantIds : handoff(g)
  \/ \E g \in GrantIds : accept(g)
  \/ \E g \in GrantIds : handoff_commit(g)
  \/ \E g \in GrantIds : revoke(g)
  \/ \E g \in GrantIds, b \in Boots : complete(g, b)
  \/ \E b \in FencedBoots : fenceWorkerBoot(b)
  \/ resetDynamicStateForRecovery

Spec == Init /\ [][Next]_vars
-------------------------------------------------------------------------------
(* Properties *)

\* Every variable keeps its type; in particular the size_t counter of active
\* grants never wraps below zero and no flag is kept for a grant that has left
\* the table.
TypeOK ==
  /\ lifecycle \in [RequestIds -> LifecycleState \cup {ABSENT}]
  /\ request \in [RequestIds -> RequestInputs \cup {None}]
  /\ \A r \in records : request[r] # None
  /\ request_gen \in [RequestIds -> Nat]
  /\ current_grant \in [RequestIds -> GrantIds \cup {None}]
  /\ participants \in [Participants -> ParticipantState \cup {None}]
  /\ plans \in [Plans -> PlanInputs \cup {None}]
  /\ deps \in [Dependencies -> DependencyInputs \cup {None}]
  /\ reservation \in ReservationInputs \cup {None}
  /\ congestion \in CongestionInputs \cup {None}
  /\ capacity \in CapacityInputs \cup {None}
  /\ participant_requests \in [Participants -> SUBSET RequestIds]
  /\ issued \in [GrantIds -> Grant \cup {None}]
  /\ grants \subseteq GrantIds /\ active \subseteq grants /\ terminal \subseteq grants
  /\ active_by_participant \in [Participants -> SUBSET GrantIds]
  /\ active_grants \in Nat
  /\ epoch \in Nat /\ now \in 0..TimeModulus - 1 /\ policy \in PolicyInputs \cup {InitialPolicy}
  /\ next_request_id \in 1..MaxRequestId + 1
  /\ next_grant_id \in 1..MaxGrantId + 1
  /\ dispatch \in [GrantIds -> CallState]
  /\ revoking \subseteq GrantIds /\ fabric \subseteq GrantIds
  /\ recoveries \in Nat

\* Work that is ready, granted, dispatching or active rests on the current
\* generation of every one of its participants: publishParticipant finds, through
\* the reverse index, everything a new generation invalidates.
ParticipantAuthority ==
  \A r \in records : lifecycle[r] \in withdrawable =>
    \A p \in members(request[r]) : participant_current(p, request[r].participants[p])

\* The reverse index leads from each participant to every request that could
\* still come to rest on it, though a recovery clears the index: only withdrawn
\* and ended requests are missing from it.
IndexComplete ==
  \A r \in records : lifecycle[r] \in withdrawable \cup {"DECLARED", "WAITING"} =>
    \A p \in members(request[r]) : r \in participant_requests[p]

\* A granted, dispatching or active record holds a grant for its own generation
\* that nothing has ended: cancel, supersede, fence and complete end a grant and
\* move its record together.
LiveGrant ==
  \A r \in records : lifecycle[r] \in {"GRANTED", "DISPATCHING", "ACTIVE"} =>
    LET g == current_grant[r] IN
    /\ g \in grants \ terminal
    /\ issued[g].request = r
    /\ issued[g].request_gen = request_gen[r]

\* No request generation is granted twice, across decisions, withdrawals and
\* recoveries: a holder of a grant never competes with a second one.
OneGrantPerGeneration ==
  \A g, h \in GrantIds :
    /\ issued[g] # None /\ issued[h] # None
    /\ issued[g].request = issued[h].request
    /\ issued[g].request_gen = issued[h].request_gen
    => g = h

\* The participant index holds exactly the active grants, under exactly their
\* participants, whatever ended or started them.
ActiveIndexExact ==
  \A p \in Participants :
    active_by_participant[p] = {g \in active : p \in members(issued[g].body)}

\* A grant that counts as running is the current grant of its record, and of the
\* record's current generation: active_conflicts, which reads the record's
\* footprint, judges running work by what it really occupies.
ActiveIsCurrent ==
  \A g \in active \ terminal :
    /\ issued[g].request_gen = request_gen[issued[g].request]
    /\ current_grant[issued[g].request] = g

\* The grants whose handoff a step begins.
dispatched_by_step == {g \in GrantIds : dispatch[g] # "accepting" /\ dispatch'[g] = "accepting"}

\* handoff lets through only the current grant of a record, only while nothing
\* has ended it, and only once, though revalidate_grant looks at neither.
HandoffOnceAndLive ==
  [][\A g \in dispatched_by_step :
       /\ dispatch[g] = "none"
       /\ g \in grants \ terminal
       /\ current_grant[issued[g].request] = g]_vars

\* handoff never lets through work that readiness, computed at that moment, would
\* call stale, or short of a participant or of its plan: revalidate_grant, written
\* separately, misses none of what compute_readiness holds against it.
NoStaleHandoff ==
  [][\A g \in dispatched_by_step :
       compute_readiness(issued[g].request) \notin
         {"STALE", "WAITING_PARTICIPANT", "WAITING_COMMUNICATION_PLAN"}]_vars

\* A generation of a request has at most one outcome: completed or cancelled, it
\* never changes state again, whatever fences, recoveries and late calls follow.
TerminalIsFinal ==
  [][\A r \in records :
       lifecycle[r] \in terminal_states /\ request_gen'[r] = request_gen[r] =>
         lifecycle'[r] = lifecycle[r]]_vars

\* The grants a step issues.
issued_by_step == {g \in GrantIds : issued[g] = None /\ issued'[g] # None}

\* A decision never grants work that shares a participant with running work:
\* the participant index leads active_conflicts to every grant that matters.
NewGrantsAvoidRunning ==
  [][\A g \in issued_by_step, h \in active \ terminal :
       members(issued'[g].body) \cap members(issued[h].body) = {}]_vars

\* The grants of one decision can run together: no two of them share a
\* participant, a link, a resource or a reservation, none of several is
\* exclusive, and the group stays within the policy's bounds.
DecisionConsistent ==
  [][/\ Cardinality(issued_by_step) <= policy.max_overlap_group
     /\ issued_by_step # {} =>
          active_grants + Cardinality(issued_by_step) <= policy.max_active_grants
     /\ \A g, h \in issued_by_step : g # h =>
          LET a == issued'[g].body
              b == issued'[h].body
          IN  /\ classify_conflict(make_footprint(a, plans[a.plan], None),
                                   make_footprint(b, plans[b.plan], None)) = "NO_CONFLICT"
              /\ a.reservation_gen # 0 => a.reservation_gen # b.reservation_gen
              /\ a.overlap \notin {"EXCLUSIVE", "UNKNOWN"}]_vars

\* The scheduler counts g as active, is about to, or is about to revoke it.
followed(g) == g \in active \/ dispatch[g] = "accepted" \/ g \in revoking

\* Whatever overtakes a handoff, a fence, a supersession or a recovery included,
\* what the fabric accepted is followed until the fabric has given it up, with one
\* exception: work that was active when its record was withdrawn or moved on to
\* another generation, which fenceWorkerBoot, supersede and a recovery drop without
\* a word to the fabric.
DroppedOnlyWhenActive ==
  [][\A g \in fabric' :
       (g \in fabric => followed(g)) =>
         \/ followed(g)'
         \/ LET r == issued[g].request IN
            /\ g \in active
            /\ \/ lifecycle'[r] = "REVALIDATION_REQUIRED"
               \/ request_gen'[r] # issued[g].request_gen]_vars
===============================================================================
