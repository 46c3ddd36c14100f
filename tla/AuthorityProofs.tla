--------------------------- MODULE AuthorityProofs ---------------------------
(*****************************************************************************)
(* Work that may run rests on the current generation of its participants, and*)
(* the grants of one decision can run together.                              *)
(*                                                                           *)
(* ParticipantAuthority is not inductive: a new generation withdraws only    *)
(* what the reverse index lists, so the index must be complete for all work  *)
(* that is ready or later, and, since schedule() makes work ready, for work  *)
(* that is declared or waiting too.  DecisionConsistent follows from the one *)
(* request of a decision that is ranked last: what selectable asks of it,    *)
(* given everything selected before it, bounds the whole group.              *)
(*****************************************************************************)
EXTENDS SchedulerProofs

AuthorityInv == TypeOK /\ ParticipantAuthority /\ IndexComplete

\* Only granted work can be dispatched.
LEMMA OnlyGrantedDispatches ==
  ASSUME NEW s, can_transition(s, "DISPATCHING") PROVE s = "GRANTED"
  BY DEF can_transition, successors, withdrawals

\* What can be withdrawn is withdrawn.
LEMMA WithdrawableMoves ==
  ASSUME NEW s \in withdrawable
  PROVE  transition(s, "REVALIDATION_REQUIRED") = "REVALIDATION_REQUIRED"
  BY DEF transition, can_transition, successors, withdrawals, withdrawable

\* Publishing a participant withdraws everything its new generation invalidates.
LEMMA PublishAuthority ==
  ASSUME AuthorityInv, NEW in \in ParticipantInputs, publishParticipant(in)
  PROVE  ParticipantAuthority' /\ IndexComplete'
<1> DEFINE p == in.id
<1>1. /\ request' = request /\ participant_requests' = participant_requests
      /\ \A q \in Participants \ {p} : participants'[q] = participants[q]
  BY InputsAssumption DEF AuthorityInv, TypeOK, publishParticipant
<1>2. participants'[p] # None /\ participants'[p].gen = in.gen
  BY InputsAssumption, NoneAssumption DEF AuthorityInv, TypeOK, publishParticipant, ParticipantState
<1>3. ASSUME NEW r \in records', lifecycle'[r] # "REVALIDATION_REQUIRED"
      PROVE  /\ r \in records /\ lifecycle'[r] = lifecycle[r]
  BY <1>3, WithdrawableMoves DEF publishParticipant, records, withdrawable, ABSENT
<1>4. IndexComplete'
  BY <1>1, <1>3 DEF AuthorityInv, IndexComplete, withdrawable
<1>5. ASSUME NEW r \in records', lifecycle'[r] \in withdrawable, NEW q \in members(request[r])
      PROVE  participant_current(q, request[r].participants[q])'
  <2>1. /\ r \in records /\ lifecycle'[r] = lifecycle[r] /\ lifecycle[r] \in withdrawable
        /\ request[r] \in RequestInputs
    BY <1>3, <1>5 DEF withdrawable, AuthorityInv, TypeOK, records
  <2>2. q \in Participants /\ participant_current(q, request[r].participants[q])
    BY <2>1, <1>5, InputsAssumption DEF AuthorityInv, ParticipantAuthority, members
  <2>3. CASE q # p
    BY <1>1, <2>2, <2>3 DEF participant_current
  <2>4. CASE q = p
    <3>1. participants[p] # None /\ participants[p].gen = request[r].participants[p]
      BY <2>2, <2>4 DEF participant_current
    <3>2. r \in participant_requests[p]
      BY <2>1, <2>4, <1>5 DEF AuthorityInv, IndexComplete
    <3>3. ~is_terminal_state(r)
      BY <2>1, ZenonT(30) DEF is_terminal_state, terminal_states, withdrawable
    <3>4. ~(in.gen > participants[p].gen /\ request[r].participants[p] # in.gen)
      BY <2>1, <2>4, <3>1, <3>2, <3>3, <1>5, WithdrawableMoves, ZenonT(30)
      DEF publishParticipant, withdrawable, records
    <3>5. in.gen \in Nat /\ participants[p].gen \in Nat /\ in.gen >= participants[p].gen
      BY <3>1, <2>2, <2>4, InputsAssumption, ZenonT(30) DEF publishParticipant, AuthorityInv, TypeOK, ParticipantState
    <3>6. in.gen = request[r].participants[p]
      BY <3>1, <3>4, <3>5
    <3> QED
      BY <1>1, <1>2, <2>4, <3>6 DEF participant_current
  <2> QED
    BY <2>3, <2>4
<1> QED
  BY <1>1, <1>4, <1>5 DEF ParticipantAuthority

\* A decision makes ready, and grants, only work whose participants are current.
LEMMA ScheduleAuthority ==
  ASSUME AuthorityInv, schedule
  PROVE  ParticipantAuthority' /\ IndexComplete'
<1>1. PICK rank \in Bijection(candidates, 1..Cardinality(candidates)),
           S \in SUBSET candidates : grant_selected(S, rank)
  BY DEF schedule
<1>2. /\ UNCHANGED <<request, participants, participant_requests>>
      /\ \A r \in RequestIds : lifecycle'[r] = IF r \in S THEN "GRANTED"
                                              ELSE IF r \in records THEN derived(r) ELSE ABSENT
  BY <1>1, ZenonT(30) DEF grant_selected, evidenceVars
<1>3. \A r \in records : compute_readiness(r) = "READY" =>
        \A p \in members(request[r]) : participant_current(p, request[r].participants[p])
  BY ZenonT(30) DEF compute_readiness, participant_current, participant_ready
<1>4. ASSUME NEW r \in records'
      PROVE  /\ r \in records
             /\ r \in S => derived(r) \in withdrawable /\ compute_readiness(r) = "READY"
             /\ r \notin S => lifecycle'[r] = derived(r)
  BY <1>2, <1>4 DEF records, ABSENT, candidates, hard_eligible, withdrawable
<1>5. ASSUME NEW r \in records
      PROVE  /\ derived(r) \in withdrawable =>
                  lifecycle[r] \in withdrawable \/ compute_readiness(r) = "READY"
             /\ derived(r) \in withdrawable \cup {"DECLARED", "WAITING"} =>
                  lifecycle[r] \in withdrawable \cup {"DECLARED", "WAITING"}
  BY ZenonT(30) DEF derived, withdrawable
<1>6. ParticipantAuthority'
  BY <1>2, <1>3, <1>4, <1>5, ZenonT(30) DEF AuthorityInv, ParticipantAuthority, participant_current
<1>7. IndexComplete'
  BY <1>2, <1>4, <1>5, ZenonT(30) DEF AuthorityInv, IndexComplete, withdrawable
<1> QED
  BY <1>6, <1>7

\* submit and supersede index what they declare, and none of the remaining steps
\* moves work into the states concerned, changes a generation or shrinks the
\* index while leaving work in them.
LEMMA OtherAuthority ==
  ASSUME AuthorityInv
  PROVE  /\ Next
         /\ ~(\E in \in ParticipantInputs : publishParticipant(in))
         /\ ~schedule
         => ParticipantAuthority' /\ IndexComplete'
<1> USE DEF recordVars, evidenceVars, grantVars, callVars, clockVars, otherThanEvidence,
            otherThanCalls
<1>1. ASSUME UNCHANGED <<lifecycle, request, participants, participant_requests>>
      PROVE  ParticipantAuthority' /\ IndexComplete'
  BY <1>1 DEF AuthorityInv, ParticipantAuthority, IndexComplete, records, participant_current
<1>2. ASSUME NEW req \in RequestInputs, submit(req)
      PROVE  ParticipantAuthority' /\ IndexComplete'
  <2>1. CASE ~validate_request(req)
    BY <1>1, <1>2, <2>1 DEF submit
  <2>2. CASE validate_request(req)
    <3> DEFINE r == next_request_id
    <3>1. /\ lifecycle' = [lifecycle EXCEPT ![r] = "DECLARED"]
          /\ request' = [request EXCEPT ![r] = req]
          /\ participant_requests' = indexed_under(r, req)
          /\ participants' = participants
      BY <1>2, <2>2 DEF submit
    <3>2. \A q \in Participants : participant_requests[q] \subseteq participant_requests'[q]
      BY <3>1 DEF indexed_under
    <3>3. \A q \in members(req) : r \in participant_requests'[q]
      BY <3>1, InputsAssumption, ZenonT(30) DEF indexed_under, members
    <3>4. \A x \in records' \ {r} : /\ x \in records /\ lifecycle'[x] = lifecycle[x]
                                   /\ request'[x] = request[x]
                                   /\ members(request[x]) \subseteq Participants
      BY <3>1, InputsAssumption DEF AuthorityInv, TypeOK, records, members
    <3>5. r \in records' => lifecycle'[r] = "DECLARED" /\ request'[r] = req
      BY <3>1 DEF AuthorityInv, TypeOK, records
    <3>6. ParticipantAuthority'
      BY <3>1, <3>4, <3>5 DEF AuthorityInv, ParticipantAuthority, participant_current, withdrawable
    <3>7. IndexComplete'
      BY <3>2, <3>3, <3>4, <3>5 DEF AuthorityInv, IndexComplete
    <3> QED
      BY <3>6, <3>7
  <2> QED
    BY <2>1, <2>2
<1>3. ASSUME NEW r \in RequestIds, NEW req \in RequestInputs, NEW gen \in 1..MaxRequestGen,
             supersede(r, req, gen)
      PROVE  ParticipantAuthority' /\ IndexComplete'
  <2>1. ParticipantAuthority'
    BY <1>3, ZenonT(30) DEF supersede, AuthorityInv, TypeOK, ParticipantAuthority, records,
                participant_current, withdrawable
  <2>2. IndexComplete'
    BY <1>3, InputsAssumption, ZenonT(30)
    DEF supersede, indexed_under, AuthorityInv, TypeOK, IndexComplete, records, members
  <2> QED
    BY <2>1, <2>2, ZenonT(30)
<1>4. ASSUME NEW r \in RequestIds, cancel(r)
      PROVE  ParticipantAuthority' /\ IndexComplete'
  BY <1>4, ZenonT(30) DEF cancel, AuthorityInv, TypeOK, ParticipantAuthority, IndexComplete, records,
              participant_current, withdrawable
<1>5. ASSUME NEW g \in GrantIds, handoff(g)
      PROVE  ParticipantAuthority' /\ IndexComplete'
  <2> DEFINE r == issued[g].request
  <2>1. r \in records /\ lifecycle[r] = "GRANTED"
    BY <1>5, OnlyGrantedDispatches, ZenonT(30) DEF handoff, revalidate_grant
  <2> QED
    BY <1>5, <2>1, SMTT(30) DEF handoff, AuthorityInv, TypeOK, ParticipantAuthority, IndexComplete,
                      records, participant_current, withdrawable
<1>6. ASSUME NEW g \in GrantIds, handoff_commit(g)
      PROVE  ParticipantAuthority' /\ IndexComplete'
  <2> DEFINE r == issued[g].request
  <2>1. \A s \in RequestIds : \/ lifecycle'[s] = lifecycle[s]
                              \/ lifecycle[s] = "DISPATCHING" /\ lifecycle'[s] = "ACTIVE"
    BY <1>6, ZenonT(30) DEF handoff_commit, committed_state, AuthorityInv, TypeOK
  <2> QED
    BY <1>6, <2>1 DEF handoff_commit, AuthorityInv, TypeOK, ParticipantAuthority, IndexComplete,
                      records, participant_current, withdrawable, ABSENT
<1>7. ASSUME NEW g \in GrantIds, NEW b \in Boots, complete(g, b)
      PROVE  ParticipantAuthority' /\ IndexComplete'
  BY <1>7 DEF complete, completion_authorized, AuthorityInv, TypeOK, ParticipantAuthority, IndexComplete, records,
              participant_current, withdrawable
<1>8. ASSUME NEW b \in FencedBoots, fenceWorkerBoot(b)
      PROVE  ParticipantAuthority' /\ IndexComplete'
  <2>1. \A p \in Participants : /\ participants[p] # None => participants'[p] # None
                                /\ participants[p] # None =>
                                     participants'[p].gen = participants[p].gen
    <3> SUFFICES ASSUME NEW p \in Participants, participants[p] # None
                 PROVE  participants'[p] # None /\ participants'[p].gen = participants[p].gen
      OBVIOUS
    <3>1. participants[p] \in ParticipantState
      BY SMTT(30) DEF AuthorityInv, TypeOK
    <3>2. participants'[p] = IF participants[p].boot = b
                             THEN [gen |-> participants[p].gen, boot |-> b, ready |-> FALSE]
                             ELSE participants[p]
      BY <1>8, ZenonT(30) DEF fenceWorkerBoot
    <3>3. participants'[p] \in ParticipantState
      BY <3>1, <3>2 DEF ParticipantState
    <3>4. participants'[p] # None
      BY <3>3, NoneAssumption
    <3>5. participants'[p].gen = participants[p].gen
      BY <3>2, SMTT(30)
    <3> QED
      BY <3>4, <3>5
  <2>2. \A r \in RequestIds : \/ lifecycle'[r] = lifecycle[r]
                              \/ /\ lifecycle[r] # ABSENT
                                 /\ lifecycle'[r] = "REVALIDATION_REQUIRED"
    <3>1. \A x \in withdrawable : transition(x, "REVALIDATION_REQUIRED") = "REVALIDATION_REQUIRED"
      BY WithdrawableMoves
    <3>2. ABSENT \notin withdrawable
      BY ZenonT(30) DEF ABSENT, withdrawable
    <3> QED
      BY <1>8, <3>1, <3>2 DEF fenceWorkerBoot
  <2>3. \A r \in records : members(request[r]) \subseteq Participants
    BY InputsAssumption, ZenonT(30) DEF AuthorityInv, TypeOK, records, members
  <2>4. UNCHANGED <<request, participant_requests>>
    BY <1>8, ZenonT(30) DEF fenceWorkerBoot
  <2>5. ParticipantAuthority'
    BY <2>1, <2>2, <2>3, <2>4, ZenonT(30)
    DEF AuthorityInv, ParticipantAuthority, records, participant_current, withdrawable
  <2>6. IndexComplete'
    BY <2>2, <2>4 DEF AuthorityInv, IndexComplete, records, withdrawable
  <2> QED
    BY <2>5, <2>6
<1>9. ASSUME resetDynamicStateForRecovery
      PROVE  ParticipantAuthority' /\ IndexComplete'
  <2>1. \A r \in records' : lifecycle'[r] \in {"REVALIDATION_REQUIRED"} \cup terminal_states
    BY <1>9, SMTT(30) DEF resetDynamicStateForRecovery, records, is_terminal_state
  <2> QED
    BY <2>1 DEF ParticipantAuthority, IndexComplete, withdrawable, terminal_states
<1>10. ASSUME \/ \E in \in PlanInputs : publishPlan(in)
              \/ \E in \in DependencyInputs : publishDependency(in)
              \/ \E in \in ReservationInputs : publishReservation(in)
              \/ \E in \in CongestionInputs : publishCongestion(in)
              \/ \E in \in CapacityInputs : publishCapacity(in)
              \/ \E in \in PolicyInputs : setPolicy(in)
              \/ advanceCoordinatorEpoch
              \/ advanceTime
              \/ \E g \in GrantIds : accept(g)
              \/ \E g \in GrantIds : revoke(g)
       PROVE  UNCHANGED <<lifecycle, request, participants, participant_requests>>
  BY <1>10, ZenonT(30) DEF publishPlan, publishDependency, publishReservation, publishCongestion,
               publishCapacity, setPolicy, advanceCoordinatorEpoch, advanceTime, accept, revoke
<1> QED
  BY <1>1, <1>2, <1>3, <1>4, <1>5, <1>6, <1>7, <1>8, <1>9, <1>10 DEF Next

\* AuthorityInv holds initially and is kept by every step.
LEMMA AuthorityInductive ==
  /\ Init => AuthorityInv
  /\ AuthorityInv /\ [Next]_vars => AuthorityInv'
<1>1. Init => AuthorityInv
  BY InitType DEF Init, AuthorityInv, ParticipantAuthority, IndexComplete, records, ABSENT
<1>2. ASSUME AuthorityInv, [Next]_vars PROVE AuthorityInv'
  <2>1. TypeOK'
    BY <1>2, NextType DEF AuthorityInv
  <2>2. CASE Next
    BY <1>2, <2>1, <2>2, PublishAuthority, ScheduleAuthority, OtherAuthority, ZenonT(30) DEF AuthorityInv
  <2>3. CASE UNCHANGED vars
    BY <1>2, <2>1, <2>3 DEF vars, recordVars, evidenceVars, AuthorityInv, ParticipantAuthority,
                            IndexComplete, records, participant_current
  <2> QED
    BY <1>2, <2>2, <2>3
<1> QED
  BY <1>1, <1>2

\* Whatever is published, fenced, cancelled, superseded or recovered, in any order
\* and between the critical sections of any handoff, work that is ready, granted,
\* dispatching or active rests on the current generation of all its participants.
THEOREM AuthorityHolds == Spec => []ParticipantAuthority
<1>1. AuthorityInv => ParticipantAuthority
  BY DEF AuthorityInv
<1> QED
  BY <1>1, AuthorityInductive, PTL DEF Spec

\* The reverse index that publishParticipant relies on is complete.
THEOREM IndexHolds == Spec => []IndexComplete
<1>1. AuthorityInv => IndexComplete
  BY DEF AuthorityInv
<1> QED
  BY <1>1, AuthorityInductive, PTL DEF Spec
------------------------------------------------------------------------------
(* What the grants of one decision have in common *)

\* A set of natural numbers has a least element: the form in which the provers
\* can use the well-foundedness of the natural numbers.
LEMMA LeastNatural ==
  ASSUME NEW S \in SUBSET Nat, S # {}
  PROVE  \E n \in S : \A m \in S : n <= m
<1> DEFINE R == {ss \in Nat \X Nat : ss[1] < ss[2]}
<1>1. IsWellFoundedOn(R, Nat)
  BY NatLessThanWellFounded DEF OpToRel
<1>2. PICK x \in S : \A y \in S : ~(<<y, x>> \in R)
  BY <1>1, WFMin, ZenonT(30)
<1>3. ASSUME NEW y \in S PROVE x <= y
  <2>1. <<y, x>> \notin R /\ <<y, x>> \in Nat \X Nat
    BY <1>2
  <2>2. ~(y < x)
    BY <2>1, ZenonT(30)
  <2> QED
    BY <2>2
<1> QED
  BY <1>3

\* Of finitely many requests ranked by different numbers, one is ranked last: all
\* others come before it.
LEMMA LastRanked ==
  ASSUME NEW S, S # {}, IsFiniteSet(S), NEW rank, NEW n \in Nat,
         \A r \in S : rank[r] \in 1..n,
         \A r, s \in S : rank[r] = rank[s] => r = s
  PROVE  \E r \in S : /\ ranked_before(S, rank, r) = S \ {r}
                      /\ Cardinality(ranked_before(S, rank, r)) = Cardinality(S) - 1
<1> DEFINE U == {m \in Nat : \A r \in S : rank[r] <= m}
<1>1. n \in U
  OBVIOUS
<1>2. PICK m \in U : \A k \in U : m <= k
  BY <1>1, LeastNatural, ZenonT(30)
<1>3. \E r \in S : rank[r] = m
  <2>1. SUFFICES ASSUME \A r \in S : rank[r] # m PROVE FALSE
    OBVIOUS
  <2>2. m \in Nat /\ \A r \in S : rank[r] <= m - 1 /\ 1 <= rank[r]
    BY <2>1
  <2>3. m - 1 \in U
    BY <2>2
  <2> QED
    BY <1>2, <2>2, <2>3
<1>4. PICK r \in S : rank[r] = m
  BY <1>3
<1>5. ranked_before(S, rank, r) = S \ {r}
  BY <1>4 DEF ranked_before
<1> QED
  BY <1>5, FS_RemoveElement

\* Footprints conflict in both directions or in neither.
LEMMA ConflictSymmetric ==
  ASSUME NEW a, NEW b, ~forbids_overlap(classify_conflict(a, b))
  PROVE  classify_conflict(a, b) = "NO_CONFLICT" /\ classify_conflict(b, a) = "NO_CONFLICT"
  BY ZenonT(30) DEF forbids_overlap, classify_conflict, intersect_nonempty

\* The grants of a decision are those of a selection S.
LEMMA DecisionSelects ==
  ASSUME TypeOK, schedule
  PROVE  \E S, rank :
           /\ S \subseteq candidates /\ IsFiniteSet(S)
           /\ \A r \in S : rank[r] \in 1..Cardinality(candidates)
           /\ \A r, s \in S : rank[r] = rank[s] => r = s
           /\ \A r \in S : selectable(r, ranked_before(S, rank, r))
           /\ Cardinality(issued_by_step) <= Cardinality(S)
           /\ \A g \in issued_by_step : \E r \in S : /\ g = grant_id(S, rank, r)
                                                    /\ issued'[g].body = request[r]
<1>1. PICK rank \in Bijection(candidates, 1..Cardinality(candidates)),
           S \in SUBSET candidates : is_selection(S, rank) /\ grant_selected(S, rank)
  BY DEF schedule
<1>2. IsFiniteSet(S)
  BY CandidatesFinite, FS_Subset
<1>3. /\ \A r \in S : rank[r] \in 1..Cardinality(candidates)
      /\ \A r, s \in S : rank[r] = rank[s] => r = s
  BY DEF Bijection, Injection, IsInjective
<1>4. \A r \in S : selectable(r, ranked_before(S, rank, r))
  BY <1>1, ZenonT(30) DEF is_selection
<1>5. ASSUME NEW g \in issued_by_step
      PROVE  \E r \in S : g = grant_id(S, rank, r) /\ issued'[g].body = request[r]
  <2>1. g \in GrantIds /\ issued'[g] # issued[g]
    BY <1>5, ZenonT(30) DEF issued_by_step
  <2>2. /\ \E r \in S : g = grant_id(S, rank, r)
        /\ issued'[g] = new_grant(CHOOSE r \in S : g = grant_id(S, rank, r))
    BY <1>1, <2>1 DEF grant_selected
  <2>3. PICK r \in S : g = grant_id(S, rank, r) /\ issued'[g] = new_grant(r)
    BY <2>2, ZenonT(30)
  <2> QED
    BY <2>3 DEF new_grant
<1>6. Cardinality(issued_by_step) <= Cardinality(S)
  <2> DEFINE f == [r \in S |-> grant_id(S, rank, r)]
             T == {f[r] : r \in S}
  <2>1. f \in Surjection(S, T)
    BY DEF Surjection
  <2>2. IsFiniteSet(T) /\ Cardinality(T) <= Cardinality(S)
    BY <1>2, <2>1, FS_Surjection
  <2>3. issued_by_step \subseteq T
    BY <1>5
  <2>4. IsFiniteSet(issued_by_step) /\ Cardinality(issued_by_step) <= Cardinality(T)
    BY <2>2, <2>3, FS_Subset
  <2>5. Cardinality(issued_by_step) \in Nat /\ Cardinality(T) \in Nat /\ Cardinality(S) \in Nat
    BY <1>2, <2>2, <2>4, FS_CardinalityType, ZenonT(30)
  <2> QED
    BY <2>2, <2>4, <2>5
<1> QED
  BY <1>2, <1>3, <1>4, <1>5, <1>6

\* Two requests of one selection can run together.
LEMMA SelectedOverlap ==
  ASSUME NEW S, NEW rank, NEW r \in S, NEW s \in S, rank[s] < rank[r],
         selectable(r, ranked_before(S, rank, r))
  PROVE  can_overlap(r, s)
<1>1. s \in ranked_before(S, rank, r)
  BY SMTT(30) DEF ranked_before
<1> QED
  BY <1>1 DEF selectable

\* The requirements of DecisionConsistent on two grants, by what was granted.
compatible(a, b) ==
  /\ classify_conflict(make_footprint(a, plans[a.plan], None),
                       make_footprint(b, plans[b.plan], None)) = "NO_CONFLICT"
  /\ a.reservation_gen # 0 => a.reservation_gen # b.reservation_gen
  /\ a.overlap \notin {"EXCLUSIVE", "UNKNOWN"}

LEMMA OverlapCompatible ==
  ASSUME NEW r, NEW s, can_overlap(r, s)
  PROVE  compatible(request[r], request[s]) /\ compatible(request[s], request[r])
<1>1. /\ ~forbids_overlap(classify_conflict(footprint(r), footprint(s)))
      /\ ~(request[r].reservation_gen # 0 /\ request[r].reservation_gen = request[s].reservation_gen)
      /\ {request[r].overlap, request[s].overlap} \cap {"UNKNOWN", "EXCLUSIVE"} = {}
  BY ZenonT(30) DEF can_overlap
<1>2. /\ classify_conflict(footprint(r), footprint(s)) = "NO_CONFLICT"
      /\ classify_conflict(footprint(s), footprint(r)) = "NO_CONFLICT"
  BY <1>1, ConflictSymmetric
<1> QED
  BY <1>1, <1>2, ZenonT(30) DEF compatible, footprint

\* No other step issues grants.
LEMMA OnlySchedulesIssue ==
  ASSUME Next, ~schedule
  PROVE  issued' = issued
  BY ZenonT(30)
  DEF Next, publishParticipant, publishPlan, publishDependency, publishReservation, publishCongestion,
    publishCapacity, setPolicy, advanceCoordinatorEpoch, advanceTime, submit, supersede, cancel, handoff,
    accept, handoff_commit, revoke, complete, fenceWorkerBoot, resetDynamicStateForRecovery,
    otherThanEvidence, otherThanCalls, grantVars

\* The grants of one decision can run together, and are as many as the policy
\* allows at most.
THEOREM DecisionsAreConsistent == Spec => DecisionConsistent
<1> DEFINE Step == /\ Cardinality(issued_by_step) <= policy.max_overlap_group
                   /\ issued_by_step # {} =>
                        active_grants + Cardinality(issued_by_step) <= policy.max_active_grants
                   /\ \A g, h \in issued_by_step : g # h => compatible(issued'[g].body, issued'[h].body)
<1>1. ASSUME TypeOK, [Next]_vars PROVE [Step]_vars
  <2>1. /\ policy.max_overlap_group \in Nat /\ policy.max_active_grants \in Nat /\ active_grants \in Nat
    BY <1>1, SizesAssumption DEF TypeOK
  <2>2. CASE issued_by_step = {}
    BY <2>1, <2>2, FS_EmptySet, SMTT(30)
  <2>3. CASE schedule /\ issued_by_step # {}
    <3>1. PICK S, rank :
            /\ S \subseteq candidates /\ IsFiniteSet(S)
            /\ \A r \in S : rank[r] \in 1..Cardinality(candidates)
            /\ \A r, s \in S : rank[r] = rank[s] => r = s
            /\ \A r \in S : selectable(r, ranked_before(S, rank, r))
            /\ Cardinality(issued_by_step) <= Cardinality(S)
            /\ \A g \in issued_by_step : \E r \in S : /\ g = grant_id(S, rank, r)
                                                     /\ issued'[g].body = request[r]
      BY <1>1, <2>3, DecisionSelects, ZenonT(30)
    <3>2. Cardinality(candidates) \in Nat /\ Cardinality(S) \in Nat
      BY <3>1, CandidatesFinite, FS_CardinalityType, ZenonT(30)
    <3>3. S # {} /\ IsFiniteSet(issued_by_step) /\ Cardinality(issued_by_step) \in Nat
      <4>1. issued_by_step \subseteq GrantIds /\ IsFiniteSet(GrantIds)
        BY BoundsAssumption, FS_Interval DEF issued_by_step, GrantIds
      <4> QED
        BY <2>3, <3>1, <4>1, FS_Subset, FS_CardinalityType
    <3>4. PICK r \in S : Cardinality(ranked_before(S, rank, r)) = Cardinality(S) - 1
      BY <3>1, <3>2, <3>3, LastRanked, ZenonT(30)
    <3>5. /\ active_grants + (Cardinality(S) - 1) < policy.max_active_grants
          /\ Cardinality(S) - 1 < policy.max_overlap_group
      BY <3>1, <3>4, ZenonT(30) DEF selectable
    <3>6. ASSUME NEW g \in issued_by_step, NEW h \in issued_by_step, g # h
          PROVE  compatible(issued'[g].body, issued'[h].body)
      <4>1. PICK a \in S : g = grant_id(S, rank, a) /\ issued'[g].body = request[a]
        BY <3>1, ZenonT(30)
      <4>2. PICK b \in S : h = grant_id(S, rank, b) /\ issued'[h].body = request[b]
        BY <3>1, ZenonT(30)
      <4>3. rank[a] < rank[b] \/ rank[b] < rank[a]
        BY <3>1, <3>2, <3>6, <4>1, <4>2, SMTT(30)
      <4>4. can_overlap(a, b) \/ can_overlap(b, a)
        BY <3>1, <4>3, SelectedOverlap, ZenonT(30)
      <4> QED
        BY <4>1, <4>2, <4>4, OverlapCompatible, ZenonT(30)
    <3> QED
      BY <2>1, <3>1, <3>2, <3>3, <3>5, <3>6, SMTT(30)
  <2>4. CASE Next /\ ~schedule
    BY <2>2, <2>4, OnlySchedulesIssue, ZenonT(30) DEF issued_by_step
  <2> QED
    BY <1>1, <2>2, <2>3, <2>4, ZenonT(30)
<1>2. ASSUME [Step]_vars
      PROVE  [/\ Cardinality(issued_by_step) <= policy.max_overlap_group
              /\ issued_by_step # {} =>
                   active_grants + Cardinality(issued_by_step) <= policy.max_active_grants
              /\ \A g, h \in issued_by_step : g # h =>
                   LET a == issued'[g].body
                       b == issued'[h].body
                   IN  /\ classify_conflict(make_footprint(a, plans[a.plan], None),
                                            make_footprint(b, plans[b.plan], None)) = "NO_CONFLICT"
                       /\ a.reservation_gen # 0 => a.reservation_gen # b.reservation_gen
                       /\ a.overlap \notin {"EXCLUSIVE", "UNKNOWN"}]_vars
  BY <1>2 DEF compatible
<1> QED
  BY <1>1, <1>2, InitType, NextType, PTL DEF Spec, DecisionConsistent
==============================================================================
