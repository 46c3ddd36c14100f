--------------------------- MODULE SchedulerProofs ---------------------------
(***************************************************************************)
(* Theorems about Scheduler for every value of its constants.               *)
(***************************************************************************)
EXTENDS Scheduler, FiniteSetTheorems, TLAPS

\* The candidates are finitely many request ids.
LEMMA CandidatesFinite == candidates \subseteq RequestIds /\ IsFiniteSet(candidates)
<1>1. candidates \subseteq RequestIds
  BY DEF candidates, records
<1>2. IsFiniteSet(RequestIds)
  BY BoundsAssumption, FS_Interval DEF RequestIds
<1> QED
  BY <1>1, <1>2, FS_Subset

\* What a selected request is ranked after is a proper part of the selection,
\* so the ids a decision hands out lie below the next free one.
LEMMA RankedBefore ==
  ASSUME NEW S, IsFiniteSet(S), NEW rank, NEW r \in S, rank[r] \in Nat
  PROVE  /\ Cardinality(S) \in Nat
         /\ Cardinality(ranked_before(S, rank, r)) \in 0 .. Cardinality(S) - 1
<1> DEFINE B == ranked_before(S, rank, r)
<1>1. B \subseteq S /\ r \notin B
  BY DEF ranked_before
<1>2. /\ IsFiniteSet(B) /\ Cardinality(B) <= Cardinality(S)
      /\ Cardinality(S) = Cardinality(B) => S = B
  BY <1>1, FS_Subset
<1>3. Cardinality(B) \in Nat /\ Cardinality(S) \in Nat
  BY <1>2, FS_CardinalityType
<1> QED
  BY <1>1, <1>2, <1>3

\* The guarded decrement stays a natural number.
LEMMA DecrementType == \A n \in Nat : minus_one(n) \in Nat
  BY DEF minus_one

\* The initial state is well typed.
LEMMA InitType == Init => TypeOK
  BY BoundsAssumption DEF Init, TypeOK, RequestIds, GrantIds, records, ABSENT, CallState

\* A decision gives every request it selects a grant id of its own range, and
\* what it derives for the others is a lifecycle state.
LEMMA ScheduleType == TypeOK /\ schedule => TypeOK'
<1> SUFFICES ASSUME TypeOK, schedule PROVE TypeOK'
  OBVIOUS
<1>1. PICK rank \in Bijection(candidates, 1..Cardinality(candidates)),
           S \in SUBSET candidates : grant_selected(S, rank)
  BY DEF schedule
<1>2. candidates \subseteq records /\ records \subseteq RequestIds
  BY DEF candidates, records
<1>3. IsFiniteSet(S) /\ Cardinality(S) \in Nat
  BY CandidatesFinite, FS_Subset, FS_CardinalityType
<1>4. \A r \in S : rank[r] \in Nat
  BY DEF Bijection, Injection
<1>5. \A r \in S : grant_id(S, rank, r) \in GrantIds
  BY <1>1, <1>3, <1>4, RankedBefore, BoundsAssumption, SMTT(30) DEF TypeOK, GrantIds, grant_selected, grant_id
<1>6. \A r \in S : new_grant(r) \in Grant
  BY <1>2, InputsAssumption, NoneAssumption, ZenonT(30)
  DEF TypeOK, new_grant, Grant, current_congestion_gen
<1>7. \A r \in records : derived(r) \in LifecycleState
  BY <1>2 DEF derived, TypeOK, records, LifecycleState, ABSENT
<1>8. lifecycle' \in [RequestIds -> LifecycleState \cup {ABSENT}]
  BY <1>1, <1>7 DEF LifecycleState, grant_selected
<1>9. current_grant' \in [RequestIds -> GrantIds \cup {None}]
  BY <1>1, <1>5 DEF TypeOK, grant_selected
<1>10. issued' \in [GrantIds -> Grant \cup {None}]
  <2> SUFFICES ASSUME NEW g \in GrantIds PROVE issued'[g] \in Grant \cup {None}
    BY <1>1 DEF grant_selected
  <2> QED
    BY <1>1, <1>6 DEF TypeOK, grant_selected
<1>11. grants' \subseteq GrantIds /\ active' \subseteq grants' /\ terminal' \subseteq grants'
  BY <1>1, <1>5 DEF TypeOK, grant_selected
<1>12. next_grant_id' \in 1..MaxGrantId + 1
  BY <1>1, <1>3, BoundsAssumption, SMTT(30) DEF TypeOK, grant_selected
<1>13. \A r \in records' : request'[r] # None
  BY <1>1, <1>2 DEF TypeOK, records, grant_selected
<1> QED
  BY <1>1, <1>8, <1>9, <1>10, <1>11, <1>12, <1>13
  DEF TypeOK, grant_selected, evidenceVars, clockVars, callVars

\* Publishing evidence preserves the types.
LEMMA EvidenceType ==
  ASSUME TypeOK
  PROVE  (\/ \E in \in ParticipantInputs : publishParticipant(in)
          \/ \E in \in PlanInputs : publishPlan(in)
          \/ \E in \in DependencyInputs : publishDependency(in)
          \/ \E in \in ReservationInputs : publishReservation(in)
          \/ \E in \in CongestionInputs : publishCongestion(in)
          \/ \E in \in CapacityInputs : publishCapacity(in)
          \/ \E in \in PolicyInputs : setPolicy(in)
          \/ advanceCoordinatorEpoch
          \/ advanceTime)
         => TypeOK'
<1> USE DEF recordVars, evidenceVars, grantVars, callVars, clockVars, otherThanEvidence
<1>1. ASSUME NEW in \in ParticipantInputs, publishParticipant(in) PROVE TypeOK'
  <2>1. participants' \in [Participants -> ParticipantState \cup {None}]
    BY <1>1, InputsAssumption, ZenonT(30) DEF publishParticipant, TypeOK, ParticipantState
  <2>2. lifecycle' \in [RequestIds -> LifecycleState \cup {ABSENT}]
    BY <1>1, ZenonT(30) DEF publishParticipant, TypeOK, transition, LifecycleState
  <2>3. \A r \in records' : request'[r] # None
    BY <1>1 DEF publishParticipant, TypeOK, records, withdrawable, ABSENT
  <2> QED
    BY <1>1, <2>1, <2>2, <2>3, ZenonT(30) DEF publishParticipant, TypeOK
<1>2. ASSUME NEW in \in PlanInputs, publishPlan(in) PROVE TypeOK'
  BY <1>2, ZenonT(30) DEF publishPlan, TypeOK, records
<1>3. ASSUME NEW in \in DependencyInputs, publishDependency(in) PROVE TypeOK'
  BY <1>3, ZenonT(30) DEF publishDependency, TypeOK, records
<1>4. ASSUME NEW in \in ReservationInputs, publishReservation(in) PROVE TypeOK'
  BY <1>4, ZenonT(30) DEF publishReservation, TypeOK, records
<1>5. ASSUME NEW in \in CongestionInputs, publishCongestion(in) PROVE TypeOK'
  BY <1>5, ZenonT(30) DEF publishCongestion, TypeOK, records
<1>6. ASSUME NEW in \in CapacityInputs, publishCapacity(in) PROVE TypeOK'
  BY <1>6, ZenonT(30) DEF publishCapacity, TypeOK, records
<1>7. ASSUME NEW in \in PolicyInputs, setPolicy(in) PROVE TypeOK'
  BY <1>7, ZenonT(30) DEF setPolicy, TypeOK, records
<1>8. ASSUME advanceCoordinatorEpoch PROVE TypeOK'
  <2>1. epoch' \in Nat
    BY <1>8, BoundsAssumption DEF advanceCoordinatorEpoch, TypeOK
  <2> QED
    BY <1>8, <2>1 DEF advanceCoordinatorEpoch, TypeOK, records
<1>9. ASSUME advanceTime PROVE TypeOK'
  <2>1. now' \in 0..TimeModulus - 1
    BY <1>9, BoundsAssumption DEF advanceTime, TypeOK
  <2> QED
    BY <1>9, <2>1 DEF advanceTime, TypeOK, records
<1> QED
  BY <1>1, <1>2, <1>3, <1>4, <1>5, <1>6, <1>7, <1>8, <1>9

\* submit, supersede and cancel preserve the types.
LEMMA RequestType ==
  ASSUME TypeOK
  PROVE  (\/ \E req \in RequestInputs : submit(req)
          \/ \E r \in RequestIds, req \in RequestInputs, gen \in 1..MaxRequestGen :
               supersede(r, req, gen)
          \/ \E r \in RequestIds : cancel(r))
         => TypeOK'
<1> USE DEF recordVars, evidenceVars, grantVars, callVars, clockVars
<1>1. ASSUME NEW req \in RequestInputs, submit(req) PROVE TypeOK'
  <2>1. participant_requests' \in [Participants -> SUBSET RequestIds]
    BY <1>1 DEF submit, TypeOK, indexed_under
  <2>2. next_request_id' \in 1..MaxRequestId + 1
    BY <1>1, BoundsAssumption DEF submit, TypeOK, RequestIds
  <2>3. /\ lifecycle' \in [RequestIds -> LifecycleState \cup {ABSENT}]
        /\ request' \in [RequestIds -> RequestInputs \cup {None}]
        /\ request_gen' \in [RequestIds -> Nat]
    BY <1>1 DEF submit, TypeOK, LifecycleState
  <2>4. \A r \in records' : request'[r] # None
    BY <1>1, NoneAssumption, SMTT(30) DEF submit, TypeOK, records, ABSENT
  <2> QED
    BY <1>1, <2>1, <2>2, <2>3, <2>4, ZenonT(30) DEF submit, TypeOK
<1>2. ASSUME NEW r \in RequestIds, NEW req \in RequestInputs, NEW gen \in 1..MaxRequestGen,
             supersede(r, req, gen)
      PROVE  TypeOK'
  <2>1. participant_requests' \in [Participants -> SUBSET RequestIds]
    BY <1>2 DEF supersede, TypeOK, indexed_under
  <2>2. active_by_participant' \in [Participants -> SUBSET GrantIds]
    BY <1>2 DEF supersede, TypeOK, deindex_active_grants
  <2>3. active_grants' \in Nat
    <3>1. /\ active_grants' \in {active_grants, minus_one(active_grants)}
          /\ active_grants \in Nat
      BY <1>2, ZenonT(30) DEF supersede, TypeOK
    <3> QED
      BY <3>1, DecrementType
  <2>4. active' \subseteq grants' /\ terminal' \subseteq grants'
    BY <1>2, ZenonT(30) DEF supersede, TypeOK, grant_of
  <2>5. /\ lifecycle' \in [RequestIds -> LifecycleState \cup {ABSENT}]
        /\ request' \in [RequestIds -> RequestInputs \cup {None}]
        /\ request_gen' \in [RequestIds -> Nat]
        /\ current_grant' \in [RequestIds -> GrantIds \cup {None}]
    BY <1>2, BoundsAssumption DEF supersede, TypeOK, LifecycleState
  <2>6. \A s \in records' : request'[s] # None
    BY <1>2, NoneAssumption, SMTT(30) DEF supersede, TypeOK, records
  <2> QED
    BY <1>2, <2>1, <2>2, <2>3, <2>4, <2>5, <2>6, ZenonT(30) DEF supersede, TypeOK
<1>3. ASSUME NEW r \in RequestIds, cancel(r) PROVE TypeOK'
  <2>1. active_by_participant' \in [Participants -> SUBSET GrantIds]
    BY <1>3 DEF cancel, TypeOK, deindex_active_grants
  <2>2. active_grants' \in Nat
    <3>1. /\ active_grants' \in {active_grants, minus_one(active_grants)}
          /\ active_grants \in Nat
      BY <1>3, ZenonT(30) DEF cancel, TypeOK
    <3> QED
      BY <3>1, DecrementType, ZenonT(30)
  <2>3. active' \subseteq grants' /\ terminal' \subseteq grants' /\ revoking' \subseteq GrantIds
    BY <1>3, ZenonT(30) DEF cancel, TypeOK, grant_of
  <2>4. lifecycle' \in [RequestIds -> LifecycleState \cup {ABSENT}]
    BY <1>3, ZenonT(30) DEF cancel, TypeOK, LifecycleState
  <2>5. \A s \in records' : request'[s] # None
    BY <1>3 DEF cancel, TypeOK, records
  <2> QED
    BY <1>3, <2>1, <2>2, <2>3, <2>4, <2>5, ZenonT(30) DEF cancel, TypeOK
<1> QED
  BY <1>1, <1>2, <1>3, ZenonT(30)

\* The steps of a handoff, completion, fencing and recovery preserve the types.
LEMMA ExecutionType ==
  ASSUME TypeOK
  PROVE  (\/ \E g \in GrantIds : handoff(g)
          \/ \E g \in GrantIds : accept(g)
          \/ \E g \in GrantIds : handoff_commit(g)
          \/ \E g \in GrantIds : revoke(g)
          \/ \E g \in GrantIds, b \in Boots : complete(g, b)
          \/ \E b \in FencedBoots : fenceWorkerBoot(b)
          \/ resetDynamicStateForRecovery)
         => TypeOK'
<1> USE DEF recordVars, evidenceVars, grantVars, callVars, clockVars, otherThanCalls
<1>1. ASSUME NEW g \in GrantIds, handoff(g) PROVE TypeOK'
  <2>1. lifecycle' \in [RequestIds -> LifecycleState \cup {ABSENT}]
    BY <1>1, ZenonT(30) DEF handoff, TypeOK, LifecycleState
  <2>2. \A r \in records' : request'[r] # None
    BY <1>1, ZenonT(30) DEF handoff, revalidate_grant, TypeOK, records
  <2>3. dispatch' \in [GrantIds -> CallState]
    BY <1>1, ZenonT(30) DEF handoff, TypeOK, CallState
  <2> QED
    BY <1>1, <2>1, <2>2, <2>3 DEF handoff, TypeOK
<1>2. ASSUME NEW g \in GrantIds, accept(g) PROVE TypeOK'
  <2>1. dispatch' \in [GrantIds -> CallState] /\ fabric' \subseteq GrantIds
    BY <1>2, SMTT(30) DEF accept, TypeOK, CallState
  <2> QED
    BY <1>2, <2>1 DEF accept, TypeOK, records
<1>3. ASSUME NEW g \in GrantIds, handoff_commit(g) PROVE TypeOK'
  <2>1. dispatch' \in [GrantIds -> CallState]
    BY <1>3 DEF handoff_commit, TypeOK, CallState
  <2>2. lifecycle' \in [RequestIds -> LifecycleState \cup {ABSENT}]
    BY <1>3, ZenonT(30) DEF handoff_commit, committed_state, TypeOK, LifecycleState
  <2>3. \A r \in records' : request'[r] # None
    BY <1>3 DEF handoff_commit, committed_state, TypeOK, records, ABSENT
  <2>4. /\ active' \subseteq grants' /\ active_grants' \in Nat
        /\ active_by_participant' \in [Participants -> SUBSET GrantIds]
        /\ revoking' \subseteq GrantIds
    <3>1. CASE becomes_active(g)
      BY <1>3, <3>1 DEF handoff_commit, TypeOK, index_active_grant, becomes_active,
                        revoked_by_commit
    <3>2. CASE ~becomes_active(g)
      BY <1>3, <3>2, ZenonT(30) DEF handoff_commit, TypeOK, revoked_by_commit
    <3> QED
      BY <3>1, <3>2, ZenonT(30)
  <2> QED
    BY <1>3, <2>1, <2>2, <2>3, <2>4, ZenonT(30) DEF handoff_commit, TypeOK
<1>4. ASSUME NEW g \in GrantIds, revoke(g) PROVE TypeOK'
  BY <1>4, SMTT(30) DEF revoke, TypeOK, records
<1>5. ASSUME NEW g \in GrantIds, NEW b \in Boots, complete(g, b) PROVE TypeOK'
  <2>1. /\ issued[g].request \in records
        /\ g \in grants
        /\ lifecycle' = [lifecycle EXCEPT ![issued[g].request] = "COMPLETED"]
        /\ terminal' = terminal \cup {g}
        /\ active' = active \ {g}
        /\ active_by_participant' = deindex_active_grants({g})
        /\ active_grants' = minus_one(active_grants)
        /\ fabric' = fabric \ {g}
        /\ UNCHANGED <<request, request_gen, current_grant, evidenceVars,
                       participant_requests, issued, grants, next_grant_id, clockVars,
                       next_request_id, dispatch, revoking, recoveries>>
    BY <1>5, ZenonT(30) DEF complete, completion_authorized
  <2>2. lifecycle' \in [RequestIds -> LifecycleState \cup {ABSENT}]
    BY <2>1, ZenonT(30) DEF TypeOK, LifecycleState
  <2>3. \A r \in records' : request'[r] # None
    BY <2>1, ZenonT(30) DEF TypeOK, records
  <2>4. active' \subseteq grants' /\ terminal' \subseteq grants' /\ fabric' \subseteq GrantIds
    BY <2>1, ZenonT(30) DEF TypeOK
  <2>5. active_by_participant' \in [Participants -> SUBSET GrantIds]
    BY <2>1 DEF TypeOK, deindex_active_grants
  <2>6. active_grants \in Nat
    BY DEF TypeOK
  <2>7. active_grants' \in Nat
    BY <2>1, <2>6, DecrementType, ZenonT(30)
  <2> QED
    BY <2>1, <2>2, <2>3, <2>4, <2>5, <2>7, ZenonT(30) DEF TypeOK
<1>6. ASSUME NEW b \in FencedBoots, fenceWorkerBoot(b) PROVE TypeOK'
  <2>1. participants' \in [Participants -> ParticipantState \cup {None}]
    BY <1>6, ZenonT(30) DEF fenceWorkerBoot, TypeOK, ParticipantState
  <2>2. lifecycle' \in [RequestIds -> LifecycleState \cup {ABSENT}]
    BY <1>6, ZenonT(30) DEF fenceWorkerBoot, TypeOK, transition, LifecycleState
  <2>3. \A r \in records' : request'[r] # None
    BY <1>6, ZenonT(30) DEF fenceWorkerBoot, TypeOK, records, withdrawable, ABSENT
  <2>4. /\ active' \subseteq grants' /\ terminal' \subseteq grants'
        /\ active_by_participant' \in [Participants -> SUBSET GrantIds]
    BY <1>6, SMTT(30) DEF fenceWorkerBoot, TypeOK, deindex_active_grants, grant_of
  <2> QED
    BY <1>6, <2>1, <2>2, <2>3, <2>4, SMTT(30) DEF fenceWorkerBoot, TypeOK
<1>7. ASSUME resetDynamicStateForRecovery PROVE TypeOK'
  <2>1. /\ lifecycle' \in [RequestIds -> LifecycleState \cup {ABSENT}]
        /\ \A r \in records' : request'[r] # None
    BY <1>7 DEF resetDynamicStateForRecovery, TypeOK, records, LifecycleState, ABSENT
  <2> QED
    BY <1>7, <2>1, SMTT(30) DEF resetDynamicStateForRecovery, TypeOK
<1> QED
  BY <1>1, <1>2, <1>3, <1>4, <1>5, <1>6, <1>7, ZenonT(30)

\* Every step preserves the types.
LEMMA NextType == TypeOK /\ [Next]_vars => TypeOK'
<1> SUFFICES ASSUME TypeOK, [Next]_vars PROVE TypeOK'
  BY ZenonT(30)
<1>1. CASE Next
  BY <1>1, EvidenceType, RequestType, ScheduleType, ExecutionType, ZenonT(30) DEF Next
<1>2. CASE UNCHANGED vars
  BY <1>2 DEF vars, recordVars, evidenceVars, grantVars, callVars, clockVars, TypeOK, records
<1> QED
  BY <1>1, <1>2

\* The scheduler is type correct for any number of requests, grants, participants
\* and epochs: in particular active_grants, a size_t, never wraps below zero.
THEOREM TypeCorrect == Spec => []TypeOK
<1> QED
  BY InitType, NextType, PTL DEF Spec
==============================================================================
