----------------------------- MODULE ActiveProofs -----------------------------
(*****************************************************************************)
(* What the scheduler knows of running work is right: the participant index  *)
(* holds exactly the active grants, decisions steer clear of what they       *)
(* occupy, and no handoff lets stale work through.                           *)
(*                                                                           *)
(* The index alone is not inductive: the end of a handoff leaves it as it is *)
(* when the grant does not become active, which is right because a grant is  *)
(* handed off once (GrantInv) and cannot be active before its handoff ends.  *)
(*****************************************************************************)
EXTENDS GrantProofs

\* A grant in the table that nothing has ended is its record's current one.
TableIsCurrent ==
  \A g \in grants \ terminal :
    /\ issued[g].request_gen = request_gen[issued[g].request]
    /\ current_grant[issued[g].request] = g

\* A grant of its record's present generation carries what the record asks for.
BodyIsRequest ==
  \A g \in GrantIds :
    issued[g] # None /\ issued[g].request_gen = request_gen[issued[g].request] =>
      issued[g].body = request[issued[g].request]

\* Only grants whose handoff has ended are active.
ActiveReturned == \A g \in active : dispatch[g] = "returned"

ActiveInv ==
  /\ GrantInv /\ TableIsCurrent /\ BodyIsRequest /\ ActiveReturned /\ ActiveIndexExact

\* A step that leaves records, grants and the index alone.
LEMMA NothingActive ==
  ASSUME ActiveInv,
         UNCHANGED <<request, request_gen, current_grant, issued, grants, active, terminal,
                     active_by_participant>>,
         \A g \in active : dispatch'[g] = dispatch[g]
  PROVE  TableIsCurrent' /\ BodyIsRequest' /\ ActiveReturned' /\ ActiveIndexExact'
  BY DEF ActiveInv, TableIsCurrent, BodyIsRequest, ActiveReturned, ActiveIndexExact

\* Ending the grants of G takes them, and nothing else, off the index.
LEMMA EndedLeaveIndex ==
  ASSUME ActiveInv, NEW G \in SUBSET GrantIds,
         active' = active \ G, active_by_participant' = deindex_active_grants(G),
         UNCHANGED <<issued, dispatch>>
  PROVE  ActiveReturned' /\ ActiveIndexExact'
<1>1. ActiveReturned'
  BY DEF ActiveInv, ActiveReturned
<1>2. ASSUME NEW p \in Participants
      PROVE  active_by_participant'[p] = {g \in active' : p \in members(issued[g].body)}
  BY DEF ActiveInv, ActiveIndexExact, deindex_active_grants
<1> QED
  BY <1>1, <1>2 DEF ActiveIndexExact

\* A new record, for which nothing has been granted.
LEMMA SubmitActive ==
  ASSUME ActiveInv, NEW req \in RequestInputs, submit(req)
  PROVE  TableIsCurrent' /\ BodyIsRequest' /\ ActiveReturned' /\ ActiveIndexExact'
<1> DEFINE n == next_request_id
<1>1. /\ UNCHANGED <<current_grant, issued, grants, active, terminal, active_by_participant, dispatch>>
      /\ n \in RequestIds /\ n \in Nat
      /\ request' \in {request, [request EXCEPT ![n] = req]}
      /\ request_gen' \in {request_gen, [request_gen EXCEPT ![n] = 1]}
  BY GrantTypes DEF submit, grantVars, callVars, ActiveInv, GrantInv
<1>2. lifecycle[n] = ABSENT
  BY <1>1 DEF ActiveInv, GrantInv, TablesMatch, RequestIds
<1>3. \A g \in GrantIds : issued[g] # None => issued[g].request \in RequestIds \ {n}
  BY <1>2, GrantTypes DEF ActiveInv, GrantInv, GrantsNameRecords
<1>4. \A r \in RequestIds \ {n} : request'[r] = request[r] /\ request_gen'[r] = request_gen[r]
  BY <1>1 DEF ActiveInv, GrantInv, TypeOK
<1>5. TableIsCurrent'
  BY <1>1, <1>3, <1>4, ZenonT(30) DEF ActiveInv, GrantInv, TypeOK, TablesMatch, TableIsCurrent
<1>6. BodyIsRequest'
  BY <1>1, <1>3, <1>4, ZenonT(30) DEF ActiveInv, BodyIsRequest
<1> QED
  BY <1>1, <1>5, <1>6 DEF ActiveInv, ActiveReturned, ActiveIndexExact

\* The grants of the superseded generation are ended, or of earlier generations.
LEMMA SupersedeActive ==
  ASSUME ActiveInv, NEW r \in RequestIds, NEW req \in RequestInputs, NEW gen \in 1..MaxRequestGen,
         supersede(r, req, gen)
  PROVE  TableIsCurrent' /\ BodyIsRequest' /\ ActiveReturned' /\ ActiveIndexExact'
<1>1. /\ UNCHANGED <<issued, grants, dispatch>>
      /\ request' = [request EXCEPT ![r] = req]
      /\ request_gen' = [request_gen EXCEPT ![r] = gen]
      /\ current_grant' = [current_grant EXCEPT ![r] = None]
      /\ terminal' = terminal \cup grant_of(r)
      /\ active' = active \ grant_of(r)
      /\ active_by_participant' = deindex_active_grants(grant_of(r))
      /\ gen > request_gen[r]
  BY DEF supersede, callVars
<1>2. \A s \in RequestIds \ {r} : /\ request'[s] = request[s] /\ request_gen'[s] = request_gen[s]
                                  /\ current_grant'[s] = current_grant[s]
  BY <1>1, GrantTypes DEF ActiveInv, GrantInv
<1>3. grant_of(r) \in SUBSET GrantIds
  BY GrantTypes DEF grant_of, ActiveInv, GrantInv
<1>4. ActiveReturned' /\ ActiveIndexExact'
  BY <1>1, <1>3, EndedLeaveIndex
<1>5. \A g \in GrantIds : issued[g] # None => issued[g].request \in RequestIds
  BY ZenonT(30) DEF ActiveInv, GrantInv, TypeOK, Grant
<1>6. TableIsCurrent'
  <2> SUFFICES ASSUME NEW g \in grants \ terminal'
               PROVE  /\ issued[g].request_gen = request_gen'[issued[g].request]
                      /\ current_grant'[issued[g].request] = g
    BY <1>1, ZenonT(30) DEF TableIsCurrent
  <2>1. /\ g \in GrantIds /\ issued[g] # None /\ g \notin terminal /\ g \notin grant_of(r)
        /\ current_grant[issued[g].request] = g
    BY <1>1 DEF ActiveInv, GrantInv, TypeOK, TablesMatch, TableIsCurrent
  <2>2. issued[g].request # r
    BY <2>1 DEF grant_of
  <2> QED
    BY <1>2, <1>5, <2>1, <2>2 DEF ActiveInv, TableIsCurrent
<1>7. BodyIsRequest'
  <2>1. ASSUME NEW g \in GrantIds, issued[g] # None, issued[g].request = r
        PROVE  issued[g].request_gen # request_gen'[r]
    <3>1. issued[g].request_gen \in Nat /\ request_gen[r] \in Nat /\ gen \in Nat
      BY <2>1, BoundsAssumption, GrantTypes DEF ActiveInv, GrantInv
    <3>2. issued[g].request_gen <= request_gen[r] /\ request_gen'[r] = gen
      BY <1>1, <2>1, GrantTypes, ZenonT(30) DEF ActiveInv, GrantInv, GrantsNameRecords
    <3> QED
      BY <1>1, <3>1, <3>2
  <2> QED
    BY <1>1, <1>2, <1>5, <2>1 DEF ActiveInv, BodyIsRequest
<1> QED
  BY <1>4, <1>6, <1>7

\* cancel, complete and fenceWorkerBoot end grants and keep records.
LEMMA EndingActive ==
  ASSUME ActiveInv, NEW G \in SUBSET grants,
         terminal' = terminal \cup G, active' = active \ G,
         active_by_participant' = deindex_active_grants(G),
         UNCHANGED <<request, request_gen, current_grant, issued, grants, dispatch>>
  PROVE  TableIsCurrent' /\ BodyIsRequest' /\ ActiveReturned' /\ ActiveIndexExact'
<1>1. G \in SUBSET GrantIds
  BY GrantTypes DEF ActiveInv, GrantInv
<1>2. ActiveReturned' /\ ActiveIndexExact'
  BY <1>1, EndedLeaveIndex
<1> QED
  BY <1>2 DEF ActiveInv, TableIsCurrent, BodyIsRequest

LEMMA EndersActive ==
  ASSUME ActiveInv,
         \/ \E r \in RequestIds : cancel(r)
         \/ \E g \in GrantIds, b \in Boots : complete(g, b)
         \/ \E b \in FencedBoots : fenceWorkerBoot(b)
  PROVE  TableIsCurrent' /\ BodyIsRequest' /\ ActiveReturned' /\ ActiveIndexExact'
<1>1. ASSUME NEW r \in RequestIds, cancel(r)
      PROVE  \E G \in SUBSET grants :
               /\ terminal' = terminal \cup G /\ active' = active \ G
               /\ active_by_participant' = deindex_active_grants(G)
               /\ UNCHANGED <<request, request_gen, current_grant, issued, grants, dispatch>>
  <2>1. grant_of(r) \ terminal \in SUBSET grants
    BY DEF grant_of
  <2> QED
    BY <1>1, <2>1 DEF cancel
<1>2. ASSUME NEW g \in GrantIds, NEW b \in Boots, complete(g, b)
      PROVE  \E G \in SUBSET grants :
               /\ terminal' = terminal \cup G /\ active' = active \ G
               /\ active_by_participant' = deindex_active_grants(G)
               /\ UNCHANGED <<request, request_gen, current_grant, issued, grants, dispatch>>
  <2>1. {g} \in SUBSET grants
    <3>1. completion_authorized(g, issued[g], b)
      BY <1>2, ZenonT(30) DEF complete
    <3> QED
      BY <3>1, ZenonT(30) DEF completion_authorized
  <2> QED
    BY <1>2, <2>1 DEF complete
<1>3. ASSUME NEW b \in FencedBoots, fenceWorkerBoot(b)
      PROVE  \E G \in SUBSET grants :
               /\ terminal' = terminal \cup G /\ active' = active \ G
               /\ active_by_participant' = deindex_active_grants(G)
               /\ UNCHANGED <<request, request_gen, current_grant, issued, grants, dispatch>>
  <2> DEFINE affected == {r \in records : /\ ~is_terminal_state(r)
                                           /\ \E p \in members(request[r]) :
                                                participants[p] # None /\ participants[p].boot = b}
             cut == UNION {grant_of(r) : r \in affected}
  <2>1. cut \in SUBSET grants
    BY ZenonT(30) DEF grant_of
  <2>2. /\ terminal' = terminal \cup cut /\ active' = active \ cut
        /\ active_by_participant' = deindex_active_grants(cut)
        /\ UNCHANGED <<request, request_gen, current_grant, issued, grants, dispatch>>
    BY <1>3, ZenonT(30) DEF fenceWorkerBoot, callVars
  <2> HIDE DEF cut
  <2> QED
    BY <2>1, <2>2
<1> QED
  BY <1>1, <1>2, <1>3, EndingActive

\* The end of a handoff adds its grant to both, or to neither.
LEMMA CommitActive ==
  ASSUME ActiveInv, NEW g \in GrantIds, handoff_commit(g)
  PROVE  TableIsCurrent' /\ BodyIsRequest' /\ ActiveReturned' /\ ActiveIndexExact'
<1>1. /\ UNCHANGED <<request, request_gen, current_grant, issued, grants, terminal>>
      /\ dispatch[g] \in {"accepted", "refused"}
      /\ dispatch' = [dispatch EXCEPT ![g] = "returned"]
      /\ \/ active' = active \cup {g} /\ active_by_participant' = index_active_grant(g)
         \/ active' = active \ {g} /\ active_by_participant' = active_by_participant
  BY ZenonT(30) DEF handoff_commit
<1>2. g \notin active
  BY <1>1 DEF ActiveInv, ActiveReturned
<1>3. ActiveReturned'
  BY <1>1, GrantTypes DEF ActiveInv, ActiveReturned, GrantInv
<1>4. ASSUME NEW p \in Participants
      PROVE  active_by_participant'[p] = {h \in active' : p \in members(issued[h].body)}
  BY <1>1, <1>2 DEF ActiveInv, ActiveIndexExact, index_active_grant
<1>5. ActiveIndexExact'
  BY <1>1, <1>4, ZenonT(30) DEF ActiveIndexExact
<1> QED
  BY <1>1, <1>3, <1>5 DEF ActiveInv, TableIsCurrent, BodyIsRequest

\* A decision adds grants to the table; no record it grants had one there.
LEMMA ScheduleActive ==
  ASSUME ActiveInv, schedule
  PROVE  TableIsCurrent' /\ BodyIsRequest' /\ ActiveReturned' /\ ActiveIndexExact'
<1>1. PICK S \in SUBSET RequestIds : \E id : Grants(S, id)
  BY ScheduleGrants DEF ActiveInv
<1>2. PICK id : Grants(S, id)
  BY <1>1, ZenonT(30)
<1>3. /\ UNCHANGED <<request, request_gen, active, terminal, active_by_participant, dispatch>>
      /\ grants' = grants \cup {id[r] : r \in S}
      /\ \A r \in S : /\ lifecycle[r] \in fresh_states /\ current_grant'[r] = id[r]
                      /\ id[r] \in GrantIds /\ next_grant_id <= id[r]
                      /\ issued'[id[r]].request = r /\ issued'[id[r]].request_gen = request_gen[r]
                      /\ issued'[id[r]].body = request[r]
      /\ \A r \in RequestIds \ S : current_grant'[r] = current_grant[r]
      /\ \A g \in GrantIds : (\E r \in S : g = id[r]) \/ issued'[g] = issued[g]
  BY <1>2, ZenonT(30) DEF Grants
<1>4. \A r \in S : issued[id[r]] = None
  BY <1>3, BoundsAssumption, GrantTypes, SMTT(30) DEF ActiveInv, GrantInv, IdsUsed, GrantIds
<1>5. \A g \in GrantIds : issued[g] # None => /\ issued'[g] = issued[g] /\ issued[g].request \in RequestIds
                                             /\ \A r \in S : g # id[r]
  BY <1>3, <1>4, GrantTypes DEF ActiveInv, GrantInv
<1>6. \A g \in grants : g \in GrantIds /\ issued[g] # None
  BY GrantTypes, ZenonT(30) DEF ActiveInv, GrantInv, TablesMatch
<1>7. ASSUME NEW g \in grants \ terminal PROVE issued[g].request \notin S
  BY <1>3, <1>6, ZenonT(30) DEF ActiveInv, TableIsCurrent, GrantInv, FreshIsUngranted
<1>8. TableIsCurrent'
  <2> SUFFICES ASSUME NEW g \in grants' \ terminal
               PROVE  /\ issued'[g].request_gen = request_gen[issued'[g].request]
                      /\ current_grant'[issued'[g].request] = g
    BY <1>3, ZenonT(30) DEF TableIsCurrent
  <2>1. CASE g \in grants
    BY <1>3, <1>5, <1>6, <1>7, <2>1 DEF ActiveInv, TableIsCurrent
  <2>2. CASE g \notin grants
    BY <1>3, <2>2
  <2> QED
    BY <2>1, <2>2, ZenonT(30)
<1>9. BodyIsRequest'
  <2> SUFFICES ASSUME NEW g \in GrantIds, issued'[g] # None,
                      issued'[g].request_gen = request_gen[issued'[g].request]
               PROVE  issued'[g].body = request[issued'[g].request]
    BY <1>3, ZenonT(30) DEF BodyIsRequest
  <2>1. CASE issued[g] # None
    BY <1>5, <2>1, ZenonT(30) DEF ActiveInv, BodyIsRequest
  <2>2. CASE issued[g] = None
    BY <1>3, <2>2
  <2> QED
    BY <2>1, <2>2, ZenonT(30)
<1>10. \A g \in active : issued'[g] = issued[g]
  BY <1>5, <1>6, GrantTypes, ZenonT(30) DEF ActiveInv, GrantInv
<1> QED
  BY <1>3, <1>8, <1>9, <1>10 DEF ActiveInv, ActiveReturned, ActiveIndexExact

\* A recovery leaves no grant in the table.
LEMMA RecoveryActive ==
  ASSUME ActiveInv, resetDynamicStateForRecovery
  PROVE  TableIsCurrent' /\ BodyIsRequest' /\ ActiveReturned' /\ ActiveIndexExact'
  BY DEF resetDynamicStateForRecovery, callVars, ActiveInv, TableIsCurrent, BodyIsRequest,
    ActiveReturned, ActiveIndexExact

LEMMA ActiveInductive ==
  /\ Init => ActiveInv
  /\ ActiveInv /\ [Next]_vars => ActiveInv'
<1>1. Init => ActiveInv
  <2>1. ASSUME Init PROVE TableIsCurrent /\ BodyIsRequest /\ ActiveReturned /\ ActiveIndexExact
    BY <2>1 DEF Init, TableIsCurrent, BodyIsRequest, ActiveReturned, ActiveIndexExact
  <2> QED
    BY <2>1, GrantInit DEF ActiveInv
<1>2. ASSUME ActiveInv, [Next]_vars PROVE ActiveInv'
  <2>1. GrantInv'
    BY <1>2, GrantInductive DEF ActiveInv
  <2> SUFFICES TableIsCurrent' /\ BodyIsRequest' /\ ActiveReturned' /\ ActiveIndexExact'
    BY <2>1 DEF ActiveInv
  <2>2. CASE \/ \E in \in PlanInputs : publishPlan(in)
             \/ \E in \in DependencyInputs : publishDependency(in)
             \/ \E in \in ReservationInputs : publishReservation(in)
             \/ \E in \in CongestionInputs : publishCongestion(in)
             \/ \E in \in CapacityInputs : publishCapacity(in)
    <3>1. UNCHANGED otherThanEvidence
      BY <2>2 DEF publishPlan, publishDependency, publishReservation, publishCongestion, publishCapacity
    <3> QED
      BY <1>2, <3>1, NothingActive, ZenonT(30) DEF otherThanEvidence, recordVars, grantVars, callVars
  <2>3. CASE (\E in \in PolicyInputs : setPolicy(in)) \/ advanceCoordinatorEpoch \/ advanceTime
    <3>1. UNCHANGED <<recordVars, grantVars, callVars>>
      BY <2>3 DEF setPolicy, advanceCoordinatorEpoch, advanceTime
    <3> QED
      BY <1>2, <3>1, NothingActive DEF recordVars, grantVars, callVars
  <2>4. CASE \E in \in ParticipantInputs : publishParticipant(in)
    <3>1. UNCHANGED <<request, request_gen, current_grant, grantVars, callVars>>
      BY <2>4 DEF publishParticipant
    <3> QED
      BY <1>2, <3>1, NothingActive, ZenonT(30) DEF grantVars, callVars
  <2>5. CASE \E g \in GrantIds : handoff(g) \/ accept(g)
    <3>1. PICK g \in GrantIds : handoff(g) \/ accept(g)
      BY <2>5, ZenonT(30)
    <3>2. /\ UNCHANGED <<request, request_gen, current_grant, grantVars>>
          /\ \E s : dispatch' = [dispatch EXCEPT ![g] = s]
      BY <3>1, ZenonT(30) DEF handoff, accept, otherThanCalls, recordVars
    <3>3. dispatch[g] # "returned"
      BY <1>2, <3>1, HandoffKeeps, ZenonT(30) DEF accept, ActiveInv
    <3>4. \A h \in active : dispatch'[h] = dispatch[h]
      BY <1>2, <3>2, <3>3, GrantTypes DEF ActiveInv, ActiveReturned, GrantInv
    <3> QED
      BY <1>2, <3>2, <3>4, NothingActive DEF grantVars
  <2>6. CASE \E g \in GrantIds : revoke(g)
    <3>1. UNCHANGED <<recordVars, grantVars, dispatch>>
      BY <2>6, ZenonT(30) DEF revoke, otherThanCalls
    <3> QED
      BY <1>2, <3>1, NothingActive DEF recordVars, grantVars
  <2>7. CASE UNCHANGED vars
    BY <1>2, <2>7, NothingActive DEF vars, recordVars, grantVars, callVars
  <2> QED
    BY <1>2, <2>2, <2>3, <2>4, <2>5, <2>6, <2>7, SubmitActive, SupersedeActive, EndersActive,
       CommitActive, ScheduleActive, RecoveryActive, ZenonT(30) DEF Next
<1> QED
  BY <1>1, <1>2
-------------------------------------------------------------------------------
(* The theorems *)

\* The participant index holds exactly the active grants.
THEOREM IndexIsExact == Spec => []ActiveIndexExact
<1>1. ActiveInv => ActiveIndexExact
  BY ZenonT(30) DEF ActiveInv
<1> QED
  BY <1>1, ActiveInductive, PTL DEF Spec

\* Running work is judged by what it really occupies.
THEOREM RunningIsCurrent == Spec => []ActiveIsCurrent
<1>1. ActiveInv => ActiveIsCurrent
  BY GrantTypes DEF ActiveInv, ActiveIsCurrent, TableIsCurrent, GrantInv
<1> QED
  BY <1>1, ActiveInductive, PTL DEF Spec

\* A decision never grants work that shares a participant with running work.
THEOREM DecisionsAvoidRunning == Spec => NewGrantsAvoidRunning
<1> DEFINE Step == \A g \in issued_by_step, h \in active \ terminal :
                     members(issued'[g].body) \cap members(issued[h].body) = {}
<1>1. ASSUME ActiveInv, [Next]_vars PROVE [Step]_vars
  <2>1. CASE schedule
    <3>inv. GrantInv /\ TableIsCurrent /\ BodyIsRequest /\ ActiveIndexExact
      BY <1>1 DEF ActiveInv
    <3>types. TypeOK /\ TablesMatch /\ GrantsNameRecords
      BY <3>inv DEF GrantInv
    <3>1. PICK S \in SUBSET RequestIds : \E id : Grants(S, id)
      BY <2>1, <3>inv, ScheduleGrants
    <3>2. PICK id : Grants(S, id)
      BY <3>1
    <3> SUFFICES ASSUME NEW g \in GrantIds, issued[g] = None, issued'[g] # None,
                        NEW h \in active \ terminal,
                        NEW p \in members(issued'[g].body) \cap members(issued[h].body)
                 PROVE  FALSE
      BY ZenonT(30) DEF issued_by_step
    <3>3. PICK r \in S : issued'[g].body = request[r] /\ ~active_conflicts(r) /\ lifecycle[r] \in fresh_states
      BY <3>2, SMTT(30) DEF Grants
    <3> DEFINE s == issued[h].request
    <3>4. h \in grants /\ h \in GrantIds /\ issued[h] # None
      BY <3>types, GrantTypes, ZenonT(30) DEF TablesMatch
    <3>5. s \in records /\ issued[h].body = request[s]
      <4>1. s \in records
        BY <3>4, <3>types, GrantTypes, ZenonT(30) DEF GrantsNameRecords, records
      <4>2. issued[h].request_gen = request_gen[s]
        BY <3>inv, <3>4, ZenonT(30) DEF TableIsCurrent
      <4> QED
        BY <3>inv, <3>4, <4>1, <4>2, ZenonT(30) DEF BodyIsRequest
    <3>6. request[r] \in RequestInputs
      BY <3>types, <3>3, GrantTypes, ZenonT(30) DEF records, fresh_states, ABSENT
    <3>7. p \in Participants /\ p \in members(request[r]) /\ p \in members(request[s])
      BY <3>3, <3>5, <3>6, InputsAssumption, ZenonT(30) DEF members
    <3>8. h \in active_by_participant[p]
      BY <3>inv, <3>7 DEF ActiveIndexExact
    <3>9. forbids_overlap(classify_conflict(footprint(r), footprint(s)))
      BY <3>7, ZenonT(30)
      DEF forbids_overlap, classify_conflict, intersect_nonempty, footprint, make_footprint, members
    <3> QED
      BY <3>3, <3>4, <3>5, <3>7, <3>8, <3>9 DEF active_conflicts
  <2>2. CASE Next /\ ~schedule
    <3>1. issued' = issued
      BY <1>1, <2>2, OthersKeep, HandoffKeeps, ZenonT(30) DEF Keeps, ActiveInv
    <3> QED
      BY <3>1, ZenonT(30) DEF issued_by_step
  <2> QED
    BY <1>1, <2>1, <2>2, ZenonT(30)
<1> QED
  BY <1>1, ActiveInductive, PTL DEF Spec, NewGrantsAvoidRunning
-------------------------------------------------------------------------------
(* Handoffs *)

\* When every dependency is present in its generation, none makes the work stale.
LEMMA DependenciesNotStale ==
  ASSUME NEW req \in RequestInputs,
         \A i \in DOMAIN req.dependencies :
           LET d == req.dependencies[i] IN deps[d.id] # None /\ deps[d.id].gen = d.gen
  PROVE  dependency_readiness(req) \in {"READY", "WAITING_DEPENDENCY"}
<1> DEFINE stops(i) == LET d == req.dependencies[i] IN
                         \/ deps[d.id] = None
                         \/ deps[d.id].gen # d.gen
                         \/ ~deps[d.id].satisfied
           bad == {i \in DOMAIN req.dependencies : stops(i)}
           first == CHOOSE i \in bad : \A j \in bad : i <= j
<1>1. bad # {} => first \in DOMAIN req.dependencies
  <2>1. bad \in SUBSET Nat
    BY SizesAssumption, ZenonT(30)
  <2>2. bad # {} => \E i \in bad : \A j \in bad : i <= j
    BY <2>1, LeastNatural, ZenonT(30)
  <2>3. bad # {} => first \in bad
    BY <2>2, ZenonT(30)
  <2> QED
    BY <2>3, ZenonT(30)
<1>2. dependency_readiness(req) =
        LET d == req.dependencies[first] IN
        IF bad = {} THEN "READY"
        ELSE IF deps[d.id] # None /\ deps[d.id].gen # d.gen THEN "STALE"
        ELSE "WAITING_DEPENDENCY"
  BY ZenonT(30) DEF dependency_readiness
<1> HIDE DEF bad, first
<1> QED
  BY <1>1, <1>2

\* What revalidate_grant lets through is neither stale nor short of a participant
\* or its plan, when the grant carries what its record asks for.
LEMMA RevalidatedIsReady ==
  ASSUME NEW g, revalidate_grant(issued[g]),
         issued[g].body = request[issued[g].request], issued[g].body \in RequestInputs
  PROVE  compute_readiness(issued[g].request) \notin
           {"STALE", "WAITING_PARTICIPANT", "WAITING_COMMUNICATION_PLAN"}
<1> DEFINE r == issued[g].request
           req == request[r]
           plan == plans[req.plan]
<1>1. /\ plan # None /\ plan.gen = req.plan_gen /\ plan.valid
      /\ \A p \in members(req) : participant_current(p, req.participants[p]) /\ participant_ready(p)
      /\ \A i \in DOMAIN req.dependencies :
           LET d == req.dependencies[i] IN deps[d.id] # None /\ deps[d.id].gen = d.gen
      /\ req.reservation_gen # 0 => req.reservation_gen = current_reservation_gen
  BY ZenonT(30) DEF revalidate_grant
<1>2. dependency_readiness(req) \in {"READY", "WAITING_DEPENDENCY"}
  BY <1>1, DependenciesNotStale, ZenonT(30)
<1>3. /\ ~\E p \in members(req) : participants[p] # None /\ participants[p].gen # req.participants[p]
      /\ ~\E p \in members(req) : ~participant_ready(p)
  BY <1>1, ZenonT(30) DEF participant_current
<1>4. compute_readiness(r) \in {dependency_readiness(req), "WAITING_RESERVATION", "BLOCKED_CONGESTION",
                                "WAITING_CAPACITY", "READY"}
  BY <1>1, <1>3, ZenonT(30) DEF compute_readiness
<1> QED
  BY <1>2, <1>4

\* The steps that begin a handoff.
LEMMA OnlyHandoffsDispatch ==
  ASSUME GrantInv, Next, NEW g \in dispatched_by_step
  PROVE  handoff(g)
<1>1. g \in GrantIds /\ dispatch[g] # "accepting" /\ dispatch'[g] = "accepting"
  BY DEF dispatched_by_step
<1>2. CASE \E h \in GrantIds : handoff(h)
  <2>1. PICK h \in GrantIds : handoff(h)
    BY <1>2, ZenonT(30)
  <2>2. dispatch' = [dispatch EXCEPT ![h] = "accepting"]
    BY <2>1, HandoffKeeps, ZenonT(30)
  <2>3. g = h
    BY <1>1, <2>2, GrantTypes, ZenonT(30) DEF GrantInv
  <2> QED
    BY <2>1, <2>3
<1>3. CASE \E h \in GrantIds : accept(h) \/ handoff_commit(h)
  <2>1. \A x \in GrantIds : dispatch'[x] \in {dispatch[x], "accepted", "refused", "returned"}
    BY <1>3, GrantTypes, ZenonT(30) DEF GrantInv, accept, handoff_commit
  <2> QED
    BY <1>1, <2>1
<1>4. CASE UNCHANGED dispatch
  BY <1>1, <1>4
<1>5. \/ \E h \in GrantIds : handoff(h)
      \/ \E h \in GrantIds : accept(h) \/ handoff_commit(h)
      \/ UNCHANGED dispatch
  BY ZenonT(30)
  DEF Next, publishParticipant, publishPlan, publishDependency, publishReservation, publishCongestion,
    publishCapacity, setPolicy, advanceCoordinatorEpoch, advanceTime, submit, supersede, cancel, schedule,
    grant_selected, revoke, complete, fenceWorkerBoot, resetDynamicStateForRecovery, callVars,
    otherThanEvidence
<1> QED
  BY <1>2, <1>3, <1>4, <1>5

\* handoff lets through nothing that readiness, computed at that moment, holds
\* against the work.
THEOREM HandoffsAreNotStale == Spec => NoStaleHandoff
<1> DEFINE Step == \A g \in dispatched_by_step :
                     compute_readiness(issued[g].request) \notin
                       {"STALE", "WAITING_PARTICIPANT", "WAITING_COMMUNICATION_PLAN"}
<1>1. ASSUME ActiveInv, [Next]_vars PROVE [Step]_vars
  <2>1. ASSUME Next, NEW g \in dispatched_by_step
        PROVE  compute_readiness(issued[g].request) \notin
                 {"STALE", "WAITING_PARTICIPANT", "WAITING_COMMUNICATION_PLAN"}
    <3>1. g \in GrantIds /\ handoff(g)
      BY <1>1, <2>1, OnlyHandoffsDispatch, ZenonT(30) DEF ActiveInv, dispatched_by_step
    <3>2. issued[g] # None /\ revalidate_grant(issued[g])
      BY <3>1 DEF handoff
    <3>3. /\ issued[g].request \in records
          /\ request_gen[issued[g].request] = issued[g].request_gen
      BY <3>2, ZenonT(30) DEF revalidate_grant
    <3>4. issued[g].body = request[issued[g].request] /\ issued[g].body \in RequestInputs
      BY <1>1, <3>1, <3>2, <3>3, GrantTypes DEF ActiveInv, BodyIsRequest, GrantInv
    <3> QED
      BY <3>2, <3>4, RevalidatedIsReady
  <2>2. CASE UNCHANGED vars
    BY <2>2
  <2> QED
    BY <1>1, <2>1, <2>2, ZenonT(30)
<1> QED
  BY <1>1, ActiveInductive, PTL DEF Spec, NoStaleHandoff
===============================================================================
