----------------------------- MODULE GrantProofs ------------------------------
(*****************************************************************************)
(* Grants are issued once per generation, are live while their records count *)
(* on them, and are handed off once, for every number of requests, grants    *)
(* and recoveries.                                                           *)
(*****************************************************************************)
EXTENDS GrantSteps

(* What a decision does *)

\* Of two selected requests the one ranked later gets the greater id.
LEMMA RankedApart ==
  ASSUME NEW S, IsFiniteSet(S), NEW rank, NEW r \in S, NEW s \in S,
         \A x \in S : rank[x] \in Nat, rank[r] < rank[s]
  PROVE  Cardinality(ranked_before(S, rank, r)) < Cardinality(ranked_before(S, rank, s))
<1> DEFINE A == ranked_before(S, rank, r)
           B == ranked_before(S, rank, s)
<1>1. A \subseteq B /\ r \in B /\ r \notin A /\ B \subseteq S
  BY DEF ranked_before
<1>2. IsFiniteSet(B)
  BY <1>1, FS_Subset
<1>3. /\ IsFiniteSet(A) /\ Cardinality(A) <= Cardinality(B)
      /\ Cardinality(B) = Cardinality(A) => B = A
  BY <1>1, <1>2, FS_Subset
<1>4. Cardinality(A) \in Nat /\ Cardinality(B) \in Nat
  BY <1>2, <1>3, FS_CardinalityType
<1> QED
  BY <1>1, <1>3, <1>4

\* The states a decision may derive for a record it does not grant.
moves_on(r) ==
  \/ lifecycle'[r] = lifecycle[r]
  \/ lifecycle[r] \in fresh_states /\ lifecycle'[r] \in fresh_states \cup {"REVALIDATION_REQUIRED"}

\* The effect of a decision: it grants the requests of S, the grant of r under id[r].
Grants(S, id) ==
  /\ \A r \in S : /\ lifecycle[r] \in fresh_states /\ lifecycle'[r] = "GRANTED"
                  /\ current_grant'[r] = id[r]
                  /\ id[r] \in GrantIds /\ id[r] \in grants'
                  /\ next_grant_id <= id[r] /\ id[r] < next_grant_id'
                  /\ issued'[id[r]] # None
                  /\ issued'[id[r]].request = r /\ issued'[id[r]].request_gen = request_gen[r]
                  /\ issued'[id[r]].body = request[r] /\ ~active_conflicts(r)
  /\ \A r, s \in S : id[r] = id[s] => r = s
  /\ \A r \in RequestIds \ S : current_grant'[r] = current_grant[r] /\ moves_on(r)
  /\ \A g \in GrantIds : (\E r \in S : g = id[r]) \/ issued'[g] = issued[g]
  /\ grants' = grants \cup {id[r] : r \in S}
  /\ next_grant_id <= next_grant_id'
  /\ UNCHANGED <<request, request_gen, active, terminal, active_by_participant, next_request_id, dispatch>>

\* Whatever the ranking, a decision has that effect for some S and id.
LEMMA ScheduleGrants ==
  ASSUME GrantInv, schedule
  PROVE  \E S \in SUBSET RequestIds : \E id : Grants(S, id)
<1>1. PICK rank \in Bijection(candidates, 1..Cardinality(candidates)),
           S \in SUBSET candidates : is_selection(S, rank) /\ grant_selected(S, rank)
  BY DEF schedule
<1> DEFINE id == [r \in S |-> grant_id(S, rank, r)]
<1>2. S \subseteq records /\ S \subseteq RequestIds /\ records \subseteq RequestIds
  BY DEF candidates, records
<1>3. IsFiniteSet(S) /\ Cardinality(S) \in Nat
  BY CandidatesFinite, FS_Subset, FS_CardinalityType
<1>4. /\ \A r \in S : rank[r] \in Nat
      /\ \A r, s \in S : rank[r] = rank[s] => r = s
  BY DEF Bijection, Injection, IsInjective
<1>5. next_grant_id \in Nat /\ next_grant_id' = next_grant_id + Cardinality(S)
  BY <1>1, GrantTypes DEF grant_selected, GrantInv
<1>6. \A r \in S : Cardinality(ranked_before(S, rank, r)) \in 0 .. Cardinality(S) - 1
  BY <1>3, <1>4, RankedBefore
<1>7. \A r \in S : /\ id[r] = next_grant_id + Cardinality(ranked_before(S, rank, r))
                  /\ next_grant_id <= id[r] /\ id[r] < next_grant_id'
  BY <1>3, <1>5, <1>6 DEF grant_id
<1>8. \A r \in S : id[r] \in GrantIds
  <2>1. next_grant_id + Cardinality(S) <= MaxGrantId + 1 /\ 1 <= next_grant_id /\ MaxGrantId \in Nat
    BY <1>1, BoundsAssumption DEF grant_selected, GrantInv, TypeOK
  <2> SUFFICES ASSUME NEW r \in S PROVE id[r] \in 1..MaxGrantId
    BY DEF GrantIds
  <2> QED
    BY <1>3, <1>5, <1>6, <1>7, <2>1
<1>9. ASSUME NEW r \in S, NEW s \in S, id[r] = id[s] PROVE r = s
  <2>1. Cardinality(ranked_before(S, rank, r)) = Cardinality(ranked_before(S, rank, s))
    BY <1>5, <1>6, <1>7, <1>9
  <2>2. ~(rank[r] < rank[s]) /\ ~(rank[s] < rank[r])
    BY <1>3, <1>4, <1>6, <2>1, RankedApart
  <2> QED
    BY <1>4, <2>2
<1>10. \A r \in S : /\ issued'[id[r]] # None
                   /\ issued'[id[r]].request = r /\ issued'[id[r]].request_gen = request_gen[r]
                   /\ issued'[id[r]].body = request[r]
  <2> SUFFICES ASSUME NEW r \in S
               PROVE  /\ issued'[id[r]] # None
                      /\ issued'[id[r]].request = r /\ issued'[id[r]].request_gen = request_gen[r]
                      /\ issued'[id[r]].body = request[r]
    OBVIOUS
  <2>1. PICK x \in S : id[r] = grant_id(S, rank, x) /\ issued'[id[r]] = new_grant(x)
    BY <1>1, <1>8, ZenonT(30) DEF grant_selected
  <2>2. x = r
    BY <1>9, <2>1, ZenonT(30)
  <2>3. new_grant(r) \in Grant
    BY <1>2, InputsAssumption, NoneAssumption, ZenonT(30)
    DEF GrantInv, TypeOK, new_grant, Grant, current_congestion_gen
  <2> QED
    BY <2>1, <2>2, <2>3, NoneAssumption DEF new_grant
<1>11. \A r \in S : lifecycle[r] \in fresh_states /\ lifecycle'[r] = "GRANTED"
  BY <1>1, <1>2, ZenonT(30) DEF grant_selected, candidates, derived, fresh_states
<1>12. \A r \in RequestIds \ S : current_grant'[r] = current_grant[r] /\ moves_on(r)
  BY <1>1 DEF grant_selected, moves_on, derived, fresh_states, records
<1>13. \A g \in GrantIds : (\E r \in S : g = id[r]) \/ issued'[g] = issued[g]
  BY <1>1 DEF grant_selected
<1>14. \A r \in S : current_grant'[r] = id[r] /\ id[r] \in grants'
  BY <1>1, <1>2 DEF grant_selected
<1>15. /\ grants' = grants \cup {id[r] : r \in S}
       /\ UNCHANGED <<request, request_gen, active, terminal, active_by_participant,
                      next_request_id, dispatch>>
  BY <1>1 DEF grant_selected, callVars
<1> HIDE DEF id
<1>16. \A r \in S : ~active_conflicts(r)
  BY <1>1 DEF is_selection, selectable
<1>17. Grants(S, id)
  BY <1>3, <1>5, <1>7, <1>8, <1>9, <1>10, <1>11, <1>12, <1>13, <1>14, <1>15, <1>16 DEF Grants
<1> QED
  BY <1>2, <1>17

\* A decision preserves the invariant: what it grants is fresh, and has no grant
\* of its generation.
LEMMA SchedulePreserves ==
  ASSUME GrantInv, schedule, TypeOK'
  PROVE  GrantInv'
<1>1. PICK S \in SUBSET RequestIds : \E id : Grants(S, id)
  BY ScheduleGrants
<1>2. PICK id : Grants(S, id)
  BY <1>1
<1>inv. /\ TypeOK /\ IdsUsed /\ CurrentIsOwn /\ HeldIsLive /\ GrantsNameRecords
        /\ FreshIsUngranted /\ HandedOffMovesOn /\ TablesMatch /\ OneGrantPerGeneration
  BY DEF GrantInv
<1>types. /\ grants \subseteq GrantIds /\ terminal \subseteq grants
          /\ \A r \in RequestIds : current_grant[r] \in GrantIds \cup {None}
          /\ \A r \in RequestIds : request_gen[r] \in Nat
          /\ \A g \in GrantIds : issued[g] # None =>
               issued[g].request \in RequestIds /\ issued[g].request_gen \in Nat
  BY <1>inv, GrantTypes, ZenonT(30)
<1>3. next_grant_id \in Nat /\ next_grant_id' \in Nat
  BY BoundsAssumption DEF GrantInv, TypeOK
<1>4. \A r \in S : id[r] \in GrantIds /\ id[r] \in Nat /\ issued[id[r]] = None /\ id[r] \notin grants
  BY <1>2, <1>inv, <1>3, BoundsAssumption, SMTT(30) DEF Grants, IdsUsed, TablesMatch, GrantIds
<1>5. IdsUsed'
  BY <1>2, <1>inv, <1>3 DEF Grants, IdsUsed, GrantIds
<1>6. CurrentIsOwn'
  <2> SUFFICES ASSUME NEW r \in RequestIds, current_grant'[r] # None
               PROVE  /\ issued'[current_grant'[r]] # None
                      /\ issued'[current_grant'[r]].request = r
                      /\ issued'[current_grant'[r]].request_gen = request_gen[r]
    BY <1>2 DEF CurrentIsOwn, Grants
  <2>1. CASE r \in S
    BY <1>2, <2>1 DEF Grants
  <2>2. CASE r \notin S
    <3>1. current_grant'[r] = current_grant[r] /\ current_grant[r] \in GrantIds
      BY <1>2, <1>types, <2>2 DEF Grants
    <3>2. issued[current_grant[r]] # None
      BY <1>inv, <3>1, NoneAssumption DEF CurrentIsOwn
    <3>3. issued'[current_grant[r]] = issued[current_grant[r]]
      BY <1>2, <1>4, <3>1, <3>2 DEF Grants
    <3> QED
      BY <1>inv, <3>1, <3>3, ZenonT(30) DEF CurrentIsOwn
  <2> QED
    BY <2>1, <2>2
<1>7. HeldIsLive'
  <2> SUFFICES ASSUME NEW r \in RequestIds, lifecycle'[r] \in granted_states
               PROVE  current_grant'[r] \in grants' /\ current_grant'[r] \notin terminal
    BY <1>2, ZenonT(30) DEF HeldIsLive, Grants
  <2>1. CASE r \in S
    BY <1>2, <1>types, <1>4, <2>1 DEF Grants
  <2>2. CASE r \notin S
    BY <1>2, <1>inv, <2>2 DEF Grants, moves_on, fresh_states, granted_states, HeldIsLive
  <2> QED
    BY <2>1, <2>2, ZenonT(30)
<1>8. \A r \in RequestIds : lifecycle'[r] = ABSENT <=> lifecycle[r] = ABSENT
  BY <1>2 DEF Grants, moves_on, fresh_states, ABSENT
<1>9. \A g \in GrantIds : issued[g] # None => issued'[g] = issued[g] /\ issued[g].request \in RequestIds
  BY <1>2, <1>types, <1>4 DEF Grants
<1>10. GrantsNameRecords'
  <2> SUFFICES ASSUME NEW g \in GrantIds, issued'[g] # None
               PROVE  /\ lifecycle'[issued'[g].request] # ABSENT
                      /\ issued'[g].request_gen <= request_gen[issued'[g].request]
    BY <1>2, ZenonT(30) DEF GrantsNameRecords, Grants
  <2>1. CASE issued[g] # None
    BY <1>inv, <1>8, <1>9, <2>1, ZenonT(30) DEF GrantsNameRecords
  <2>2. CASE issued[g] = None
    <3>1. PICK r \in S : g = id[r]
      BY <1>2, <2>2, ZenonT(30) DEF Grants
    <3> QED
      BY <1>2, <1>types, <3>1 DEF Grants, ABSENT
  <2> QED
    BY <2>1, <2>2, ZenonT(30)
<1>11. ASSUME NEW g \in GrantIds, issued[g] # None, issued[g].request_gen = request_gen[issued[g].request]
       PROVE  /\ issued[g].request \in RequestIds \ S
              /\ lifecycle'[issued[g].request] = lifecycle[issued[g].request]
              /\ lifecycle[issued[g].request] \notin fresh_states
  BY <1>2, <1>inv, <1>9, <1>11 DEF Grants, moves_on, FreshIsUngranted
<1>12. FreshIsUngranted'
  <2> SUFFICES ASSUME NEW g \in GrantIds, issued'[g] # None,
                      issued'[g].request_gen = request_gen[issued'[g].request]
               PROVE  lifecycle'[issued'[g].request] \notin fresh_states
    BY <1>2, ZenonT(30) DEF FreshIsUngranted, Grants
  <2>1. CASE issued[g] # None
    BY <1>9, <1>11, <2>1, ZenonT(30)
  <2>2. CASE issued[g] = None
    BY <1>2, <2>2 DEF Grants, fresh_states
  <2> QED
    BY <2>1, <2>2, ZenonT(30)
<1>13. HandedOffMovesOn'
  <2> SUFFICES ASSUME NEW g \in GrantIds, dispatch[g] # "none"
               PROVE  /\ issued'[g] # None
                      /\ issued'[g].request_gen = request_gen[issued'[g].request] =>
                           lifecycle'[issued'[g].request] # "GRANTED"
    BY <1>2, ZenonT(30) DEF HandedOffMovesOn, Grants
  <2> QED
    BY <1>inv, <1>9, <1>11, ZenonT(30) DEF HandedOffMovesOn
<1>14. TablesMatch'
  <2>1. \A g \in grants' : issued'[g] # None
    BY <1>2, <1>inv, <1>types, <1>9 DEF Grants, TablesMatch
  <2> QED
    BY <1>2, <1>inv, <1>8, <2>1, ZenonT(30) DEF Grants, TablesMatch
<1>15. OneGrantPerGeneration'
  <2> SUFFICES ASSUME NEW g \in GrantIds, NEW h \in GrantIds,
                      issued'[g] # None, issued'[h] # None,
                      issued'[g].request = issued'[h].request,
                      issued'[g].request_gen = issued'[h].request_gen
               PROVE  g = h
    BY ZenonT(30) DEF OneGrantPerGeneration
  <2>1. ASSUME NEW x \in GrantIds, issued'[x] # None, issued[x] = None
        PROVE  \E r \in S : x = id[r] /\ issued'[x].request = r /\ issued'[x].request_gen = request_gen[r]
    BY <1>2, <2>1 DEF Grants
  <2>2. ASSUME NEW x \in GrantIds, issued[x] # None, issued[x].request \in S
        PROVE  issued[x].request_gen # request_gen[issued[x].request]
    BY <1>11, <2>2, ZenonT(30)
  <2>3. CASE issued[g] # None /\ issued[h] # None
    BY <1>inv, <1>9, <2>3 DEF OneGrantPerGeneration
  <2>4. CASE issued[g] = None /\ issued[h] = None
    BY <2>1, <2>4
  <2>5. CASE issued[g] = None /\ issued[h] # None
    BY <1>9, <2>1, <2>2, <2>5
  <2>6. CASE issued[g] # None /\ issued[h] = None
    BY <1>9, <2>1, <2>2, <2>6
  <2> QED
    BY <2>3, <2>4, <2>5, <2>6
<1> QED
  BY <1>5, <1>6, <1>7, <1>10, <1>12, <1>13, <1>14, <1>15 DEF GrantInv
-------------------------------------------------------------------------------
(* The theorems *)

\* A step other than a decision.
LEMMA KeepsInv ==
  ASSUME GrantInv, TypeOK', Keeps, HandedOffMovesOn'
  PROVE  GrantInv'
  BY KeepsPreserves DEF GrantInv

LEMMA GrantInductive ==
  GrantInv /\ [Next]_vars => GrantInv'
<1> SUFFICES ASSUME GrantInv, [Next]_vars PROVE GrantInv'
  OBVIOUS
<1>1. TypeOK'
  BY NextType DEF GrantInv
<1>2. CASE schedule
  BY <1>1, <1>2, SchedulePreserves
<1>3. CASE \E g \in GrantIds : handoff(g)
  BY <1>1, <1>3, HandoffKeeps, KeepsInv
<1>4. CASE Next /\ ~schedule /\ ~\E g \in GrantIds : handoff(g)
  BY <1>1, <1>4, OthersKeep, QuietPreserves, KeepsInv
<1>5. CASE UNCHANGED vars
  <2>1. Keeps /\ CallsKept
    BY <1>5, NothingKeeps DEF vars, recordVars, grantVars, callVars, CallsKept
  <2> QED
    BY <1>1, <2>1, QuietPreserves, KeepsInv
<1> QED
  BY <1>2, <1>3, <1>4, <1>5

\* No generation of a request is granted twice.
THEOREM GrantsAreUnique == Spec => []OneGrantPerGeneration
<1>1. GrantInv => OneGrantPerGeneration
  BY DEF GrantInv
<1> QED
  BY <1>1, GrantInit, GrantInductive, PTL DEF Spec

\* A granted, dispatching or active record holds a live grant of its generation.
THEOREM GrantsAreLive == Spec => []LiveGrant
<1>1. ASSUME GrantInv PROVE LiveGrant
  <2> SUFFICES ASSUME NEW r \in RequestIds, lifecycle[r] \in granted_states
               PROVE  /\ current_grant[r] \in grants \ terminal
                      /\ issued[current_grant[r]].request = r
                      /\ issued[current_grant[r]].request_gen = request_gen[r]
    BY ZenonT(30) DEF LiveGrant, records, granted_states
  <2>1. current_grant[r] \in grants \ terminal /\ current_grant[r] # None
    BY <1>1, NoneAssumption, GrantTypes DEF GrantInv, HeldIsLive
  <2> QED
    BY <1>1, <2>1, ZenonT(30) DEF GrantInv, CurrentIsOwn
<1> QED
  BY <1>1, GrantInit, GrantInductive, PTL DEF Spec

\* handoff lets a grant through at most once, and only a live and current one.
THEOREM HandoffsAreUnique == Spec => HandoffOnceAndLive
<1> DEFINE Step == \A g \in dispatched_by_step :
                     /\ dispatch[g] = "none"
                     /\ g \in grants \ terminal
                     /\ current_grant[issued[g].request] = g
<1>1. ASSUME GrantInv, [Next]_vars PROVE [Step]_vars
  <2>1. CASE \E g \in GrantIds : handoff(g)
    <3>1. PICK g \in GrantIds : handoff(g)
      BY <2>1
    <3>2. /\ dispatch[g] = "none" /\ g \in grants \ terminal
          /\ current_grant[issued[g].request] = g
          /\ dispatch' = [dispatch EXCEPT ![g] = "accepting"]
      BY <1>1, <3>1, HandoffKeeps, ZenonT(30)
    <3>3. dispatched_by_step \subseteq {g}
      BY <1>1, <3>2, GrantTypes DEF dispatched_by_step, GrantInv
    <3> QED
      BY <3>2, <3>3
  <2>2. CASE Next /\ ~\E g \in GrantIds : handoff(g)
    <3>1. dispatched_by_step = {}
      BY <1>1, <2>2, ZenonT(30) DEF Next, dispatched_by_step, publishParticipant, publishPlan, publishDependency,
        publishReservation, publishCongestion, publishCapacity, setPolicy, advanceCoordinatorEpoch,
        advanceTime, submit, supersede, cancel, schedule, grant_selected, accept, handoff_commit, revoke,
        complete, fenceWorkerBoot, resetDynamicStateForRecovery, callVars, otherThanEvidence, GrantInv, TypeOK
    <3> QED
      BY <3>1, ZenonT(30)
  <2> QED
    BY <1>1, <2>1, <2>2
<1> QED
  BY <1>1, GrantInit, GrantInductive, PTL DEF Spec, HandoffOnceAndLive
===============================================================================
