---------------------------- MODULE ContractProofs ----------------------------
(*****************************************************************************)
(* The scheduler implements GrantLifecycle, and what the fabric executes is  *)
(* followed.                                                                 *)
(*                                                                           *)
(* DroppedOnlyWhenActive needs to know what a fence, a supersession and a    *)
(* recovery find when they take an active grant away: a grant left behind by *)
(* a newer generation, or one whose record runs or was withdrawn under it    *)
(* (RunsOrWithdrawn).  A handoff that ends late can make a superseded grant  *)
(* active, so the generation has to be part of it.                           *)
(*****************************************************************************)
EXTENDS ActiveProofs, GrantContract

(* The grant contract *)

\* Without a decision no grant comes to life.
LEMMA KeepsLife ==
  ASSUME GrantInv, Keeps, NEW g \in GrantIds, issued[g] # None, is_live(g)'
  PROVE  is_live(g)
<1> DEFINE r == issued[g].request
<1>1. issued' = issued /\ grants' \subseteq grants /\ r \in RequestIds /\ (GoesOn(r) \/ StartsOver(r))
  BY GrantTypes DEF Keeps, GrantInv
<1>2. g \in grants' /\ g \notin terminal' /\ current_grant'[r] = g /\ lifecycle'[r] \in granted_states
  BY <1>1 DEF is_live, granted_states
<1>3. GoesOn(r)
  BY <1>1, <1>2, ZenonT(30) DEF StartsOver, fresh_states, granted_states
<1>4. lifecycle[r] \in granted_states /\ current_grant[r] = g
  BY <1>2, <1>3 DEF GoesOn
<1>5. g \in grants /\ g \notin terminal
  BY <1>1, <1>4 DEF GrantInv, HeldIsLive
<1> QED
  BY <1>4, <1>5 DEF is_live, granted_states

\* The calls of a step that neither begins nor ends one.
LEMMA OthersCall ==
  ASSUME GrantInv, Next,
         ~\E g \in GrantIds : handoff(g),
         ~\E g \in GrantIds : handoff_commit(g)
  PROVE  grant_call' = grant_call
<1>1. CASE \E g \in GrantIds : accept(g)
  <2>1. \A g \in GrantIds : \/ dispatch'[g] = dispatch[g]
                            \/ dispatch[g] = "accepting" /\ dispatch'[g] \in {"accepted", "refused"}
    BY <1>1, GrantTypes DEF accept, GrantInv
  <2> QED
    BY <2>1 DEF grant_call
<1>2. CASE ~\E g \in GrantIds : accept(g)
  <2>1. UNCHANGED dispatch
    BY <1>2, ZenonT(30) DEF Next, publishParticipant, publishPlan, publishDependency, publishReservation,
      publishCongestion, publishCapacity, setPolicy, advanceCoordinatorEpoch, advanceTime, submit,
      supersede, cancel, schedule, grant_selected, revoke, complete, fenceWorkerBoot,
      resetDynamicStateForRecovery, callVars, otherThanEvidence
  <2> QED
    BY <2>1, ZenonT(30) DEF grant_call
<1> QED
  BY <1>1, <1>2

\* A step without a decision ends the grants that were live and are not.
LEMMA QuietEnds ==
  ASSUME GrantInv, Keeps, grant_call' = grant_call
  PROVE  Contract!GNext
<1> DEFINE G == {g \in GrantIds : issued[g] # None /\ is_live(g) /\ ~is_live(g)'}
<1>1. issued' = issued
  BY DEF Keeps
<1>2. grant_key' = grant_key
  BY <1>1 DEF grant_key
<1>3. \A g \in G : grant_status[g] = "live"
  BY DEF grant_status
<1>4. ASSUME NEW g \in GrantIds
      PROVE  (grant_status[g])' = IF g \in G THEN "ended" ELSE grant_status[g]
  BY <1>1, KeepsLife DEF grant_status
<1>5. grant_status' = [g \in GrantIds |-> IF g \in G THEN "ended" ELSE grant_status[g]]
  BY <1>4 DEF grant_status
<1> QED
  BY <1>2, <1>3, <1>5, ZenonT(30) DEF Contract!GNext, Contract!End

\* A step that moves records only between granted states keeps every grant as it is.
LEMMA SameLife ==
  ASSUME GrantInv, UNCHANGED <<issued, grants, terminal, current_grant>>,
         \A r \in RequestIds : lifecycle'[r] \in granted_states <=> lifecycle[r] \in granted_states
  PROVE  UNCHANGED <<grant_key, grant_status>>
<1>1. \A g \in GrantIds : issued[g] # None => issued[g].request \in RequestIds
  BY GrantTypes DEF GrantInv
<1>2. \A g \in GrantIds : issued[g] # None => (is_live(g)' <=> is_live(g))
  BY <1>1 DEF is_live, granted_states
<1> QED
  BY <1>2 DEF grant_key, grant_status

\* A handoff begins on a live grant that none was begun on.
LEMMA HandoffDispatches ==
  ASSUME GrantInv, NEW g \in GrantIds, handoff(g)
  PROVE  Contract!GNext
<1> DEFINE r == issued[g].request
<1>1. /\ Keeps /\ dispatch[g] = "none" /\ g \in grants /\ g \notin terminal
      /\ current_grant[r] = g /\ lifecycle[r] = "GRANTED"
      /\ lifecycle' = [lifecycle EXCEPT ![r] = "DISPATCHING"]
      /\ dispatch' = [dispatch EXCEPT ![g] = "accepting"]
      /\ UNCHANGED <<current_grant, grants, terminal>>
  BY HandoffKeeps
<1>2. issued[g] # None /\ r \in RequestIds /\ issued' = issued
  BY <1>1, GrantTypes DEF Keeps, GrantInv, TablesMatch
<1>3. \A s \in RequestIds : lifecycle'[s] = IF s = r THEN "DISPATCHING" ELSE lifecycle[s]
  BY <1>1, GrantTypes DEF GrantInv
<1>4. UNCHANGED <<grant_key, grant_status>>
  BY <1>1, <1>2, <1>3, SameLife DEF granted_states
<1>5. grant_status[g] = "live" /\ grant_call[g] = "none"
  BY <1>1, <1>2 DEF grant_status, grant_call, is_live
<1>6. \A h \in GrantIds : dispatch'[h] = IF h = g THEN "accepting" ELSE dispatch[h]
  BY <1>1, GrantTypes DEF GrantInv
<1>7. grant_call' = [grant_call EXCEPT ![g] = "calling"]
  BY <1>6, ZenonT(30) DEF grant_call
<1> QED
  BY <1>4, <1>5, <1>7, ZenonT(30) DEF Contract!GNext, Contract!Dispatch

\* Its end changes the life of no grant.
LEMMA CommitReturns ==
  ASSUME GrantInv, NEW g \in GrantIds, handoff_commit(g)
  PROVE  Contract!GNext
<1>1. /\ UNCHANGED <<current_grant, issued, grants, terminal>>
      /\ dispatch[g] \in {"accepted", "refused"}
      /\ dispatch' = [dispatch EXCEPT ![g] = "returned"]
      /\ lifecycle' = [lifecycle EXCEPT ![issued[g].request] = committed_state(g)]
  BY DEF handoff_commit
<1>2. \A r \in RequestIds : \/ lifecycle'[r] = lifecycle[r]
                            \/ lifecycle[r] = "DISPATCHING" /\ lifecycle'[r] = "ACTIVE"
  BY <1>1, GrantTypes DEF committed_state, GrantInv
<1>3. UNCHANGED <<grant_key, grant_status>>
  BY <1>1, <1>2, SameLife DEF granted_states
<1>4. \A h \in GrantIds : dispatch'[h] = IF h = g THEN "returned" ELSE dispatch[h]
  BY <1>1, GrantTypes DEF GrantInv
<1>5. grant_call[g] = "calling" /\ grant_call' = [grant_call EXCEPT ![g] = "returned"]
  BY <1>1, <1>4, ZenonT(30) DEF grant_call
<1> QED
  BY <1>3, <1>5, ZenonT(30) DEF Contract!GNext, Contract!Return

\* A decision issues the grants it adds, under keys of their own.
LEMMA ScheduleIssues ==
  ASSUME GrantInv, schedule, GrantInv'
  PROVE  Contract!GNext
<1>1. PICK S \in SUBSET RequestIds : \E id : Grants(S, id)
  BY ScheduleGrants
<1>2. PICK id : Grants(S, id)
  BY <1>1
<1>inv. TypeOK /\ IdsUsed /\ HandedOffMovesOn /\ TablesMatch
  BY DEF GrantInv
<1>types. /\ grants \subseteq GrantIds /\ terminal \subseteq grants /\ next_grant_id \in Nat
          /\ \A g \in GrantIds : issued[g] # None => issued[g].request \in RequestIds
  BY <1>inv, GrantTypes, ZenonT(30)
<1> DEFINE G == {g \in GrantIds : \E r \in S : g = id[r]}
<1>3. ASSUME NEW r \in S
      PROVE  /\ id[r] \in G /\ issued[id[r]] = None /\ issued'[id[r]] # None
             /\ issued'[id[r]].request = r
             /\ id[r] \notin grants /\ id[r] \notin terminal /\ dispatch[id[r]] = "none"
  <2>1. issued[id[r]] = None
    <3>1. id[r] \in GrantIds /\ next_grant_id <= id[r]
      BY <1>2 DEF Grants
    <3>2. id[r] \in Nat
      BY <3>1, BoundsAssumption DEF GrantIds
    <3> QED
      BY <1>inv, <1>types, <3>1, <3>2 DEF IdsUsed
  <2> QED
    BY <1>2, <1>inv, <1>types, <2>1 DEF Grants, TablesMatch, HandedOffMovesOn
<1>4. \A g \in GrantIds \ G : issued'[g] = issued[g]
  BY <1>2 DEF Grants
<1>5. \A g \in G : grant_status[g] = "unissued" /\ (grant_status[g])' = "live"
  <2> SUFFICES ASSUME NEW r \in S, id[r] \in GrantIds
               PROVE  grant_status[id[r]] = "unissued" /\ (grant_status[id[r]])' = "live"
    BY ZenonT(30)
  <2>1. /\ id[r] \in grants' /\ terminal' = terminal /\ current_grant'[r] = id[r]
        /\ lifecycle'[r] = "GRANTED" /\ issued'[id[r]].request = r /\ id[r] \notin terminal
    BY <1>2, <1>3 DEF Grants
  <2>2. is_live(id[r])'
    BY <2>1 DEF is_live
  <2> QED
    BY <1>3, <2>2 DEF grant_status
<1>6. ASSUME NEW g \in GrantIds \ G, issued[g] # None
      PROVE  is_live(g)' <=> is_live(g)
  <2> DEFINE r == issued[g].request
  <2>1. r \in RequestIds /\ issued'[g] = issued[g] /\ terminal' = terminal
    <3>1. r \in RequestIds
      BY <1>types, <1>6, ZenonT(30)
    <3> QED
      BY <1>2, <1>4, <1>6, <3>1 DEF Grants
  <2>2. g \in grants' <=> g \in grants
    BY <1>2, <1>3, ZenonT(30) DEF Grants
  <2>3. CASE r \in S
    BY <1>2, <1>3, <2>1, <2>3 DEF Grants, is_live, fresh_states
  <2>4. CASE r \notin S
    BY <1>2, <2>1, <2>2, <2>4 DEF Grants, is_live, moves_on, fresh_states
  <2> QED
    BY <2>3, <2>4, ZenonT(30)
<1>7. \A g \in GrantIds \ G : (grant_status[g])' = grant_status[g]
  BY <1>2, <1>4, <1>6, ZenonT(30) DEF Grants, grant_status
<1>8. grant_status' = [g \in GrantIds |-> IF g \in G THEN "live" ELSE grant_status[g]]
  BY <1>5, <1>7 DEF grant_status
<1>9. \A g \in GrantIds \ G : (grant_key[g])' = grant_key[g]
  BY <1>4 DEF grant_key
<1>10. ASSUME NEW g \in GrantIds, issued'[g] # None PROVE (grant_key[g])' # no_key
  <2>1. issued'[g].request # 0
    <3>1. TypeOK'
      BY ZenonT(30) DEF GrantInv
    <3>2. issued'[g].request \in RequestIds
      BY <1>10, <3>1 DEF TypeOK, Grant
    <3> QED
      BY <3>2, BoundsAssumption DEF RequestIds
  <2> QED
    BY <1>10, <2>1 DEF grant_key, no_key
<1>11. ASSUME NEW g \in G, NEW h \in GrantIds, g # h PROVE (grant_key[g])' # (grant_key[h])'
  <2>1. issued'[g] # None
    BY <1>3, ZenonT(30)
  <2>2. CASE issued'[h] = None
    BY <1>10, <2>1, <2>2 DEF grant_key
  <2>3. CASE issued'[h] # None
    BY <1>11, <2>1, <2>3 DEF grant_key, GrantInv, OneGrantPerGeneration
  <2> QED
    BY <2>2, <2>3
<1>12. \A g \in G : (grant_key[g])' # no_key
  BY <1>3, <1>10
<1> HIDE DEF G
<1>13. G \in SUBSET GrantIds
  BY DEF G
<1>14. grant_call' = grant_call
  BY <1>2 DEF Grants, grant_call
<1> QED
  BY <1>5, <1>8, <1>9, <1>11, <1>12, <1>13, <1>14 DEF Contract!GNext, Contract!Issue

\* The scheduler implements the grant contract: its initial states are the
\* contract's, and each of its steps issues grants, ends some, or begins or ends a
\* handoff.
THEOREM ContractHolds == Spec => ImplementsGrantLifecycle
<1>1. Init => Contract!GInit
  BY DEF Init, Contract!GInit, grant_key, grant_status, grant_call
<1>2. ASSUME GrantInv, GrantInv', [Next]_vars
      PROVE  [Contract!GNext]_(Contract!gvars)
  <2>1. CASE schedule
    BY <1>2, <2>1, ScheduleIssues
  <2>2. CASE \E g \in GrantIds : handoff(g)
    BY <1>2, <2>2, HandoffDispatches
  <2>3. CASE \E g \in GrantIds : handoff_commit(g)
    BY <1>2, <2>3, CommitReturns
  <2>4. CASE Next /\ ~schedule /\ ~(\E g \in GrantIds : handoff(g))
             /\ ~(\E g \in GrantIds : handoff_commit(g))
    BY <1>2, <2>4, OthersKeep, OthersCall, QuietEnds, ZenonT(30)
  <2>5. CASE UNCHANGED vars
    BY <2>5 DEF vars, recordVars, grantVars, callVars, Contract!gvars, grant_key, grant_status,
      grant_call, is_live
  <2> QED
    BY <1>2, <2>1, <2>2, <2>3, <2>4, <2>5
<1> QED
  BY <1>1, <1>2, GrantInit, GrantInductive, PTL DEF Spec, ImplementsGrantLifecycle, Contract!GSpec
-------------------------------------------------------------------------------
(* What the fabric executes *)

\* An active grant of its record's present generation has not been ended, and its
\* record is active or was withdrawn under it.
RunsOrWithdrawn ==
  \A g \in active :
    issued[g].request_gen = request_gen[issued[g].request] =>
      /\ g \notin terminal
      /\ lifecycle[issued[g].request] \in {"ACTIVE", "REVALIDATION_REQUIRED"}

FollowInv == ActiveInv /\ RunsOrWithdrawn

\* What is known of an active grant.
LEMMA ActiveGrant ==
  ASSUME FollowInv, NEW g \in active
  PROVE  /\ g \in GrantIds /\ g \in grants /\ issued[g] # None /\ dispatch[g] = "returned"
         /\ issued[g].request \in RequestIds /\ lifecycle[issued[g].request] # ABSENT
         /\ issued[g].request_gen = request_gen[issued[g].request] =>
              /\ g \in grant_of(issued[g].request) /\ g \notin terminal
              /\ lifecycle[issued[g].request] \in {"ACTIVE", "REVALIDATION_REQUIRED"}
<1>1. g \in GrantIds /\ g \in grants /\ issued[g] # None
  BY GrantTypes, ZenonT(60) DEF FollowInv, ActiveInv, GrantInv, TablesMatch
<1>2. issued[g].request \in RequestIds /\ lifecycle[issued[g].request] # ABSENT
  BY <1>1, GrantTypes, ZenonT(60) DEF FollowInv, ActiveInv, GrantInv, GrantsNameRecords
<1>3. issued[g].request_gen = request_gen[issued[g].request] =>
        /\ g \notin terminal
        /\ lifecycle[issued[g].request] \in {"ACTIVE", "REVALIDATION_REQUIRED"}
  BY ZenonT(60) DEF FollowInv, RunsOrWithdrawn
<1>4. g \notin terminal => current_grant[issued[g].request] = g
  BY <1>1, ZenonT(60) DEF FollowInv, ActiveInv, TableIsCurrent
<1>5. current_grant[issued[g].request] = g => g \in grant_of(issued[g].request)
  BY <1>1, ZenonT(60) DEF grant_of
<1>6. dispatch[g] = "returned"
  BY ZenonT(60) DEF FollowInv, ActiveInv, ActiveReturned
<1> QED
  BY <1>1, <1>2, <1>3, <1>4, <1>5, <1>6, ZenonT(60)

\* The current grant of a record is the record's, and of its generation.
LEMMA OwnGrant ==
  ASSUME FollowInv, NEW r \in RequestIds, NEW g \in grant_of(r)
  PROVE  g \in GrantIds /\ issued[g].request = r /\ issued[g].request_gen = request_gen[r]
<1>1. g = current_grant[r] /\ g \in grants
  BY ZenonT(60) DEF grant_of
<1>2. g \in GrantIds /\ g # None
  BY <1>1, GrantTypes, NoneAssumption DEF FollowInv, ActiveInv, GrantInv
<1> QED
  BY <1>1, <1>2, ZenonT(60) DEF FollowInv, ActiveInv, GrantInv, CurrentIsOwn

\* A step that makes nothing active, and after which what is still active and of the
\* present generation was so before.
LEMMA RunsKept ==
  ASSUME FollowInv, active' \subseteq active, issued' = issued,
         \A g \in active' :
           issued[g].request_gen = request_gen'[issued[g].request] =>
             /\ issued[g].request_gen = request_gen[issued[g].request]
             /\ g \in terminal' => g \in terminal
             /\ lifecycle'[issued[g].request] \in
                  {lifecycle[issued[g].request], "REVALIDATION_REQUIRED"}
  PROVE  RunsOrWithdrawn'
<1> SUFFICES ASSUME NEW g \in active',
                    issued[g].request_gen = request_gen'[issued[g].request]
             PROVE  /\ g \notin terminal'
                    /\ lifecycle'[issued[g].request] \in {"ACTIVE", "REVALIDATION_REQUIRED"}
  BY ZenonT(60) DEF RunsOrWithdrawn
<1>1. /\ g \in active /\ issued[g].request_gen = request_gen[issued[g].request]
      /\ g \in terminal' => g \in terminal
      /\ lifecycle'[issued[g].request] \in {lifecycle[issued[g].request], "REVALIDATION_REQUIRED"}
  BY ZenonT(60)
<1>2. g \notin terminal /\ lifecycle[issued[g].request] \in {"ACTIVE", "REVALIDATION_REQUIRED"}
  BY <1>1, ZenonT(60) DEF FollowInv, RunsOrWithdrawn
<1> QED
  BY <1>1, <1>2, ZenonT(60)

\* cancel and complete end the one active grant there can be of a record's generation.
LEMMA EndedRecord ==
  ASSUME FollowInv, NEW r \in RequestIds, NEW G, G \subseteq grant_of(r),
         grant_of(r) \ terminal \subseteq G,
         active' = active \ G, terminal' = terminal \cup G, UNCHANGED <<issued, request_gen>>,
         \A s \in RequestIds \ {r} : lifecycle'[s] = lifecycle[s]
  PROVE  RunsOrWithdrawn'
<1>1. ASSUME NEW g \in active', issued[g].request_gen = request_gen[issued[g].request]
      PROVE  /\ g \in terminal' => g \in terminal
             /\ lifecycle'[issued[g].request] = lifecycle[issued[g].request]
  <2>1. g \in active /\ g \notin G
    BY <1>1, ZenonT(60)
  <2>2. /\ issued[g].request \in RequestIds /\ g \notin terminal
        /\ g \in grant_of(issued[g].request)
    BY <1>1, <2>1, ActiveGrant, ZenonT(60)
  <2>3. issued[g].request # r
    BY <2>1, <2>2, ZenonT(60)
  <2> QED
    BY <2>1, <2>2, <2>3, ZenonT(60)
<1> QED
  BY <1>1, RunsKept, ZenonT(60)

\* A new generation leaves the grants of the one before behind.
LEMMA SupersedeRuns ==
  ASSUME FollowInv, NEW r \in RequestIds, NEW req \in RequestInputs, NEW gen \in 1..MaxRequestGen,
         supersede(r, req, gen)
  PROVE  RunsOrWithdrawn'
<1>types. /\ lifecycle \in [RequestIds -> LifecycleState \cup {ABSENT}]
          /\ request_gen \in [RequestIds -> Nat]
  BY GrantTypes, ZenonT(60) DEF FollowInv, ActiveInv, GrantInv
<1>1. /\ lifecycle' = [lifecycle EXCEPT ![r] = "WAITING"]
      /\ request_gen' = [request_gen EXCEPT ![r] = gen] /\ gen > request_gen[r]
      /\ active' = active \ grant_of(r) /\ terminal' = terminal \cup grant_of(r) /\ issued' = issued
  BY ZenonT(60) DEF supersede
<1>2. /\ request_gen'[r] = gen
      /\ \A s \in RequestIds \ {r} : lifecycle'[s] = lifecycle[s] /\ request_gen'[s] = request_gen[s]
  BY <1>types, <1>1, ZenonT(60)
<1>3. ASSUME NEW g \in active', issued[g].request_gen = request_gen'[issued[g].request]
      PROVE  issued[g].request \in RequestIds \ {r}
  <2>1. g \in active /\ g \in GrantIds /\ issued[g] # None /\ issued[g].request \in RequestIds
    BY <1>1, <1>3, ActiveGrant, ZenonT(60)
  <2>2. issued[g].request_gen <= request_gen[issued[g].request]
    BY <2>1, ZenonT(60) DEF FollowInv, ActiveInv, GrantInv, GrantsNameRecords
  <2>3. issued[g].request_gen \in Nat /\ request_gen[r] \in Nat /\ gen \in Int
    BY <1>types, <2>1, GrantTypes, BoundsAssumption DEF FollowInv, ActiveInv, GrantInv
  <2>4. issued[g].request = r => issued[g].request_gen = gen /\ issued[g].request_gen <= request_gen[r]
    BY <1>2, <1>3, <2>2, ZenonT(60)
  <2> QED
    BY <1>1, <2>1, <2>3, <2>4
<1>4. \A g \in active' : g \in terminal' => g \in terminal
  BY <1>1, ZenonT(60)
<1> QED
  BY <1>1, <1>2, <1>3, <1>4, RunsKept, ZenonT(60)

\* The end of a handoff makes a grant active only if it is its record's, or was left
\* behind by a new generation.
LEMMA CommitRuns ==
  ASSUME FollowInv, NEW h \in GrantIds, handoff_commit(h)
  PROVE  RunsOrWithdrawn'
<1> DEFINE r == issued[h].request
<1>types. /\ lifecycle \in [RequestIds -> LifecycleState \cup {ABSENT}] /\ GrantInv
          /\ issued[h] # None /\ r \in RequestIds
  <2>1. dispatch[h] # "none" /\ GrantInv
    BY ZenonT(60) DEF handoff_commit, FollowInv, ActiveInv
  <2>2. issued[h] # None
    BY <2>1, ZenonT(60) DEF GrantInv, HandedOffMovesOn
  <2> QED
    BY <2>1, <2>2, GrantTypes, ZenonT(60) DEF GrantInv
<1>1. /\ lifecycle' = [lifecycle EXCEPT ![r] = committed_state(h)]
      /\ becomes_active(h) \/ active' = active \ {h}
      /\ active' \subseteq active \cup {h}
      /\ UNCHANGED <<request_gen, issued, terminal>>
  BY ZenonT(60) DEF handoff_commit
<1>2. /\ lifecycle'[r] = committed_state(h)
      /\ \A s \in RequestIds \ {r} : lifecycle'[s] = lifecycle[s]
  BY <1>types, <1>1, ZenonT(60)
<1>3. /\ lifecycle[r] \in {"ACTIVE", "REVALIDATION_REQUIRED"} => committed_state(h) = lifecycle[r]
      /\ committed_state(h) = "ACTIVE" => lifecycle[r] \in granted_states
  BY ZenonT(60) DEF committed_state, granted_states
<1>4. ASSUME NEW g \in active, issued[g].request_gen = request_gen[issued[g].request]
      PROVE  /\ g \notin terminal
             /\ lifecycle'[issued[g].request] \in {"ACTIVE", "REVALIDATION_REQUIRED"}
  BY <1>2, <1>3, <1>4, ActiveGrant, ZenonT(60)
<1>5. ASSUME becomes_active(h), issued[h].request_gen = request_gen[r]
      PROVE  h \notin terminal /\ lifecycle'[r] = "ACTIVE"
  <2>1. lifecycle'[r] = "ACTIVE" /\ lifecycle[r] \in granted_states
    BY <1>2, <1>3, <1>5, ZenonT(60) DEF becomes_active
  <2>2. current_grant[r] \in grants /\ current_grant[r] \notin terminal
    BY <1>types, <2>1, ZenonT(60) DEF GrantInv, HeldIsLive
  <2>3. current_grant[r] \in GrantIds /\ current_grant[r] # None
    BY <1>types, <2>2, GrantTypes, NoneAssumption DEF GrantInv
  <2>4. /\ issued[current_grant[r]] # None /\ issued[current_grant[r]].request = r
        /\ issued[current_grant[r]].request_gen = issued[h].request_gen
    BY <1>types, <1>5, <2>3, ZenonT(60) DEF GrantInv, CurrentIsOwn
  <2>5. OneGrantPerGeneration
    BY <1>types, ZenonT(60) DEF GrantInv
  <2>6. current_grant[r] = h
    BY <1>types, <2>3, <2>4, <2>5 DEF OneGrantPerGeneration
  <2> QED
    BY <2>1, <2>2, <2>6, ZenonT(60)
<1> SUFFICES ASSUME NEW g \in active',
                    issued[g].request_gen = request_gen[issued[g].request]
             PROVE  /\ g \notin terminal
                    /\ lifecycle'[issued[g].request] \in {"ACTIVE", "REVALIDATION_REQUIRED"}
  BY <1>1, ZenonT(60) DEF RunsOrWithdrawn
<1>6. g \in active \/ (g = h /\ becomes_active(h))
  BY <1>1, ZenonT(60)
<1> QED
  BY <1>4, <1>5, <1>6, ZenonT(60)

\* A fence withdraws the records whose grants it ends.
LEMMA FenceEnds ==
  ASSUME FollowInv, NEW b \in FencedBoots, fenceWorkerBoot(b)
  PROVE  \E A \in SUBSET records :
           LET cut == UNION {grant_of(r) : r \in A} IN
           /\ active' = active \ cut /\ terminal' = terminal \cup cut
           /\ UNCHANGED <<issued, request_gen, callVars>>
           /\ \A r \in RequestIds : lifecycle'[r] \in {lifecycle[r], "REVALIDATION_REQUIRED"}
           /\ \A r \in A : lifecycle[r] = "ACTIVE" => lifecycle'[r] = "REVALIDATION_REQUIRED"
<1> DEFINE A == {r \in records : /\ ~is_terminal_state(r)
                                 /\ \E p \in members(request[r]) :
                                      participants[p] # None /\ participants[p].boot = b}
           cut == UNION {grant_of(r) : r \in A}
<1>1. /\ active' = active \ cut /\ terminal' = terminal \cup cut
      /\ UNCHANGED <<issued, request_gen, callVars>>
      /\ lifecycle' = [r \in RequestIds |->
           IF r \in A /\ lifecycle[r] \in withdrawable
           THEN transition(lifecycle[r], "REVALIDATION_REQUIRED") ELSE lifecycle[r]]
  BY ZenonT(60) DEF fenceWorkerBoot
<1>2. A \in SUBSET records /\ records \subseteq RequestIds /\ "ACTIVE" \in withdrawable
  BY ZenonT(60) DEF records, withdrawable
<1> HIDE DEF A
<1>3. \A r \in RequestIds : lifecycle'[r] \in {lifecycle[r], "REVALIDATION_REQUIRED"}
  BY <1>1, WithdrawableMoves, ZenonT(60)
<1>4. \A r \in A : lifecycle[r] = "ACTIVE" => lifecycle'[r] = "REVALIDATION_REQUIRED"
  BY <1>1, <1>2, WithdrawableMoves, ZenonT(60)
<1> QED
  BY <1>1, <1>2, <1>3, <1>4, ZenonT(60)

\* A decision leaves alone what is active or withdrawn.
LEMMA ScheduleRuns ==
  ASSUME FollowInv, schedule
  PROVE  RunsOrWithdrawn'
<1>1. PICK S \in SUBSET RequestIds : \E id : Grants(S, id)
  BY ScheduleGrants DEF FollowInv, ActiveInv
<1>2. PICK id : Grants(S, id)
  BY <1>1, ZenonT(60)
<1>3. /\ UNCHANGED <<request_gen, active, terminal>>
      /\ \A r \in RequestIds : lifecycle[r] \in {"ACTIVE", "REVALIDATION_REQUIRED"} =>
           lifecycle'[r] = lifecycle[r]
      /\ \A r \in S : next_grant_id <= id[r] /\ id[r] \in GrantIds
      /\ \A g \in GrantIds : (\E r \in S : g = id[r]) \/ issued'[g] = issued[g]
  BY <1>2, ZenonT(60) DEF Grants, moves_on, fresh_states
<1>4. \A r \in S : issued[id[r]] = None
  BY <1>3, BoundsAssumption, GrantTypes, SMTT(30)
  DEF FollowInv, ActiveInv, GrantInv, IdsUsed, GrantIds
<1> SUFFICES ASSUME NEW g \in active, issued'[g].request_gen = request_gen[issued'[g].request]
             PROVE  /\ g \notin terminal
                    /\ lifecycle'[issued'[g].request] \in {"ACTIVE", "REVALIDATION_REQUIRED"}
  BY <1>3, ZenonT(60) DEF RunsOrWithdrawn
<1>5. issued'[g] = issued[g]
  <2>1. g \in GrantIds /\ issued[g] # None
    BY ActiveGrant, ZenonT(60)
  <2> QED
    BY <1>3, <1>4, <2>1, ZenonT(60)
<1> QED
  BY <1>3, <1>5, ActiveGrant, ZenonT(60)

LEMMA FollowInductive ==
  /\ Init => FollowInv
  /\ FollowInv /\ [Next]_vars => FollowInv'
<1>1. ASSUME Init PROVE FollowInv
  <2>1. RunsOrWithdrawn
    BY <1>1, ZenonT(60) DEF Init, RunsOrWithdrawn
  <2> QED
    BY <1>1, <2>1, ActiveInductive, ZenonT(60) DEF FollowInv
<1>2. ASSUME FollowInv, [Next]_vars PROVE FollowInv'
  <2>1. ActiveInv' /\ lifecycle \in [RequestIds -> LifecycleState \cup {ABSENT}]
        /\ request_gen \in [RequestIds -> Nat]
    BY <1>2, ActiveInductive, GrantTypes, ZenonT(60) DEF FollowInv, ActiveInv, GrantInv
  <2> SUFFICES RunsOrWithdrawn'
    BY <2>1, ZenonT(60) DEF FollowInv
  <2>2. CASE UNCHANGED <<lifecycle, request_gen, issued, active, terminal>>
    BY <1>2, <2>2, ZenonT(60) DEF FollowInv, RunsOrWithdrawn
  <2>3. CASE \E in \in ParticipantInputs : publishParticipant(in)
    <3>1. PICK in \in ParticipantInputs : publishParticipant(in)
      BY <2>3, ZenonT(60)
    <3>2. /\ \A r \in RequestIds : lifecycle'[r] \in {lifecycle[r], "REVALIDATION_REQUIRED"}
          /\ UNCHANGED <<request_gen, issued, active, terminal>>
      BY <3>1, WithdrawableMoves, ZenonT(60) DEF publishParticipant, grantVars
    <3> QED
      BY <1>2, <3>2, ActiveGrant, RunsKept, ZenonT(60)
  <2>4. CASE \E req \in RequestInputs : submit(req)
    <3>1. PICK req \in RequestInputs : submit(req)
      BY <2>4, ZenonT(60)
    <3>2. next_request_id \in RequestIds /\ UNCHANGED <<issued, active, terminal>>
      BY <3>1, ZenonT(60) DEF submit, grantVars
    <3>absent. lifecycle[next_request_id] = ABSENT
      <4>1. /\ \A r \in RequestIds : r >= next_request_id => lifecycle[r] = ABSENT
            /\ next_request_id \in Nat
        BY <1>2, GrantTypes, ZenonT(60) DEF FollowInv, ActiveInv, GrantInv, TablesMatch
      <4> QED
        BY <3>2, <4>1
    <3>3. \A r \in RequestIds \ {next_request_id} :
            lifecycle'[r] = lifecycle[r] /\ request_gen'[r] = request_gen[r]
      BY <2>1, <3>1, ZenonT(60) DEF submit
    <3>4. \A g \in active : issued[g].request \in RequestIds \ {next_request_id}
      BY <1>2, <3>2, <3>absent, ActiveGrant, ZenonT(60)
    <3> QED
      BY <1>2, <3>2, <3>3, <3>4, RunsKept, ZenonT(60)
  <2>5. CASE \E r \in RequestIds, req \in RequestInputs, gen \in 1..MaxRequestGen :
               supersede(r, req, gen)
    BY <1>2, <2>5, SupersedeRuns, ZenonT(60)
  <2>6. CASE \E r \in RequestIds : cancel(r)
    <3>1. PICK r \in RequestIds : cancel(r)
      BY <2>6, ZenonT(60)
    <3>2. /\ active' = active \ (grant_of(r) \ terminal)
          /\ terminal' = terminal \cup (grant_of(r) \ terminal)
          /\ UNCHANGED <<issued, request_gen>> /\ lifecycle' = [lifecycle EXCEPT ![r] = "CANCELLED"]
      BY <3>1, ZenonT(60) DEF cancel
    <3>3. \A s \in RequestIds \ {r} : lifecycle'[s] = lifecycle[s]
      BY <2>1, <3>2, ZenonT(60)
    <3> QED
      BY <1>2, <3>2, <3>3, EndedRecord, ZenonT(60)
  <2>7. CASE schedule
    BY <1>2, <2>7, ScheduleRuns, ZenonT(60)
  <2>8. CASE \E g \in GrantIds : handoff(g)
    <3>1. PICK h \in GrantIds : handoff(h)
      BY <2>8, ZenonT(60)
    <3> DEFINE r == issued[h].request
    <3>2. /\ lifecycle[r] = "GRANTED" /\ lifecycle' = [lifecycle EXCEPT ![r] = "DISPATCHING"]
          /\ UNCHANGED <<request_gen, terminal>>
      BY <1>2, <3>1, HandoffKeeps, ZenonT(60) DEF FollowInv, ActiveInv
    <3>3. UNCHANGED <<issued, active>>
      BY <3>1, ZenonT(60) DEF handoff, grantVars
    <3>4. \A s \in RequestIds \ {r} : lifecycle'[s] = lifecycle[s]
      BY <2>1, <3>2, ZenonT(60)
    <3>5. ASSUME NEW g \in active, issued[g].request_gen = request_gen[issued[g].request]
          PROVE  lifecycle'[issued[g].request] = lifecycle[issued[g].request]
      BY <1>2, <3>2, <3>4, <3>5, ActiveGrant, ZenonT(60)
    <3> QED
      BY <1>2, <3>2, <3>3, <3>5, RunsKept, ZenonT(60)
  <2>9. CASE \E g \in GrantIds : handoff_commit(g)
    BY <1>2, <2>9, CommitRuns, ZenonT(60)
  <2>10. CASE \E g \in GrantIds, b \in Boots : complete(g, b)
    <3>1. PICK g \in GrantIds, b \in Boots : complete(g, b)
      BY <2>10, ZenonT(60)
    <3> DEFINE r == issued[g].request
    <3>2. /\ active' = active \ {g} /\ terminal' = terminal \cup {g}
          /\ UNCHANGED <<issued, request_gen>> /\ lifecycle' = [lifecycle EXCEPT ![r] = "COMPLETED"]
          /\ issued[g] # None /\ g \in grants /\ g \notin terminal
      BY <3>1, ZenonT(60) DEF complete, completion_authorized
    <3>3. r \in RequestIds
      BY <1>2, <3>2, GrantTypes, ZenonT(60) DEF FollowInv, ActiveInv, GrantInv
    <3>4. current_grant[r] = g
      BY <1>2, <3>2, ZenonT(60) DEF FollowInv, ActiveInv, TableIsCurrent
    <3>5. {g} = grant_of(r)
      BY <3>2, <3>4, ZenonT(60) DEF grant_of
    <3>6. \A s \in RequestIds \ {r} : lifecycle'[s] = lifecycle[s]
      BY <2>1, <3>2, ZenonT(60)
    <3> QED
      BY <1>2, <3>2, <3>3, <3>5, <3>6, EndedRecord, ZenonT(60)
  <2>11. CASE \E b \in FencedBoots : fenceWorkerBoot(b)
    <3>1. PICK cut : /\ active' = active \ cut /\ terminal' = terminal \cup cut
                     /\ UNCHANGED <<issued, request_gen>>
                     /\ \A r \in RequestIds : lifecycle'[r] \in {lifecycle[r], "REVALIDATION_REQUIRED"}
      BY <1>2, <2>11, FenceEnds, ZenonT(60)
    <3> QED
      BY <1>2, <3>1, ActiveGrant, RunsKept, ZenonT(60)
  <2>12. CASE resetDynamicStateForRecovery
    BY <2>12, ZenonT(60) DEF resetDynamicStateForRecovery, RunsOrWithdrawn
  <2>13. \/ UNCHANGED <<lifecycle, request_gen, issued, active, terminal>>
         \/ \E in \in ParticipantInputs : publishParticipant(in)
         \/ \E req \in RequestInputs : submit(req)
         \/ \E r \in RequestIds, req \in RequestInputs, gen \in 1..MaxRequestGen : supersede(r, req, gen)
         \/ \E r \in RequestIds : cancel(r)
         \/ schedule
         \/ \E g \in GrantIds : handoff(g)
         \/ \E g \in GrantIds : handoff_commit(g)
         \/ \E g \in GrantIds, b \in Boots : complete(g, b)
         \/ \E b \in FencedBoots : fenceWorkerBoot(b)
         \/ resetDynamicStateForRecovery
    BY <1>2, ZenonT(60)
    DEF Next, vars, recordVars, grantVars, publishPlan, publishDependency, publishReservation,
      publishCongestion, publishCapacity, setPolicy, advanceCoordinatorEpoch, advanceTime,
      accept, revoke, otherThanEvidence, otherThanCalls
  <2> QED
    BY <2>2, <2>3, <2>4, <2>5, <2>6, <2>7, <2>8, <2>9, <2>10, <2>11, <2>12, <2>13
<1> QED
  BY <1>1, <1>2

\* Whatever the step, the fabric's work is followed, or was active when its record was
\* withdrawn or moved on.
LEMMA FollowStep ==
  ASSUME FollowInv, [Next]_vars, NEW g \in fabric', g \in fabric => followed(g)
  PROVE  \/ followed(g)'
         \/ /\ g \in active
            /\ \/ lifecycle'[issued[g].request] = "REVALIDATION_REQUIRED"
               \/ request_gen'[issued[g].request] # issued[g].request_gen
<1> DEFINE r == issued[g].request
           excused == /\ g \in active
                      /\ \/ lifecycle'[r] = "REVALIDATION_REQUIRED"
                         \/ request_gen'[r] # issued[g].request_gen
<1> HIDE DEF excused
<1> SUFFICES followed(g)' \/ excused
  BY ZenonT(60) DEF excused
<1>types. /\ dispatch \in [GrantIds -> CallState] /\ fabric \subseteq GrantIds
          /\ lifecycle \in [RequestIds -> LifecycleState \cup {ABSENT}]
          /\ request_gen \in [RequestIds -> Nat]
          /\ GrantInv
  <2>1. TypeOK
    BY ZenonT(60) DEF FollowInv, ActiveInv, GrantInv
  <2> QED
    BY <2>1, GrantTypes, ZenonT(60) DEF TypeOK, FollowInv, ActiveInv
<1>1. CASE UNCHANGED <<active, dispatch, revoking, fabric>>
  BY <1>1, ZenonT(60) DEF followed
<1>2. CASE \E s \in RequestIds : cancel(s)
  <2>1. \E live : /\ active' = active \ live /\ revoking' = revoking \cup live
                  /\ UNCHANGED <<dispatch, fabric>>
    BY <1>2, ZenonT(60) DEF cancel
  <2> QED
    BY <2>1, ZenonT(60) DEF followed
<1>3. CASE \E h \in GrantIds : handoff(h)
  <2>1. PICK h \in GrantIds : handoff(h)
    BY <1>3, ZenonT(60)
  <2>2. dispatch[h] = "none" /\ dispatch' = [dispatch EXCEPT ![h] = "accepting"]
    BY <1>types, <2>1, HandoffKeeps, ZenonT(60)
  <2>3. UNCHANGED <<active, revoking, fabric>>
    BY <2>1, ZenonT(60) DEF handoff, grantVars
  <2> QED
    BY <1>types, <2>2, <2>3 DEF followed
<1>4. CASE \E h \in GrantIds : accept(h)
  <2>1. PICK h \in GrantIds : accept(h)
    BY <1>4, ZenonT(60)
  <2>2. /\ dispatch[h] = "accepting" /\ UNCHANGED <<active, revoking>>
        /\ \/ dispatch' = [dispatch EXCEPT ![h] = "accepted"] /\ fabric' = fabric \cup {h}
           \/ dispatch' = [dispatch EXCEPT ![h] = "refused"] /\ fabric' = fabric
    BY <2>1, ZenonT(60) DEF accept, otherThanCalls, grantVars
  <2> QED
    BY <1>types, <2>2 DEF followed
<1>5. CASE \E h \in GrantIds : handoff_commit(h)
  <2>1. PICK h \in GrantIds : handoff_commit(h)
    BY <1>5, ZenonT(60)
  <2>2. /\ dispatch' = [dispatch EXCEPT ![h] = "returned"] /\ fabric' = fabric
        /\ \/ becomes_active(h) /\ active' = active \cup {h}
           \/ ~becomes_active(h) /\ active' = active \ {h}
        /\ revoking' = revoking \cup revoked_by_commit(h)
    BY <2>1, ZenonT(60) DEF handoff_commit
  <2>3. revoked_by_commit(h) = IF becomes_active(h) THEN {} ELSE {h}
    BY ZenonT(60) DEF revoked_by_commit
  <2> QED
    BY <1>types, <2>2, <2>3 DEF followed
<1>6. CASE \E h \in GrantIds : revoke(h)
  <2>1. \E h : fabric' = fabric \ {h} /\ revoking' = revoking \ {h} /\ UNCHANGED <<dispatch, active>>
    BY <1>6, ZenonT(60) DEF revoke, otherThanCalls, grantVars
  <2> QED
    BY <2>1, ZenonT(60) DEF followed
<1>7. CASE \E h \in GrantIds, b \in Boots : complete(h, b)
  <2>1. \E h : active' = active \ {h} /\ fabric' = fabric \ {h} /\ UNCHANGED <<dispatch, revoking>>
    BY <1>7, ZenonT(60) DEF complete
  <2> QED
    BY <2>1, ZenonT(60) DEF followed
<1>8. CASE \E s \in RequestIds, req \in RequestInputs, gen \in 1..MaxRequestGen : supersede(s, req, gen)
  <2>1. PICK s \in RequestIds, req \in RequestInputs, gen \in 1..MaxRequestGen : supersede(s, req, gen)
    BY <1>8, ZenonT(60)
  <2>2. /\ active' = active \ grant_of(s) /\ UNCHANGED <<dispatch, revoking, fabric>>
        /\ request_gen' = [request_gen EXCEPT ![s] = gen] /\ gen > request_gen[s]
    BY <2>1, ZenonT(60) DEF supersede, callVars
  <2>3. request_gen'[s] = gen /\ gen # request_gen[s]
    BY <1>types, <2>2, BoundsAssumption
  <2>4. g \in grant_of(s) => r = s /\ issued[g].request_gen = request_gen[s]
    BY OwnGrant, ZenonT(60)
  <2> QED
    BY <2>2, <2>3, <2>4, ZenonT(60) DEF followed, excused
<1>9. CASE \E b \in FencedBoots : fenceWorkerBoot(b)
  <2>1. PICK A \in SUBSET records :
          /\ active' = active \ UNION {grant_of(s) : s \in A}
          /\ UNCHANGED <<dispatch, revoking, fabric>>
          /\ \A s \in RequestIds : lifecycle'[s] \in {lifecycle[s], "REVALIDATION_REQUIRED"}
          /\ \A s \in A : lifecycle[s] = "ACTIVE" => lifecycle'[s] = "REVALIDATION_REQUIRED"
    BY <1>9, FenceEnds, ZenonT(60) DEF callVars
  <2>2. CASE \E s \in A : g \in grant_of(s) /\ g \in active
    <3>1. PICK s \in A : g \in grant_of(s) /\ g \in active
      BY <2>2, ZenonT(60)
    <3>2. s \in RequestIds /\ r = s /\ issued[g].request_gen = request_gen[s]
      BY <3>1, OwnGrant, ZenonT(60) DEF records
    <3>3. lifecycle[s] \in {"ACTIVE", "REVALIDATION_REQUIRED"}
      BY <3>1, <3>2, ActiveGrant, ZenonT(60)
    <3>4. lifecycle'[s] = "REVALIDATION_REQUIRED"
      BY <2>1, <3>2, <3>3, ZenonT(60)
    <3> QED
      BY <3>1, <3>2, <3>4, ZenonT(60) DEF excused
  <2>3. CASE ~\E s \in A : g \in grant_of(s) /\ g \in active
    BY <2>1, <2>3, ZenonT(60) DEF followed
  <2> QED
    BY <2>2, <2>3
<1>10. CASE resetDynamicStateForRecovery
  <2>1. /\ UNCHANGED <<request_gen, dispatch, revoking, fabric>>
        /\ \A s \in RequestIds : s \in records /\ ~is_terminal_state(s) =>
             lifecycle'[s] = "REVALIDATION_REQUIRED"
    BY <1>10, ZenonT(60) DEF resetDynamicStateForRecovery, callVars
  <2>2. CASE g \in active /\ issued[g].request_gen = request_gen[r]
    <3>1. r \in RequestIds /\ lifecycle[r] \in {"ACTIVE", "REVALIDATION_REQUIRED"} /\ lifecycle[r] # ABSENT
      BY <2>2, ActiveGrant, ZenonT(60)
    <3>2. r \in records /\ ~is_terminal_state(r)
      BY <3>1 DEF records, is_terminal_state, terminal_states
    <3> QED
      BY <2>1, <2>2, <3>1, <3>2, ZenonT(60) DEF excused
  <2> QED
    BY <2>1, <2>2, ZenonT(60) DEF followed, excused
<1>11. \/ UNCHANGED <<active, dispatch, revoking, fabric>>
       \/ \E s \in RequestIds : cancel(s)
       \/ \E h \in GrantIds : handoff(h)
       \/ \E h \in GrantIds : accept(h)
       \/ \E h \in GrantIds : handoff_commit(h)
       \/ \E h \in GrantIds : revoke(h)
       \/ \E h \in GrantIds, b \in Boots : complete(h, b)
       \/ \E s \in RequestIds, req \in RequestInputs, gen \in 1..MaxRequestGen : supersede(s, req, gen)
       \/ \E b \in FencedBoots : fenceWorkerBoot(b)
       \/ resetDynamicStateForRecovery
  BY ZenonT(60)
  DEF Next, vars, grantVars, callVars, publishParticipant, publishPlan, publishDependency,
    publishReservation, publishCongestion, publishCapacity, setPolicy, advanceCoordinatorEpoch,
    advanceTime, submit, schedule, grant_selected, otherThanEvidence
<1> QED
  BY <1>1, <1>2, <1>3, <1>4, <1>5, <1>6, <1>7, <1>8, <1>9, <1>10, <1>11

\* What the fabric accepted is followed until the fabric has given it up, whatever
\* overtakes the handoff, unless it was active when a fence, a supersession or a
\* recovery took its record away.
THEOREM WorkIsFollowed == Spec => DroppedOnlyWhenActive
<1>1. FollowInv /\ [Next]_vars =>
        [\A g \in fabric' :
           (g \in fabric => followed(g)) =>
             \/ followed(g)'
             \/ LET r == issued[g].request IN
                /\ g \in active
                /\ \/ lifecycle'[r] = "REVALIDATION_REQUIRED"
                   \/ request_gen'[r] # issued[g].request_gen]_vars
  BY FollowStep, ZenonT(60)
<1> QED
  BY <1>1, FollowInductive, PTL DEF Spec, DroppedOnlyWhenActive
===============================================================================
