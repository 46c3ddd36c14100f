---------------------------- MODULE RecoveryProofs ----------------------------
(*****************************************************************************)
(* What is over stays over: outcomes are final, and a crash and a restart    *)
(* do not undo them, for every number of requests, grants, savers and        *)
(* restarts.                                                                 *)
(*                                                                           *)
(* OldGrantsDie rests on the epoch: no file is ahead of the process, and     *)
(* every start moves past every grant issued before it.                      *)
(* RestoredWorkIsNotRepeated rests on the records: what a process reads from *)
(* the file is neither fresh nor granted, and becomes neither again in that  *)
(* generation (RestoredSettled).  That it stays so needs GrantInv, and that  *)
(* a restart restores GrantInv needs every file to be sound.                 *)
(*****************************************************************************)
EXTENDS GrantProofs, Recovery

(* Outcomes *)

\* What may become of a record in one step.
settles(r) ==
  \/ lifecycle'[r] = lifecycle[r]
  \/ request_gen'[r] # request_gen[r]
  \/ lifecycle[r] \notin terminal_states

\* Withdrawals only reach what can be withdrawn.
LEMMA WithdrawalSettles ==
  ASSUME NEW A, lifecycle' = [r \in RequestIds |->
                  IF r \in A /\ lifecycle[r] \in withdrawable
                  THEN transition(lifecycle[r], "REVALIDATION_REQUIRED") ELSE lifecycle[r]]
  PROVE  \A r \in RequestIds : settles(r)
  BY ZenonT(30) DEF settles, withdrawable, terminal_states

\* Every step but a decision.
LEMMA OthersSettle ==
  ASSUME GrantInv, Next, ~schedule
  PROVE  \A r \in records : settles(r)
<1> USE DEF records
<1>1. ASSUME NEW in \in ParticipantInputs, publishParticipant(in) PROVE \A r \in RequestIds : settles(r)
  BY <1>1, WithdrawalSettles, ZenonT(30) DEF publishParticipant
<1>2. ASSUME NEW b \in FencedBoots, fenceWorkerBoot(b) PROVE \A r \in RequestIds : settles(r)
  BY <1>2, WithdrawalSettles, ZenonT(30) DEF fenceWorkerBoot
<1>3. ASSUME NEW req \in RequestInputs, submit(req) PROVE \A r \in records : settles(r)
  <2>1. lifecycle' \in {lifecycle, [lifecycle EXCEPT ![next_request_id] = "DECLARED"]}
    BY <1>3 DEF submit
  <2>2. next_request_id \in RequestIds => next_request_id \notin records
    BY GrantTypes DEF GrantInv, TablesMatch, RequestIds
  <2> QED
    BY <2>1, <2>2, GrantTypes DEF settles, GrantInv
<1>4. ASSUME NEW r \in RequestIds, NEW req \in RequestInputs, NEW gen \in 1..MaxRequestGen,
             supersede(r, req, gen)
      PROVE  \A s \in RequestIds : settles(s)
  <2>1. /\ lifecycle' = [lifecycle EXCEPT ![r] = "WAITING"]
        /\ request_gen' = [request_gen EXCEPT ![r] = gen] /\ gen > request_gen[r]
    BY <1>4 DEF supersede
  <2>2. request_gen'[r] # request_gen[r]
    BY <2>1, BoundsAssumption, GrantTypes DEF GrantInv
  <2> QED
    BY <2>1, <2>2, GrantTypes DEF settles, GrantInv
<1>5. ASSUME NEW r \in RequestIds, cancel(r) PROVE \A s \in RequestIds : settles(s)
  BY <1>5, GrantTypes DEF cancel, is_terminal_state, settles, GrantInv
<1>6. ASSUME NEW g \in GrantIds, handoff(g) PROVE \A s \in RequestIds : settles(s)
  BY <1>6, HandoffKeeps, GrantTypes DEF settles, GrantInv, terminal_states
<1>7. ASSUME NEW g \in GrantIds, handoff_commit(g) PROVE \A s \in RequestIds : settles(s)
  BY <1>7, GrantTypes, ZenonT(30) DEF handoff_commit, committed_state, settles, GrantInv, terminal_states
<1>8. ASSUME NEW g \in GrantIds, NEW b \in Boots, complete(g, b) PROVE \A s \in RequestIds : settles(s)
  BY <1>8, GrantTypes, ZenonT(30) DEF complete, completion_authorized, settles, GrantInv, terminal_states
<1>9. ASSUME resetDynamicStateForRecovery PROVE \A s \in RequestIds : settles(s)
  BY <1>9 DEF resetDynamicStateForRecovery, is_terminal_state, settles
<1>10. CASE UNCHANGED lifecycle
  BY <1>10 DEF settles
<1>11. \/ \E in \in ParticipantInputs : publishParticipant(in)
       \/ \E b \in FencedBoots : fenceWorkerBoot(b)
       \/ \E req \in RequestInputs : submit(req)
       \/ \E r \in RequestIds, req \in RequestInputs, gen \in 1..MaxRequestGen : supersede(r, req, gen)
       \/ \E r \in RequestIds : cancel(r)
       \/ \E g \in GrantIds : handoff(g)
       \/ \E g \in GrantIds : handoff_commit(g)
       \/ \E g \in GrantIds, b \in Boots : complete(g, b)
       \/ resetDynamicStateForRecovery
       \/ UNCHANGED lifecycle
  BY ZenonT(30)
  DEF Next, publishPlan, publishDependency, publishReservation, publishCongestion, publishCapacity,
    setPolicy, advanceCoordinatorEpoch, advanceTime, accept, revoke, otherThanEvidence, otherThanCalls,
    recordVars
<1> QED
  BY <1>1, <1>2, <1>3, <1>4, <1>5, <1>6, <1>7, <1>8, <1>9, <1>10, <1>11

LEMMA StepsSettle ==
  ASSUME GrantInv, [Next]_vars
  PROVE  \A r \in records : settles(r)
<1>1. CASE schedule
  <2>1. PICK S \in SUBSET RequestIds : \E id : Grants(S, id)
    BY <1>1, ScheduleGrants, ZenonT(30)
  <2>2. \A r \in S : lifecycle[r] \in fresh_states
    BY <2>1 DEF Grants
  <2>3. \A r \in RequestIds \ S : moves_on(r)
    BY <2>1 DEF Grants
  <2> QED
    BY <2>2, <2>3 DEF settles, moves_on, fresh_states, terminal_states, records
<1>2. CASE Next /\ ~schedule
  BY <1>2, OthersSettle, ZenonT(30)
<1>3. CASE UNCHANGED vars
  BY <1>3 DEF vars, recordVars, settles
<1> QED
  BY <1>1, <1>2, <1>3

\* A generation of a request has at most one outcome.
THEOREM OutcomesAreFinal == Spec => TerminalIsFinal
<1>1. ASSUME GrantInv, [Next]_vars
      PROVE  [\A r \in records :
                lifecycle[r] \in terminal_states /\ request_gen'[r] = request_gen[r] =>
                  lifecycle'[r] = lifecycle[r]]_vars
  BY <1>1, StepsSettle DEF settles
<1> QED
  BY <1>1, GrantInit, GrantInductive, PTL DEF Spec, TerminalIsFinal
-------------------------------------------------------------------------------
(* What a restart finds *)

\* A whole file holds the counters and the records of some state of the scheduler.
Sound(s) ==
  s.state = "whole" =>
    /\ s.epoch \in Nat
    /\ s.next_request_id \in 1..MaxRequestId + 1
    /\ s.next_grant_id \in 1..MaxGrantId + 1
    /\ s.lifecycle \in [RequestIds -> LifecycleState \cup {ABSENT}]
    /\ s.request \in [RequestIds -> RequestInputs \cup {None}]
    /\ s.request_gen \in [RequestIds -> Nat]
    /\ \A r \in RequestIds : s.lifecycle[r] # ABSENT => s.request[r] # None
    /\ \A r \in RequestIds : r >= s.next_request_id => s.lifecycle[r] = ABSENT

FilesSound ==
  /\ Sound(file)
  /\ DOMAIN snapshot = Savers /\ \A s \in Savers : Sound(snapshot[s])

\* Generation gen of r is over, or is neither fresh nor granted; and this process
\* has issued no grant of it.
settled(r, gen) ==
  /\ lifecycle[r] # ABSENT
  /\ gen < request_gen[r] \/ /\ gen = request_gen[r]
                             /\ lifecycle[r] \notin fresh_states \cup granted_states
  /\ \A g \in GrantIds : issued[g] # None /\ issued[g].request = r => issued[g].request_gen # gen

RestoredSettled ==
  /\ restored \subseteq RequestIds \X Nat
  /\ \A r \in RequestIds, gen \in Nat : <<r, gen>> \in restored => settled(r, gen)

RecoveryInv == GrantInv /\ restarts \in Nat /\ FilesSound /\ RestoredSettled
-------------------------------------------------------------------------------
(* Files *)

\* What save takes a snapshot of is sound.
LEMMA SerializedIsSound == GrantInv => Sound(serializeState)
<1> SUFFICES ASSUME GrantInv PROVE Sound(serializeState)
  BY ZenonT(30)
<1>1. /\ epoch \in Nat
      /\ next_request_id \in 1..MaxRequestId + 1 /\ next_grant_id \in 1..MaxGrantId + 1
      /\ lifecycle \in [RequestIds -> LifecycleState \cup {ABSENT}]
      /\ request \in [RequestIds -> RequestInputs \cup {None}]
      /\ request_gen \in [RequestIds -> Nat]
      /\ \A r \in RequestIds : lifecycle[r] # ABSENT => request[r] # None
  BY DEF GrantInv, TypeOK, records
<1>2. \A r \in RequestIds : r >= next_request_id => lifecycle[r] = ABSENT
  BY DEF GrantInv, TablesMatch
<1> QED
  BY <1>1, <1>2 DEF Sound, serializeState

\* So is what a process reads, or starts from when it can read nothing.
LEMMA ReadableIsSound == FilesSound => Sound(readable) /\ readable.state = "whole"
<1> SUFFICES ASSUME FilesSound PROVE Sound(readable) /\ readable.state = "whole"
  OBVIOUS
<1>1. CASE file.state = "whole"
  BY <1>1 DEF FilesSound, readable
<1>2. CASE file.state # "whole"
  <2>1. readable = emptyState
    BY <1>2 DEF readable
  <2>2. 1 \in 1..MaxRequestId + 1 /\ 1 \in 1..MaxGrantId + 1
    BY BoundsAssumption
  <2> QED
    BY <2>1, <2>2 DEF emptyState, Sound, ABSENT
<1> QED
  BY <1>1, <1>2

\* Saving writes nothing else.
LEMMA SavesKeepFilesSound ==
  ASSUME GrantInv, FilesSound, NEW s \in Savers, save(s) \/ fopen(s) \/ fwrite(s)
  PROVE  FilesSound' /\ UNCHANGED <<vars, held, restored, restarts>>
<1>1. Sound(Torn) /\ Sound(NoFile)
  BY ZenonT(30) DEF Sound, Torn, NoFile
<1>2. CASE save(s)
  BY <1>2, SerializedIsSound, ZenonT(30) DEF save, FilesSound, Sound
<1>3. CASE fopen(s)
  BY <1>1, <1>3, ZenonT(30) DEF fopen, FilesSound, Sound
<1>4. CASE fwrite(s)
  BY <1>1, <1>4 DEF fwrite, FilesSound, Sound
<1> QED
  BY <1>2, <1>3, <1>4, ZenonT(30)
-------------------------------------------------------------------------------
(* The steps *)

\* A step that is no decision leaves what was restored settled.
LEMMA KeepsSettled ==
  ASSUME GrantInv, TypeOK', Keeps, NEW r \in RequestIds, NEW gen \in Nat, settled(r, gen)
  PROVE  settled(r, gen)'
<1>1. /\ issued' = issued /\ (GoesOn(r) \/ StartsOver(r))
      /\ request_gen[r] \in Nat /\ request_gen'[r] \in Nat
  BY ZenonT(30) DEF Keeps, GrantInv, TypeOK
<1>2. CASE GoesOn(r)
  BY <1>1, <1>2, ZenonT(30) DEF settled, GoesOn
<1>3. CASE StartsOver(r)
  BY <1>1, <1>3, SMTT(30) DEF settled, StartsOver, fresh_states, ABSENT
<1> QED
  BY <1>1, <1>2, <1>3, ZenonT(30)

\* A decision passes it over.
LEMMA ScheduleSettled ==
  ASSUME GrantInv, schedule, NEW r \in RequestIds, NEW gen \in Nat, settled(r, gen)
  PROVE  settled(r, gen)'
<1>1. PICK S \in SUBSET RequestIds : \E id : Grants(S, id)
  BY ScheduleGrants
<1>2. PICK id : Grants(S, id)
  BY <1>1
<1>3. request_gen' = request_gen /\ request_gen[r] \in Nat
  BY <1>2, GrantTypes, ZenonT(30) DEF Grants, GrantInv
<1>4. r \in S => gen < request_gen[r] /\ lifecycle'[r] = "GRANTED"
  BY <1>2, ZenonT(30) DEF Grants, settled
<1>5. r \notin S => moves_on(r)
  BY <1>2, ZenonT(30) DEF Grants
<1>6. lifecycle'[r] # ABSENT
  BY <1>4, <1>5 DEF settled, moves_on, fresh_states, ABSENT
<1>7. \/ gen < request_gen[r]
      \/ gen = request_gen[r] /\ lifecycle'[r] \notin fresh_states \cup granted_states
  BY <1>4, <1>5, ZenonT(30) DEF settled, moves_on
<1>8. ASSUME NEW g \in GrantIds, issued'[g] # None, issued'[g].request = r
      PROVE  issued'[g].request_gen # gen
  <2>1. CASE issued'[g] = issued[g]
    BY <1>8, <2>1 DEF settled
  <2>2. CASE \E s \in S : g = id[s]
    <3>1. r \in S /\ issued'[g].request_gen = request_gen[r]
      BY <1>2, <1>8, <2>2 DEF Grants
    <3> QED
      BY <1>3, <1>4, <3>1, SMTT(30)
  <2> QED
    BY <1>2, <2>1, <2>2, ZenonT(30) DEF Grants
<1> QED
  BY <1>3, <1>6, <1>7, <1>8 DEF settled

\* The scheduler's own steps.
LEMMA NextKeepsRecoveryInv ==
  ASSUME RecoveryInv, [Next]_vars, UNCHANGED recoveryVars
  PROVE  RecoveryInv'
<1>1. GrantInv /\ GrantInv' /\ TypeOK'
  BY GrantInductive, ZenonT(30) DEF RecoveryInv, GrantInv
<1>2. restarts' \in Nat /\ FilesSound' /\ restored' = restored
  BY DEF RecoveryInv, recoveryVars, FilesSound, Sound
<1>3. schedule \/ Keeps
  <2>1. CASE Next /\ ~schedule
    BY <1>1, <2>1, OthersKeep, HandoffKeeps
  <2>2. CASE UNCHANGED vars
    BY <1>1, <2>2, NothingKeeps DEF vars, recordVars, grantVars
  <2> QED
    BY <2>1, <2>2, ZenonT(30)
<1>4. \A r \in RequestIds, gen \in Nat : settled(r, gen) => settled(r, gen)'
  BY <1>1, <1>3, KeepsSettled, ScheduleSettled
<1>5. RestoredSettled'
  BY <1>2, <1>4 DEF RecoveryInv, RestoredSettled
<1> QED
  BY <1>1, <1>2, <1>5 DEF RecoveryInv

\* A restart: nothing is granted, nothing fresh, and nothing issued.
LEMMA RestartKeepsRecoveryInv ==
  ASSUME RecoveryInv, restart
  PROVE  RecoveryInv'
<1>inv. TypeOK /\ restarts \in Nat /\ FilesSound
  BY DEF RecoveryInv, GrantInv
<1> DEFINE s == readable
<1>1. /\ s.epoch \in Nat
      /\ s.next_request_id \in 1..MaxRequestId + 1 /\ s.next_grant_id \in 1..MaxGrantId + 1
      /\ s.lifecycle \in [RequestIds -> LifecycleState \cup {ABSENT}]
      /\ s.request \in [RequestIds -> RequestInputs \cup {None}]
      /\ s.request_gen \in [RequestIds -> Nat]
      /\ \A r \in RequestIds : s.lifecycle[r] # ABSENT => s.request[r] # None
      /\ \A r \in RequestIds : r >= s.next_request_id => s.lifecycle[r] = ABSENT
  BY <1>inv, ReadableIsSound, ZenonT(30) DEF Sound
<1>2. /\ lifecycle' = [r \in RequestIds |-> withdrawn_by_recovery(s.lifecycle[r])]
      /\ request' = s.request /\ request_gen' = s.request_gen
      /\ next_request_id' = s.next_request_id /\ next_grant_id' = s.next_grant_id
      /\ epoch' \in {restarts + 2, s.epoch}
      /\ restored' = {<<r, s.request_gen[r]>> : r \in {q \in RequestIds : s.lifecycle[q] # ABSENT}}
      /\ restarts' = restarts + 1
      /\ UNCHANGED <<recoveries, file>>
  BY ZenonT(30) DEF restart
<1>3. /\ current_grant' = [r \in RequestIds |-> None]
      /\ issued' = [g \in GrantIds |-> None] /\ grants' = {} /\ active' = {} /\ terminal' = {}
      /\ dispatch' = [g \in GrantIds |-> "none"]
      /\ snapshot' = [t \in Savers |-> NoFile]
  BY ZenonT(30) DEF restart
<1> HIDE DEF s
<1>4. \A r \in RequestIds :
        /\ lifecycle'[r] \in {s.lifecycle[r], "REVALIDATION_REQUIRED"}
        /\ lifecycle'[r] = ABSENT <=> s.lifecycle[r] = ABSENT
        /\ lifecycle'[r] \notin fresh_states \cup granted_states
  BY <1>2, ZenonT(30) DEF withdrawn_by_recovery, terminal_states, fresh_states, granted_states, ABSENT
<1>5. TypeOK'
  <2>1. /\ lifecycle' \in [RequestIds -> LifecycleState \cup {ABSENT}]
        /\ \A r \in records' : request'[r] # None
    BY <1>1, <1>2, <1>4, ZenonT(30) DEF records, LifecycleState
  <2>2. epoch' \in Nat /\ 0 \in 0..TimeModulus - 1 /\ "none" \in CallState
    BY <1>inv, <1>1, <1>2, BoundsAssumption DEF CallState
  <2>3. /\ participants' = [p \in Participants |-> None] /\ plans' = [x \in Plans |-> None]
        /\ deps' = [d \in Dependencies |-> None]
        /\ reservation' = None /\ congestion' = None /\ capacity' = None
        /\ participant_requests' = [p \in Participants |-> {}]
        /\ active_by_participant' = [p \in Participants |-> {}]
        /\ active_grants' = 0 /\ now' = 0 /\ policy' = InitialPolicy
        /\ revoking' = {} /\ fabric' = {}
    BY ZenonT(30) DEF restart
  <2>4. recoveries' \in Nat
    BY <1>inv, <1>2, ZenonT(30) DEF TypeOK
  <2> QED
    BY <1>1, <1>2, <1>3, <2>1, <2>2, <2>3, <2>4 DEF TypeOK
<1>6. \A r \in RequestIds : r >= next_request_id' => lifecycle'[r] = ABSENT
  BY <1>1, <1>2, <1>4, ZenonT(30)
<1>7. GrantInv'
  BY <1>3, <1>4, <1>5, <1>6, ZenonT(30) DEF GrantInv, IdsUsed, CurrentIsOwn, HeldIsLive, GrantsNameRecords,
    FreshIsUngranted, HandedOffMovesOn, TablesMatch, OneGrantPerGeneration
<1>8. restarts' \in Nat /\ FilesSound'
  <2>1. \A n \in Nat : n + 1 \in Nat
    OBVIOUS
  <2>2. Sound(NoFile)
    BY ZenonT(30) DEF Sound, NoFile
  <2>3. \A t \in Savers : Sound(snapshot'[t])
    BY <1>3, <2>2, ZenonT(30)
  <2> QED
    BY <1>inv, <1>2, <1>3, <2>1, <2>3, ZenonT(30) DEF FilesSound
<1>9. RestoredSettled'
  <2>1. restored' \subseteq RequestIds \X Nat
    <3>1. \A r \in RequestIds : s.request_gen[r] \in Nat
      BY <1>1, ZenonT(30)
    <3>2. ASSUME NEW x \in restored' PROVE x \in RequestIds \X Nat
      <4>1. PICK r \in RequestIds : x = <<r, s.request_gen[r]>>
        BY <1>2, <3>2, ZenonT(30)
      <4> QED
        BY <3>1, <4>1
    <3> QED
      BY <3>2, ZenonT(30)
  <2>2. ASSUME NEW r \in RequestIds, NEW gen \in Nat, <<r, gen>> \in restored' PROVE settled(r, gen)'
    <3>1. s.lifecycle[r] # ABSENT /\ gen = s.request_gen[r]
      BY <1>2, <2>2, ZenonT(30)
    <3>2. lifecycle'[r] # ABSENT /\ lifecycle'[r] \notin fresh_states \cup granted_states
      BY <1>4, <3>1, ZenonT(30)
    <3>3. \A g \in GrantIds : issued'[g] = None
      BY <1>3
    <3> QED
      BY <1>2, <3>1, <3>2, <3>3, ZenonT(30) DEF settled
  <2> QED
    BY <2>1, <2>2, ZenonT(30) DEF RestoredSettled
<1> QED
  BY <1>7, <1>8, <1>9 DEF RecoveryInv

LEMMA RecoveryInductive ==
  /\ RInit => RecoveryInv
  /\ RecoveryInv /\ [RNext]_<<vars, recoveryVars>> => RecoveryInv'
<1>1. ASSUME RInit PROVE RecoveryInv
  <2>1. GrantInv /\ restarts \in Nat
    BY <1>1, GrantInit DEF RInit
  <2> QED
    BY <1>1, <2>1 DEF RInit, RecoveryInv, FilesSound, Sound, NoFile, RestoredSettled
<1>2. ASSUME RecoveryInv, [RNext]_<<vars, recoveryVars>> PROVE RecoveryInv'
  <2>1. CASE [Next]_vars /\ UNCHANGED recoveryVars
    BY <1>2, <2>1, NextKeepsRecoveryInv
  <2>2. CASE \E s \in Savers : save(s) \/ fopen(s) \/ fwrite(s)
    <3>1. FilesSound' /\ UNCHANGED <<vars, restored, restarts>>
      BY <1>2, <2>2, SavesKeepFilesSound DEF RecoveryInv
    <3>2. GrantInv'
      BY <1>2, <3>1, GrantInductive, ZenonT(30) DEF RecoveryInv
    <3>3. RestoredSettled'
      BY <1>2, <3>1 DEF RecoveryInv, RestoredSettled, settled, vars, recordVars, grantVars
    <3> QED
      BY <1>2, <3>1, <3>2, <3>3 DEF RecoveryInv
  <2>3. CASE restart
    BY <1>2, <2>3, RestartKeepsRecoveryInv
  <2> QED
    BY <1>2, <2>1, <2>2, <2>3 DEF RNext
<1> QED
  BY <1>1, <1>2, ZenonT(30)
-------------------------------------------------------------------------------
(* The theorems *)

\* No process issues a grant for work it read from the file, in the generation it
\* had there.
THEOREM RestoredWorkIsOver == RSpec => []RestoredWorkIsNotRepeated
<1>1. ASSUME RecoveryInv PROVE RestoredWorkIsNotRepeated
  <2> SUFFICES ASSUME NEW g \in GrantIds, issued[g] # None,
                      <<issued[g].request, issued[g].request_gen>> \in restored
               PROVE  FALSE
    BY ZenonT(30) DEF RestoredWorkIsNotRepeated
  <2>1. issued[g].request \in RequestIds /\ issued[g].request_gen \in Nat
    BY <1>1, GrantTypes DEF RecoveryInv, GrantInv
  <2> QED
    BY <1>1, <2>1, ZenonT(30) DEF RecoveryInv, RestoredSettled, settled
<1> QED
  BY <1>1, RecoveryInductive, PTL DEF RSpec

\* Within every process, whatever it restored, no generation is granted twice.
THEOREM GrantsAreUniqueAfterRestart == RSpec => []OneGrantPerGeneration
<1>1. RecoveryInv => OneGrantPerGeneration
  BY DEF RecoveryInv, GrantInv
<1> QED
  BY <1>1, RecoveryInductive, PTL DEF RSpec
-------------------------------------------------------------------------------
(* The epoch *)

\* Only run() moves the epoch, as it starts; no session calls advanceCoordinatorEpoch.
EpochOfProcess == MaxEpoch <= 1

\* Each start has an epoch of its own, and neither files nor clients are ahead of it.
EpochInv ==
  /\ EpochOfProcess
  /\ restarts \in Nat /\ epoch = restarts + 1
  /\ \A g \in GrantIds : issued[g] # None => issued[g].epoch \in 0..epoch
  /\ \A h \in held : h.grant.epoch \in 0..restarts
  /\ file.state = "whole" => file.epoch \in 0..epoch
  /\ DOMAIN snapshot = Savers
  /\ \A s \in Savers : snapshot[s].state = "whole" => snapshot[s].epoch \in 0..epoch

\* The scheduler's own steps keep the epoch, and issue grants of no other.
LEMMA NextKeepsEpoch ==
  ASSUME EpochInv, Next
  PROVE  /\ epoch' = epoch
         /\ \A g \in GrantIds : issued'[g] # None => issued'[g].epoch \in 0..epoch
<1>1. ASSUME advanceCoordinatorEpoch PROVE FALSE
  BY <1>1, BoundsAssumption DEF advanceCoordinatorEpoch, EpochInv, EpochOfProcess
<1>2. CASE schedule
  <2>1. PICK S, rank : grant_selected(S, rank)
    BY <1>2, ZenonT(30) DEF schedule
  <2>2. epoch' = epoch
    BY <2>1, ZenonT(30) DEF grant_selected, clockVars
  <2>3. ASSUME NEW g \in GrantIds, issued'[g] # None PROVE issued'[g].epoch \in 0..epoch
    <3>1. \A r : new_grant(r).epoch = epoch
      BY ZenonT(30) DEF new_grant
    <3>2. issued'[g] = issued[g] \/ issued'[g].epoch = epoch
      BY <2>1, <3>1, ZenonT(30) DEF grant_selected
    <3> QED
      BY <2>3, <3>2 DEF EpochInv
  <2> QED
    BY <2>2, <2>3
<1>3. CASE ~schedule
  <2>1. UNCHANGED <<epoch, issued>>
    BY <1>1, <1>3, ZenonT(30)
    DEF Next, publishParticipant, publishPlan, publishDependency, publishReservation,
      publishCongestion, publishCapacity, setPolicy, advanceTime, submit, supersede, cancel, handoff,
      accept, handoff_commit, revoke, complete, fenceWorkerBoot, resetDynamicStateForRecovery,
      otherThanEvidence, otherThanCalls, grantVars, clockVars
  <2> QED
    BY <2>1, ZenonT(30) DEF EpochInv
<1> QED
  BY <1>2, <1>3, ZenonT(30)

LEMMA EpochInductive ==
  /\ EpochOfProcess /\ RInit => EpochInv
  /\ EpochInv /\ [RNext]_<<vars, recoveryVars>> => EpochInv'
<1>1. ASSUME EpochOfProcess, RInit PROVE EpochInv
  BY <1>1 DEF RInit, Init, EpochInv, NoFile
<1>2. ASSUME EpochInv, [RNext]_<<vars, recoveryVars>> PROVE EpochInv'
  <2>epoch. EpochOfProcess'
    BY <1>2, ZenonT(30) DEF EpochInv, EpochOfProcess
  <2>1. CASE Next /\ UNCHANGED recoveryVars
    BY <1>2, <2>epoch, <2>1, NextKeepsEpoch, ZenonT(30) DEF EpochInv, recoveryVars
  <2>2. CASE UNCHANGED <<vars, recoveryVars>>
    BY <1>2, <2>epoch, <2>2 DEF EpochInv, vars, clockVars, grantVars, recoveryVars
  <2>3. ASSUME NEW s \in Savers, save(s) \/ fopen(s) \/ fwrite(s)
        PROVE  /\ UNCHANGED <<epoch, issued, held, restarts>>
               /\ file'.state = "whole" => file'.epoch \in 0..epoch
               /\ DOMAIN snapshot' = Savers
               /\ \A t \in Savers : snapshot'[t].state = "whole" => snapshot'[t].epoch \in 0..epoch
    <3>1. serializeState.epoch \in 0..epoch
      BY <1>2 DEF EpochInv, serializeState
    <3>2. NoFile.state # "whole" /\ Torn.state # "whole"
      BY ZenonT(30) DEF NoFile, Torn
    <3>3. UNCHANGED <<epoch, issued, held, restarts>>
      BY <2>3, ZenonT(30) DEF save, fopen, fwrite, vars, clockVars, grantVars
    <3>4. CASE save(s)
      BY <1>2, <3>1, <3>3, <3>4, ZenonT(30) DEF save, EpochInv
    <3>5. CASE fopen(s)
      BY <1>2, <3>2, <3>3, <3>5, ZenonT(30) DEF fopen, EpochInv
    <3>6. CASE fwrite(s)
      BY <1>2, <3>2, <3>3, <3>6, ZenonT(30) DEF fwrite, EpochInv
    <3> QED
      BY <2>3, <3>3, <3>4, <3>5, <3>6, ZenonT(30)
  <2>4. CASE \E s \in Savers : save(s) \/ fopen(s) \/ fwrite(s)
    BY <1>2, <2>epoch, <2>3, <2>4, ZenonT(30) DEF EpochInv
  <2>5. CASE restart
    <3>1. readable.epoch \in 0..restarts + 1
      BY <1>2 DEF EpochInv, readable, emptyState
    <3>2. /\ restarts' = restarts + 1 /\ file' = file
          /\ epoch' = IF readable.epoch < restarts + 2 THEN restarts + 2 ELSE readable.epoch
          /\ issued' = [g \in GrantIds |-> None]
          /\ snapshot' = [s \in Savers |-> NoFile]
          /\ held' = held \cup {[id |-> g, grant |-> issued[g]] : g \in {h \in GrantIds : issued[h] # None}}
      BY <2>5, ZenonT(30) DEF restart
    <3>3. restarts' \in Nat /\ epoch' = restarts' + 1
      BY <1>2, <3>1, <3>2, SMTT(30) DEF EpochInv
    <3>4. \A h \in held' : h.grant.epoch \in 0..restarts'
      BY <1>2, <3>2 DEF EpochInv
    <3>5. file'.state = "whole" => file'.epoch \in 0..epoch'
      BY <1>2, <3>2, <3>3 DEF EpochInv
    <3> QED
      BY <2>epoch, <3>2, <3>3, <3>4, <3>5, ZenonT(30) DEF EpochInv, NoFile
  <2> QED
    BY <1>2, <2>1, <2>2, <2>4, <2>5 DEF RNext
<1> QED
  BY <1>1, <1>2, ZenonT(30)

\* A grant of an earlier process is dead, as long as only run() moves the epoch.
THEOREM OldGrantsAreDead == EpochOfProcess /\ RSpec => []OldGrantsDie
<1>1. ASSUME EpochInv PROVE OldGrantsDie
  <2>1. \A h \in held : h.grant.epoch # epoch
    BY <1>1 DEF EpochInv
  <2> QED
    BY <2>1, ZenonT(30) DEF OldGrantsDie, revalidate_grant, completion_authorized
<1> QED
  BY <1>1, EpochInductive, PTL DEF RSpec
===============================================================================
