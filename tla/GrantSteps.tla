------------------------------ MODULE GrantSteps ------------------------------
(*****************************************************************************)
(* The invariant behind the theorems about grants, and what every step but a *)
(* decision does to it, for every number of requests, grants and recoveries. *)
(*                                                                           *)
(* OneGrantPerGeneration is not inductive: a decision grants whatever is     *)
(* fresh, so fresh work must have no grant of its generation; and that is    *)
(* kept only if what loses its freshness never regains it under the same     *)
(* generation.  All steps but a decision have that in common (Keeps).        *)
(*****************************************************************************)
EXTENDS AuthorityProofs

fresh_states == {"DECLARED", "WAITING", "READY", "ELIGIBLE", "QUEUED"}
granted_states == {"GRANTED", "DISPATCHING", "ACTIVE"}

\* Grant ids are used up from below.
IdsUsed == \A g \in GrantIds : issued[g] # None => g < next_grant_id

\* A record's current grant is one of its own, for its present generation.
CurrentIsOwn ==
  \A r \in RequestIds : current_grant[r] # None =>
    /\ issued[current_grant[r]] # None
    /\ issued[current_grant[r]].request = r
    /\ issued[current_grant[r]].request_gen = request_gen[r]

\* A granted record holds a grant that nothing has ended.
HeldIsLive ==
  \A r \in RequestIds : lifecycle[r] \in granted_states =>
    current_grant[r] \in grants /\ current_grant[r] \notin terminal

\* Grants name records, and generations those have reached.
GrantsNameRecords ==
  \A g \in GrantIds : issued[g] # None =>
    /\ lifecycle[issued[g].request] # ABSENT
    /\ issued[g].request_gen <= request_gen[issued[g].request]

\* Fresh work has no grant of its generation.
FreshIsUngranted ==
  \A g \in GrantIds : issued[g] # None =>
    (issued[g].request_gen = request_gen[issued[g].request] =>
       lifecycle[issued[g].request] \notin fresh_states)

\* A grant handed off is not one its record is still waiting to hand off.
HandedOffMovesOn ==
  \A g \in GrantIds : dispatch[g] # "none" =>
    /\ issued[g] # None
    /\ issued[g].request_gen = request_gen[issued[g].request] =>
         lifecycle[issued[g].request] # "GRANTED"

\* The table holds issued grants only; ids are given to records in order.
TablesMatch ==
  /\ \A g \in grants : issued[g] # None
  /\ \A r \in RequestIds : r >= next_request_id => lifecycle[r] = ABSENT

GrantInv ==
  /\ TypeOK /\ IdsUsed /\ CurrentIsOwn /\ HeldIsLive /\ GrantsNameRecords
  /\ FreshIsUngranted /\ HandedOffMovesOn /\ TablesMatch /\ OneGrantPerGeneration

\* What the proofs need of the types.
LEMMA GrantTypes ==
  ASSUME TypeOK
  PROVE  /\ grants \subseteq GrantIds /\ active \subseteq grants /\ terminal \subseteq grants
         /\ lifecycle \in [RequestIds -> LifecycleState \cup {ABSENT}]
         /\ dispatch \in [GrantIds -> CallState]
         /\ request_gen \in [RequestIds -> Nat]
         /\ current_grant \in [RequestIds -> GrantIds \cup {None}]
         /\ next_grant_id \in Nat /\ next_request_id \in Nat
         /\ \A r \in records : request[r] \in RequestInputs
         /\ \A g \in GrantIds : issued[g] # None =>
              issued[g].request \in RequestIds /\ issued[g].request_gen \in Nat
<1>1. next_grant_id \in Nat /\ next_request_id \in Nat
  BY BoundsAssumption DEF TypeOK
<1>2. \A r \in records : request[r] \in RequestInputs
  BY DEF TypeOK, records
<1>3. \A g \in GrantIds : issued[g] # None =>
        issued[g].request \in RequestIds /\ issued[g].request_gen \in Nat
  BY DEF TypeOK, Grant
<1> QED
  BY <1>1, <1>2, <1>3 DEF TypeOK
-------------------------------------------------------------------------------
(* What every step but a decision has in common *)

\* The record goes on with its generation: it does not become fresh, or granted,
\* and what it holds stays in the table as long as it is granted.
GoesOn(r) ==
  /\ request_gen'[r] = request_gen[r]
  /\ lifecycle'[r] = ABSENT <=> lifecycle[r] = ABSENT
  /\ current_grant'[r] \in {current_grant[r], None}
  /\ lifecycle'[r] \in fresh_states => lifecycle[r] \in fresh_states
  /\ lifecycle'[r] = "GRANTED" => lifecycle[r] = "GRANTED"
  /\ lifecycle'[r] \in granted_states =>
       /\ lifecycle[r] \in granted_states
       /\ current_grant'[r] = current_grant[r]
       /\ current_grant[r] \in grants' /\ current_grant[r] \notin terminal'

\* The record starts over, as a new one or with a later generation, and nobody
\* holds a grant of that generation.
StartsOver(r) ==
  /\ lifecycle[r] = ABSENT \/ request_gen[r] < request_gen'[r]
  /\ 1 <= request_gen'[r]
  /\ lifecycle'[r] \in fresh_states
  /\ current_grant'[r] = None
  /\ \A g \in GrantIds : issued[g] # None /\ issued[g].request = r =>
       issued[g].request_gen < request_gen'[r]

Keeps ==
  /\ issued' = issued /\ next_grant_id' = next_grant_id /\ grants' \subseteq grants
  /\ \A r \in RequestIds : GoesOn(r) \/ StartsOver(r)
  /\ \A r \in RequestIds : r >= next_request_id' => lifecycle'[r] = ABSENT

\* The invariant holds initially.
LEMMA GrantInit == Init => GrantInv
<1> SUFFICES ASSUME Init PROVE GrantInv
  OBVIOUS
<1>1. TypeOK
  BY InitType
<1>2. /\ \A g \in GrantIds : issued[g] = None /\ dispatch[g] = "none"
      /\ \A r \in RequestIds : lifecycle[r] = ABSENT /\ current_grant[r] = None
      /\ grants = {} /\ next_grant_id = 1
  BY DEF Init
<1>3. \A g \in GrantIds : ~(g < next_grant_id)
  BY <1>2 DEF GrantIds
<1> QED
  BY <1>1, <1>2, <1>3 DEF GrantInv, IdsUsed, CurrentIsOwn, HeldIsLive, GrantsNameRecords,
    FreshIsUngranted, HandedOffMovesOn, TablesMatch, OneGrantPerGeneration, granted_states, ABSENT

\* Such a step preserves everything but what concerns handoffs.
LEMMA KeepsPreserves ==
  ASSUME GrantInv, TypeOK', Keeps
  PROVE  /\ IdsUsed' /\ CurrentIsOwn' /\ HeldIsLive' /\ GrantsNameRecords'
         /\ FreshIsUngranted' /\ TablesMatch' /\ OneGrantPerGeneration'
<1>1. /\ issued' = issued /\ next_grant_id' = next_grant_id /\ grants' \subseteq grants
      /\ \A r \in RequestIds : GoesOn(r) \/ StartsOver(r)
  BY DEF Keeps
<1>2. IdsUsed' /\ TablesMatch' /\ OneGrantPerGeneration'
  BY <1>1 DEF Keeps, GrantInv, IdsUsed, TablesMatch, OneGrantPerGeneration
<1>3. CurrentIsOwn'
  BY <1>1 DEF GrantInv, CurrentIsOwn, GoesOn, StartsOver
<1>4. HeldIsLive'
  BY <1>1, ZenonT(30) DEF HeldIsLive, GoesOn, StartsOver, granted_states, fresh_states
<1>5. ASSUME NEW g \in GrantIds, issued[g] # None
      PROVE  /\ issued[g].request \in RequestIds
             /\ issued[g].request_gen \in Nat
             /\ request_gen[issued[g].request] \in Nat
             /\ request_gen'[issued[g].request] \in Nat
  BY <1>5 DEF GrantInv, TypeOK, Grant
<1>6. GrantsNameRecords'
  BY <1>1, <1>5 DEF GrantInv, GrantsNameRecords, GoesOn, StartsOver, fresh_states, ABSENT
<1>7. FreshIsUngranted'
  BY <1>1, <1>5 DEF GrantInv, FreshIsUngranted, GoesOn, StartsOver, fresh_states
<1> QED
  BY <1>2, <1>3, <1>4, <1>6, <1>7

\* No call is begun, and none forgotten.
CallsKept == \A g \in GrantIds : dispatch'[g] # "none" <=> dispatch[g] # "none"

\* Without a handoff, what concerns handoffs is preserved too.
LEMMA QuietPreserves ==
  ASSUME GrantInv, TypeOK', Keeps, CallsKept
  PROVE  HandedOffMovesOn'
<1> SUFFICES ASSUME NEW g \in GrantIds, dispatch'[g] # "none"
             PROVE  /\ issued'[g] # None
                    /\ issued'[g].request_gen = request_gen'[issued'[g].request] =>
                         lifecycle'[issued'[g].request] # "GRANTED"
  BY DEF HandedOffMovesOn
<1> DEFINE r == issued[g].request
<1>1. issued' = issued /\ issued[g] # None /\ dispatch[g] # "none"
  BY ZenonT(30) DEF Keeps, CallsKept, GrantInv, HandedOffMovesOn
<1>2. r \in RequestIds /\ issued[g].request_gen \in Nat /\ request_gen'[r] \in Nat
  BY <1>1, ZenonT(30) DEF GrantInv, TypeOK, Grant
<1>3. CASE GoesOn(r)
  BY <1>1, <1>3 DEF GoesOn, GrantInv, HandedOffMovesOn
<1>4. CASE StartsOver(r)
  BY <1>1, <1>2, <1>4 DEF StartsOver, fresh_states
<1> QED
  BY <1>1, <1>2, <1>3, <1>4 DEF Keeps

\* Records and what they hold are one to one: a grant ended for r is not the grant
\* of another record.
LEMMA GrantOfOne ==
  ASSUME GrantInv, NEW r \in RequestIds, NEW s \in RequestIds, r # s,
         lifecycle[s] \in granted_states
  PROVE  current_grant[s] \notin grant_of(r)
<1>1. current_grant[s] \in GrantIds /\ current_grant[s] # None
  BY NoneAssumption, GrantTypes DEF GrantInv, HeldIsLive
<1>2. issued[current_grant[s]].request = s
  BY <1>1 DEF GrantInv, CurrentIsOwn
<1>3. current_grant[r] = current_grant[s] => issued[current_grant[s]].request = r
  BY <1>1 DEF GrantInv, CurrentIsOwn
<1> QED
  BY <1>2, <1>3 DEF grant_of

\* A step that leaves records and grants alone.
LEMMA NothingKeeps ==
  ASSUME GrantInv, UNCHANGED <<lifecycle, request_gen, current_grant, issued, grants, terminal,
                               next_grant_id, next_request_id>>
  PROVE  Keeps
  BY GrantTypes DEF GrantInv, HeldIsLive, TablesMatch, Keeps, GoesOn

\* Publishing a participant only withdraws.
LEMMA PublishKeeps ==
  ASSUME GrantInv, NEW in \in ParticipantInputs, publishParticipant(in)
  PROVE  Keeps /\ CallsKept
<1>1. UNCHANGED <<request_gen, current_grant, issued, grants, terminal, next_grant_id,
                  next_request_id, dispatch>>
  BY ZenonT(30) DEF publishParticipant, grantVars, callVars
<1>2. \A r \in RequestIds :
        \/ lifecycle'[r] = lifecycle[r]
        \/ lifecycle[r] \in withdrawable /\ lifecycle'[r] = "REVALIDATION_REQUIRED"
  BY WithdrawableMoves DEF publishParticipant, records
<1>3. \A r \in RequestIds : GoesOn(r)
  BY <1>1, <1>2 DEF GrantInv, HeldIsLive, GoesOn, fresh_states, granted_states, withdrawable, ABSENT
<1>4. \A r \in RequestIds : r >= next_request_id' => lifecycle'[r] = ABSENT
  BY <1>1, <1>2 DEF GrantInv, TablesMatch, withdrawable, ABSENT
<1> QED
  BY <1>1, <1>3, <1>4, ZenonT(30) DEF Keeps, CallsKept

\* A new record has no grants.
LEMMA SubmitKeeps ==
  ASSUME GrantInv, NEW req \in RequestInputs, submit(req)
  PROVE  Keeps /\ CallsKept
<1> DEFINE n == next_request_id
<1>1. /\ UNCHANGED <<current_grant, issued, grants, terminal, next_grant_id, dispatch>>
      /\ n \in RequestIds /\ next_request_id' = n + 1 /\ n \in Nat
  BY GrantTypes DEF submit, grantVars, callVars, GrantInv
<1>2. lifecycle[n] = ABSENT
  BY <1>1 DEF GrantInv, TablesMatch, RequestIds
<1>3. \A g \in GrantIds : issued[g] # None => issued[g].request # n
  BY <1>2 DEF GrantInv, GrantsNameRecords
<1>4. current_grant[n] = None
  BY <1>1, <1>3, GrantTypes DEF GrantInv, CurrentIsOwn
<1>5. ASSUME NEW r \in RequestIds, lifecycle'[r] = lifecycle[r], request_gen'[r] = request_gen[r]
      PROVE  GoesOn(r)
  BY <1>1, <1>5, ZenonT(30) DEF GoesOn, GrantInv, HeldIsLive
<1>6. CASE validate_request(req)
  <2>1. /\ lifecycle' = [lifecycle EXCEPT ![n] = "DECLARED"]
        /\ request_gen' = [request_gen EXCEPT ![n] = 1]
    BY <1>6 DEF submit
  <2>2. \A r \in RequestIds \ {n} : lifecycle'[r] = lifecycle[r] /\ request_gen'[r] = request_gen[r]
    BY <2>1, GrantTypes DEF GrantInv
  <2>3. lifecycle'[n] = "DECLARED" /\ request_gen'[n] = 1
    BY <1>1, <2>1, GrantTypes DEF GrantInv
  <2>4. StartsOver(n)
    BY <1>1, <1>2, <1>3, <1>4, <2>3 DEF StartsOver, fresh_states
  <2>5. \A r \in RequestIds : r >= n + 1 => lifecycle'[r] = ABSENT
    BY <1>1, <2>2 DEF GrantInv, TablesMatch, RequestIds
  <2> QED
    BY <1>1, <1>5, <2>2, <2>4, <2>5, ZenonT(30) DEF Keeps, CallsKept
<1>7. CASE ~validate_request(req)
  <2>1. UNCHANGED <<lifecycle, request_gen>>
    BY <1>7 DEF submit
  <2>2. \A r \in RequestIds : r >= n + 1 => lifecycle'[r] = ABSENT
    BY <1>1, <2>1 DEF GrantInv, TablesMatch, RequestIds
  <2> QED
    BY <1>1, <1>5, <2>1, <2>2 DEF Keeps, CallsKept
<1> QED
  BY <1>6, <1>7, ZenonT(30)

\* A superseded record starts over; only its own grant is ended.
LEMMA SupersedeKeeps ==
  ASSUME GrantInv, NEW r \in RequestIds, NEW req \in RequestInputs, NEW gen \in 1..MaxRequestGen,
         supersede(r, req, gen)
  PROVE  Keeps /\ CallsKept
<1>1. /\ UNCHANGED <<issued, grants, next_grant_id, next_request_id, dispatch>>
      /\ lifecycle' = [lifecycle EXCEPT ![r] = "WAITING"]
      /\ request_gen' = [request_gen EXCEPT ![r] = gen]
      /\ current_grant' = [current_grant EXCEPT ![r] = None]
      /\ terminal' = terminal \cup grant_of(r)
      /\ gen > request_gen[r] /\ lifecycle[r] # ABSENT
  BY ZenonT(30) DEF supersede, callVars, records
<1>2. \A s \in RequestIds \ {r} : /\ lifecycle'[s] = lifecycle[s] /\ request_gen'[s] = request_gen[s]
                                  /\ current_grant'[s] = current_grant[s]
  BY <1>1, GrantTypes DEF GrantInv
<1>3. lifecycle'[r] = "WAITING" /\ request_gen'[r] = gen /\ current_grant'[r] = None
  BY <1>1, GrantTypes DEF GrantInv
<1>4. ASSUME NEW g \in GrantIds, issued[g] # None, issued[g].request = r
      PROVE  issued[g].request_gen < gen
  <2>1. issued[g].request_gen \in Nat /\ request_gen[r] \in Nat /\ gen \in Nat
    BY <1>4, BoundsAssumption, GrantTypes DEF GrantInv
  <2>2. issued[g].request_gen <= request_gen[r]
    BY <1>4, ZenonT(30) DEF GrantInv, GrantsNameRecords
  <2> QED
    BY <1>1, <2>1, <2>2
<1>5. StartsOver(r)
  BY <1>1, <1>3, <1>4, BoundsAssumption, GrantTypes DEF GrantInv, StartsOver, fresh_states
<1>6. \A s \in RequestIds \ {r} : GoesOn(s)
  BY <1>1, <1>2, GrantOfOne DEF GoesOn, GrantInv, HeldIsLive
<1>7. \A s \in RequestIds : s >= next_request_id' => lifecycle'[s] = ABSENT
  BY <1>1, <1>2 DEF GrantInv, TablesMatch
<1> QED
  BY <1>1, <1>5, <1>6, <1>7 DEF Keeps, CallsKept

\* A step that ends one record, and nothing but its grant.
LEMMA EndingKeeps ==
  ASSUME GrantInv, NEW r \in RequestIds, lifecycle[r] # ABSENT,
         NEW s \in {"CANCELLED", "COMPLETED"},
         lifecycle' = [lifecycle EXCEPT ![r] = s],
         terminal' \subseteq terminal \cup grant_of(r),
         UNCHANGED <<request_gen, current_grant, issued, grants, next_grant_id, next_request_id>>
  PROVE  Keeps
<1>1. \A x \in RequestIds \ {r} : lifecycle'[x] = lifecycle[x]
  BY GrantTypes DEF GrantInv
<1>2. lifecycle'[r] = s
  BY GrantTypes DEF GrantInv
<1>3. \A x \in RequestIds \ {r} : GoesOn(x)
  BY <1>1, GrantOfOne DEF GoesOn, GrantInv, HeldIsLive
<1>4. GoesOn(r)
  BY <1>2 DEF GoesOn, fresh_states, granted_states, ABSENT
<1>5. \A x \in RequestIds : x >= next_request_id' => lifecycle'[x] = ABSENT
  BY <1>1 DEF GrantInv, TablesMatch
<1> QED
  BY <1>3, <1>4, <1>5, ZenonT(30) DEF Keeps

\* cancel and complete are such steps.
LEMMA CancelKeeps ==
  ASSUME GrantInv, NEW r \in RequestIds, cancel(r)
  PROVE  Keeps /\ CallsKept
<1>1. /\ UNCHANGED <<request_gen, current_grant, issued, grants, next_grant_id, next_request_id, dispatch>>
      /\ lifecycle' = [lifecycle EXCEPT ![r] = "CANCELLED"]
      /\ terminal' \subseteq terminal \cup grant_of(r)
      /\ lifecycle[r] # ABSENT
  BY DEF cancel, records
<1> QED
  BY <1>1, EndingKeeps, ZenonT(30) DEF CallsKept

LEMMA CompleteKeeps ==
  ASSUME GrantInv, NEW g \in GrantIds, NEW b \in Boots, complete(g, b)
  PROVE  Keeps /\ CallsKept
<1> DEFINE r == issued[g].request
<1>1. /\ UNCHANGED <<request_gen, current_grant, issued, grants, next_grant_id, next_request_id, dispatch>>
      /\ lifecycle' = [lifecycle EXCEPT ![r] = "COMPLETED"]
      /\ terminal' = terminal \cup {g}
      /\ r \in RequestIds /\ lifecycle[r] # ABSENT
      /\ current_grant[r] = g /\ g \in grants
  BY DEF complete, completion_authorized, records
<1>2. terminal' \subseteq terminal \cup grant_of(r)
  BY <1>1 DEF grant_of
<1> QED
  BY <1>1, <1>2, EndingKeeps, ZenonT(30) DEF CallsKept

\* Fencing withdraws every record whose grant it ends.
LEMMA FenceKeeps ==
  ASSUME GrantInv, NEW b \in FencedBoots, fenceWorkerBoot(b)
  PROVE  Keeps /\ CallsKept
<1> DEFINE affected == {r \in records : /\ ~is_terminal_state(r)
                                         /\ \E p \in members(request[r]) :
                                              participants[p] # None /\ participants[p].boot = b}
<1>1. /\ UNCHANGED <<request_gen, current_grant, issued, grants, next_grant_id, next_request_id, dispatch>>
      /\ terminal' = terminal \cup UNION {grant_of(r) : r \in affected}
      /\ lifecycle' = [r \in RequestIds |->
           IF r \in affected /\ lifecycle[r] \in withdrawable
           THEN transition(lifecycle[r], "REVALIDATION_REQUIRED") ELSE lifecycle[r]]
  BY ZenonT(30) DEF fenceWorkerBoot, callVars
<1>2. \A r \in RequestIds :
        IF r \in affected /\ lifecycle[r] \in withdrawable
        THEN lifecycle'[r] = "REVALIDATION_REQUIRED" ELSE lifecycle'[r] = lifecycle[r]
  BY <1>1, WithdrawableMoves
<1> HIDE DEF affected
<1>3. affected \subseteq RequestIds
  BY DEF affected, records
<1>4. ASSUME NEW s \in RequestIds, lifecycle'[s] \in granted_states
      PROVE  /\ lifecycle'[s] = lifecycle[s] /\ lifecycle[s] \in granted_states
             /\ current_grant[s] \in grants /\ current_grant[s] \notin terminal'
  <2>1. s \notin affected /\ lifecycle'[s] = lifecycle[s]
    BY <1>2, <1>4 DEF granted_states, withdrawable
  <2>2. \A r \in affected : current_grant[s] \notin grant_of(r)
    BY <1>3, <1>4, <2>1, GrantOfOne
  <2>3. current_grant[s] \in grants /\ current_grant[s] \notin terminal
    BY <1>4, <2>1, ZenonT(30) DEF GrantInv, HeldIsLive
  <2> QED
    BY <1>1, <1>4, <2>1, <2>2, <2>3
<1>5. \A s \in RequestIds : GoesOn(s)
  BY <1>1, <1>2, <1>4 DEF GoesOn, fresh_states, withdrawable, ABSENT
<1>6. \A s \in RequestIds : s >= next_request_id' => lifecycle'[s] = ABSENT
  BY <1>1, <1>2 DEF GrantInv, TablesMatch, withdrawable, ABSENT
<1> QED
  BY <1>1, <1>5, <1>6, ZenonT(30) DEF Keeps, CallsKept

\* A recovery leaves nothing granted and nothing fresh.
LEMMA RecoveryKeeps ==
  ASSUME GrantInv, resetDynamicStateForRecovery
  PROVE  Keeps /\ CallsKept
<1>1. /\ UNCHANGED <<request_gen, issued, next_grant_id, next_request_id, dispatch>>
      /\ grants' = {} /\ \A r \in RequestIds : current_grant'[r] = None
      /\ \A r \in RequestIds : \/ lifecycle[r] # ABSENT /\ lifecycle'[r] = "REVALIDATION_REQUIRED"
                               \/ /\ lifecycle'[r] = lifecycle[r]
                                  /\ lifecycle[r] \in terminal_states \cup {ABSENT}
  BY ZenonT(30) DEF resetDynamicStateForRecovery, callVars, records, is_terminal_state
<1>2. \A r \in RequestIds : GoesOn(r)
  BY <1>1 DEF GoesOn, fresh_states, granted_states, ABSENT, terminal_states
<1>3. \A s \in RequestIds : s >= next_request_id' => lifecycle'[s] = ABSENT
  BY <1>1, ZenonT(30) DEF GrantInv, TablesMatch
<1> QED
  BY <1>1, <1>2, <1>3, ZenonT(30) DEF Keeps, CallsKept

\* The end of a handoff moves a dispatching record to active, or nothing.
LEMMA CommitKeeps ==
  ASSUME GrantInv, NEW g \in GrantIds, handoff_commit(g)
  PROVE  Keeps /\ CallsKept
<1>1. /\ UNCHANGED <<request_gen, current_grant, issued, grants, terminal, next_grant_id, next_request_id>>
      /\ dispatch' = [dispatch EXCEPT ![g] = "returned"] /\ dispatch[g] # "none"
      /\ lifecycle' = [lifecycle EXCEPT ![issued[g].request] = committed_state(g)]
  BY ZenonT(30) DEF handoff_commit
<1>2. CallsKept
  BY <1>1, GrantTypes, ZenonT(30) DEF CallsKept, GrantInv
<1>3. \A r \in RequestIds : \/ lifecycle'[r] = lifecycle[r]
                            \/ lifecycle[r] = "DISPATCHING" /\ lifecycle'[r] = "ACTIVE"
  BY <1>1, GrantTypes, ZenonT(30) DEF committed_state, GrantInv
<1>4. \A r \in RequestIds : GoesOn(r)
  BY <1>1, <1>3 DEF GoesOn, GrantInv, HeldIsLive, fresh_states, granted_states, ABSENT
<1>5. \A s \in RequestIds : s >= next_request_id' => lifecycle'[s] = ABSENT
  BY <1>1, <1>3, ZenonT(30) DEF GrantInv, TablesMatch, ABSENT
<1> QED
  BY <1>1, <1>2, <1>4, <1>5, ZenonT(30) DEF Keeps

\* The first critical section of a handoff takes a record on, with a grant that is
\* its current one, live and never handed off before.
LEMMA HandoffKeeps ==
  ASSUME GrantInv, NEW g \in GrantIds, handoff(g)
  PROVE  /\ Keeps
         /\ HandedOffMovesOn'
         /\ dispatch[g] = "none"
         /\ g \in grants /\ g \notin terminal
         /\ current_grant[issued[g].request] = g
         /\ lifecycle[issued[g].request] = "GRANTED"
         /\ lifecycle' = [lifecycle EXCEPT ![issued[g].request] = "DISPATCHING"]
         /\ dispatch' = [dispatch EXCEPT ![g] = "accepting"]
         /\ UNCHANGED <<request_gen, current_grant, grants, terminal>>
<1> DEFINE r == issued[g].request
<1>1. /\ issued[g] # None /\ r \in RequestIds
      /\ request_gen[r] = issued[g].request_gen
      /\ can_transition(lifecycle[r], "DISPATCHING")
      /\ lifecycle' = [lifecycle EXCEPT ![r] = "DISPATCHING"]
      /\ dispatch' = [dispatch EXCEPT ![g] = "accepting"]
      /\ UNCHANGED <<request_gen, current_grant, issued, grants, terminal, next_grant_id,
                     next_request_id>>
  BY ZenonT(30) DEF handoff, revalidate_grant, records, grantVars
<1>2. lifecycle[r] = "GRANTED"
  BY <1>1, OnlyGrantedDispatches, ZenonT(30)
<1>3. /\ current_grant[r] \in GrantIds /\ current_grant[r] \in grants
      /\ current_grant[r] \notin terminal /\ current_grant[r] # None
  BY <1>1, <1>2, NoneAssumption, GrantTypes DEF GrantInv, HeldIsLive, granted_states
<1>4. current_grant[r] = g
  <2> DEFINE h == current_grant[r]
  <2>1. issued[h] # None /\ issued[h].request = r /\ issued[h].request_gen = request_gen[r]
    BY <1>1, <1>3 DEF GrantInv, CurrentIsOwn
  <2> QED
    BY <1>1, <1>3, <2>1, ZenonT(30) DEF GrantInv, OneGrantPerGeneration
<1>5. dispatch[g] = "none"
  BY <1>1, <1>2, ZenonT(30) DEF GrantInv, HandedOffMovesOn
<1>6. \A s \in RequestIds : lifecycle'[s] = IF s = r THEN "DISPATCHING" ELSE lifecycle[s]
  BY <1>1, ZenonT(30) DEF GrantInv, TypeOK
<1>7. \A s \in RequestIds : GoesOn(s)
  <2>1. \A s \in RequestIds : lifecycle[s] \in granted_states =>
          current_grant[s] \in grants /\ current_grant[s] \notin terminal
    BY ZenonT(30) DEF GrantInv, HeldIsLive
  <2>2. GoesOn(r)
    BY <1>1, <1>2, <1>6, <2>1, SMTT(30) DEF GoesOn, fresh_states, granted_states, ABSENT
  <2>3. ASSUME NEW s \in RequestIds, s # r PROVE GoesOn(s)
    BY <1>1, <1>6, <2>1, <2>3, ZenonT(30) DEF GoesOn
  <2> QED
    BY <1>1, <2>2, <2>3
<1>8. \A s \in RequestIds : s >= next_request_id' => lifecycle'[s] = ABSENT
  BY <1>1, <1>2, <1>6, ZenonT(30) DEF GrantInv, TablesMatch, ABSENT
<1>9. HandedOffMovesOn'
  <2> SUFFICES ASSUME NEW h \in GrantIds, dispatch'[h] # "none"
               PROVE  /\ issued[h] # None
                      /\ issued[h].request_gen = request_gen[issued[h].request] =>
                           lifecycle'[issued[h].request] # "GRANTED"
    BY <1>1, ZenonT(30) DEF HandedOffMovesOn
  <2>1. CASE h = g
    BY <1>1, <1>6, <2>1, SMTT(30)
  <2>2. CASE h # g
    <3>1. dispatch[h] # "none"
      BY <1>1, <2>2, GrantTypes, ZenonT(30) DEF GrantInv
    <3>2. issued[h] # None /\ issued[h].request \in RequestIds
      BY <3>1, GrantTypes, ZenonT(30) DEF GrantInv, HandedOffMovesOn
    <3> QED
      BY <1>6, <3>1, <3>2, ZenonT(30) DEF GrantInv, HandedOffMovesOn
  <2> QED
    BY <2>1, <2>2, ZenonT(30)
<1> QED
  BY <1>1, <1>2, <1>3, <1>4, <1>5, <1>7, <1>8, <1>9 DEF Keeps

\* All other steps but decisions.
LEMMA OthersKeep ==
  ASSUME GrantInv, Next, ~schedule, ~\E g \in GrantIds : handoff(g)
  PROVE  Keeps /\ CallsKept
<1>1. CASE \/ \E in \in PlanInputs : publishPlan(in)
           \/ \E in \in DependencyInputs : publishDependency(in)
           \/ \E in \in ReservationInputs : publishReservation(in)
           \/ \E in \in CongestionInputs : publishCongestion(in)
           \/ \E in \in CapacityInputs : publishCapacity(in)
  <2>1. UNCHANGED otherThanEvidence
    BY <1>1 DEF publishPlan, publishDependency, publishReservation, publishCongestion, publishCapacity
  <2> QED
    BY <2>1, NothingKeeps, ZenonT(30) DEF otherThanEvidence, recordVars, grantVars, callVars, CallsKept
<1>2. CASE (\E in \in PolicyInputs : setPolicy(in)) \/ advanceCoordinatorEpoch \/ advanceTime
  <2>1. UNCHANGED <<recordVars, grantVars, next_request_id, callVars>>
    BY <1>2 DEF setPolicy, advanceCoordinatorEpoch, advanceTime
  <2> QED
    BY <2>1, NothingKeeps DEF recordVars, grantVars, callVars, CallsKept
<1>3. CASE \E g \in GrantIds : accept(g) \/ revoke(g)
  <2>1. UNCHANGED otherThanCalls
    BY <1>3, ZenonT(30) DEF accept, revoke
  <2>2. CallsKept
    BY <1>3, GrantTypes DEF accept, revoke, CallsKept, GrantInv
  <2> QED
    BY <2>1, <2>2, NothingKeeps DEF otherThanCalls, recordVars, grantVars
<1> QED
  BY <1>1, <1>2, <1>3, PublishKeeps, SubmitKeeps, SupersedeKeeps, CancelKeeps, CommitKeeps,
     CompleteKeeps, FenceKeeps, RecoveryKeeps DEF Next
===============================================================================
