----------------------------- MODULE FairScheduler -----------------------------
(***************************************************************************)
(* The decision of scheduler.cpp in full, and a client that drives it.        *)
(*                                                                           *)
(* Scheduler lets a decision rank its candidates in any way.  Here they are   *)
(* ranked by the weighted factors of ranking_key, selected by the loop of     *)
(* schedule(), charged or credited in their fairness accounts, and the        *)
(* priority inversions the decision found are sent to the preemption port     *)
(* once the mutex is released.                                               *)
(*                                                                           *)
(* The client is the one of the examples and of the gating proof: a thread    *)
(* that publishes its evidence, submits, decides, hands off every grant of a  *)
(* decision before it decides again, and decides again when something was     *)
(* submitted, completed or cancelled.  Completions and cancellations come     *)
(* from other threads at any moment.  The fabric accepts everything.         *)
(***************************************************************************)
EXTENDS Scheduler, Sequences, SequencesExt, TLC

VARIABLES
  bypasses,     \* fairness.consecutive_bypasses
  deficit,      \* fairness.deficit, in units of aging_growth
  age,          \* age_ticks
  inversions,   \* events of the last decision not yet sent to the preemption port
  preempted,    \* the <<holder, requester>> pairs the port has been asked about
  pending,      \* grants of the last decision not yet handed off
  dirty         \* the client has a reason to decide again

accountVars == <<bypasses, deficit, age>>
driverVars == <<inversions, preempted, pending, dirty>>
fairVars == <<vars, accountVars, driverVars>>

FInit ==
  /\ Init
  /\ bypasses = [r \in RequestIds |-> 0]
  /\ deficit = [r \in RequestIds |-> 0]
  /\ age = [r \in RequestIds |-> 0]
  /\ inversions = {} /\ preempted = {} /\ pending = {} /\ dirty = FALSE
-------------------------------------------------------------------------------
(* Ranking.  Scores are doubles in the code; here they are exact, in units of  *)
(* 1/Unit.  Time is in seconds.  The factors that are the same for every       *)
(* candidate (congestion, availability) are left out.                         *)

Unit == 2000

at_most(bound, n) == IF n > bound THEN bound ELSE n

\* The deficit, capped at 1.
capped_deficit(r) == (Unit * at_most(policy.deficit_steps, deficit[r])) \div policy.deficit_steps

promoted(r) == bypasses[r] >= policy.max_bypass_count

\* Mutation of starvation: the pressure grows, but nobody is promoted.
starvation_without_promotion(r) ==
  (Unit * at_most(policy.max_bypass_count, bypasses[r])) \div (2 * policy.max_bypass_count)
    + capped_deficit(r) \div 2

\* starvation_pressure, and the promotion that replaces it.
starvation(r) ==
  IF promoted(r) THEN 1000 * Unit
  ELSE (Unit * bypasses[r]) \div (2 * policy.max_bypass_count) + capped_deficit(r) \div 2

\* The weights are the defaults of PolicyConfig.
ranking_key(r) ==
  LET w == request[r].window IN
  <<IF w.deadline # 0 /\ now < w.deadline
      THEN (Unit * 200) \div (1 + w.deadline - now) ELSE 0,
    Unit * request[r].priority,
    150 * starvation(r),
    120 * capped_deficit(r),
    (Unit * (age[r] + 1)) \div 1000,
    -((Unit * w.duration) \div 2),
    IF request[r].reservation_gen # 0 THEN 90 * Unit ELSE 0,
    -((Unit * w.duration) \div 2),
    -((Unit * Cardinality(request[r].resources)) \div 2)>>

\* cmp_rank(a, b) > 0
outranks(a, b) ==
  \E i \in DOMAIN a : a[i] > b[i] /\ \A j \in 1..(i - 1) : a[j] = b[j]

\* The comparator of the sort; enqueue_seq grows with the request id.
ranks_before(r, s) ==
  LET a == ranking_key(r)
      b == ranking_key(s)
      score(k) == FoldFunction(+, 0, k)
  IN  \/ score(a) > score(b)
      \/ /\ score(a) = score(b)
         /\ \/ outranks(a, b)
            \/ /\ a = b
               /\ \/ request[r].collective < request[s].collective
                  \/ request[r].collective = request[s].collective /\ r < s

ranked(C) == SetToSortSeq(C, ranks_before)
-------------------------------------------------------------------------------
(* Selection: the loop over the ranked list, with its breaks and continues. *)

\* Mutation of select_step: running work is not looked at.
select_step_blind(sel, r) ==
  IF sel.stop \/ active_grants + Len(sel.taken) >= policy.max_active_grants
    THEN [sel EXCEPT !.stop = TRUE]
  ELSE IF exclusive(r) /\ sel.taken # <<>> THEN sel
  ELSE IF \E s \in Range(sel.taken) : ~can_overlap(r, s) THEN sel
  ELSE [taken |-> Append(sel.taken, r), stop |-> exclusive(r)]

\* One turn of the loop, at candidate r.
select_step(sel, r) ==
  IF sel.stop \/ active_grants + Len(sel.taken) >= policy.max_active_grants
    THEN [sel EXCEPT !.stop = TRUE]
  ELSE IF exclusive(r) /\ sel.taken # <<>> THEN sel
  ELSE IF active_conflicts(r) THEN sel
  ELSE IF \E s \in Range(sel.taken) : ~can_overlap(r, s) THEN sel
  ELSE IF Len(sel.taken) >= policy.max_overlap_group THEN [sel EXCEPT !.stop = TRUE]
  ELSE [taken |-> Append(sel.taken, r), stop |-> exclusive(r)]

select(list) ==
  Range(FoldLeft(select_step, [taken |-> <<>>, stop |-> FALSE], list).taken)

\* Mutation of collect_priority_inversions: priorities are compared the wrong
\* way round.
collect_wrong_inversions(fallback) ==
  {[holder |-> issued[g].request, requester |-> r, urgent |-> FALSE] :
     <<g, r>> \in {<<h, q>> \in (grants \cap active) \X fallback :
                     request[issued[h].request].priority > request[q].priority}}

\* An event for every running grant of lower priority that stands in the way of
\* an authoritative candidate that was not selected.  It is urgent, and asks for
\* preemption, when the deadline leaves less than twice the expected duration.
collect_priority_inversions(fallback) ==
  LET inverts(g, r) ==
        LET holder == issued[g].request IN
        /\ g \in active /\ g \notin terminal
        /\ holder \in records
        /\ request[r].authoritative
        /\ request[holder].priority < request[r].priority
        /\ forbids_overlap(classify_conflict(footprint(r), footprint(holder)))
      urgent(w) == /\ w.deadline # 0
                   /\ w.deadline <= (now + w.duration * 2) % TimeModulus
  IN  {[holder |-> issued[p[1]].request, requester |-> p[2],
        urgent |-> urgent(request[p[2]].window)] :
         p \in {q \in grants \X fallback : inverts(q[1], q[2])}}

\* The client's thread is in no call.
idle ==
  /\ inversions = {}
  /\ \A g \in GrantIds : dispatch[g] \in {"none", "returned"}

\* The decision, in one critical section.
decide ==
  /\ dirty /\ idle /\ pending = {}
  /\ \E C \in {candidates} : \E list \in {ranked(C)} : \E S \in {select(list)} :
    \E rank \in {[r \in C |-> CHOOSE i \in DOMAIN list : list[i] = r]},
       passed_over \in {C \ S} :
    /\ grant_selected(S, rank)
    /\ age' = [r \in RequestIds |->
                 IF r \in records /\ ~is_terminal_state(r) THEN age[r] + 1 ELSE age[r]]
    /\ bypasses' = [r \in RequestIds |->
                      IF r \in S THEN 0
                      ELSE IF r \in passed_over THEN bypasses[r] + 1 ELSE bypasses[r]]
    /\ deficit' = [r \in RequestIds |->
                     IF r \in S THEN IF deficit[r] > 1 THEN deficit[r] - 1 ELSE 0
                     ELSE IF r \in passed_over THEN deficit[r] + 1 ELSE deficit[r]]
    /\ inversions' = collect_priority_inversions(passed_over)
    /\ pending' = {grant_id(S, rank, r) : r \in S}
    /\ dirty' = FALSE
    /\ UNCHANGED preempted

\* The public schedule() calls the preemption port, without the mutex.
request_preemption ==
  /\ \E ev \in inversions :
       /\ inversions' = inversions \ {ev}
       /\ preempted' = preempted \cup {<<ev.holder, ev.requester>>}
  /\ UNCHANGED <<vars, accountVars, pending, dirty>>
-------------------------------------------------------------------------------
(* The client *)

published ==
  /\ \A in \in ParticipantInputs : participants[in.id] # None
  /\ \A in \in PlanInputs : plans[in.id] # None

client_publish ==
  /\ \/ \E in \in ParticipantInputs : participants[in.id] = None /\ publishParticipant(in)
     \/ \E in \in PlanInputs : plans[in.id] = None /\ publishPlan(in)
  /\ UNCHANGED <<accountVars, driverVars>>

client_submit ==
  /\ published
  /\ \E req \in RequestInputs : submit(req)
  /\ dirty' = TRUE
  /\ UNCHANGED <<accountVars, inversions, preempted, pending>>

\* The grants of a decision are handed off one after the other; a grant that
\* was cancelled first is refused by handoff and dropped.
client_handoff ==
  LET g == CHOOSE h \in pending : \A i \in pending : h <= i IN
  /\ pending # {} /\ idle
  /\ IF lifecycle[issued[g].request] = "GRANTED" THEN handoff(g) ELSE UNCHANGED vars
  /\ pending' = pending \ {g}
  /\ UNCHANGED <<accountVars, inversions, preempted, dirty>>

client_accept ==
  /\ \E g \in GrantIds : accept(g) /\ dispatch'[g] = "accepted"
  /\ UNCHANGED <<accountVars, driverVars>>

client_commit ==
  /\ \E g \in GrantIds : handoff_commit(g)
  /\ UNCHANGED <<accountVars, driverVars>>

client_revoke ==
  /\ \E g \in GrantIds : revoke(g)
  /\ UNCHANGED <<accountVars, driverVars>>

worker_complete ==
  /\ \E g \in GrantIds, b \in Boots : complete(g, b)
  /\ dirty' = TRUE
  /\ UNCHANGED <<accountVars, inversions, preempted, pending>>

operator_cancel ==
  /\ \E r \in RequestIds : request[r] # None /\ request[r].cancellable /\ cancel(r)
  /\ dirty' = TRUE
  /\ UNCHANGED <<accountVars, inversions, preempted, pending>>

FNext ==
  \/ client_publish
  \/ client_submit
  \/ decide
  \/ request_preemption
  \/ client_handoff
  \/ client_accept
  \/ client_commit
  \/ client_revoke
  \/ worker_complete
  \/ operator_cancel

\* The client thread goes on, and a worker that executes finishes.
FSpec ==
  /\ FInit /\ [][FNext]_fairVars
  /\ WF_fairVars(decide \/ request_preemption \/ client_handoff)
  /\ WF_fairVars(client_accept \/ client_commit)
  /\ WF_fairVars(worker_complete)
-------------------------------------------------------------------------------
(* Properties *)

\* Every step of the client is a step of the scheduler: in particular the loop
\* that walks the ranked list selects what Scheduler's declarative selection
\* allows.
ImplementsScheduler == Spec

\* The requests a step grants.
granted_by_step == {r \in RequestIds : lifecycle[r] # "GRANTED" /\ lifecycle'[r] = "GRANTED"}

\* "an explicit maximum-bypass guarantee": a decision that grants anything does not
\* pass over a candidate bypassed max_bypass_count times, unless running work
\* stands in its way or what is granted is promoted too.  Priorities in the
\* instance are below the promotion's weight.
PromotedGoFirst ==
  [][granted_by_step # {} =>
       \A r \in candidates \ granted_by_step :
         promoted(r) /\ ~active_conflicts(r) => \E s \in granted_by_step : promoted(s)]_fairVars

\* h runs, shares a participant with the candidate r and has lower priority.
InvertedBy(r, h) ==
  /\ {r, h} \subseteq records
  /\ \E g \in active \ terminal : issued[g].request = h
  /\ request[r].authoritative /\ request[h].priority < request[r].priority
  /\ members(request[h]) \cap members(request[r]) # {}
  /\ r \in candidates

\* No decision leaves a priority inversion unreported: when lower-priority work
\* runs in the way of an authoritative candidate, the candidate is passed over and
\* the preemption port is asked about the two before the client goes on.  The
\* candidate is blocked through the participant index, the report comes from a
\* scan of all grants.
InversionsReported ==
  [][dirty /\ ~dirty' =>
       \A r, h \in RequestIds :
         InvertedBy(r, h) => /\ r \notin granted_by_step
                            /\ \E ev \in inversions' : ev.holder = h /\ ev.requester = r]_fairVars

\* Every collective submitted to a client of this kind ends: it is completed or
\* cancelled, however the others rank, conflict and finish.
EverythingEnds ==
  \A r \in RequestIds : (lifecycle[r] # ABSENT) ~> (lifecycle[r] \in terminal_states)

\* What this client never sees, though a client with several threads may: two
\* collectives that share a participant active together.
ClientsNeverCollide ==
  \A r, s \in records :
    r # s /\ lifecycle[r] = "ACTIVE" /\ lifecycle[s] = "ACTIVE" =>
      members(request[r]) \cap members(request[s]) = {}
===============================================================================
