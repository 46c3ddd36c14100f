------------------------------- MODULE Recovery -------------------------------
(***************************************************************************)
(* A scheduler process that saves its state to a file (the SAVE handler of   *)
(* coordinator.cpp), crashes at any point, and is started again: run()        *)
(* restores the file, forgets all dynamic evidence and moves to the epoch of  *)
(* its command line.                                                         *)
(*                                                                           *)
(* Each session thread may be inside a save: the snapshot is taken under the  *)
(* scheduler's mutex, but nothing orders the writes of two threads to the     *)
(* file.  Clients keep the grants they were given by earlier processes.      *)
(*                                                                           *)
(* Operator: every start is given a larger --epoch than the one before.       *)
(***************************************************************************)
EXTENDS Scheduler

CONSTANTS
  Savers,        \* session threads that may handle SAVE
  MaxRestarts

VARIABLES
  file,          \* what the file holds: nothing, a torn write, or a snapshot
  snapshot,      \* the bytes each saver is about to write
  saving,        \* how far each saver has come
  held,          \* grants of earlier processes, with their ids, still with clients
  restored,      \* the requests this process read from the file, with their generations
  restarts

recoveryVars == <<file, snapshot, saving, held, restored, restarts>>

NoFile == [state |-> "none"]
Torn == [state |-> "torn"]

\* Persistence::save: the counters and the records; no evidence, no grants and
\* no policy.  Magic, version and checksum make a torn file recognisable.
serializeState ==
  [state |-> "whole", epoch |-> epoch, next_request_id |-> next_request_id,
   next_grant_id |-> next_grant_id, lifecycle |-> lifecycle, request |-> request,
   request_gen |-> request_gen]

\* What the constructor of a scheduler starts from.
emptyState ==
  [state |-> "whole", epoch |-> 1, next_request_id |-> 1, next_grant_id |-> 1,
   lifecycle |-> [r \in RequestIds |-> ABSENT], request |-> [r \in RequestIds |-> None],
   request_gen |-> [r \in RequestIds |-> 0]]

RInit ==
  /\ Init
  /\ file = NoFile
  /\ snapshot = [s \in Savers |-> NoFile]
  /\ saving = [s \in Savers |-> "idle"]
  /\ held = {} /\ restored = {} /\ restarts = 0
-------------------------------------------------------------------------------
(* SAVE *)

save(s) ==
  /\ saving[s] = "idle"
  /\ snapshot' = [snapshot EXCEPT ![s] = serializeState]
  /\ saving' = [saving EXCEPT ![s] = "taken"]
  /\ UNCHANGED <<vars, file, held, restored, restarts>>

\* fopen "wb" empties the file.  Writers that have it open together overwrite
\* each other's bytes.
fopen(s) ==
  LET others == {t \in Savers : saving[t] \in {"alone", "together"}} IN
  /\ saving[s] = "taken"
  /\ file' = Torn
  /\ saving' = [t \in Savers |-> IF t = s THEN IF others = {} THEN "alone" ELSE "together"
                                 ELSE IF t \in others THEN "together" ELSE saving[t]]
  /\ UNCHANGED <<vars, snapshot, held, restored, restarts>>

\* fwrite and fclose.  What two writers leave is the longer one's tail behind the
\* later one's bytes: whole or torn.
fwrite(s) ==
  /\ saving[s] \in {"alone", "together"}
  /\ \/ file' = snapshot[s]
     \/ saving[s] = "together" /\ file' = Torn
  /\ snapshot' = [snapshot EXCEPT ![s] = NoFile]
  /\ saving' = [saving EXCEPT ![s] = "idle"]
  /\ UNCHANGED <<vars, held, restored, restarts>>
-------------------------------------------------------------------------------
(* Crash and restart *)

\* Mutation of withdrawn_by_recovery: work that was only waiting stays as it was.
withdrawn_if_granted(state) ==
  IF state \in {"GRANTED", "DISPATCHING", "ACTIVE"} THEN "REVALIDATION_REQUIRED" ELSE state

\* What resetDynamicStateForRecovery makes of a restored record's lifecycle.
withdrawn_by_recovery(state) ==
  IF state \in terminal_states \cup {ABSENT} THEN state ELSE "REVALIDATION_REQUIRED"

\* The file is restored, or ignored when it is missing or its checksum does not
\* match: run() swallows the exception.
readable == IF file.state = "whole" THEN file ELSE emptyState

\* The process dies, wherever its threads are, and Coordinator::run starts anew.
restart ==
  /\ restarts < MaxRestarts
  /\ restarts' = restarts + 1
  /\ held' = held \cup {[id |-> g, grant |-> issued[g]] : g \in {h \in GrantIds : issued[h] # None}}
  /\ restored' = {<<r, readable.request_gen[r]>> :
                    r \in {q \in RequestIds : readable.lifecycle[q] # ABSENT}}
  /\ lifecycle' = [r \in RequestIds |-> withdrawn_by_recovery(readable.lifecycle[r])]
  /\ request' = readable.request
  /\ request_gen' = readable.request_gen
  /\ next_request_id' = readable.next_request_id
  /\ next_grant_id' = readable.next_grant_id
  /\ LET opts_epoch == restarts + 2 IN
     epoch' = IF readable.epoch < opts_epoch THEN opts_epoch ELSE readable.epoch
  /\ current_grant' = [r \in RequestIds |-> None]
  /\ participants' = [p \in Participants |-> None]
  /\ plans' = [x \in Plans |-> None]
  /\ deps' = [d \in Dependencies |-> None]
  /\ reservation' = None /\ congestion' = None /\ capacity' = None
  /\ participant_requests' = [p \in Participants |-> {}]
  /\ issued' = [g \in GrantIds |-> None]
  /\ grants' = {} /\ active' = {} /\ terminal' = {}
  /\ active_by_participant' = [p \in Participants |-> {}]
  /\ active_grants' = 0
  /\ now' = 0 /\ policy' = InitialPolicy
  /\ dispatch' = [g \in GrantIds |-> "none"]
  /\ revoking' = {} /\ fabric' = {}
  /\ snapshot' = [s \in Savers |-> NoFile]
  /\ saving' = [s \in Savers |-> "idle"]
  /\ UNCHANGED <<recoveries, file>>

RNext ==
  \/ Next /\ UNCHANGED recoveryVars
  \/ \E s \in Savers : save(s)
  \/ \E s \in Savers : fopen(s)
  \/ \E s \in Savers : fwrite(s)
  \/ restart

RSpec == RInit /\ [][RNext]_<<vars, recoveryVars>>
-------------------------------------------------------------------------------
(* Properties *)

\* A grant of an earlier process is dead: neither handoff nor complete accepts it,
\* though the file may be old, torn or lost and the ids it carries may since have
\* been given out again, to the same request or to another.
OldGrantsDie ==
  \A h \in held :
    /\ ~revalidate_grant(h.grant)
    /\ \A b \in Boots : ~completion_authorized(h.id, h.grant, b)

\* A request that survived a restart is not executed a second time: no process
\* issues a grant for a request it read from the file, in the generation it had
\* there, whether or not the grant of the earlier process was in time for the
\* save.  Only a process that read nothing of the request can repeat it.
RestoredWorkIsNotRepeated ==
  \A g \in GrantIds : \A h \in held :
    /\ issued[g] # None
    /\ issued[g].request = h.grant.request
    /\ issued[g].request_gen = h.grant.request_gen
    => <<h.grant.request, h.grant.request_gen>> \notin restored
===============================================================================
