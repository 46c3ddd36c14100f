----------------------------- MODULE GrantContract -----------------------------
(***************************************************************************)
(* The scheduler implements GrantLifecycle.  A grant is live while it is the  *)
(* current grant of a record that is granted, dispatching or active and the   *)
(* table has not ended it.                                                   *)
(***************************************************************************)
EXTENDS Scheduler

\* Request ids and generations begin at one.
no_key == <<0, 0>>

grant_key ==
  [g \in GrantIds |-> IF issued[g] = None THEN no_key
                      ELSE <<issued[g].request, issued[g].request_gen>>]

is_live(g) ==
  /\ g \in grants /\ g \notin terminal
  /\ current_grant[issued[g].request] = g
  /\ lifecycle[issued[g].request] \in {"GRANTED", "DISPATCHING", "ACTIVE"}

grant_status ==
  [g \in GrantIds |-> IF issued[g] = None THEN "unissued"
                      ELSE IF is_live(g) THEN "live" ELSE "ended"]

grant_call ==
  [g \in GrantIds |-> IF dispatch[g] \in {"none", "returned"} THEN dispatch[g] ELSE "calling"]

Contract == INSTANCE GrantLifecycle
              WITH Ids <- GrantIds, Unissued <- no_key,
                   key <- grant_key, status <- grant_status, call <- grant_call

\* Whatever clients, workers and operators do in whatever order, a grant is issued
\* once per generation, handed off at most once and only while it lives, and dead
\* for good once its record is completed, cancelled, superseded, withdrawn, fenced
\* or recovered.
ImplementsGrantLifecycle == Contract!GSpec
===============================================================================
