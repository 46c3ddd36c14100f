---------------------------- MODULE GrantLifecycle ----------------------------
(***************************************************************************)
(* What the scheduler promises of a grant, to whoever holds its value: it is  *)
(* the only one ever issued for its generation of a request, it is handed off *)
(* at most once, and never after it has ended.                                *)
(***************************************************************************)

CONSTANTS Ids, Unissued

VARIABLES
  key,      \* the request generation each grant was issued for
  status,   \* "unissued", "live" or "ended"
  call      \* its handoff: "none", "calling" or "returned"

gvars == <<key, status, call>>

GInit ==
  /\ key = [g \in Ids |-> Unissued]
  /\ status = [g \in Ids |-> "unissued"]
  /\ call = [g \in Ids |-> "none"]

\* One decision issues any number of grants.
Issue(G) ==
  /\ \A g \in G : status[g] = "unissued"
  /\ status' = [g \in Ids |-> IF g \in G THEN "live" ELSE status[g]]
  /\ \A g \in G, h \in Ids : g # h => key'[g] # key'[h]
  /\ \A g \in G : key'[g] # Unissued
  /\ \A g \in Ids \ G : key'[g] = key[g]
  /\ UNCHANGED call

\* A handoff begins, on a live grant that no handoff was begun on.
Dispatch(g) ==
  /\ status[g] = "live"
  /\ call[g] = "none"
  /\ call' = [call EXCEPT ![g] = "calling"]
  /\ UNCHANGED <<key, status>>

\* It returns, whatever has become of the grant.
Return(g) ==
  /\ call[g] = "calling"
  /\ call' = [call EXCEPT ![g] = "returned"]
  /\ UNCHANGED <<key, status>>

\* A completion, cancellation, supersession, withdrawal or recovery ends grants.
End(G) ==
  /\ \A g \in G : status[g] = "live"
  /\ status' = [g \in Ids |-> IF g \in G THEN "ended" ELSE status[g]]
  /\ UNCHANGED <<key, call>>

GNext ==
  \/ \E G \in SUBSET Ids : Issue(G) \/ End(G)
  \/ \E g \in Ids : Dispatch(g) \/ Return(g)

GSpec == GInit /\ [][GNext]_gvars
===============================================================================
