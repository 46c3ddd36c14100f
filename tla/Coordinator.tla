------------------------------ MODULE Coordinator ------------------------------
(***************************************************************************)
(* The coordinator process: the sessions of Sessions, whose messages are      *)
(* handled by the scheduler of Scheduler, with the workers and controllers    *)
(* that talk to it.                                                          *)
(*                                                                           *)
(* A handler is one step for the scheduler's part, in the scheduler's mutex,  *)
(* and the steps of Sessions for what it sends.  Peers send their scripts     *)
(* one frame after the other without waiting for answers; a worker answers    *)
(* every grant for one of its participants with EXECUTION_ACCEPTED and        *)
(* COMPLETE before it reads on.                                               *)
(***************************************************************************)
EXTENDS Scheduler, Sessions

CONSTANTS
  Scripts,     \* connection -> what its peer sends of its own accord
  Owned,       \* connection -> the participants of a worker, {} for a controller
  BootOf,      \* connection -> the boot a worker reports with
  Mortal       \* the peers that may be killed

VARIABLES
  todo,              \* what each peer is about to send
  seen,              \* the GRANT frames each peer has received, in order
  stale_rejections

peerVars == <<todo, seen, stale_rejections>>
coordinatorVars == <<vars, sessionVars, peerVars>>

CInit ==
  /\ Init /\ SInit
  /\ todo = Scripts
  /\ seen = [c \in Conns |-> <<>>]
  /\ stale_rejections = 0
-------------------------------------------------------------------------------
(* Messages *)

Hello == [type |-> "HELLO"]
Submitted == [type |-> "ERROR"]
GrantFrame(g) == [type |-> "GRANT", grant |-> g]

\* The updates of evidence, by their handlers; a refused one changes nothing.
applies(m) ==
  CASE m.type = "PUBLISH_PARTICIPANT" -> publishParticipant(m.in)
    [] m.type = "UPDATE_PLAN" -> publishPlan(m.in)

is_stale(m) ==
  CASE m.type = "PUBLISH_PARTICIPANT" ->
         participants[m.in.id] # None /\ m.in.gen < participants[m.in.id].gen
    [] m.type = "UPDATE_PLAN" -> plans[m.in.id] # None /\ m.in.gen < plans[m.in.id].gen

handle_update(c, m) ==
  /\ m.type \in {"PUBLISH_PARTICIPANT", "UPDATE_PLAN"}
  /\ IF is_stale(m) THEN UNCHANGED vars ELSE applies(m)
  /\ handle_quietly(c)
  /\ UNCHANGED peerVars

\* HELLO and REGISTER are answered and otherwise ignored.
handle_hello(c, m) ==
  /\ m.type \in {"HELLO", "REGISTER"}
  /\ handle_and_answer(c, Hello)
  /\ UNCHANGED <<vars, peerVars>>

\* The answer to a submission is an ERROR frame, whether it was taken or not.
handle_submit(c, m) ==
  /\ m.type = "SUBMIT_COLLECTIVE"
  /\ IF Cardinality(records) < policy.max_collectives THEN submit(m.in) ELSE UNCHANGED vars
  /\ handle_and_answer(c, Submitted)
  /\ UNCHANGED peerVars

\* A decision; its grants are fetched one by one, in their order, and are not
\* handed off.  What is fetched is the grant as it was issued: the table keeps how
\* far it has come beside it.
handle_query(c, m) ==
  /\ m.type = "QUERY_SCHEDULE"
  /\ schedule
  /\ handle_and_cast(c, [i \in 1..(next_grant_id' - next_grant_id) |->
                           GrantFrame(next_grant_id + i - 1)], Hello)
  /\ UNCHANGED peerVars

handle_complete(c, m) ==
  /\ m.type = "COMPLETE"
  /\ IF completion_authorized(m.grant, issued[m.grant], m.boot)
     THEN complete(m.grant, m.boot) /\ UNCHANGED stale_rejections
     ELSE stale_rejections' = stale_rejections + 1 /\ UNCHANGED vars
  /\ handle_quietly(c)
  /\ UNCHANGED <<todo, seen>>

handle_fence(c, m) ==
  /\ m.type = "FENCE_WORKER"
  /\ fenceWorkerBoot(m.boot)
  /\ handle_and_answer(c, Hello)
  /\ UNCHANGED peerVars

handle_stop(c, m) ==
  /\ m.type = "SHUTDOWN"
  /\ handle_shutdown(c)
  /\ UNCHANGED <<vars, peerVars>>

\* Everything else is dropped, EXECUTION_ACCEPTED included.
handle_other(c, m) ==
  /\ m.type = "EXECUTION_ACCEPTED"
  /\ handle_quietly(c)
  /\ UNCHANGED <<vars, peerVars>>

handle_message(c) ==
  LET m == Head(batch[c]) IN
  /\ thread[c] = "handling" /\ batch[c] # <<>>
  /\ \/ handle_update(c, m)
     \/ handle_hello(c, m)
     \/ handle_submit(c, m)
     \/ handle_query(c, m)
     \/ handle_complete(c, m)
     \/ handle_fence(c, m)
     \/ handle_stop(c, m)
     \/ handle_other(c, m)
-------------------------------------------------------------------------------
(* Peers *)

sends(c) ==
  /\ todo[c] # <<>>
  /\ peer_send(c, Head(todo[c]))
  /\ todo' = [todo EXCEPT ![c] = Tail(@)]
  /\ UNCHANGED <<vars, seen, stale_rejections>>

\* A worker reads when it has nothing to send; a controller reads at any time.
\* The worker's test of the grant's own terminal flag never fails: the scheduler
\* sets only the flag of its table.
receives(c) ==
  /\ Owned[c] # {} => todo[c] = <<>>
  /\ peer_recv(c)
  /\ LET m == Head(outbox[c]) IN
     IF m.type = "GRANT"
     THEN /\ seen' = [seen EXCEPT ![c] = Append(@, m)]
          /\ todo' = IF members(issued[m.grant].body) \cap Owned[c] = {} THEN todo
                     ELSE [todo EXCEPT ![c] = @ \o
                             <<[type |-> "EXECUTION_ACCEPTED", grant |-> m.grant],
                               [type |-> "COMPLETE", grant |-> m.grant, boot |-> BootOf[c]]>>]
     ELSE UNCHANGED <<seen, todo>>
  /\ UNCHANGED <<vars, stale_rejections>>

\* A controller exits at the end of its script, a worker at the end of the stream,
\* when the SHUTDOWN it sends as its last finds nobody to read it; a peer that is
\* killed exits at any time.
exits(c) ==
  /\ todo[c] = <<>> /\ (Owned[c] # {} => thread[c] = "done")
  /\ hang_up(c)
  /\ UNCHANGED <<vars, peerVars>>

dies(c) == c \in Mortal /\ reset(c) /\ UNCHANGED <<vars, peerVars>>

connects(c) == connect(c) /\ UNCHANGED <<vars, peerVars>>
-------------------------------------------------------------------------------
\* What the threads of the coordinator do besides handling messages.
thread_step(c) ==
  /\ \/ push_session(c)
     \/ look(c)
     \/ recv(c)
     \/ send_reply(c)
     \/ lock(c)
     \/ send_grant(c)
     \/ unlock(c)
     \/ erase(c)
     \/ close_fd(c)
  /\ UNCHANGED <<vars, peerVars>>

\* What the main thread does.
main_step == (accept_failure \/ accept_again \/ join) /\ UNCHANGED <<vars, peerVars>>
accepts(c) == accept_connection(c) /\ UNCHANGED <<vars, peerVars>>

CNext ==
  \/ main_step
  \/ \E c \in Conns :
       \/ accepts(c)
       \/ thread_step(c)
       \/ handle_message(c)
       \/ sends(c)
       \/ receives(c)
       \/ connects(c)
       \/ exits(c)
       \/ dies(c)

\* Every thread of the coordinator goes on when it can, and peers send what they
\* have to and read what they are sent.  Nothing makes a peer connect or exit.
CSpec ==
  /\ CInit /\ [][CNext]_coordinatorVars
  /\ WF_coordinatorVars(main_step \/ \E c \in Conns : accepts(c))
  /\ \A c \in Conns : /\ WF_coordinatorVars(thread_step(c) \/ handle_message(c))
                      /\ WF_coordinatorVars(sends(c) \/ receives(c))
-------------------------------------------------------------------------------
(* Properties *)

\* What a peer has received of grants, and everything waiting in its socket, in order.
frames_at(c) == seen[c] \o outbox[c]

before(s, g, h) ==
  \E i, j \in DOMAIN s : i < j /\ s[i] = GrantFrame(g) /\ s[j] = GrantFrame(h)

\* Peers see grants in one order, and each grant once: two queries handled by two
\* threads do not have their broadcasts interleaved differently for two peers,
\* because a broadcast keeps sessions_mu from its first frame to its last.
BroadcastsAgree ==
  \A c, d \in Conns : \A g, h \in GrantIds :
    before(frames_at(c), g, h) => ~before(frames_at(d), h, g)

\* Nothing that has to happen can: no thread of the coordinator can go on, and no
\* peer has anything to send or to read.
Standstill ==
  ~ENABLED (\/ main_step
            \/ \E c \in Conns : \/ accepts(c) \/ thread_step(c) \/ handle_message(c)
                                \/ sends(c) \/ receives(c))

\* Nobody waits for somebody who waits in turn: when everything stands still, no
\* thread is in the middle of a query, an answer or its own end.  Broadcasts block
\* on full sockets with the mutex held, other threads wait for the mutex, and
\* workers do not read while they send.  Scripts are finite and every step uses
\* some of them up, so this is to say that every query is answered in the end.
NoCircularWait ==
  Standstill => \A c \in Conns : thread[c] \in {"none", "receiving", "done"} /\ mu = Nobody

\* After SHUTDOWN, once the peers are gone, the coordinator has exited when
\* everything stands still, unless it waits in accept for one more connection.
ShutdownEnds ==
  Standstill /\ ~running /\ (\A c \in Conns : peer[c] # "up") =>
    main \in {"accepting", "exited"}

\* Workers "receive grants, and complete with authoritative authority" (README):
\* granted work comes to an end when its worker lives and answers.  No handler
\* calls handoff, so the record stays GRANTED and complete refuses.
GrantedWorkCompletes ==
  \A r \in RequestIds : (lifecycle[r] = "GRANTED") ~> (lifecycle[r] = "COMPLETED")
===============================================================================
