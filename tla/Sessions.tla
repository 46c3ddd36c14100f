------------------------------- MODULE Sessions -------------------------------
(***************************************************************************)
(* The threads of coordinator.cpp and the connections they serve: a main      *)
(* thread that accepts, one thread per session that receives, handles and     *)
(* answers, and a list of descriptors under sessions_mu that a query's grants *)
(* are broadcast to.                                                         *)
(*                                                                           *)
(* Frames are whole (Framing models how they are cut), a socket buffer holds  *)
(* Capacity of them and a send blocks while it is full.  A descriptor that    *)
(* was closed may be given to the next connection.  A send to a peer that has *)
(* gone fails, as with Winsock; a POSIX build must ignore SIGPIPE for that.   *)
(***************************************************************************)
EXTENDS Naturals, Sequences, FiniteSets

CONSTANTS
  Conns,       \* the connections peers may make
  Fds,         \* the descriptors the operating system has to give
  Nobody,      \* no thread, no connection, no descriptor
  Capacity     \* frames a socket buffer holds, in each direction

ASSUME NobodyAssumption == Nobody \notin Conns \cup Fds

VARIABLES
  main,        \* where run() is
  accepted,    \* the connection it has accepted and not yet listed
  peer,        \* the other end of each connection
  thread,      \* where session() is, for each connection
  fd,          \* the descriptor of each connection
  sessions,    \* the list of descriptors
  mu,          \* the thread that holds sessions_mu from one step to the next
  running,
  inbox, outbox,      \* the socket buffers
  batch,       \* the messages decoded and not yet handled
  cast,        \* the grants a query has still to send
  targets,     \* the sessions that have still to be sent the first of them
  answer       \* the frame a thread is about to send to its own peer

listVars == <<accepted, fd, sessions, mu, targets>>
socketVars == <<peer, inbox, outbox>>
sessionVars == <<main, listVars, thread, running, socketVars, batch, cast, answer>>

MainState == {"accepting", "pushing", "looping", "joining", "exited"}
ThreadState == {"none", "accepted", "receiving", "handling", "casting", "sending",
                "replying", "erasing", "closing", "done"}

SInit ==
  /\ main = "accepting" /\ accepted = Nobody
  /\ peer = [c \in Conns |-> "away"]
  /\ thread = [c \in Conns |-> "none"]
  /\ fd = [c \in Conns |-> Nobody]
  /\ sessions = {} /\ mu = Nobody /\ running = TRUE
  /\ inbox = [c \in Conns |-> <<>>] /\ outbox = [c \in Conns |-> <<>>]
  /\ batch = [c \in Conns |-> <<>>] /\ cast = [c \in Conns |-> <<>>]
  /\ targets = [c \in Conns |-> {}]
  /\ answer = [c \in Conns |-> Nobody]

\* The descriptor of c is open on the coordinator's side.
is_open(c) == thread[c] \notin {"none", "done"}

\* The connection a descriptor stands for.
conn_of(f) == CHOOSE c \in Conns : is_open(c) /\ fd[c] = f

goes(c, s) == thread' = [thread EXCEPT ![c] = s]
-------------------------------------------------------------------------------
(* The main thread *)

is_free(f) == \A d \in Conns : is_open(d) => fd[d] # f

is_waiting(c) == peer[c] # "away" /\ thread[c] = "none"

accept_connection(c) ==
  /\ main = "accepting" /\ is_waiting(c)
  /\ \E f \in Fds : is_free(f) /\ fd' = [fd EXCEPT ![c] = f]
  /\ main' = "pushing" /\ accepted' = c /\ goes(c, "accepted")
  /\ UNCHANGED <<sessions, mu, targets, running, socketVars, batch, cast, answer>>

\* accept fails for want of a descriptor, and the loop is left for good.
accept_failure ==
  /\ main = "accepting"
  /\ (\E c \in Conns : is_waiting(c)) /\ \A f \in Fds : ~is_free(f)
  /\ main' = "joining"
  /\ UNCHANGED <<listVars, thread, running, socketVars, batch, cast, answer>>

\* The descriptor is listed and the thread started.
push_session(c) ==
  /\ main = "pushing" /\ accepted = c /\ mu = Nobody
  /\ sessions' = sessions \cup {fd[c]}
  /\ accepted' = Nobody
  /\ goes(c, "handling")
  /\ main' = "looping"
  /\ UNCHANGED <<fd, mu, targets, running, socketVars, batch, cast, answer>>

\* The condition of the accept loop.
accept_again ==
  /\ main = "looping"
  /\ main' = IF running THEN "accepting" ELSE "joining"
  /\ UNCHANGED <<listVars, thread, running, socketVars, batch, cast, answer>>

\* Every thread started has ended.
join ==
  /\ main = "joining" /\ \A c \in Conns : ~is_open(c)
  /\ main' = "exited"
  /\ UNCHANGED <<listVars, thread, running, socketVars, batch, cast, answer>>
-------------------------------------------------------------------------------
(* A session's thread *)

\* With no message left to handle, the condition of the loop.
look(c) ==
  /\ thread[c] = "handling" /\ batch[c] = <<>>
  /\ goes(c, IF running THEN "receiving" ELSE "erasing")
  /\ UNCHANGED <<main, listVars, running, socketVars, batch, cast, answer>>

\* Mutation of recv: the end of the stream is not noticed.
recv_for_ever(c) ==
  /\ thread[c] = "receiving" /\ inbox[c] # <<>>
  /\ batch' = [batch EXCEPT ![c] = inbox[c]]
  /\ inbox' = [inbox EXCEPT ![c] = <<>>]
  /\ goes(c, "handling")
  /\ UNCHANGED <<main, listVars, running, peer, outbox, cast, answer>>

\* recv returns what has arrived, or the end of the stream.
recv(c) ==
  /\ thread[c] = "receiving"
  /\ \/ /\ inbox[c] # <<>>
        /\ batch' = [batch EXCEPT ![c] = inbox[c]]
        /\ inbox' = [inbox EXCEPT ![c] = <<>>]
        /\ goes(c, "handling")
     \/ /\ inbox[c] = <<>> /\ peer[c] = "gone"
        /\ goes(c, "erasing")
        /\ UNCHANGED <<batch, inbox>>
  /\ UNCHANGED <<main, listVars, running, peer, outbox, cast, answer>>

\* The first message of the batch is taken off.
taken(c) == batch' = [batch EXCEPT ![c] = Tail(@)]

\* A message that is answered with nothing.
handle_quietly(c) ==
  /\ taken(c)
  /\ UNCHANGED <<main, listVars, thread, running, socketVars, cast, answer>>

\* A message that is answered with one frame.
handle_and_answer(c, frame) ==
  /\ taken(c)
  /\ answer' = [answer EXCEPT ![c] = frame]
  /\ goes(c, "replying")
  /\ UNCHANGED <<main, listVars, running, socketVars, cast>>

\* QUERY_SCHEDULE: the frames are broadcast, then summary is sent back.
handle_and_cast(c, frames, summary) ==
  /\ taken(c)
  /\ cast' = [cast EXCEPT ![c] = frames]
  /\ answer' = [answer EXCEPT ![c] = summary]
  /\ goes(c, "casting")
  /\ UNCHANGED <<main, listVars, running, socketVars>>

\* SHUTDOWN.
handle_shutdown(c) ==
  /\ taken(c)
  /\ running' = FALSE
  /\ UNCHANGED <<main, listVars, thread, socketVars, cast, answer>>

\* What a send to c does: it waits for room, or fails when the peer is gone.
can_send(c) == peer[c] = "gone" \/ Len(outbox[c]) < Capacity
sent(c, frame) ==
  outbox' = IF peer[c] = "gone" THEN outbox ELSE [outbox EXCEPT ![c] = Append(@, frame)]

send_reply(c) ==
  /\ thread[c] = "replying" /\ can_send(c)
  /\ sent(c, answer[c])
  /\ answer' = [answer EXCEPT ![c] = Nobody]
  /\ goes(c, "handling")
  /\ UNCHANGED <<main, listVars, running, peer, inbox, batch, cast>>

\* Mutation of lock: broadcasts share the mutex, as readers of the list.
lock_shared(c) ==
  /\ thread[c] = "casting" /\ (mu # Nobody => thread[mu] = "sending")
  /\ mu' = c
  /\ targets' = [targets EXCEPT ![c] = sessions]
  /\ goes(c, "sending")
  /\ UNCHANGED <<main, accepted, fd, sessions, running, socketVars, batch, cast, answer>>

lock(c) ==
  /\ thread[c] = "casting" /\ mu = Nobody
  /\ mu' = c
  /\ targets' = [targets EXCEPT ![c] = sessions]
  /\ goes(c, "sending")
  /\ UNCHANGED <<main, accepted, fd, sessions, running, socketVars, batch, cast, answer>>

\* The first grant goes to one more session; after the last one, the next grant
\* starts over.
send_grant(c) ==
  /\ thread[c] = "sending" /\ cast[c] # <<>>
  /\ \E f \in targets[c] :
       LET rest == targets[c] \ {f} IN
       /\ can_send(conn_of(f)) /\ sent(conn_of(f), Head(cast[c]))
       /\ targets' = [targets EXCEPT ![c] = IF rest = {} THEN sessions ELSE rest]
       /\ cast' = [cast EXCEPT ![c] = IF rest = {} THEN Tail(@) ELSE @]
  /\ UNCHANGED <<main, accepted, fd, sessions, mu, thread, running, peer, inbox, batch, answer>>

\* Mutation of unlock: the mutex is kept.
unlock_nothing(c) ==
  /\ thread[c] = "sending" /\ cast[c] = <<>>
  /\ targets' = [targets EXCEPT ![c] = {}]
  /\ goes(c, "replying")
  /\ UNCHANGED <<main, accepted, fd, sessions, mu, running, socketVars, batch, cast, answer>>

unlock(c) ==
  /\ thread[c] = "sending" /\ cast[c] = <<>>
  /\ mu' = Nobody
  /\ targets' = [targets EXCEPT ![c] = {}]
  /\ goes(c, "replying")
  /\ UNCHANGED <<main, accepted, fd, sessions, running, socketVars, batch, cast, answer>>

\* Mutation of erase: the descriptor is closed before it is taken off the list.
erase_after_close(c) ==
  \/ /\ thread[c] = "erasing"
     /\ goes(c, "done")
     /\ UNCHANGED <<main, listVars, running, socketVars, batch, cast, answer>>
  \/ /\ thread[c] = "done" /\ fd[c] \in sessions /\ mu = Nobody
     /\ sessions' = sessions \ {fd[c]}
     /\ UNCHANGED <<main, accepted, fd, mu, targets, thread, running, socketVars, batch, cast,
                    answer>>

erase(c) ==
  /\ thread[c] = "erasing" /\ mu = Nobody
  /\ sessions' = sessions \ {fd[c]}
  /\ goes(c, "closing")
  /\ UNCHANGED <<main, accepted, fd, mu, targets, running, socketVars, batch, cast, answer>>

close_fd(c) ==
  /\ thread[c] = "closing"
  /\ goes(c, "done")
  /\ UNCHANGED <<main, listVars, running, socketVars, batch, cast, answer>>
-------------------------------------------------------------------------------
(* The peers' ends of the connections *)

\* The listening socket takes connections until run() leaves the accept loop.
connect(c) ==
  /\ peer[c] = "away" /\ main \in {"accepting", "pushing", "looping"}
  /\ peer' = [peer EXCEPT ![c] = "up"]
  /\ UNCHANGED <<main, listVars, thread, running, inbox, outbox, batch, cast, answer>>

peer_send(c, m) ==
  /\ peer[c] = "up" /\ Len(inbox[c]) < Capacity
  /\ inbox' = [inbox EXCEPT ![c] = Append(@, m)]
  /\ UNCHANGED <<main, listVars, thread, running, peer, outbox, batch, cast, answer>>

peer_recv(c) ==
  /\ peer[c] = "up" /\ outbox[c] # <<>>
  /\ outbox' = [outbox EXCEPT ![c] = Tail(@)]
  /\ UNCHANGED <<main, listVars, thread, running, peer, inbox, batch, cast, answer>>

\* The peer exits.
hang_up(c) ==
  /\ peer[c] = "up"
  /\ peer' = [peer EXCEPT ![c] = "gone"]
  /\ outbox' = [outbox EXCEPT ![c] = <<>>]
  /\ UNCHANGED <<main, listVars, thread, running, inbox, batch, cast, answer>>

\* The peer is killed: what it sent still arrives, or is lost with it.
reset(c) ==
  /\ peer[c] = "up"
  /\ peer' = [peer EXCEPT ![c] = "gone"]
  /\ outbox' = [outbox EXCEPT ![c] = <<>>]
  /\ inbox' \in {inbox, [inbox EXCEPT ![c] = <<>>]}
  /\ UNCHANGED <<main, listVars, thread, running, batch, cast, answer>>
-------------------------------------------------------------------------------
(* Properties *)

serving == {c \in Conns : thread[c] \notin {"none", "accepted", "closing", "done"}}

\* The list holds the descriptor of every session that is served and no other,
\* though descriptors are reused: a broadcast reaches each connected peer and never
\* writes to a descriptor that has been closed or has come to mean another peer.
\* Erasing before closing, and both the list and the broadcast under one mutex,
\* is what it takes.
BroadcastTargetsOpen ==
  /\ sessions = {fd[c] : c \in serving}
  /\ \A c, d \in Conns : is_open(c) /\ is_open(d) /\ fd[c] = fd[d] => c = d
  /\ \A c \in Conns : thread[c] = "sending" => targets[c] \subseteq sessions
===============================================================================
