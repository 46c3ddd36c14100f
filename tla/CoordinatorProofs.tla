--------------------------- MODULE CoordinatorProofs ---------------------------
(***************************************************************************)
(* The list of sessions is right, and every peer sees the grants in one       *)
(* order, for every number of connections, descriptors and grants, whatever   *)
(* peers send.                                                               *)
(*                                                                           *)
(* BroadcastTargetsOpen is not inductive: that the list does not change under *)
(* a broadcast rests on the mutex, and that a session is listed once on the   *)
(* main thread having just accepted it.  BroadcastsAgree is not either: what   *)
(* has been sent agrees because of what waits to be sent, which is of grants   *)
(* no other thread sends, in the order of their identities, and of which only  *)
(* the first grant of the thread with the mutex has reached anybody, as the    *)
(* last grant each of them has.                                               *)
(***************************************************************************)
EXTENDS Coordinator, SchedulerProofs, SequenceTheorems

\* A broadcast has the mutex; the main thread lists what it has just accepted.
SessionInv ==
  /\ thread \in [Conns -> ThreadState]
  /\ DOMAIN fd = Conns /\ DOMAIN targets = Conns
  /\ \A c \in Conns : thread[c] = "sending" => mu = c
  /\ \A c \in Conns : main = "pushing" /\ accepted = c => thread[c] = "accepted"
  /\ BroadcastTargetsOpen

\* What a step does to one thread leaves the others' alone.
LEMMA GoesOne ==
  ASSUME SessionInv, NEW c \in Conns, NEW s \in ThreadState, goes(c, s)
  PROVE  /\ thread' \in [Conns -> ThreadState]
         /\ thread'[c] = s /\ \A d \in Conns \ {c} : thread'[d] = thread[d]
  BY ZenonT(30) DEF SessionInv, goes

\* The list, the descriptors and the mutex stay, and a thread moves between states
\* in which it is served and does not hold the mutex.
LEMMA ServedOnly ==
  ASSUME SessionInv, NEW c \in Conns, NEW s \in ThreadState, goes(c, s),
         thread[c] \notin {"none", "accepted", "closing", "done"},
         s \notin {"none", "accepted", "closing", "done", "sending"},
         UNCHANGED <<main, listVars>>
  PROVE  SessionInv'
<1>1. /\ thread' \in [Conns -> ThreadState] /\ thread'[c] = s
      /\ \A d \in Conns \ {c} : thread'[d] = thread[d]
  BY GoesOne
<1>2. serving' = serving /\ \A d \in Conns : is_open(d)' <=> is_open(d)
  BY <1>1 DEF serving, is_open
<1> QED
  BY <1>1, <1>2 DEF SessionInv, BroadcastTargetsOpen, listVars, is_open

\* Nothing moves.
LEMMA NoMove ==
  ASSUME SessionInv, UNCHANGED <<main, listVars, thread>>
  PROVE  SessionInv'
  BY DEF SessionInv, BroadcastTargetsOpen, listVars, is_open, serving

\* A message is answered, broadcast or ignored.
LEMMA HandlersPreserve ==
  ASSUME SessionInv, NEW c \in Conns, handle_message(c)
  PROVE  SessionInv'
<1>1. thread[c] = "handling"
  BY ZenonT(30) DEF handle_message
<1>2. \/ UNCHANGED <<main, listVars, thread>>
      \/ (goes(c, "replying") \/ goes(c, "casting")) /\ UNCHANGED <<main, listVars>>
  BY DEF handle_message, handle_update, handle_hello, handle_submit, handle_query, handle_complete,
    handle_fence, handle_stop, handle_other, handle_quietly, handle_and_answer, handle_and_cast,
    handle_shutdown
<1> QED
  BY <1>1, <1>2, NoMove, ServedOnly DEF ThreadState

\* The descriptor a connection is given is that of no open one.
LEMMA AcceptPreserves ==
  ASSUME SessionInv, NEW c \in Conns, accept_connection(c)
  PROVE  SessionInv'
<1>1. PICK f \in Fds : (\A d \in Conns : is_open(d) => fd[d] # f) /\ fd' = [fd EXCEPT ![c] = f]
  BY ZenonT(30) DEF accept_connection, is_free
<1>2. /\ thread[c] = "none" /\ main' = "pushing" /\ accepted' = c
      /\ UNCHANGED <<sessions, mu, targets>>
      /\ thread' \in [Conns -> ThreadState] /\ thread'[c] = "accepted"
      /\ \A d \in Conns \ {c} : thread'[d] = thread[d]
  BY GoesOne DEF accept_connection, is_waiting, ThreadState
<1>3. DOMAIN fd' = Conns /\ fd'[c] = f /\ \A d \in Conns \ {c} : fd'[d] = fd[d]
  BY <1>1 DEF SessionInv
<1>4. serving' = serving /\ c \notin serving
  BY <1>2 DEF serving
<1>5. sessions' = {fd'[d] : d \in serving'}
  BY <1>2, <1>3, <1>4 DEF SessionInv, BroadcastTargetsOpen, serving
<1>6. \A d, e \in Conns : is_open(d)' /\ is_open(e)' /\ fd'[d] = fd'[e] => d = e
  BY <1>1, <1>2, <1>3 DEF SessionInv, BroadcastTargetsOpen, is_open
<1> QED
  BY <1>2, <1>3, <1>5, <1>6 DEF SessionInv, BroadcastTargetsOpen

\* The session is listed as it begins to be served.
LEMMA PushPreserves ==
  ASSUME SessionInv, NEW c \in Conns, push_session(c)
  PROVE  SessionInv'
<1>1. /\ main = "pushing" /\ accepted = c /\ mu = Nobody
      /\ sessions' = sessions \cup {fd[c]} /\ main' # "pushing"
      /\ UNCHANGED <<fd, mu, targets>>
      /\ thread' \in [Conns -> ThreadState] /\ thread'[c] = "handling"
      /\ \A d \in Conns \ {c} : thread'[d] = thread[d]
  BY GoesOne DEF push_session, ThreadState
<1>2. thread[c] = "accepted"
  BY <1>1 DEF SessionInv
<1>3. serving' = serving \cup {c} /\ \A d \in Conns : is_open(d)' <=> is_open(d)
  BY <1>1, <1>2 DEF serving, is_open
<1>4. \A d \in Conns : thread[d] # "sending"
  BY <1>1, NobodyAssumption DEF SessionInv
<1> QED
  BY <1>1, <1>3, <1>4 DEF SessionInv, BroadcastTargetsOpen

\* A broadcast takes the mutex and reads the list, sends to a part of it, and lets
\* the mutex go.
LEMMA CastPreserves ==
  ASSUME SessionInv, NEW c \in Conns, lock(c) \/ send_grant(c) \/ unlock(c)
  PROVE  SessionInv'
<1>1. CASE lock(c)
  <2>1. /\ thread[c] = "casting" /\ mu = Nobody /\ mu' = c
        /\ targets' = [targets EXCEPT ![c] = sessions]
        /\ UNCHANGED <<main, accepted, fd, sessions>>
        /\ thread' \in [Conns -> ThreadState] /\ thread'[c] = "sending"
        /\ \A d \in Conns \ {c} : thread'[d] = thread[d]
    BY <1>1, GoesOne DEF lock, ThreadState
  <2>2. serving' = serving /\ \A d \in Conns : is_open(d)' <=> is_open(d)
    BY <2>1 DEF serving, is_open
  <2>3. \A d \in Conns : thread[d] # "sending"
    BY <2>1, NobodyAssumption, ZenonT(30) DEF SessionInv
  <2> QED
    BY <2>1, <2>2, <2>3 DEF SessionInv, BroadcastTargetsOpen
<1>2. CASE send_grant(c)
  <2>1. PICK T : T \subseteq targets[c] \cup sessions /\ targets' = [targets EXCEPT ![c] = T]
    BY <1>2, ZenonT(30) DEF send_grant
  <2>2. thread[c] = "sending" /\ UNCHANGED <<main, accepted, fd, sessions, mu, thread>>
    BY <1>2 DEF send_grant
  <2>3. serving' = serving /\ \A d \in Conns : is_open(d)' <=> is_open(d)
    BY <2>2, ZenonT(30) DEF serving, is_open
  <2> QED
    BY <2>1, <2>2, <2>3 DEF SessionInv, BroadcastTargetsOpen
<1>3. CASE unlock(c)
  <2>1. /\ thread[c] = "sending" /\ mu' = Nobody
        /\ targets' = [targets EXCEPT ![c] = {}]
        /\ UNCHANGED <<main, accepted, fd, sessions>>
        /\ thread' \in [Conns -> ThreadState] /\ thread'[c] = "replying"
        /\ \A d \in Conns \ {c} : thread'[d] = thread[d]
    BY <1>3, GoesOne DEF unlock, ThreadState
  <2>2. serving' = serving /\ \A d \in Conns : is_open(d)' <=> is_open(d)
    BY <2>1 DEF serving, is_open
  <2>3. \A d \in Conns : thread'[d] # "sending"
    BY <2>1 DEF SessionInv
  <2> QED
    BY <2>1, <2>2, <2>3, ZenonT(30) DEF SessionInv, BroadcastTargetsOpen
<1> QED
  BY <1>1, <1>2, <1>3, ZenonT(30)

\* A session leaves the list before its descriptor is closed.
LEMMA LeavePreserves ==
  ASSUME SessionInv, NEW c \in Conns, erase(c) \/ close_fd(c)
  PROVE  SessionInv'
<1>1. CASE erase(c)
  <2>1. /\ thread[c] = "erasing" /\ mu = Nobody /\ sessions' = sessions \ {fd[c]}
        /\ UNCHANGED <<main, accepted, fd, mu, targets>>
        /\ thread' \in [Conns -> ThreadState] /\ thread'[c] = "closing"
        /\ \A d \in Conns \ {c} : thread'[d] = thread[d]
    BY <1>1, GoesOne, ZenonT(30) DEF erase, ThreadState
  <2>2. serving' = serving \ {c} /\ \A d \in Conns : is_open(d)' <=> is_open(d)
    BY <2>1 DEF serving, is_open
  <2>3. \A d \in serving : is_open(d) /\ d \in Conns
    BY ZenonT(30) DEF serving, is_open
  <2>4. is_open(c)
    BY <2>1, ZenonT(30) DEF is_open
  <2>5. sessions' = {fd[d] : d \in serving \ {c}}
    BY <2>1, <2>3, <2>4, ZenonT(30) DEF SessionInv, BroadcastTargetsOpen
  <2>6. \A d \in Conns : thread[d] # "sending"
    BY <2>1, NobodyAssumption, ZenonT(30) DEF SessionInv
  <2> QED
    BY <2>1, <2>2, <2>5, <2>6 DEF SessionInv, BroadcastTargetsOpen
<1>2. CASE close_fd(c)
  <2>1. /\ thread[c] = "closing" /\ UNCHANGED <<main, accepted, fd, sessions, mu, targets>>
        /\ thread' \in [Conns -> ThreadState] /\ thread'[c] = "done"
        /\ \A d \in Conns \ {c} : thread'[d] = thread[d]
    BY <1>2, GoesOne DEF close_fd, listVars, ThreadState
  <2>2. serving' = serving /\ \A d \in Conns : is_open(d)' => is_open(d)
    BY <2>1 DEF serving, is_open
  <2> QED
    BY <2>1, <2>2 DEF SessionInv, BroadcastTargetsOpen
<1> QED
  BY <1>1, <1>2, ZenonT(30)

LEMMA SessionInductive ==
  /\ CInit => SessionInv
  /\ SessionInv /\ [CNext]_coordinatorVars => SessionInv'
<1>1. CInit => SessionInv
  <2> SUFFICES ASSUME SInit PROVE SessionInv
    BY ZenonT(30) DEF CInit
  <2> QED
    BY NobodyAssumption DEF SInit, SessionInv, BroadcastTargetsOpen, serving, is_open, ThreadState
<1>2. ASSUME SessionInv, [CNext]_coordinatorVars PROVE SessionInv'
  <2>1. CASE main_step
    <3>1. main' # "pushing" /\ UNCHANGED <<listVars, thread>>
      BY <2>1 DEF main_step, accept_failure, accept_again, join
    <3> QED
      BY <1>2, <3>1 DEF SessionInv, BroadcastTargetsOpen, listVars, is_open, serving
  <2>2. ASSUME NEW c \in Conns, look(c) \/ recv(c) \/ send_reply(c) PROVE SessionInv'
    <3>1. /\ thread[c] \in {"handling", "receiving", "replying"} /\ UNCHANGED <<main, listVars>>
          /\ \E s \in {"receiving", "erasing", "handling"} : goes(c, s)
      BY <2>2 DEF look, recv, send_reply
    <3> QED
      BY <1>2, <3>1, ServedOnly, ZenonT(30) DEF ThreadState
  <2>3. ASSUME NEW c \in Conns, sends(c) \/ receives(c) \/ connects(c) \/ exits(c) \/ dies(c)
        PROVE  SessionInv'
    <3>1. UNCHANGED <<main, listVars, thread>>
      BY <2>3, ZenonT(30) DEF sends, receives, connects, exits, dies, peer_send, peer_recv, connect, hang_up, reset
    <3> QED
      BY <1>2, <3>1, NoMove
  <2>4. CASE UNCHANGED coordinatorVars
    BY <1>2, <2>4, NoMove DEF coordinatorVars, sessionVars
  <2> QED
    BY <1>2, <2>1, <2>2, <2>3, <2>4, AcceptPreserves, PushPreserves, CastPreserves, LeavePreserves,
       HandlersPreserve, ZenonT(30) DEF CNext, accepts, thread_step
<1> QED
  BY <1>1, <1>2

\* A broadcast reaches every session served and never a descriptor that was closed
\* or has come to mean another peer.
THEOREM TargetsAreOpen == CSpec => []BroadcastTargetsOpen
<1>1. SessionInv => BroadcastTargetsOpen
  BY DEF SessionInv
<1> QED
  BY <1>1, SessionInductive, PTL DEF CSpec
-------------------------------------------------------------------------------
(* Sequences of frames *)

Frame == {Hello, Submitted} \cup {GrantFrame(g) : g \in Nat}

has(s, g) == \E i \in DOMAIN s : s[i] = GrantFrame(g)

\* Frames differ when their types or their grants do.
LEMMA FramesDiffer ==
  /\ \A g : Hello # GrantFrame(g) /\ Submitted # GrantFrame(g)
  /\ \A g, h : GrantFrame(g) = GrantFrame(h) => g = h
<1>1. Hello.type = "HELLO" /\ Submitted.type = "ERROR"
  BY DEF Hello, Submitted
<1>2. \A g : GrantFrame(g).type = "GRANT" /\ GrantFrame(g).grant = g
  BY DEF GrantFrame
<1> QED
  BY <1>1, <1>2

\* What comes before something is there.
LEMMA BeforeHas ==
  ASSUME NEW s, NEW g, NEW h, before(s, g, h)
  PROVE  has(s, g) /\ has(s, h)
  BY ZenonT(30) DEF before, has

LEMMA AppendFrames ==
  ASSUME NEW s \in Seq(Frame), NEW m \in Frame
  PROVE  /\ Append(s, m) \in Seq(Frame)
         /\ \A g : has(Append(s, m), g) => has(s, g) \/ m = GrantFrame(g)
         /\ \A g, h : before(Append(s, m), g, h) => before(s, g, h) \/ (has(s, g) /\ m = GrantFrame(h))
<1> DEFINE t == Append(s, m)
<1>1. /\ t \in Seq(Frame) /\ Len(s) \in Nat /\ DOMAIN s = 1..Len(s) /\ DOMAIN t = 1..Len(s) + 1
      /\ \A i \in 1..Len(s) : t[i] = s[i]
      /\ t[Len(s) + 1] = m
  BY AppendProperties, LenProperties
<1> HIDE DEF t
<1>2. ASSUME NEW g, has(t, g) PROVE has(s, g) \/ m = GrantFrame(g)
  <2>1. PICK i \in 1..Len(s) + 1 : t[i] = GrantFrame(g)
    BY <1>1, <1>2 DEF has
  <2>2. i \in 1..Len(s) \/ i = Len(s) + 1
    BY <1>1
  <2> QED
    BY <1>1, <2>1, <2>2 DEF has
<1>3. ASSUME NEW g, NEW h, before(t, g, h)
      PROVE  before(s, g, h) \/ (has(s, g) /\ m = GrantFrame(h))
  <2>1. PICK i \in 1..Len(s) + 1, j \in 1..Len(s) + 1 : i < j /\ t[i] = GrantFrame(g) /\ t[j] = GrantFrame(h)
    BY <1>1, <1>3 DEF before
  <2>2. i \in 1..Len(s) /\ s[i] = GrantFrame(g)
    BY <1>1, <2>1
  <2>3. CASE j = Len(s) + 1
    BY <1>1, <2>1, <2>2, <2>3, ZenonT(30) DEF has
  <2>4. CASE j # Len(s) + 1
    <3>1. j \in 1..Len(s) /\ s[j] = GrantFrame(h)
      BY <1>1, <2>1, <2>4
    <3> QED
      BY <1>1, <2>1, <2>2, <3>1 DEF before
  <2> QED
    BY <2>3, <2>4
<1> QED
  BY <1>1, <1>2, <1>3 DEF t

\* Taking the first frame off loses nothing else.
LEMMA TailFrames ==
  ASSUME NEW s \in Seq(Frame), s # <<>>
  PROVE  /\ Tail(s) \in Seq(Frame) /\ Head(s) \in Frame
         /\ \A g : has(Tail(s), g) => has(s, g)
         /\ \A g, h : before(Tail(s), g, h) => before(s, g, h)
         /\ \A g, h : Head(s) = GrantFrame(g) /\ has(Tail(s), h) => before(s, g, h)
         /\ \A g : Head(s) = GrantFrame(g) => has(s, g)
<1> DEFINE t == Tail(s)
<1>1. /\ t \in Seq(Frame) /\ Head(s) \in Frame /\ Len(s) \in Nat \ {0} /\ Head(s) = s[1]
      /\ DOMAIN s = 1..Len(s) /\ DOMAIN t = 1..Len(s) - 1
      /\ \A i \in 1..Len(s) - 1 : t[i] = s[i + 1]
  BY HeadTailProperties, LenProperties, EmptySeq
<1>2. 1 \in DOMAIN s /\ \A i \in DOMAIN t : i + 1 \in DOMAIN s /\ 1 < i + 1 /\ t[i] = s[i + 1]
  BY <1>1
<1>3. \A i, j \in DOMAIN t : i < j => i + 1 < j + 1
  BY <1>1
<1> HIDE DEF t
<1>4. \A g : has(t, g) => has(s, g)
  BY <1>2 DEF has
<1>5. \A g, h : before(t, g, h) => before(s, g, h)
  BY <1>2, <1>3 DEF before
<1>6. \A g, h : Head(s) = GrantFrame(g) /\ has(t, h) => before(s, g, h)
  BY <1>1, <1>2 DEF before, has
<1>7. \A g : Head(s) = GrantFrame(g) => has(s, g)
  BY <1>1, <1>2, ZenonT(30) DEF has
<1> QED
  BY <1>1, <1>4, <1>5, <1>6, <1>7 DEF t

\* What two sequences hold one after the other.
LEMMA ConcatFrames ==
  ASSUME NEW s \in Seq(Frame), NEW t \in Seq(Frame), NEW g, NEW h
  PROVE  /\ has(s \o t, g) <=> has(s, g) \/ has(t, g)
         /\ before(s \o t, g, h) <=> before(s, g, h) \/ before(t, g, h) \/ (has(s, g) /\ has(t, h))
<1> DEFINE u == s \o t
           n == Len(s)
           k == Len(t)
<1>1. /\ n \in Nat /\ k \in Nat /\ DOMAIN s = 1..n /\ DOMAIN t = 1..k /\ DOMAIN u = 1..n + k
      /\ \A i \in 1..n + k : u[i] = IF i <= n THEN s[i] ELSE t[i - n]
  BY ConcatProperties, LenProperties
<1> HIDE DEF u, n, k
<1>2. /\ \A i \in 1..n : i \in 1..n + k /\ u[i] = s[i]
      /\ \A i \in 1..k : n + i \in 1..n + k /\ u[n + i] = t[i]
  BY <1>1
<1>3. ASSUME NEW i \in 1..n + k PROVE i \in 1..n \/ \E j \in 1..k : i = n + j
  <2>1. CASE i <= n
    BY <1>1, <2>1
  <2>2. CASE ~(i <= n)
    <3>1. i - n \in 1..k /\ i = n + (i - n)
      BY <1>1, <2>2
    <3> QED
      BY <3>1
  <2> QED
    BY <2>1, <2>2
<1>4. has(u, g) <=> has(s, g) \/ has(t, g)
  <2>1. ASSUME has(u, g) PROVE has(s, g) \/ has(t, g)
    <3>1. PICK i \in 1..n + k : u[i] = GrantFrame(g)
      BY <1>1, <2>1, ZenonT(30) DEF has
    <3>2. CASE i \in 1..n
      BY <1>1, <1>2, <3>1, <3>2, ZenonT(30) DEF has
    <3>3. CASE \E j \in 1..k : i = n + j
      <4>1. PICK j \in 1..k : i = n + j
        BY <3>3, ZenonT(30)
      <4>2. t[j] = GrantFrame(g)
        BY <1>2, <3>1, <4>1, ZenonT(30)
      <4> QED
        BY <1>1, <4>2 DEF has
    <3> QED
      BY <1>3, <3>2, <3>3
  <2>2. ASSUME has(s, g) \/ has(t, g) PROVE has(u, g)
    BY <1>1, <1>2, <2>2, ZenonT(30) DEF has
  <2> QED
    BY <2>1, <2>2
<1>5. ASSUME before(u, g, h) PROVE before(s, g, h) \/ before(t, g, h) \/ (has(s, g) /\ has(t, h))
  <2>1. PICK i \in 1..n + k, j \in 1..n + k : i < j /\ u[i] = GrantFrame(g) /\ u[j] = GrantFrame(h)
    BY <1>1, <1>5, ZenonT(30) DEF before
  <2>2. CASE i \in 1..n /\ j \in 1..n
    BY <1>1, <1>2, <2>1, <2>2, SMTT(30) DEF before
  <2>3. CASE i \in 1..n /\ j \notin 1..n
    <3>1. PICK y \in 1..k : j = n + y
      BY <1>3, <2>3, ZenonT(30)
    <3> QED
      BY <1>1, <1>2, <2>1, <2>3, <3>1, ZenonT(30) DEF has
  <2>4. CASE i \notin 1..n
    <3>1. PICK x \in 1..k : i = n + x
      BY <1>3, <2>4, ZenonT(30)
    <3>2. j \notin 1..n
      BY <1>1, <2>1, <2>4
    <3>3. PICK y \in 1..k : j = n + y
      BY <1>3, <3>2, ZenonT(30)
    <3>4. x < y /\ t[x] = GrantFrame(g) /\ t[y] = GrantFrame(h)
      BY <1>1, <1>2, <2>1, <3>1, <3>3, SMTT(30)
    <3> QED
      BY <1>1, <3>4 DEF before
  <2> QED
    BY <2>2, <2>3, <2>4, ZenonT(30)
<1>6. ASSUME before(s, g, h) PROVE before(u, g, h)
  BY <1>1, <1>2, <1>6 DEF before
<1>7. ASSUME before(t, g, h) PROVE before(u, g, h)
  <2>1. PICK i \in 1..k, j \in 1..k : i < j /\ t[i] = GrantFrame(g) /\ t[j] = GrantFrame(h)
    BY <1>1, <1>7, ZenonT(30) DEF before
  <2>2. n + i < n + j
    BY <1>1, <2>1
  <2> QED
    BY <1>1, <1>2, <2>1, <2>2, ZenonT(30) DEF before
<1>8. ASSUME has(s, g), has(t, h) PROVE before(u, g, h)
  <2>1. PICK i \in 1..n : s[i] = GrantFrame(g)
    BY <1>1, <1>8, ZenonT(30) DEF has
  <2>2. PICK j \in 1..k : t[j] = GrantFrame(h)
    BY <1>1, <1>8, ZenonT(30) DEF has
  <2>3. i < n + j
    BY <1>1
  <2> QED
    BY <1>1, <1>2, <2>1, <2>2, <2>3, ZenonT(30) DEF before
<1> QED
  BY <1>4, <1>5, <1>6, <1>7, <1>8 DEF u
-------------------------------------------------------------------------------
(* Broadcasts *)

\* A peer is sent one more frame, or loses some.
Sends(c, m) ==
  \A d \in Conns : \A g, h :
    /\ has(frames_at(d)', g) => has(frames_at(d), g) \/ (d = c /\ m = GrantFrame(g))
    /\ before(frames_at(d)', g, h) => \/ before(frames_at(d), g, h)
                                      \/ d = c /\ has(frames_at(d), g) /\ m = GrantFrame(h)

Loses ==
  \A d \in Conns : \A g, h :
    /\ has(frames_at(d)', g) => has(frames_at(d), g)
    /\ before(frames_at(d)', g, h) => before(frames_at(d), g, h)

\* The states in which a thread has an answer to send.
busy == {"casting", "sending", "replying"}

CastTypes ==
  /\ next_grant_id \in Nat
  /\ seen \in [Conns -> Seq(Frame)] /\ outbox \in [Conns -> Seq(Frame)]
  /\ cast \in [Conns -> Seq(Frame)] /\ DOMAIN answer = Conns

CastAnswers ==
  \A c \in Conns : thread[c] \in busy => answer[c] \in {Hello, Submitted}

CastIssued ==
  \A c \in Conns, g \in Nat : has(cast[c], g) \/ has(frames_at(c), g) => g < next_grant_id

CastOnce ==
  \A t, u \in Conns, g \in Nat : has(cast[t], g) /\ has(cast[u], g) => t = u

CastInOrder ==
  \A t \in Conns, g, h \in Nat : before(cast[t], g, h) => g < h

CastAbsent ==
  \A t, c \in Conns, g \in Nat : has(cast[t], g) /\ has(frames_at(c), g) =>
    thread[t] = "sending" /\ Head(cast[t]) = GrantFrame(g) /\ fd[c] \notin targets[t]

CastLast ==
  \A t, c \in Conns, g, h \in Nat : has(cast[t], g) => ~before(frames_at(c), g, h)

CastAgreed ==
  \A c, d \in Conns, g, h \in Nat : before(frames_at(c), g, h) => ~before(frames_at(d), h, g)

\* The frames that wait to be broadcast are of grants issued, no two of which are the
\* same, and have reached nobody yet; the first of those the thread with the mutex
\* sends has reached the sessions it has been sent to, and no grant has followed it.
CastInv ==
  /\ SessionInv /\ CastTypes /\ CastAnswers /\ CastIssued /\ CastOnce /\ CastInOrder
  /\ CastAbsent /\ CastLast /\ CastAgreed

\* What sent does.
LEMMA SentSends ==
  ASSUME CastInv, NEW c \in Conns, NEW m \in Frame, sent(c, m), UNCHANGED seen
  PROVE  outbox' \in [Conns -> Seq(Frame)] /\ Sends(c, m)
<1>1. CASE peer[c] = "gone"
  <2>1. outbox' = outbox
    BY <1>1, ZenonT(30) DEF sent
  <2> QED
    BY <2>1 DEF CastInv, CastTypes, Sends, frames_at
<1>2. CASE peer[c] # "gone"
  <2>1. outbox' = [outbox EXCEPT ![c] = Append(outbox[c], m)]
    BY <1>2 DEF sent
  <2>2. /\ outbox' \in [Conns -> Seq(Frame)] /\ outbox'[c] = Append(outbox[c], m)
        /\ \A d \in Conns \ {c} : outbox'[d] = outbox[d]
    BY <2>1, AppendFrames DEF CastInv, CastTypes
  <2>3. \A d \in Conns \ {c} : frames_at(d)' = frames_at(d)
    BY <2>2, ZenonT(30) DEF frames_at
  <2>4. frames_at(c)' = seen[c] \o Append(outbox[c], m)
    BY <2>2 DEF frames_at
  <2>5. /\ seen[c] \in Seq(Frame) /\ outbox[c] \in Seq(Frame) /\ Append(outbox[c], m) \in Seq(Frame)
    BY AppendFrames DEF CastInv, CastTypes
  <2>6. ASSUME NEW g, has(frames_at(c)', g) PROVE has(frames_at(c), g) \/ m = GrantFrame(g)
    BY <2>4, <2>5, <2>6, ConcatFrames, AppendFrames, ZenonT(30) DEF frames_at
  <2>7. ASSUME NEW g, NEW h, before(frames_at(c)', g, h)
        PROVE  before(frames_at(c), g, h) \/ (has(frames_at(c), g) /\ m = GrantFrame(h))
    BY <2>4, <2>5, <2>7, ConcatFrames, AppendFrames, ZenonT(30) DEF frames_at
  <2> QED
    BY <2>2, <2>3, <2>6, <2>7 DEF Sends
<1> QED
  BY <1>1, <1>2

\* What a peer does to its end loses frames, or nothing.
LEMMA PeersLose ==
  ASSUME CastInv, NEW c \in Conns, receives(c) \/ exits(c) \/ dies(c)
  PROVE  seen' \in [Conns -> Seq(Frame)] /\ outbox' \in [Conns -> Seq(Frame)] /\ Loses
<1>types. seen[c] \in Seq(Frame) /\ outbox[c] \in Seq(Frame)
  BY DEF CastInv, CastTypes
<1>1. CASE exits(c) \/ dies(c)
  <2>1. seen' = seen /\ outbox' = [outbox EXCEPT ![c] = <<>>]
    BY <1>1 DEF exits, dies, hang_up, reset, peerVars
  <2>2. outbox' \in [Conns -> Seq(Frame)] /\ <<>> \in Seq(Frame)
    BY <2>1, EmptySeq DEF CastInv, CastTypes
  <2>3. /\ \A d \in Conns \ {c} : frames_at(d)' = frames_at(d)
        /\ frames_at(c)' = seen[c] \o <<>>
    BY <2>1 DEF CastInv, CastTypes, frames_at
  <2>4. \A g, h : ~has(<<>>, g) /\ ~before(<<>>, g, h)
    BY DEF has, before
  <2>5. \A g, h : /\ has(frames_at(c)', g) => has(frames_at(c), g)
                  /\ before(frames_at(c)', g, h) => before(frames_at(c), g, h)
    BY <1>types, <2>2, <2>3, <2>4, ConcatFrames, ZenonT(30) DEF frames_at
  <2> QED
    BY <2>1, <2>2, <2>3, <2>5, ZenonT(30) DEF Loses, CastInv, CastTypes
<1>2. CASE receives(c)
  <2> DEFINE m == Head(outbox[c])
  <2>1. /\ outbox[c] # <<>> /\ outbox' = [outbox EXCEPT ![c] = Tail(outbox[c])]
        /\ seen' = seen \/ seen' = [seen EXCEPT ![c] = Append(seen[c], m)]
    BY <1>2, ZenonT(30) DEF receives, peer_recv
  <2>2. m \in Frame /\ Tail(outbox[c]) \in Seq(Frame) /\ Append(seen[c], m) \in Seq(Frame)
    BY <1>types, <2>1, TailFrames, AppendFrames
  <2>3. /\ seen' \in [Conns -> Seq(Frame)] /\ outbox' \in [Conns -> Seq(Frame)]
        /\ outbox'[c] = Tail(outbox[c]) /\ seen'[c] \in {seen[c], Append(seen[c], m)}
        /\ \A d \in Conns \ {c} : seen'[d] = seen[d] /\ outbox'[d] = outbox[d]
    BY <2>1, <2>2, ZenonT(30) DEF CastInv, CastTypes
  <2>4. \A d \in Conns \ {c} : frames_at(d)' = frames_at(d)
    BY <2>3, ZenonT(30) DEF frames_at
  <2>5. ASSUME NEW g, NEW h
        PROVE  /\ has(frames_at(c)', g) => has(frames_at(c), g)
               /\ before(frames_at(c)', g, h) => before(frames_at(c), g, h)
    <3>1. CASE seen'[c] = seen[c]
      BY <1>types, <2>1, <2>2, <2>3, <3>1, ConcatFrames, TailFrames, ZenonT(30) DEF frames_at
    <3>2. CASE seen'[c] = Append(seen[c], m)
      <4>1. /\ has(Append(seen[c], m), g) => has(seen[c], g) \/ m = GrantFrame(g)
            /\ before(Append(seen[c], m), g, h) => before(seen[c], g, h) \/ (has(seen[c], g) /\ m = GrantFrame(h))
        BY <1>types, <2>2, AppendFrames, ZenonT(30)
      <4>2. /\ has(Tail(outbox[c]), g) => has(outbox[c], g)
            /\ has(Tail(outbox[c]), h) => has(outbox[c], h)
            /\ before(Tail(outbox[c]), g, h) => before(outbox[c], g, h)
            /\ m = GrantFrame(g) /\ has(Tail(outbox[c]), h) => before(outbox[c], g, h)
            /\ m = GrantFrame(g) => has(outbox[c], g)
            /\ m = GrantFrame(h) => has(outbox[c], h)
        BY <1>types, <2>1, TailFrames, ZenonT(30)
      <4>3. frames_at(c)' = Append(seen[c], m) \o Tail(outbox[c])
        BY <2>3, <3>2 DEF frames_at
      <4> HIDE DEF m
      <4> QED
        BY <1>types, <2>2, <4>1, <4>2, <4>3, ConcatFrames, ZenonT(30) DEF frames_at
    <3> QED
      BY <2>3, <3>1, <3>2, ZenonT(30)
  <2> QED
    BY <2>3, <2>4, <2>5, ZenonT(30) DEF Loses
<1> QED
  BY <1>1, <1>2

LEMMA NothingSent ==
  ASSUME UNCHANGED <<seen, outbox>>
  PROVE  Loses
  BY DEF Loses, frames_at

\* A step that neither broadcasts nor adds to what will be.
QuietStep ==
  /\ UNCHANGED <<cast, next_grant_id>> /\ Loses
  /\ seen' \in [Conns -> Seq(Frame)] /\ outbox' \in [Conns -> Seq(Frame)] /\ DOMAIN answer' = Conns
  /\ \A d \in Conns : thread'[d] \in busy =>
       answer'[d] \in {Hello, Submitted} \/ (thread[d] \in busy /\ answer'[d] = answer[d])
  /\ \A t \in Conns : thread[t] = "sending" /\ cast[t] # <<>> =>
       thread'[t] = "sending" /\ \A c \in Conns : fd[c] \notin targets[t] => fd'[c] \notin targets'[t]

LEMMA QuietCast ==
  ASSUME CastInv, SessionInv', QuietStep
  PROVE  CastInv'
<1>1. /\ UNCHANGED <<cast, next_grant_id>> /\ Loses
      /\ \A t \in Conns : thread[t] = "sending" /\ cast[t] # <<>> =>
           thread'[t] = "sending" /\ \A c \in Conns : fd[c] \notin targets[t] => fd'[c] \notin targets'[t]
  BY ZenonT(30) DEF QuietStep
<1>2. \A t \in Conns, g \in Nat : has(cast[t], g) => cast[t] # <<>>
  BY DEF has
<1>3. /\ \A c \in Conns, g \in Nat : has(frames_at(c)', g) => has(frames_at(c), g)
      /\ \A c \in Conns, g, h \in Nat : before(frames_at(c)', g, h) => before(frames_at(c), g, h)
  BY <1>1, ZenonT(30) DEF Loses
<1>4. \A c \in Conns : thread'[c] \in busy => answer'[c] \in {Hello, Submitted}
  BY ZenonT(30) DEF QuietStep, CastInv, CastAnswers
<1>5. \A c \in Conns, g \in Nat : has(cast'[c], g) \/ has(frames_at(c)', g) => g < next_grant_id'
  BY <1>1, <1>3 DEF CastInv, CastIssued
<1>6. \A t, c \in Conns, g \in Nat : has(cast'[t], g) /\ has(frames_at(c)', g) =>
        thread'[t] = "sending" /\ Head(cast'[t]) = GrantFrame(g) /\ fd'[c] \notin targets'[t]
  BY <1>1, <1>2, <1>3, ZenonT(30) DEF CastInv, CastAbsent
<1>7. /\ \A t, c \in Conns, g, h \in Nat : has(cast'[t], g) => ~before(frames_at(c)', g, h)
      /\ \A c, d \in Conns, g, h \in Nat : before(frames_at(c)', g, h) => ~before(frames_at(d)', h, g)
  BY <1>1, <1>3, ZenonT(30) DEF CastInv, CastLast, CastAgreed
<1>8. /\ next_grant_id' \in Nat /\ cast' \in [Conns -> Seq(Frame)]
      /\ seen' \in [Conns -> Seq(Frame)] /\ outbox' \in [Conns -> Seq(Frame)] /\ DOMAIN answer' = Conns
      /\ \A t, u \in Conns, g \in Nat : has(cast'[t], g) /\ has(cast'[u], g) => t = u
      /\ \A t \in Conns, g, h \in Nat : before(cast'[t], g, h) => g < h
  BY <1>1 DEF CastInv, CastTypes, CastOnce, CastInOrder, QuietStep
<1> QED
  BY <1>4, <1>5, <1>6, <1>7, <1>8, ZenonT(30)
  DEF CastInv, CastTypes, CastAnswers, CastIssued, CastOnce, CastInOrder, CastAbsent, CastLast, CastAgreed

\* The numbers from n up to k.
LEMMA Numbers ==
  ASSUME NEW n \in Nat, NEW k \in Nat, n <= k
  PROVE  /\ k - n \in Nat
         /\ \A i \in 1..(k - n) : n + i - 1 \in Nat /\ n <= n + i - 1 /\ n + i - 1 < k
<1>1. k - n \in Nat
  OBVIOUS
<1>2. ASSUME NEW i \in 1..(k - n) PROVE n + i - 1 \in Nat /\ n <= n + i - 1 /\ n + i - 1 < k
  <2>1. i \in Int /\ 1 <= i /\ i <= k - n
    BY <1>1
  <2> QED
    BY <2>1
<1> QED
  BY <1>1, <1>2

\* A decision adds frames of the grants it has just issued.
LEMMA QueryCast ==
  ASSUME CastInv, SessionInv', NEW c \in Conns, NEW m, handle_query(c, m)
  PROVE  CastInv'
<1> DEFINE frames == [i \in 1..(next_grant_id' - next_grant_id) |-> GrantFrame(next_grant_id + i - 1)]
<1>1. /\ schedule /\ cast' = [cast EXCEPT ![c] = frames]
      /\ answer' = [answer EXCEPT ![c] = Hello] /\ goes(c, "casting")
      /\ UNCHANGED <<outbox, seen, fd, targets>>
  BY ZenonT(30) DEF handle_query, handle_and_cast, listVars, socketVars, peerVars
<1>2. next_grant_id \in Nat /\ next_grant_id' \in Nat /\ next_grant_id <= next_grant_id'
  <2>1. PICK S \in SUBSET candidates : next_grant_id' = next_grant_id + Cardinality(S)
    BY <1>1, ZenonT(30) DEF schedule, grant_selected
  <2>2. Cardinality(S) \in Nat
    BY CandidatesFinite, FS_Subset, FS_CardinalityType, ZenonT(30)
  <2> QED
    BY <2>1, <2>2 DEF CastInv, CastTypes
<1>3. /\ frames \in Seq(Frame) /\ DOMAIN frames = 1..(next_grant_id' - next_grant_id)
      /\ \A i \in DOMAIN frames : frames[i] = GrantFrame(next_grant_id + i - 1) /\ next_grant_id + i - 1 \in Nat
  <2>1. \A i \in 1..(next_grant_id' - next_grant_id) : next_grant_id + i - 1 \in Nat
    BY <1>2, Numbers
  <2>2. next_grant_id' - next_grant_id \in Nat
    BY <1>2, Numbers, ZenonT(30)
  <2>3. \A i \in 1..(next_grant_id' - next_grant_id) : GrantFrame(next_grant_id + i - 1) \in Frame
    BY <2>1 DEF Frame
  <2>4. frames \in Seq(Frame)
    BY <2>2, <2>3
  <2> QED
    BY <2>1, <2>4
<1> HIDE DEF frames
<1>4. ASSUME NEW g \in Nat, has(frames, g) PROVE next_grant_id <= g /\ g < next_grant_id'
  <2>1. PICK i \in 1..(next_grant_id' - next_grant_id) : GrantFrame(next_grant_id + i - 1) = GrantFrame(g)
    BY <1>3, <1>4 DEF has
  <2>2. g = next_grant_id + i - 1
    BY <2>1, FramesDiffer
  <2> QED
    BY <1>2, <2>2, Numbers, ZenonT(30)
<1>5. ASSUME NEW g \in Nat, NEW h \in Nat, before(frames, g, h) PROVE g < h
  <2>1. PICK i, j \in 1..(next_grant_id' - next_grant_id) :
          /\ i < j /\ GrantFrame(next_grant_id + i - 1) = GrantFrame(g)
          /\ GrantFrame(next_grant_id + j - 1) = GrantFrame(h)
    BY <1>3, <1>5 DEF before
  <2>2. g = next_grant_id + i - 1 /\ h = next_grant_id + j - 1
    BY <2>1, FramesDiffer, ZenonT(30)
  <2> QED
    BY <1>2, <2>1, <2>2
<1>6. /\ cast' \in [Conns -> Seq(Frame)] /\ cast'[c] = frames /\ \A t \in Conns \ {c} : cast'[t] = cast[t]
  BY <1>1, <1>3 DEF CastInv, CastTypes
<1>7. /\ thread'[c] = "casting" /\ \A t \in Conns \ {c} : thread'[t] = thread[t]
      /\ DOMAIN answer' = Conns /\ answer'[c] = Hello /\ \A t \in Conns \ {c} : answer'[t] = answer[t]
  BY <1>1, ZenonT(30) DEF goes, CastInv, CastTypes, SessionInv
<1>8. \A d \in Conns : frames_at(d)' = frames_at(d)
  BY <1>1, ZenonT(30) DEF frames_at
<1>9. \A d \in Conns, g, h \in Nat : /\ has(frames, g) => ~has(frames_at(d), g) /\ ~has(cast[d], g)
                                     /\ has(frames, g) => ~before(frames_at(d), g, h)
  BY <1>2, <1>4, BeforeHas, SMTT(30) DEF CastInv, CastIssued
<1>10. \A d \in Conns : thread'[d] \in busy => answer'[d] \in {Hello, Submitted}
  BY <1>7, ZenonT(30) DEF CastInv, CastAnswers
<1>11. ASSUME NEW d \in Conns, NEW g \in Nat, has(cast'[d], g) \/ has(frames_at(d)', g)
       PROVE  g < next_grant_id'
  <2>1. (d = c /\ has(frames, g)) \/ has(cast[d], g) \/ has(frames_at(d), g)
    BY <1>6, <1>8, <1>11
  <2>2. has(cast[d], g) \/ has(frames_at(d), g) => g < next_grant_id
    BY ZenonT(30) DEF CastInv, CastIssued
  <2> QED
    BY <1>2, <1>4, <2>1, <2>2
<1>12. \A t, u \in Conns, g \in Nat : has(cast'[t], g) /\ has(cast'[u], g) => t = u
  BY <1>6, <1>9 DEF CastInv, CastOnce
<1>13. \A t \in Conns, g, h \in Nat : before(cast'[t], g, h) => g < h
  BY <1>5, <1>6, ZenonT(30) DEF CastInv, CastInOrder
<1>14. ASSUME NEW t \in Conns, NEW d \in Conns, NEW g \in Nat, has(cast'[t], g), has(frames_at(d)', g)
       PROVE  thread'[t] = "sending" /\ Head(cast'[t]) = GrantFrame(g) /\ fd'[d] \notin targets'[t]
  <2>1. has(frames_at(d), g) /\ t # c
    BY <1>6, <1>8, <1>9, <1>14, ZenonT(30)
  <2>2. cast'[t] = cast[t] /\ thread'[t] = thread[t] /\ fd' = fd /\ targets' = targets
    BY <1>1, <1>6, <1>7, <2>1, ZenonT(30)
  <2> QED
    BY <1>14, <2>1, <2>2 DEF CastInv, CastAbsent
<1>15. ASSUME NEW t \in Conns, NEW d \in Conns, NEW g \in Nat, NEW h \in Nat, has(cast'[t], g)
       PROVE  ~before(frames_at(d)', g, h)
  <2>1. CASE t = c
    BY <1>6, <1>8, <1>9, <1>15, <2>1
  <2>2. CASE t # c
    BY <1>6, <1>8, <1>15, <2>2 DEF CastInv, CastLast
  <2> QED
    BY <2>1, <2>2, ZenonT(30)
<1>17. \A d, e \in Conns, g, h \in Nat : before(frames_at(d)', g, h) => ~before(frames_at(e)', h, g)
  BY <1>8 DEF CastInv, CastAgreed
<1>16. seen' \in [Conns -> Seq(Frame)] /\ outbox' \in [Conns -> Seq(Frame)]
  BY <1>1 DEF CastInv, CastTypes
<1> QED
  BY <1>2, <1>6, <1>7, <1>10, <1>11, <1>12, <1>13, <1>14, <1>15, <1>16, <1>17, ZenonT(30)
  DEF CastInv, CastTypes, CastAnswers, CastIssued, CastOnce, CastInOrder, CastAbsent, CastLast, CastAgreed

\* A broadcast sends the first of its frames to a session that has not had it.
LEMMA SendCast ==
  ASSUME CastInv, SessionInv', NEW t \in Conns, send_grant(t), UNCHANGED <<seen, next_grant_id>>
  PROVE  CastInv'
<1>1. PICK f \in targets[t] :
        /\ sent(conn_of(f), Head(cast[t]))
        /\ targets' = [targets EXCEPT ![t] = IF targets[t] \ {f} = {} THEN sessions ELSE targets[t] \ {f}]
        /\ cast' = [cast EXCEPT ![t] = IF targets[t] \ {f} = {} THEN Tail(cast[t]) ELSE cast[t]]
  BY ZenonT(30) DEF send_grant
<1>2. thread[t] = "sending" /\ cast[t] # <<>> /\ UNCHANGED <<fd, thread, answer>>
  BY ZenonT(30) DEF send_grant
<1> DEFINE c == conn_of(f)
           F == Head(cast[t])
<1>3. c \in Conns /\ fd[c] = f
  <2>1. f \in sessions
    BY <1>2, ZenonT(30) DEF CastInv, SessionInv, BroadcastTargetsOpen
  <2>2. PICK d \in serving : fd[d] = f
    BY <2>1, ZenonT(30) DEF CastInv, SessionInv, BroadcastTargetsOpen
  <2>3. d \in Conns /\ is_open(d) /\ fd[d] = f
    BY <2>2, ZenonT(30) DEF serving, is_open
  <2> QED
    BY <2>3 DEF conn_of
<1>4. /\ cast[t] \in Seq(Frame) /\ F \in Frame /\ Tail(cast[t]) \in Seq(Frame)
      /\ \A g : has(Tail(cast[t]), g) => has(cast[t], g)
      /\ \A g, h : before(Tail(cast[t]), g, h) => before(cast[t], g, h)
      /\ \A g, h : F = GrantFrame(g) /\ has(Tail(cast[t]), h) => before(cast[t], g, h)
      /\ \A g : F = GrantFrame(g) => has(cast[t], g)
  BY <1>2, TailFrames, ZenonT(30) DEF CastInv, CastTypes
<1> HIDE DEF c, F
<1>5. outbox' \in [Conns -> Seq(Frame)] /\ Sends(c, F)
  BY <1>1, <1>3, <1>4, SentSends, ZenonT(30) DEF c, F
<1>6. /\ cast' \in [Conns -> Seq(Frame)] /\ cast'[t] \in {cast[t], Tail(cast[t])}
      /\ \A u \in Conns \ {t} : cast'[u] = cast[u] /\ targets'[u] = targets[u]
      /\ cast'[t] = cast[t] => targets'[t] = targets[t] \ {f} \/ cast'[t] = Tail(cast[t])
  BY <1>1, <1>4, ZenonT(30) DEF CastInv, CastTypes, SessionInv
<1>7. ASSUME NEW u \in Conns, NEW g, has(cast'[u], g) PROVE has(cast[u], g)
  BY <1>4, <1>6, <1>7, ZenonT(30)
<1>8. ASSUME NEW u \in Conns, NEW g \in Nat, NEW h \in Nat, before(cast'[u], g, h) PROVE g < h
  <2>1. before(cast[u], g, h)
    BY <1>4, <1>6, <1>8, ZenonT(30)
  <2> QED
    BY <2>1, ZenonT(30) DEF CastInv, CastInOrder
\* No other thread waits to send what has reached somebody.
<1>9. ASSUME NEW u \in Conns, NEW d \in Conns, NEW g \in Nat, has(cast[u], g), has(frames_at(d), g)
      PROVE  u = t /\ F = GrantFrame(g) /\ d # c
  <2>1. thread[u] = "sending" /\ Head(cast[u]) = GrantFrame(g) /\ fd[d] \notin targets[u]
    BY <1>9, ZenonT(30) DEF CastInv, CastAbsent
  <2>2. u = t
    BY <1>2, <2>1, ZenonT(30) DEF CastInv, SessionInv
  <2> QED
    BY <1>3, <2>1, <2>2, ZenonT(30) DEF F
<1>10. \A g \in Nat : F = GrantFrame(g) => ~has(frames_at(c), g)
  BY <1>3, <1>4, <1>9, ZenonT(30)
<1>11. ASSUME NEW g \in Nat, F = GrantFrame(g), cast'[t] = Tail(cast[t]) PROVE ~has(cast'[t], g)
  <2>1. has(cast'[t], g) => before(cast[t], g, g)
    BY <1>4, <1>11, ZenonT(30)
  <2> QED
    <3>1. before(cast[t], g, g) => g < g
      BY ZenonT(30) DEF CastInv, CastInOrder
    <3>2. ~(g < g)
      OBVIOUS
    <3> QED
      BY <2>1, <3>1, <3>2, ZenonT(30)
<1>12. \A d \in Conns, g \in Nat : has(cast'[d], g) \/ has(frames_at(d)', g) => g < next_grant_id'
  BY <1>4, <1>5, <1>7, ZenonT(30) DEF CastInv, CastIssued, Sends
<1>13. \A u, v \in Conns, g \in Nat : has(cast'[u], g) /\ has(cast'[v], g) => u = v
  BY <1>7, ZenonT(30) DEF CastInv, CastOnce
<1>14. ASSUME NEW u \in Conns, NEW d \in Conns, NEW g \in Nat, has(cast'[u], g), has(frames_at(d)', g)
       PROVE  thread'[u] = "sending" /\ Head(cast'[u]) = GrantFrame(g) /\ fd'[d] \notin targets'[u]
  <2>1. has(cast[u], g)
    BY <1>7, <1>14, ZenonT(30)
  <2>2. has(frames_at(d), g) \/ (d = c /\ F = GrantFrame(g))
    BY <1>5, <1>14, ZenonT(30) DEF Sends
  <2>3. u = t /\ F = GrantFrame(g)
    <3>1. CASE has(frames_at(d), g)
      BY <1>9, <2>1, <3>1
    <3>2. CASE d = c /\ F = GrantFrame(g)
      BY <1>4, <2>1, <3>2, ZenonT(30) DEF CastInv, CastOnce
    <3> QED
      BY <2>2, <3>1, <3>2, ZenonT(30)
  <2>4. cast'[t] = cast[t] /\ targets'[t] = targets[t] \ {f}
    BY <1>6, <1>11, <1>14, <2>3, ZenonT(30)
  <2>5. fd[d] \notin targets[t] \ {f}
    <3>1. CASE has(frames_at(d), g)
      BY <2>1, <2>3, <3>1, ZenonT(30) DEF CastInv, CastAbsent
    <3>2. CASE d = c
      BY <1>3, <3>2
    <3> QED
      BY <2>2, <3>1, <3>2, ZenonT(30)
  <2> QED
    BY <1>2, <2>3, <2>4, <2>5, ZenonT(30) DEF F
<1>15. ASSUME NEW u \in Conns, NEW d \in Conns, NEW g \in Nat, NEW h \in Nat, has(cast[u], g)
       PROVE  ~before(frames_at(d)', g, h)
  <2>1. ~before(frames_at(d), g, h)
    BY <1>15, ZenonT(30) DEF CastInv, CastLast
  <2>2. ~(d = c /\ has(frames_at(d), g) /\ F = GrantFrame(h))
    BY <1>9, <1>15, ZenonT(30)
  <2> QED
    BY <1>5, <2>1, <2>2, ZenonT(30) DEF Sends
<1>16. ASSUME NEW d \in Conns, NEW e \in Conns, NEW g \in Nat, NEW h \in Nat,
              before(frames_at(d)', g, h)
       PROVE  ~before(frames_at(e)', h, g)
  <2>1. CASE F = GrantFrame(h) \/ F = GrantFrame(g)
    BY <1>4, <1>15, <1>16, <2>1, ZenonT(30)
  <2>2. CASE F # GrantFrame(h) /\ F # GrantFrame(g)
    <3>1. before(frames_at(d), g, h) /\ (before(frames_at(e)', h, g) => before(frames_at(e), h, g))
      BY <1>5, <1>16, <2>2, ZenonT(30) DEF Sends
    <3> QED
      BY <3>1 DEF CastInv, CastAgreed
  <2> QED
    BY <2>1, <2>2
<1>17. /\ next_grant_id' \in Nat /\ seen' \in [Conns -> Seq(Frame)] /\ DOMAIN answer' = Conns
       /\ \A d \in Conns : thread'[d] \in busy => answer'[d] \in {Hello, Submitted}
  BY <1>2, ZenonT(30) DEF CastInv, CastTypes, CastAnswers
<1> QED
  BY <1>5, <1>6, <1>7, <1>8, <1>12, <1>13, <1>14, <1>15, <1>16, <1>17, ZenonT(30)
  DEF CastInv, CastTypes, CastAnswers, CastIssued, CastOnce, CastInOrder, CastAbsent, CastLast, CastAgreed

\* A frame other than a grant makes no difference.
LEMMA AnswersLose ==
  ASSUME NEW c \in Conns, NEW m \in {Hello, Submitted}, Sends(c, m)
  PROVE  Loses
  BY FramesDiffer DEF Sends, Loses

\* A step that sends nothing and moves at most one thread, which does not broadcast.
LEMMA OneThread ==
  ASSUME CastInv, NEW c \in Conns,
         UNCHANGED <<seen, outbox, cast, next_grant_id, fd, targets>>, DOMAIN answer' = Conns,
         \A d \in Conns \ {c} : thread'[d] = thread[d] /\ answer'[d] = answer[d],
         thread'[c] = thread[c] \/ thread[c] # "sending" \/ cast[c] = <<>>,
         thread'[c] \in busy =>
           answer'[c] \in {Hello, Submitted} \/ (thread[c] \in busy /\ answer'[c] = answer[c])
  PROVE  QuietStep
  BY NothingSent, ZenonT(30) DEF QuietStep, CastInv, CastTypes

\* The scheduler's part of a message other than a query issues nothing.
LEMMA HandlersQuiet ==
  ASSUME CastInv, NEW c \in Conns, handle_message(c), NEW m, m = Head(batch[c]), ~handle_query(c, m)
  PROVE  QuietStep
<1>1. \/ handle_update(c, m) \/ handle_hello(c, m) \/ handle_submit(c, m) \/ handle_complete(c, m)
      \/ handle_fence(c, m) \/ handle_stop(c, m) \/ handle_other(c, m)
  BY ZenonT(30) DEF handle_message
<1>2. UNCHANGED <<seen, next_grant_id>>
  BY <1>1, ZenonT(30)
  DEF handle_update, handle_hello, handle_submit, handle_complete, handle_fence, handle_stop, handle_other,
    applies, publishParticipant, publishPlan, submit, complete, fenceWorkerBoot, otherThanEvidence,
    vars, grantVars, peerVars
<1>3. \/ handle_quietly(c) \/ handle_and_answer(c, Hello) \/ handle_and_answer(c, Submitted)
      \/ handle_shutdown(c)
  BY <1>1, ZenonT(30)
  DEF handle_update, handle_hello, handle_submit, handle_complete, handle_fence, handle_stop, handle_other
<1>4. /\ UNCHANGED <<outbox, cast, fd, targets>> /\ thread[c] = "handling"
      /\ \/ UNCHANGED <<thread, answer>>
         \/ /\ thread' = [thread EXCEPT ![c] = "replying"]
            /\ \E a \in {Hello, Submitted} : answer' = [answer EXCEPT ![c] = a]
  BY <1>3, ZenonT(30) DEF handle_message, handle_quietly, handle_and_answer, handle_shutdown, goes, listVars, socketVars
<1>5. thread \in [Conns -> ThreadState] /\ DOMAIN answer = Conns
  BY ZenonT(30) DEF CastInv, CastTypes, SessionInv
<1>6. CASE UNCHANGED <<thread, answer>>
  BY <1>2, <1>4, <1>5, <1>6, OneThread, ZenonT(30) DEF busy
<1>7. CASE /\ thread' = [thread EXCEPT ![c] = "replying"]
           /\ \E a \in {Hello, Submitted} : answer' = [answer EXCEPT ![c] = a]
  BY <1>2, <1>4, <1>5, <1>7, OneThread, ZenonT(30)
<1> QED
  BY <1>4, <1>6, <1>7

\* Of what the threads do besides, only a broadcast sends grants.
LEMMA ThreadsQuiet ==
  ASSUME CastInv, NEW c \in Conns, thread_step(c), ~send_grant(c)
  PROVE  QuietStep
<1>1. UNCHANGED <<seen, next_grant_id>>
  BY DEF thread_step, vars, grantVars, peerVars
<1>2. thread \in [Conns -> ThreadState] /\ DOMAIN answer = Conns
  BY ZenonT(30) DEF CastInv, CastTypes, SessionInv
<1>3. CASE push_session(c) \/ look(c) \/ recv(c) \/ erase(c) \/ close_fd(c)
  <2>1. UNCHANGED <<outbox, cast, answer, fd, targets>>
    BY <1>3, ZenonT(30) DEF push_session, look, recv, erase, close_fd, listVars, socketVars
  <2>2. thread[c] # "sending"
    BY <1>3, ZenonT(30) DEF push_session, look, recv, erase, close_fd, CastInv, SessionInv
  <2>3. PICK s \in {"handling", "receiving", "erasing", "closing", "done"} : goes(c, s)
    BY <1>3, ZenonT(30) DEF push_session, look, recv, erase, close_fd
  <2>4. thread'[c] \notin busy /\ \A d \in Conns \ {c} : thread'[d] = thread[d]
    BY <1>2, <2>3 DEF goes, busy
  <2> QED
    BY <1>1, <1>2, <2>1, <2>2, <2>4, OneThread, ZenonT(30)
<1>4. CASE unlock(c)
  <2>1. /\ UNCHANGED <<outbox, cast, answer, fd>> /\ thread' = [thread EXCEPT ![c] = "replying"]
        /\ thread[c] = "sending" /\ cast[c] = <<>> /\ targets' = [targets EXCEPT ![c] = {}]
    BY <1>4, ZenonT(30) DEF unlock, goes, socketVars
  <2>2. \A d \in Conns \ {c} : thread'[d] = thread[d] /\ targets'[d] = targets[d]
    BY <1>2, <2>1, ZenonT(30) DEF CastInv, SessionInv
  <2> QED
    BY <1>1, <1>2, <2>1, <2>2, NothingSent, ZenonT(30) DEF QuietStep, CastInv, CastTypes, busy
<1>5. CASE lock(c)
  <2>1. /\ UNCHANGED <<outbox, cast, answer, fd>> /\ thread' = [thread EXCEPT ![c] = "sending"]
        /\ thread[c] = "casting" /\ targets' = [targets EXCEPT ![c] = sessions]
    BY <1>5, ZenonT(30) DEF lock, goes, socketVars
  <2>2. \A d \in Conns \ {c} : thread'[d] = thread[d] /\ targets'[d] = targets[d]
    BY <1>2, <2>1 DEF CastInv, SessionInv
  <2> QED
    BY <1>1, <1>2, <2>1, <2>2, NothingSent, ZenonT(30) DEF QuietStep, CastInv, CastTypes, busy
<1>6. CASE send_reply(c)
  <2>1. /\ UNCHANGED <<cast, fd, targets>> /\ thread' = [thread EXCEPT ![c] = "handling"]
        /\ thread[c] = "replying" /\ sent(c, answer[c]) /\ answer' = [answer EXCEPT ![c] = Nobody]
    BY <1>6 DEF send_reply, goes, listVars
  <2>2. answer[c] \in {Hello, Submitted}
    BY <2>1, ZenonT(30) DEF CastInv, CastAnswers, busy
  <2>3. outbox' \in [Conns -> Seq(Frame)] /\ Loses
    BY <1>1, <2>1, <2>2, SentSends, AnswersLose, ZenonT(30) DEF Frame
  <2>4. /\ thread'[c] = "handling" /\ DOMAIN answer' = Conns
        /\ \A d \in Conns \ {c} : thread'[d] = thread[d] /\ answer'[d] = answer[d]
    BY <1>2, <2>1
  <2> QED
    BY <1>1, <2>1, <2>3, <2>4, ZenonT(30) DEF QuietStep, CastInv, CastTypes, busy
<1> QED
  BY <1>3, <1>4, <1>5, <1>6, ZenonT(30) DEF thread_step

\* A new connection is given a descriptor that nothing is being sent to.
LEMMA AcceptQuiet ==
  ASSUME CastInv, NEW c \in Conns, accepts(c)
  PROVE  QuietStep
<1>1. PICK f \in Fds : (\A d \in Conns : is_open(d) => fd[d] # f) /\ fd' = [fd EXCEPT ![c] = f]
  BY ZenonT(30) DEF accepts, accept_connection, is_free
<1>2. /\ UNCHANGED <<seen, outbox, cast, next_grant_id, answer, targets>>
      /\ thread[c] = "none" /\ thread' = [thread EXCEPT ![c] = "accepted"]
  BY SMTT(30) DEF accepts, accept_connection, is_waiting, goes, vars, grantVars, socketVars, peerVars
<1>3. \A d \in Conns \ {c} : thread'[d] = thread[d] /\ fd'[d] = fd[d]
  BY <1>1, <1>2, ZenonT(30) DEF CastInv, SessionInv
<1>4. \A t \in Conns : thread[t] = "sending" => f \notin targets[t]
  <2>1. f \notin sessions
    BY <1>1, ZenonT(30) DEF CastInv, SessionInv, BroadcastTargetsOpen, serving, is_open
  <2> QED
    BY <2>1, ZenonT(30) DEF CastInv, SessionInv, BroadcastTargetsOpen
<1>5. fd'[c] = f /\ thread'[c] = "accepted"
  BY <1>1, <1>2 DEF CastInv, SessionInv
<1> QED
  BY <1>2, <1>3, <1>4, <1>5, NothingSent, ZenonT(30) DEF QuietStep, CastInv, CastTypes, busy

LEMMA CastInductive ==
  /\ CInit => CastInv
  /\ CastInv /\ [CNext]_coordinatorVars => CastInv'
<1>1. ASSUME CInit PROVE CastInv
  <2>1. /\ next_grant_id = 1 /\ <<>> \in Seq(Frame)
        /\ \A c \in Conns : seen[c] = <<>> /\ outbox[c] = <<>> /\ cast[c] = <<>> /\ thread[c] = "none"
        /\ seen = [c \in Conns |-> <<>>] /\ outbox = [c \in Conns |-> <<>>] /\ cast = [c \in Conns |-> <<>>]
        /\ DOMAIN answer = Conns
    BY <1>1, EmptySeq DEF CInit, Init, SInit
  <2>2. \A g, h : ~has(<<>>, g) /\ ~before(<<>>, g, h)
    BY DEF has, before
  <2>3. \A c \in Conns : frames_at(c) = <<>> \o <<>>
    BY <2>1, ZenonT(30) DEF frames_at
  <2>4. \A c \in Conns : \A g, h : ~has(frames_at(c), g) /\ ~before(frames_at(c), g, h)
    BY <2>1, <2>2, <2>3, ConcatFrames
  <2> QED
    BY <1>1, <2>1, <2>2, <2>4, SessionInductive, ZenonT(30)
    DEF CastInv, CastTypes, CastAnswers, CastIssued, CastOnce, CastInOrder, CastAbsent, CastLast,
      CastAgreed, busy
<1>2. ASSUME CastInv, [CNext]_coordinatorVars PROVE CastInv'
  <2>1. SessionInv'
    BY <1>2, SessionInductive, ZenonT(30) DEF CastInv
  <2>2. ASSUME NEW c \in Conns, handle_message(c) PROVE CastInv'
    BY <1>2, <2>1, <2>2, HandlersQuiet, QueryCast, QuietCast
  <2>3. ASSUME NEW c \in Conns, thread_step(c) PROVE CastInv'
    <3>1. UNCHANGED <<seen, next_grant_id>>
      BY <2>3 DEF thread_step, vars, grantVars, peerVars
    <3> QED
      BY <1>2, <2>1, <2>3, <3>1, ThreadsQuiet, SendCast, QuietCast, ZenonT(30)
  <2>4. ASSUME NEW c \in Conns, receives(c) \/ exits(c) \/ dies(c) PROVE CastInv'
    <3>1. UNCHANGED <<cast, next_grant_id, thread, answer, fd, targets>>
      BY <2>4, ZenonT(30) DEF receives, exits, dies, peer_recv, hang_up, reset, vars, grantVars, listVars
    <3>2. QuietStep
      BY <1>2, <2>4, <3>1, PeersLose, ZenonT(30) DEF QuietStep, CastInv, CastTypes
    <3> QED
      BY <1>2, <2>1, <3>2, QuietCast
  <2>5. CASE main_step \/ (\E c \in Conns : sends(c) \/ connects(c)) \/ UNCHANGED coordinatorVars
    <3>1. UNCHANGED <<seen, outbox, cast, next_grant_id, thread, answer, fd, targets>>
      BY <2>5, ZenonT(30) DEF main_step, accept_failure, accept_again, join, sends, connects, peer_send, connect,
        coordinatorVars, sessionVars, vars, grantVars, listVars, socketVars, peerVars
    <3>2. QuietStep
      BY <1>2, <3>1, NothingSent, ZenonT(30) DEF QuietStep, CastInv, CastTypes
    <3> QED
      BY <1>2, <2>1, <3>2, QuietCast
  <2>6. ASSUME NEW c \in Conns, accepts(c) PROVE CastInv'
    BY <1>2, <2>1, <2>6, AcceptQuiet, QuietCast
  <2> QED
    BY <1>2, <2>2, <2>3, <2>4, <2>5, <2>6, ZenonT(30) DEF CNext
<1> QED
  BY <1>1, <1>2

\* All peers see the grants they receive in one order, and each grant once.
THEOREM BroadcastsAreOrdered == CSpec => []BroadcastsAgree
<1>1. GrantIds \subseteq Nat
  BY BoundsAssumption DEF GrantIds
<1>2. CastInv => BroadcastsAgree
  BY <1>1 DEF CastInv, CastAgreed, BroadcastsAgree
<1> QED
  BY <1>2, CastInductive, PTL DEF CSpec
===============================================================================
