------------------------------- MODULE Framing --------------------------------
(***************************************************************************)
(* One TCP connection: frames encoded by encode_frame, written by send_all    *)
(* from one or two threads that hold no common lock (the coordinator's        *)
(* broadcast of grants and the replies of the session that owns the          *)
(* connection), cut into chunks by the network, reassembled by decode_frames  *)
(* and handled.                                                              *)
(*                                                                           *)
(* Bounds: send() accepts the cells of one frame in at most two pieces; a run  *)
(* of at most LongRun cells is cut anywhere, a longer one within its header,  *)
(* after it, before its last cell or not at all; the connection carries one   *)
(* script of messages.                                                       *)
(***************************************************************************)
EXTENDS Messages

CONSTANTS
  Scripts,      \* each: a function from writers to the messages they send
  LongRun,      \* longest run of cells that is cut at every place
  MaxPayload    \* CS_MAX_PROTOCOL_PAYLOAD, in cells

VARIABLES
  script,       \* what each writer sends on this connection
  sent,         \* how many of its frames each writer has begun
  rest,         \* the cells of its current frame each writer has still to send
  wire,         \* cells accepted by send() and not yet received
  buffer,       \* the receiver's buf
  handled,      \* the messages handled, in order
  open,         \* the receive loop is running
  torn          \* a frame was begun inside another

vars == <<script, sent, rest, wire, buffer, handled, open, torn>>

Writers == DOMAIN script
-------------------------------------------------------------------------------
\* Every value of the enumeration is a known type.
MsgType ==
  {"HELLO", "REGISTER", "PUBLISH_PARTICIPANT", "PUBLISH_READINESS", "SUBMIT_COLLECTIVE",
   "UPDATE_DEPENDENCY", "UPDATE_PRIORITY", "UPDATE_PLAN", "UPDATE_RESERVATION",
   "UPDATE_CONGESTION", "UPDATE_CAPACITY", "QUERY_SCHEDULE", "GRANT", "EXECUTION_ACCEPTED",
   "START", "PROGRESS", "COMPLETE", "FAIL", "CANCEL", "SUPERSEDE", "FENCE_WORKER",
   "REVALIDATE", "SAVE", "SHUTDOWN", "ERROR"}

\* Mutation: every type is known.
is_known_anyway(cell) == cell[2] = "type"

is_known_message_type(cell) == cell[2] = "type" /\ cell[3] \in MsgType

MAGIC == <<4, "magic", 0>>
VERSION(v) == <<2, "version", v>>
HeaderSize == 5
ChecksumSize == 1

\* The hash of a byte string is the string: FNV-1a is taken to have no collisions.
fnv1a64(cells) == <<8, "hash", cells>>

typeOf(m) == IF m.kind = "SUMMARY" THEN "HELLO" ELSE m.kind

encode_frame(m) ==
  LET payload == IF m.kind \in DOMAIN written THEN write(written[m.kind], m.body) ELSE <<>>
      head == <<MAGIC, VERSION(m.version), <<2, "type", typeOf(m)>>, <<8, "seq", m.seq>>,
                <<4, "num", Len(payload)>>>>
  IN  head \o payload \o <<fnv1a64(head \o payload)>>
-------------------------------------------------------------------------------
\* Mutation of frame_at: the header alone is taken for a frame that must be there.
frame_at_impatient(b, off) ==
  IF Len(b) - off < HeaderSize THEN "more"
  ELSE IF \/ b[off + 1] # MAGIC
          \/ b[off + 2] # VERSION(1)
          \/ ~is_known_message_type(b[off + 3])
          \/ b[off + 5][2] # "num" \/ b[off + 5][3] > MaxPayload
          \/ Len(b) - off < HeaderSize + b[off + 5][3] + ChecksumSize
    THEN "bad" ELSE "frame"

\* One turn of decode_frames at offset off of b: go on with a whole frame
\* ("frame"), wait for more bytes ("more") or give the connection up ("bad").
\* A cell that is not a number reads, in the place of the length, as a length
\* beyond the maximum.
frame_at(b, off) ==
  IF Len(b) - off < HeaderSize THEN "more"
  ELSE IF \/ b[off + 1] # MAGIC
          \/ b[off + 2] # VERSION(1)
          \/ ~is_known_message_type(b[off + 3])
          \/ b[off + 5][2] # "num" \/ b[off + 5][3] > MaxPayload
    THEN "bad"
  ELSE LET plen == b[off + 5][3] IN
    IF Len(b) - off < HeaderSize + plen + ChecksumSize THEN "more"
    ELSE IF b[off + HeaderSize + plen + 1] # fnv1a64(SubSeq(b, off + 1, off + HeaderSize + plen))
      THEN "bad"
    ELSE "frame"

\* The frame lengths decode_frames steps over from the start of b, and what
\* stopped it.
offsets(b) ==
  LET FrameLen(off) == HeaderSize + b[off + 5][3] + ChecksumSize
      from[off \in 0..Len(b)] ==
        IF frame_at(b, off) = "frame"
        THEN <<off>> \o from[off + FrameLen(off)]
        ELSE <<off>>
  IN  from[0]

message_at(b, off) ==
  [type |-> b[off + 3][3], seq |-> b[off + 4][3],
   payload |-> SubSeq(b, off + HeaderSize + 1, off + HeaderSize + b[off + 5][3])]

\* Mutation: the frames decoded are not dropped from the buffer.
decode_frames_again(b) ==
  LET at == offsets(b)
  IN  [ok |-> frame_at(b, at[Len(at)]) # "bad",
       out |-> [i \in 1..Len(at) - 1 |-> message_at(b, at[i])],
       left |-> b]

\* Everything up to the first frame that is not whole is decoded and dropped
\* from the buffer.
decode_frames(b) ==
  LET at == offsets(b)
      last == at[Len(at)]
  IN  [ok |-> frame_at(b, last) # "bad",
       out |-> [i \in 1..Len(at) - 1 |-> message_at(b, at[i])],
       left |-> SubSeq(b, last + 1, Len(b))]

\* A message with what the reader of its type takes from its payload.
parsed(m) ==
  [type |-> m.type, seq |-> m.seq,
   body |-> IF m.type \in DOMAIN reads THEN read(reads[m.type], m.payload) ELSE <<>>]

\* The reader throws.
is_malformed(h) == MALFORMED \in Range(h.body)

\* GRANT is read by the worker, where nothing catches the exception.
is_fatal(h) == h.type = "GRANT" /\ is_malformed(h)

\* The messages of one read go through the switch of handle_message, where an
\* exception is swallowed, up to one that ends the receiver.
handle(msgs) ==
  LET k == SelectInSeq(msgs, is_fatal)
  IN  SelectSeq(IF k = 0 THEN msgs ELSE SubSeq(msgs, 1, k - 1), LAMBDA h : ~is_malformed(h))
-------------------------------------------------------------------------------
\* The lengths of a first piece of n cells.
pieces(n) == IF n <= LongRun THEN 1..n ELSE {2, HeaderSize, n - 1, n}

Init ==
  /\ script \in Scripts
  /\ sent = [w \in Writers |-> 0]
  /\ rest = [w \in Writers |-> <<>>]
  /\ wire = <<>> /\ buffer = <<>> /\ handled = <<>>
  /\ open = TRUE
  /\ torn = FALSE

\* send_frame by writer w: the frame is encoded and a first send() takes some of it.
send_frame(w) ==
  /\ open /\ rest[w] = <<>> /\ sent[w] < Len(script[w])
  /\ \E frame \in {encode_frame(script[w][sent[w] + 1])} :
     \E n \in pieces(Len(frame)) :
       /\ wire' = wire \o SubSeq(frame, 1, n)
       /\ rest' = [rest EXCEPT ![w] = SubSeq(frame, n + 1, Len(frame))]
  /\ sent' = [sent EXCEPT ![w] = @ + 1]
  /\ torn' = (torn \/ \E v \in Writers \ {w} : rest[v] # <<>>)
  /\ UNCHANGED <<script, buffer, handled, open>>

\* The loop of send_all goes round once more.
send_all(w) ==
  /\ open /\ rest[w] # <<>>
  /\ wire' = wire \o rest[w]
  /\ rest' = [rest EXCEPT ![w] = <<>>]
  /\ UNCHANGED <<script, sent, buffer, handled, open, torn>>

\* One recv of the session loop: any prefix of what is in flight, then
\* decode_frames, then the messages; the loop ends at a malformed frame, and the
\* messages decoded before it in the same call are dropped.
recv ==
  /\ open
  /\ \E n \in pieces(Len(wire)) :
     \E d \in {decode_frames(buffer \o SubSeq(wire, 1, n))} :
     \E msgs \in {[i \in DOMAIN d.out |-> parsed(d.out[i])]} :
       /\ wire' = SubSeq(wire, n + 1, Len(wire))
       /\ open' = (d.ok /\ \A i \in DOMAIN msgs : ~is_fatal(msgs[i]))
       /\ IF d.ok
          THEN buffer' = d.left /\ handled' = handled \o handle(msgs)
          ELSE buffer' = <<>> /\ UNCHANGED handled
  /\ UNCHANGED <<script, sent, rest, torn>>

Next ==
  \/ \E w \in Writers : send_frame(w)
  \/ \E w \in Writers : send_all(w)
  \/ recv

\* The writers keep sending and the network keeps delivering what it accepted.
Spec ==
  /\ Init /\ [][Next]_vars
  /\ WF_vars(\E w \in Writers : send_frame(w))
  /\ WF_vars(\E w \in Writers : send_all(w))
  /\ WF_vars(recv)
-------------------------------------------------------------------------------
By(w) == SelectSeq(handled, LAMBDA h : h.seq[1] = w)

\* The messages handled are, writer by writer, the first ones it sent, in order
\* and each once, however the frames were cut into chunks and even when two
\* writers tore each other's frames apart (decode_frames, protocol.cpp).
HandledInOrder ==
  \A w \in Writers :
    /\ Len(By(w)) <= Len(script[w])
    /\ \A i \in DOMAIN By(w) :
         By(w)[i].type = typeOf(script[w][i]) /\ By(w)[i].seq = script[w][i].seq

\* Every handler that reads its payload sees every field its sender wrote, under
\* its own name and with its own value: each deserialize_* reads the items of
\* its serialize_* in the same order with the same widths (serialize.cpp).
FieldsSurvive ==
  \A w \in Writers : \A i \in DOMAIN By(w) :
    LET h == By(w)[i]
        m == script[w][i]
    IN  h.type \in DOMAIN reads =>
          /\ Len(h.body) = Cardinality(DOMAIN m.body)
          /\ \A j \in DOMAIN h.body : h.body[j][2] = m.body[h.body[j][1]]

\* The frames of a script that this build's receiver accepts.
Acceptable == \A w \in Writers : \A i \in DOMAIN script[w] :
  script[w][i].version = 1 /\ typeOf(script[w][i]) \in MsgType

\* Whatever the chunks, every message of a connection is handled, as long as no
\* two writers tear a frame and every frame is of a known version and type; the
\* receive loop never waits for bytes that are already there and never gives up
\* on a frame it has only a part of (the loop of session, coordinator.cpp).
EverythingHandled ==
  <>(torn \/ ~Acceptable \/ \A w \in Writers : Len(By(w)) = Len(script[w]))

\* A frame of another version or of an unknown type ends the connection, and
\* with it every later message (decode_frames returns false).
UnacceptableCloses == (~Acceptable) ~> (~open)
===============================================================================
