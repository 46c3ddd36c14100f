-------------------------------- MODULE Codec --------------------------------
(***************************************************************************)
(* The binary codec: PersistenceWriter and PersistenceReader                *)
(* (persistence.cpp) and the writer and reader of every message type         *)
(* (serialize.cpp).                                                          *)
(*                                                                           *)
(* A primitive is one cell <<width, tag, value>>; a cell is read back only   *)
(* with the width it was written with.  A layout is the sequence of fields a *)
(* function writes or reads, in its order: the writing and the reading        *)
(* layouts are transcribed separately, each from its own function.           *)
(***************************************************************************)
EXTENDS Naturals, Sequences, SequencesExt, FiniteSets

num(width, n) == <<width, "num", n>>
sym(width, x) == <<width, "sym", x>>

\* Items of a layout: a run of scalars of one width; a counted vector of tuples
\* of scalars; a counted vector of strings; an optional 64-bit value.  id, u64
\* and f64 are 64 bits wide, u32 and i32 are 32, enumerations and flags are bytes.
item(kind, names, widths) == <<[kind |-> kind, names |-> names, widths |-> widths]>>
u64s(names) == item("run", names, [i \in DOMAIN names |-> 8])
u32s(names) == item("run", names, [i \in DOMAIN names |-> 4])
u8s(names) == item("run", names, [i \in DOMAIN names |-> 1])
vec(name, widths) == item("vec", <<name>>, widths)
ids(names) == FlattenSeq([i \in DOMAIN names |-> vec(names[i], <<8>>)])
strs(name) == item("strs", <<name>>, <<1>>)
opt(name) == item("opt", <<name>>, <<8>>)
-------------------------------------------------------------------------------
(* PersistenceWriter *)

\* The cells of one item of a body, a function from field names to values.
put(f, body) ==
  LET v == body[f.names[1]] IN
  CASE f.kind = "run" -> [i \in DOMAIN f.names |-> sym(f.widths[i], body[f.names[i]])]
    [] f.kind = "vec" ->
         <<num(8, Len(v))>> \o
         FlattenSeq([i \in DOMAIN v |-> [j \in DOMAIN f.widths |-> sym(f.widths[j], v[i][j])]])
    [] f.kind = "strs" ->
         <<num(8, Len(v))>> \o
         FlattenSeq([i \in DOMAIN v |-> <<num(8, Len(v[i]))>> \o
                                        [j \in DOMAIN v[i] |-> sym(1, v[i][j])]])
    [] f.kind = "opt" ->
         IF v = <<>> THEN <<num(1, 0)>> ELSE <<num(1, 1), sym(8, v[1])>>

write(layout, body) == FlattenSeq([i \in DOMAIN layout |-> put(layout[i], body)])
-------------------------------------------------------------------------------
(* PersistenceReader.  What a reader has read is the sequence of <<field,       *)
(* value>> pairs; an exception ends it with MALFORMED.                        *)

MALFORMED == <<"malformed", <<>>>>

\* The cells after position at are there, with the widths that are asked for.
need(cells, at, widths) ==
  /\ at + Len(widths) <= Len(cells)
  /\ \A i \in DOMAIN widths : cells[at + i][1] = widths[i]

value(cells, at) == cells[at][3]

\* The cells one item takes at position at (its scalars, or its count and its
\* elements); 0 when a need() on the way fails.
span(cells, at, f) ==
  LET n == value(cells, at + 1)
      \* a string is its size and its bytes; the strings follow each other
      string[i \in 1..n, p \in 0..Len(cells)] ==
        IF ~need(cells, p, <<8>>) \/ ~need(cells, p + 1, [j \in 1..value(cells, p + 1) |-> 1])
        THEN 0
        ELSE IF i = n THEN p + 1 + value(cells, p + 1) - at
        ELSE string[i + 1, p + 1 + value(cells, p + 1)]
      whole(widths) == IF need(cells, at, widths) THEN Len(widths) ELSE 0
  IN  CASE f.kind = "run" -> whole(f.widths)
        [] f.kind = "opt" ->
             IF ~need(cells, at, <<1>>) THEN 0
             ELSE whole(IF n = 0 THEN <<1>> ELSE <<1>> \o f.widths)
        [] f.kind = "vec" ->
             IF ~need(cells, at, <<8>>) THEN 0
             ELSE whole(<<8>> \o FlattenSeq([i \in 1..n |-> f.widths]))
        [] f.kind = "strs" ->
             IF ~need(cells, at, <<8>>) THEN 0
             ELSE IF n = 0 THEN 1 ELSE string[1, at + 1]

\* The fields of one item, from the cells it spans.
fields(c, f) ==
  LET k == Len(f.widths)
      tail == SubSeq(c, 2, Len(c))
      starts == {p \in DOMAIN tail : tail[p][2] = "num"}
      start(i) == CHOOSE p \in starts : Cardinality({q \in starts : q < p}) = i - 1
  IN  CASE f.kind = "run" -> [i \in 1..k |-> <<f.names[i], c[i][3]>>]
        [] f.kind = "opt" -> <<<<f.names[1], [i \in DOMAIN tail |-> tail[i][3]]>>>>
        [] f.kind = "vec" ->
             <<<<f.names[1], [i \in 1..c[1][3] |-> [j \in 1..k |-> tail[(i - 1) * k + j][3]]]>>>>
        [] f.kind = "strs" ->
             <<<<f.names[1], [i \in 1..c[1][3] |->
                               [j \in 1..tail[start(i)][3] |-> tail[start(i) + j][3]]]>>>>

\* Reads the items of layout and expects the end of the buffer.
read(layout, cells) ==
  LET from[i \in 1..(Len(layout) + 1), at \in 0..Len(cells)] ==
        IF i > Len(layout) THEN IF at = Len(cells) THEN <<>> ELSE <<MALFORMED>>
        ELSE IF span(cells, at, layout[i]) = 0 THEN <<MALFORMED>>
        ELSE fields(SubSeq(cells, at + 1, at + span(cells, at, layout[i])), layout[i])
             \o from[i + 1, at + span(cells, at, layout[i])]
  IN  from[1, 0]
===============================================================================
