-------------------------------- MODULE MCWire --------------------------------
(* Scripts for Framing: every message type alone, with empty and with filled   *)
(* vectors, with and without the optional field; sequences on one connection;  *)
(* pairs of writers; a peer of another version.                                *)
EXTENDS Framing

\* The value of a field names the field, so that no two fields are alike.
FieldValue(f, name, n) ==
  CASE f.kind = "run" -> <<name, 0, 0>>
    [] f.kind = "vec" -> [i \in 1..n |-> [j \in DOMAIN f.widths |-> <<name, i, j>>]]
    [] f.kind = "strs" -> [i \in 1..n |-> [j \in 1..(i - 1) |-> <<name, i, j>>]]
    [] f.kind = "opt" -> IF n = 0 THEN <<>> ELSE <<<<name, 1, 1>>>>

Body(kind, n) ==
  LET layout == IF kind \in DOMAIN written THEN written[kind] ELSE <<>>
      items == Range(layout)
      names == UNION {Range(f.names) : f \in items}
  IN  [name \in names |->
         FieldValue(CHOOSE f \in items : name \in Range(f.names), name, n)]

Message(w, i, kind, n) ==
  [kind |-> kind, version |-> 1, seq |-> <<w, i>>, body |-> Body(kind, n)]

\* The messages of the given kinds, sent by w.
From(w, kinds) == [i \in DOMAIN kinds |-> Message(w, i, kinds[i], 0)]

\* A message of version 2 between two of version 1.
OtherVersion(w) ==
  [From(w, <<"HELLO", "SAVE", "SHUTDOWN">>) EXCEPT ![2].version = 2]

MCScripts ==
  {<<<<Message(1, 1, kind, n)>>>> : kind \in DOMAIN written, n \in {0, 2}}
  \cup {<<From(1, <<"HELLO", "REGISTER", "PUBLISH_PARTICIPANT">>)>>,
        <<From(1, <<"REVALIDATE", "FENCE_WORKER", "SHUTDOWN">>)>>,
        <<OtherVersion(1)>>,
        <<From(1, <<"HELLO", "UNKNOWN", "HELLO">>)>>,
        <<From(1, <<"SUMMARY">>), From(2, <<"GRANT">>)>>,
        <<From(1, <<"ERROR", "SUMMARY">>), From(2, <<"SHUTDOWN">>)>>}
===============================================================================
