------------------------------ MODULE SyncWire ------------------------------
(***************************************************************************)
(* The messages of the TCP synchronisation of                              *)
(* crates/kovanica-node/src/net.rs and what each side computes from them.  *)
(* A message is its tag and its items; a block stands for its record.  A   *)
(* message cut short never decodes: frames carry their length and the      *)
(* counts inside are checked against it, so a reader sees an Io error.     *)
(***************************************************************************)
EXTENDS Naturals, SequencesExt

CONSTANTS Block,              \* blocks other than genesis; the ids are ordered
          Parents,            \* Block -> its parents other than genesis
          Staked,             \* the blocks that carry VRF fields
          MAX_INVENTORY_IDS, MAX_HEADERS, MAX_GETBODIES, MAX_BODIES

Message(tag, items) == [tag |-> tag, items |-> items]

\* A frame of this tag with at most `max' items.
Decodes(f, tag, max) == f.tag = tag /\ Len(f.items) <= max

-----------------------------------------------------------------------------
\* The past of a block, and an order of S that puts parents first: linearize is
\* one, and nothing here depends on which.
RECURSIVE PastOf(_)
PastOf(b) == Parents[b] \cup UNION {PastOf(p) : p \in Parents[b]}

Earlier(x, y) ==
  LET nx == Cardinality(PastOf(x)) ny == Cardinality(PastOf(y))
  IN  nx < ny \/ (nx = ny /\ x < y)
Linearized(S) == SetToSortSeq(S, Earlier)

\* The ids in their own order.
ById(S) == SetToSortSeq(S, <)

-----------------------------------------------------------------------------
encode_inventory(S) == Message("inventory", ById(S))
decode_inventory(f) == Decodes(f, "inventory", MAX_INVENTORY_IDS)
\* Mutant: the limit itself is refused.
DecodesBelowLimit(f) == f.tag = "getheaders" /\ Len(f.items) < MAX_GETBODIES
encode_getheaders(ids) == Message("getheaders", ids)
decode_getheaders(f) == Decodes(f, "getheaders", MAX_GETBODIES)
encode_headers(hs) == Message("headers", hs)
decode_headers(f) == Decodes(f, "headers", MAX_HEADERS)
encode_getbodies(ids) == Message("getbodies", ids)
decode_getbodies(f) == Decodes(f, "getbodies", MAX_GETBODIES)
encode_bodies(bs) == Message("bodies", bs)
decode_bodies(f) == Decodes(f, "bodies", MAX_BODIES)

\* The full dump has neither frame nor tag: whoever reads it as a frame gets a
\* frame that is too short and has no tag, and whoever reads a frame as a dump
\* gets an absurd count.
encode_records(bs) == Message("dump", bs)
decode_records(f) == f.tag = "dump"

\* verify_header_body: the block is rebuilt from the record without its VRF
\* fields and must have the id of the header; a staked block has another id.
verify_header_body(b) == b \notin Staked

-----------------------------------------------------------------------------
\* The headers the server sends: those asked for, in its topological order.
HeadersFor(have, want) == Linearized(have \cap ToSet(want))

\* The bodies: those it has, in the order asked for.
BodiesFor(have, want) == SelectSeq(want, LAMBDA b : b \in have)

\* Mutant of topo_sort_headers: the headers in the order of their ids.
SortedById(hs) == {ById(ToSet(hs))}

(***************************************************************************)
(* topo_sort_headers: the orders Kahn's algorithm may give, taking from a  *)
(* stack.  The children of a block are pushed in the order of a hash map.  *)
(***************************************************************************)
Orders(S) == {s \in [1 .. Cardinality(S) -> S] : ToSet(s) = S}

RECURSIVE Kahn(_, _, _)
Kahn(ids, ready, out) ==
  IF ready = <<>> THEN {out}
  ELSE LET id    == Last(ready)
           done  == Append(out, id)
           freed == {k \in ids : /\ id \in Parents[k]
                                 /\ Parents[k] \cap ids \subseteq ToSet(done)}
       IN  UNION {Kahn(ids, Front(ready) \o kids, done) : kids \in Orders(freed)}

topo_sort_headers(hs) ==
  LET ids == ToSet(hs)
  IN  Kahn(ids, ById({b \in ids : Parents[b] \cap ids = {}}), <<>>)

FirstChunk(s) == SubSeq(s, 1, Min({Len(s), MAX_BODIES}))
AfterChunk(s) == SubSeq(s, Min({Len(s), MAX_BODIES}) + 1, Len(s))

-----------------------------------------------------------------------------
\* receive_block on a node that has the blocks S and refuses those in `early'
\* as dated too far ahead of its clock.
Receivable(S, early, b) == b \in S \/ (b \notin early /\ Parents[b] \subseteq S)

\* The bodies of a chunk received one by one: what the node has then, and the
\* ones counted as errors.
RECURSIVE ReceiveBodies(_, _, _, _)
ReceiveBodies(S, errors, early, bs) ==
  IF bs = <<>> THEN [have |-> S, errors |-> errors]
  ELSE LET b  == Head(bs)
           ok == verify_header_body(b) /\ Receivable(S, early, b)
       IN  ReceiveBodies(IF ok THEN S \cup {b} ELSE S,
                         IF ok THEN errors ELSE errors \cup {b}, early, Tail(bs))

\* apply_decoded: the records of a dump up to the first that is refused.
RECURSIVE apply_decoded(_, _, _)
apply_decoded(S, early, bs) ==
  IF bs = <<>> THEN [have |-> S, ok |-> TRUE]
  ELSE IF Receivable(S, early, Head(bs))
       THEN apply_decoded(S \cup {Head(bs)}, early, Tail(bs))
       ELSE [have |-> S, ok |-> FALSE]

=============================================================================
