------------------------------- MODULE Relay --------------------------------
(***************************************************************************)
(* Messages on a relay session (kovanica-node/src/relay.rs): how encode_msg *)
(* and send lay them out on a connection, and how recv and decode_msg read *)
(* them back.                                                              *)
(*                                                                         *)
(* A connection is a sequence of cells.  A cell is one field of fixed size *)
(* (a hash, a header, a number, a flag, a block record) or one character,  *)
(* so that sizes and limits count cells.  A count written as a u16 wraps   *)
(* at W16; wider ones do not wrap.  An option is a sequence of the fields  *)
(* of its value, <<>> for None; an item of a list is one of its fields.    *)
(***************************************************************************)
EXTENDS Naturals, SequencesExt

CONSTANTS W16,              \* 2^16
          MAX_FRAME, MAX_HEADERS, MAX_LOCATOR_IDS, MAX_MERKLE_PATH

TAG_HELLO == 0
TAG_BLOCK == 1
TAG_TX == 2
TAG_HEADERS == 17
TAG_GETHEADERS == 18
TAG_GETBLOCKS == 19
TAG_GET_MERKLE_PROOF == 21
TAG_MERKLEBLOCK == 22
TAG_DHT_PING == 32
TAG_DHT_PONG == 33
TAG_DHT_FIND_NODE == 34
TAG_DHT_NODES == 35

\* A message is its tag and its fields.
Message(tag, fields) == [tag |-> tag, fields |-> fields]

(***************************************************************************)
(* The layout of a message is a sequence of groups: plain fields, an       *)
(* option of some fields, or a counted list of items.  A plain field is a  *)
(* cell, a name, a list of cells or an encoded transaction.                *)
(***************************************************************************)
Plain(kinds) == [how |-> "plain", kinds |-> kinds]
Option(kinds) == [how |-> "option", kinds |-> kinds]
Items(kinds) == [how |-> "items", kinds |-> kinds]

-----------------------------------------------------------------------------
(* Writing. *)

Counted16(s) == <<Len(s) % W16>>
Counted(s) == <<Len(s)>>

write_field(kind, v) ==
  CASE kind = "cell" -> <<v>>
    [] kind = "name" -> Counted16(v) \o v
    [] kind \in {"headers", "locator", "path"} -> Counted(v) \o v
    [] kind = "tx" -> Counted(<<1, v>>) \o <<1, v>>  \* a payload of one transaction

write_fields(kinds, vs) == FlattenSeq([i \in DOMAIN kinds |-> write_field(kinds[i], vs[i])])

\* A group takes one field of the message, a plain one as many as it has kinds.
Width(group) == IF group.how = "plain" THEN Len(group.kinds) ELSE 1

write_group(group, vs) ==
  CASE group.how = "plain" -> write_fields(group.kinds, vs)
    [] group.how = "option" ->
         IF vs[1] = <<>> THEN <<0>> ELSE <<1>> \o write_fields(group.kinds, vs[1])
    [] group.how = "items" ->
         Counted16(vs[1])
           \o FlattenSeq([i \in DOMAIN vs[1] |-> write_fields(group.kinds, vs[1][i])])

\* The layout encode_msg gives a message.
Written(tag) ==
  CASE tag = TAG_HELLO -> <<Plain(<<"name">>), Items(<<"name">>)>>
    [] tag = TAG_BLOCK -> <<Plain(<<"cell">>)>>
    [] tag = TAG_TX -> <<Plain(<<"tx">>)>>
    [] tag = TAG_HEADERS -> <<Plain(<<"headers">>)>>
    [] tag = TAG_GETHEADERS -> <<Plain(<<"locator">>), Option(<<"cell">>), Plain(<<"cell">>)>>
    [] tag = TAG_GETBLOCKS -> <<Plain(<<"locator">>), Option(<<"cell">>)>>
    [] tag = TAG_GET_MERKLE_PROOF -> <<Plain(<<"cell", "cell">>)>>
    [] tag = TAG_MERKLEBLOCK ->
         <<Plain(<<"cell", "cell", "cell">>),
           Option(<<"cell", "cell", "path", "cell", "cell">>), Option(<<"tx">>)>>
    [] tag \in {TAG_DHT_PING, TAG_DHT_PONG} -> <<Plain(<<"cell", "cell">>)>>
    [] tag = TAG_DHT_FIND_NODE -> <<Plain(<<"cell", "cell", "cell">>)>>
    [] tag = TAG_DHT_NODES ->
         <<Plain(<<"cell", "cell", "cell">>), Items(<<"cell", "name", "cell", "cell">>)>>

encode_msg(m) ==
  LET layout == Written(m.tag)
      after  == FoldLeft(LAMBDA a, g : [cells |-> a.cells \o write_group(g, a.vs),
                                        vs |-> SubSeq(a.vs, Width(g) + 1, Len(a.vs))],
                         [cells |-> <<m.tag>>, vs |-> m.fields], layout)
  IN  after.cells

\* RelaySession::send.
Frame(m) == LET cells == encode_msg(m) IN Counted(cells) \o cells

-----------------------------------------------------------------------------
(* Reading: a cursor over cells, with the fields it has read so far. *)

Cursor(cells) == [ok |-> TRUE, rest |-> cells, got |-> <<>>]

Stuck(r) == [r EXCEPT !.ok = FALSE]

\* A field of the next n cells.
Read(r, n, value) ==
  [r EXCEPT !.rest = SubSeq(@, n + 1, Len(@)), !.got = Append(@, value)]

Limit(kind) ==
  CASE kind = "headers" -> MAX_HEADERS
    [] kind = "locator" -> MAX_LOCATOR_IDS
    [] kind = "path" -> MAX_MERKLE_PATH
    [] OTHER -> MAX_FRAME

\* read_array, read_str, read_count with what it counts, and the payload of a
\* transaction, which must hold exactly one.
read_field(r, kind) ==
  LET n    == Head(r.rest)
      list == SubSeq(r.rest, 2, n + 1)
  IN  IF ~r.ok \/ r.rest = <<>> THEN Stuck(r)
      ELSE IF kind = "cell" THEN Read(r, 1, n)
      ELSE IF n >= Len(r.rest) \/ n > Limit(kind) THEN Stuck(r)
      ELSE IF kind # "tx" THEN Read(r, n + 1, list)
      ELSE IF n = 2 /\ list[1] = 1 THEN Read(r, n + 1, list[2])
      ELSE Stuck(r)

read_fields(r, kinds) == FoldLeft(read_field, r, kinds)

\* The fields as one.
read_group(r, kinds) ==
  LET inner == read_fields([r EXCEPT !.got = <<>>], kinds)
  IN  [inner EXCEPT !.got = Append(r.got, @)]

read_option(r, kinds) ==
  LET flag == Head(r.rest)
  IN  IF ~r.ok \/ r.rest = <<>> THEN Stuck(r)
      ELSE IF flag = 0 THEN Read(r, 1, <<>>)
      ELSE IF flag = 1 THEN read_group([r EXCEPT !.rest = Tail(@)], kinds)
      ELSE Stuck(r)

read_items(r, kinds) ==
  LET n     == Head(r.rest)
      items == FoldLeft(LAMBDA a, i : read_group(a, kinds),
                        [r EXCEPT !.rest = Tail(@), !.got = <<>>], [i \in 1 .. n |-> i])
  IN  IF ~r.ok \/ r.rest = <<>> THEN Stuck(r)
      ELSE [items EXCEPT !.got = Append(r.got, @)]

read_next(r, group) ==
  CASE group.how = "plain" -> read_fields(r, group.kinds)
    [] group.how = "option" -> read_option(r, group.kinds)
    [] group.how = "items" -> read_items(r, group.kinds)

\* The layout decode_msg expects.
Expected(tag) ==
  CASE tag = TAG_HELLO -> <<Plain(<<"name">>), Items(<<"name">>)>>
    [] tag = TAG_BLOCK -> <<Plain(<<"cell">>)>>
    [] tag = TAG_TX -> <<Plain(<<"tx">>)>>
    [] tag = TAG_GETHEADERS -> <<Plain(<<"locator">>), Option(<<"cell">>), Plain(<<"cell">>)>>
    [] tag = TAG_HEADERS -> <<Plain(<<"headers">>)>>
    [] tag = TAG_GETBLOCKS -> <<Plain(<<"locator">>), Option(<<"cell">>)>>
    [] tag = TAG_GET_MERKLE_PROOF -> <<Plain(<<"cell", "cell">>)>>
    [] tag = TAG_MERKLEBLOCK ->
         <<Plain(<<"cell", "cell", "cell">>),
           Option(<<"cell", "cell", "path", "cell", "cell">>), Option(<<"tx">>)>>
    [] tag \in {TAG_DHT_PING, TAG_DHT_PONG} -> <<Plain(<<"cell", "cell">>)>>
    [] tag = TAG_DHT_FIND_NODE -> <<Plain(<<"cell", "cell", "cell">>)>>
    [] tag = TAG_DHT_NODES ->
         <<Plain(<<"cell", "cell", "cell">>), Items(<<"cell", "name", "cell", "cell">>)>>

Tags == {TAG_HELLO, TAG_BLOCK, TAG_TX, TAG_HEADERS, TAG_GETHEADERS, TAG_GETBLOCKS,
         TAG_GET_MERKLE_PROOF, TAG_MERKLEBLOCK, TAG_DHT_PING, TAG_DHT_PONG,
         TAG_DHT_FIND_NODE, TAG_DHT_NODES}

\* Pings, pongs and find_node only ask for enough bytes.
Lenient == {TAG_DHT_PING, TAG_DHT_PONG, TAG_DHT_FIND_NODE}

Refused == [refused |-> TRUE]

\* Mutant of Whole: bytes left over are ignored in every message.
Enough(tag, r) == r.ok

\* Nothing cut short, over a limit or, with most tags, left over.
Whole(tag, r) == r.ok /\ (r.rest = <<>> \/ tag \in Lenient)

decode_msg(cells) ==
  LET tag == Head(cells)
      r   == FoldLeft(read_next, Cursor(Tail(cells)), Expected(tag))
  IN  IF cells = <<>> \/ tag \notin Tags \/ ~Whole(tag, r) THEN Refused
      ELSE Message(tag, r.got)

(***************************************************************************)
(* RelaySession::recv once a whole frame has arrived: the message and what *)
(* is left to read.  A frame above the limit is refused before its payload *)
(* is read.                                                                *)
(***************************************************************************)
recv(cells) ==
  LET n == Head(cells)
  IN  IF n > MAX_FRAME THEN [msg |-> Refused, rest |-> Tail(cells)]
      ELSE [msg  |-> decode_msg(SubSeq(cells, 2, n + 1)),
            rest |-> SubSeq(cells, n + 2, Len(cells))]

\* What the other side makes of a message.
Carried(m) == recv(Frame(m)).msg

-----------------------------------------------------------------------------
\* What the format can carry: the lists of a message within their limits.
Carriable(m) ==
  LET f == m.fields
  IN  /\ Len(encode_msg(m)) <= MAX_FRAME
      /\ m.tag = TAG_HELLO => Len(f[2]) < W16
      /\ m.tag = TAG_DHT_NODES => Len(f[4]) < W16
      /\ m.tag = TAG_HEADERS => Len(f[1]) <= MAX_HEADERS
      /\ m.tag \in {TAG_GETHEADERS, TAG_GETBLOCKS} => Len(f[1]) <= MAX_LOCATOR_IDS
      /\ m.tag = TAG_MERKLEBLOCK /\ f[4] # <<>> => Len(f[4][3]) <= MAX_MERKLE_PATH

=============================================================================
