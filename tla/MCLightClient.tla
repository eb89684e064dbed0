--------------------------- MODULE MCLightClient ----------------------------
(***************************************************************************)
(* LightClient for TLC.  Block b has b + 1 transactions, its coinbase and  *)
(* others that blocks may share; the addresses they pay include equal and  *)
(* neighbouring filter entries.                                            *)
(***************************************************************************)
EXTENDS LightClient

McTxsOf == [b \in Id |-> [i \in 1 .. b + 1 |-> IF i = 1 THEN 10 + b ELSE i]]

McGapOf == [b \in Id |-> IF b % 2 = 0 THEN 3 ELSE 1]

McPaidTo == [t \in 2 .. 15 |-> {(5 * t) % 16, (t * t) % 16, 15}]

\* Messages with lists below, at and above their limits and the width of their
\* count; the last one is longer than a frame may be.
Upto(n) == [i \in 1 .. n |-> i]
McMessages ==
  <<Message(TAG_BLOCK, <<7>>), Message(TAG_TX, <<5>>),
    Message(TAG_GET_MERKLE_PROOF, <<3, 12>>),
    Message(TAG_DHT_PING, <<1, 2>>), Message(TAG_DHT_PONG, <<1, 2>>),
    Message(TAG_DHT_FIND_NODE, <<1, 2, 0>>)>>
  \o [n \in 1 .. 3 |->
        Message(TAG_HELLO, <<Upto(n - 1), [i \in 1 .. n + 1 |-> <<Upto(i % 2)>>]>>)]
  \o [n \in 1 .. 2 |-> Message(TAG_HEADERS, <<Upto(n + 2)>>)]
  \o [n \in 1 .. 2 |->
        Message(TAG_GETHEADERS, <<Upto(n + 4), IF n = 2 THEN <<9>> ELSE <<>>, 2>>)]
  \o [n \in 1 .. 2 |->
        Message(TAG_GETBLOCKS, <<Upto(n + 4), IF n = 2 THEN <<>> ELSE <<9>>>>)]
  \o [n \in 1 .. 2 |->
        Message(TAG_MERKLEBLOCK, <<3, 8, 4, <<>>, IF n = 1 THEN <<>> ELSE <<5>>>>)]
  \o [n \in 1 .. 2 |->
        Message(TAG_MERKLEBLOCK, <<3, 8, 4, <<5, 8, Upto(n + 2), 0, 4>>, <<5>>>>)]
  \o [n \in 1 .. 4 |->
        Message(TAG_DHT_NODES, <<1, 2, 3, [i \in 1 .. n |-> <<i, <<>>, 4, 0>>]>>)]
  \o [n \in 1 .. 2 |->
        Message(TAG_DHT_NODES, <<1, 2, 3, [i \in 1 .. 3 |-> <<i, Upto(n), 4, 0>>]>>)]

=============================================================================
