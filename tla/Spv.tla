-------------------------------- MODULE Spv ---------------------------------
(***************************************************************************)
(* What a full node serves to light clients and how they check it: SPV     *)
(* headers, Merkle proofs and block filters (kovanica-state/src/spv.rs),   *)
(* the node's exports (kovanica-node/src/node.rs) and the client's side of *)
(* a header exchange (kovanica-node/src/spv.rs).                           *)
(*                                                                         *)
(* Abstractions.  A block id stands for its header, which never changes;   *)
(* its fields are read off the DAG.  A hash is the term it is computed from *)
(* (collision free): a leaf is <<tx>>, a node of the Merkle tree a pair.   *)
(* Proof of work is not required (SpvClient::new(_, false, _)).  Integers  *)
(* do not overflow.                                                        *)
(***************************************************************************)
EXTENDS Difficulty, Relay

CONSTANTS TxsOf,         \* block id -> the transactions of its payload
          PaidTo,        \* transaction -> the address hashes it pays
          HashBits,      \* an address hash is below 2^HashBits (64)
          FILTER_K,      \* Golomb-Rice parameter
          LocatorDense,  \* ids a locator lists before it doubles the step (10)
          MaxCount       \* headers asked for, and served, in one exchange (2000)

-----------------------------------------------------------------------------
\* merkle_root_from_leaves: levels of pairs, an odd last element with itself.
Pairs(level) ==
  [i \in 1 .. (Len(level) + 1) \div 2 |->
     <<level[2 * i - 1], level[Min({2 * i, Len(level)})]>>]

\* The levels of the tree over a payload, leaves first, up to the root.
Levels(txs) ==
  LET level[n \in Nat] == IF n = 0 THEN [i \in DOMAIN txs |-> <<txs[i]>>]
                          ELSE Pairs(level[n - 1])
      height == CHOOSE n \in 0 .. Len(txs) :
                  2 ^ n >= Len(txs) /\ \A m \in 0 .. n - 1 : 2 ^ m < Len(txs)
  IN  [n \in 0 .. height |-> level[n]]

EmptyRoot == <<>>

Root(levels) == levels[Max(DOMAIN levels)][1]

merkle_root(txs) == IF txs = <<>> THEN EmptyRoot ELSE Root(Levels(txs))

\* Mutant of Sibling: an odd last element has itself only on the lowest level.
SiblingOrLeft(level, i) == level[IF i % 2 = 0 /\ i + 1 < Len(level) THEN i + 2
                                 ELSE Max({1, i})]

\* What generate_merkle_proof puts in the path for the i-th element, from 0.
Sibling(level, i) == level[IF i % 2 = 1 THEN i ELSE Min({i + 2, Len(level)})]

generate_merkle_proof(txs, index) ==
  LET levels == Levels(txs)
  IN  [tx    |-> txs[index],
       root  |-> Root(levels),
       path  |-> [n \in 1 .. Max(DOMAIN levels) |->
                    Sibling(levels[n - 1], (index - 1) \div 2 ^ (n - 1))],
       index |-> index - 1]

\* MerkleProof::verify.
VerifiesProof(p) ==
  p.root = FoldLeftDomain(LAMBDA h, n :
                            IF (p.index \div 2 ^ (n - 1)) % 2 = 0
                            THEN <<h, p.path[n]>> ELSE <<p.path[n], h>>,
                          <<p.tx>>, p.path)

-----------------------------------------------------------------------------
\* An address hash, scaled to the range of a filter of n elements.
MapHash(h, n) == (h * n * 2 ^ FILTER_K) \div 2 ^ HashBits

\* golomb_rice_encode: unary quotient, terminator, FILTER_K bits of remainder.
golomb_rice_encode(v) ==
  [i \in 1 .. v \div 2 ^ FILTER_K |-> 1] \o <<0>> \o
  [i \in 1 .. FILTER_K |-> (v \div 2 ^ (FILTER_K - i)) % 2]

\* The values golomb_rice_decode finds from bit i on; it stops where a value is
\* cut off.
DecodeFrom(bits, i) ==
  LET stops == {j \in i .. Len(bits) : bits[j] = 0}
      z     == Min(stops)
      r     == FoldLeft(LAMBDA acc, b : 2 * acc + b, 0,
                        SubSeq(bits, z + 1, z + FILTER_K))
  IN  IF stops = {} \/ z + FILTER_K > Len(bits) THEN [next |-> 0, value |-> 0]
      ELSE [next |-> z + FILTER_K + 1, value |-> (z - i) * 2 ^ FILTER_K + r]

\* The i-th code value: the distance to the hash before it.
Distance(sorted, i) == IF i = 1 THEN sorted[1] ELSE sorted[i] - sorted[i - 1]

\* BlockFilter::from_addresses: the distances of the sorted hashes, as bits
\* padded to whole bytes.
from_addresses(hashes) ==
  LET n      == Max({Len(hashes), 1})
      sorted == SortSeq([i \in DOMAIN hashes |-> MapHash(hashes[i], n)], <)
      bits   == FlattenSeq([i \in DOMAIN sorted |-> golomb_rice_encode(Distance(sorted, i))])
  IN  [n |-> n, bits |-> bits \o [i \in 1 .. (8 - (Len(bits) % 8)) % 8 |-> 0]]

\* BlockFilter::contains: decode until the target is met or passed.
contains(f, h) ==
  LET target == MapHash(h, f.n)
      scan[i \in 1 .. Len(f.bits) + 1, prev \in Nat] ==
        LET d == DecodeFrom(f.bits, i)
        IN  /\ d.next # 0
            /\ \/ prev + d.value = target
               \/ prev + d.value < target /\ scan[d.next, prev + d.value]
  IN  scan[1, 0]

\* Node::block_filter: one entry per distinct address the payload pays.
block_filter(id) ==
  from_addresses(FoldSet(LAMBDA a, s : Append(s, a), <<>>,
                         UNION {PaidTo[t] : t \in ToSet(TxsOf[id])}))

-----------------------------------------------------------------------------
\* Node::spv_header of block b: its fields prev_hash, work and chain_blue_work
\* are those of the node d.node[b], its merkle_root is merkle_root(TxsOf[b]),
\* its height is the length of the selected chain below b.  A pruned block has
\* no header, since its payload does not decode.
spv_height(d, b) == Len(ChainTo(d, b)) - 1

\* The headers of ids that can be built: a pruned block is skipped.
Served(ids, pruned) == SelectSeq(ids, LAMBDA b : b \notin pruned)

\* Node::headers_from: the selected chain after the first locator id on it, up
\* to stop, at most limit blocks.
headers_from(d, pruned, locator, stop, limit) ==
  LET chain == selected_chain(d)
      PosOf(b) == IF b \in ToSet(chain) THEN IndexFirstSubSeq(<<b>>, chain) ELSE 0
      match == SelectInSeq(locator, LAMBDA b : b \in ToSet(chain))
      rest  == SubSeq(chain, 1 + (IF match = 0 THEN 0 ELSE PosOf(locator[match])), Len(chain))
      end   == IF stop \in ToSet(rest) THEN SelectInSeq(rest, LAMBDA b : b = stop)
               ELSE Len(rest)
  IN  Served(SubSeq(rest, 1, Min({end, limit})), pruned)

-----------------------------------------------------------------------------
\* SpvClient: its verified headers by height (the checkpoint is genesis), as
\* block ids, and its tip.
NewClient(checkpoint) == [headers |-> [h \in {0} |-> checkpoint], tip |-> checkpoint]

\* The last WINDOW + 1 headers add_header collects for the difficulty check.
StoredWindow(c, ts, d, height) ==
  LET low == Max({0, height - WINDOW})
  IN  [i \in 1 .. height - low + 1 |->
         [ts |-> ts[c.headers[low + i - 1]], work |-> d.node[c.headers[low + i - 1]].work]]

\* BlockHeader::verify_difficulty, given the stored headers before it.
verify_difficulty(w, prev) ==
  IF Len(prev) < WINDOW + 1 THEN w >= MIN_WORK ELSE w = next_work(prev)

\* What add_header asks of the header of b on top of the one of t.
Links(d, ts, t, b) ==
  /\ spv_height(d, b) = spv_height(d, t) + 1
  /\ d.node[b].sp = t
  /\ ts[b] >= ts[t]
  /\ d.node[b].blue_work > d.node[t].blue_work

\* SpvClient::add_header with the DAG's retarget policy.
Accepts(c, d, ts, b) ==
  /\ Links(d, ts, c.tip, b)
  /\ verify_difficulty(d.node[b].work, StoredWindow(c, ts, d, Max(DOMAIN c.headers)))

add_header(c, d, b) ==
  [tip     |-> b,
   headers |-> c.headers @@ (spv_height(d, b) :> b)]

\* sync_headers_via_relay: add headers up to the first one refused.
AddHeaders(c, d, ts, ids) ==
  LET after[i \in 0 .. Len(ids)] ==
        IF i = 0 THEN [client |-> c, failed |-> FALSE]
        ELSE LET prev == after[i - 1]
             IN  IF prev.failed \/ ~Accepts(prev.client, d, ts, ids[i])
                 THEN [prev EXCEPT !.failed = TRUE]
                 ELSE [prev EXCEPT !.client = add_header(@, d, ids[i])]
  IN  after[Len(ids)]

\* Mutant of build_locator: genesis first.
OldestFirst(c) == [i \in 1 .. Cardinality(DOMAIN c.headers) |-> c.headers[i - 1]]

\* build_locator: down from the tip, LocatorDense ids one by one, then with
\* doubling steps, and genesis.
build_locator(c) ==
  LET walk[h \in Nat, n \in Nat, step \in Nat] ==
        LET wider == IF n + 1 >= LocatorDense THEN 2 * step ELSE step
        IN  IF h \notin DOMAIN c.headers THEN <<>>
            ELSE IF h = 0 THEN <<c.headers[0]>>
            ELSE <<c.headers[h]>> \o walk[Max({0, h - wider}), n + 1, wider]
  IN  walk[Max(DOMAIN c.headers), 0, 1]

-----------------------------------------------------------------------------
\* Node::merkle_proof: the transaction's position is looked up in the payload.
merkle_proof(b, t) ==
  generate_merkle_proof(TxsOf[b], SelectInSeq(TxsOf[b], LAMBDA x : x = t))

\* Node::merkle_block: the answer about transaction t in block b, which the node
\* has with its payload: block, root, tx_count, proof and matched_tx.
merkle_block(b, t) ==
  LET txs == TxsOf[b]
      p   == merkle_proof(b, t)
  IN  Message(TAG_MERKLEBLOCK,
              <<b, merkle_root(txs), Len(txs)>> \o
              IF t \in ToSet(txs) THEN <<<<p.tx, p.root, p.path, p.index, Len(txs)>>, <<t>>>>
              ELSE <<<<>>, <<>>>>)

\* verify_merkle_block
verify_merkle_block(c, mb) ==
  LET block == mb.fields[1] root == mb.fields[2] proof == mb.fields[4] matched == mb.fields[5]
  IN  /\ proof # <<>> /\ matched # <<>>
      /\ matched[1] = proof[1]
      /\ proof[2] = root
      /\ VerifiesProof([tx |-> proof[1], root |-> root, path |-> proof[3], index |-> proof[4]])
      /\ \E h \in DOMAIN c.headers : c.headers[h] = block /\ merkle_root(TxsOf[block]) = root

\* handle_relay_query: the answer, if there is one.  The DHT's queries are in
\* module Discovery.
handle_relay_query(d, pruned, m) ==
  LET f == m.fields
      Headers(stop, count) ==
        Message(TAG_HEADERS,
                <<headers_from(d, pruned, f[1], IF stop = <<>> THEN NoBlock ELSE stop[1],
                               IF count = 0 THEN MaxCount ELSE count)>>)
  IN  CASE m.tag = TAG_GETHEADERS -> Headers(f[2], f[3])
        [] m.tag = TAG_GETBLOCKS -> Headers(f[2], 0)
        [] m.tag = TAG_GET_MERKLE_PROOF /\ f[1] \in Nodes(d) \ pruned -> merkle_block(f[1], f[2])
        [] OTHER -> Refused

\* The answer to a query, over the framing of a session.
Exchanged(d, pruned, query) ==
  LET Answer(asked) == IF asked = Refused THEN Refused ELSE handle_relay_query(d, pruned, asked)
      Received(answer) == IF answer = Refused THEN Refused ELSE Carried(answer)
  IN  Received(Answer(Carried(query)))

\* request_merkle_block: the answer if there is one and it is about block b.
request_merkle_block(d, pruned, b, t) ==
  {mb \in {Exchanged(d, pruned, Message(TAG_GET_MERKLE_PROOF, <<b, t>>))} :
     mb # Refused /\ mb.fields[1] = b}

VerifiesMerkleBlock(c, d, pruned, b, t) ==
  \E mb \in request_merkle_block(d, pruned, b, t) : verify_merkle_block(c, mb)

-----------------------------------------------------------------------------
\* encode_light_sync of the phone library (kovanica-ffi/src/light_node.rs): the
\* headers strictly after block `from', all of them when it is not among them.
AfterFrom(headers, from) ==
  SubSeq(headers, 1 + SelectInSeq(headers, LAMBDA b : b = from), Len(headers))

encode_light_sync(d, pruned, from) == AfterFrom(Served(selected_chain(d), pruned), from)

\* Mutant of receive_light_sync: a blob of the whole chain replaces the headers
\* kept, so that an incremental one asked for before it hangs in the air.
FullReplaces(light, d, ts, blob) ==
  IF \A i \in 2 .. Len(blob) : Links(d, ts, blob[i - 1], blob[i])
  THEN ToSet(blob) \cup IF Genesis \in ToSet(blob) THEN {} ELSE light
  ELSE light

\* receive_light_sync: the headers kept after a blob.  An empty blob panics (it
\* has no first header); a header that does not link refuses the whole blob.
\* The first header is a checkpoint, it is linked to nothing.
receive_light_sync(light, d, ts, blob) ==
  IF \A i \in 2 .. Len(blob) : Links(d, ts, blob[i - 1], blob[i])
  THEN light \cup ToSet(blob) ELSE light

=============================================================================
