---------------------------- MODULE LightClient -----------------------------
(***************************************************************************)
(* Light clients of a full node whose DAG grows and reorganises: an SPV    *)
(* client that asks for headers over a relay session (build_locator,       *)
(* headers_from, add_header) and a phone that receives light-sync blobs    *)
(* (export_light_sync[_from], receive_light_sync).  Blobs are carried over *)
(* any transport: several are under way at once, and each arrives early or *)
(* late, behind younger ones, again, or never.                             *)
(*                                                                         *)
(* The node enforces difficulty, so a block's work follows from its        *)
(* parents, and it may prune payloads.  A header exchange is one step: the *)
(* client waits for the answer and the server computes it in one call.     *)
(* The two clients share nothing; a behaviour has one of them.             *)
(***************************************************************************)
EXTENDS Spv

CONSTANTS Id,             \* block ids
          GapOf,          \* block id -> ms from its latest parent to the block
          GenesisWork,
          MaxParents,     \* bound: parents of one block
          MaxBlobs,       \* bound: light-sync blobs under way at a time
          PayloadDepths,  \* payload_pruning_depth; NoPruning keeps all
          Messages        \* a sequence of what else is sent over a relay session

VARIABLES dag, ts,        \* the server's DAG and its block timestamps
          pruned, depth,  \* blocks without payload, payload_pruning_depth
          spv,            \* the SpvClient, or NoClient
          phone,          \* LightSyncState.headers, by block id
          blobs           \* the light-sync blobs under way; one that has arrived
                          \* stays, since it may arrive again

vars == <<dag, ts, pruned, depth, spv, phone, blobs>>

NoClient == [headers |-> <<>>, tip |-> NoBlock]

Init ==
  /\ dag = NewDag(GenesisWork) /\ ts = [b \in {Genesis} |-> 0]
  /\ pruned = {} /\ depth \in PayloadDepths
  /\ spv \in {NewClient(Genesis), NoClient}
  /\ phone = {} /\ blobs = {}

-----------------------------------------------------------------------------
\* prune_old_payloads, at the end of every insert.
PrunedAfter(d) ==
  IF depth = NoPruning THEN pruned
  ELSE pruned \cup {b \in Nodes(d) \ {Genesis} :
                      d.node[b].blue_score < d.node[selected_tip(d)].blue_score - depth}

\* The server mines or receives a block; it passes check_difficulty.
Insert(id, ps, t) ==
  /\ Admissible(dag, id, ps, NoPruning)
  /\ \A a, b \in ps : ~is_ancestor(dag, a, b)
  /\ LET w == work_target_with(dag, ts, ps)
     IN  /\ check_difficulty(dag, ts, ps, t, w)
         /\ dag' = insert(dag, id, ps, w, NoPruning)
  /\ ts' = ts @@ (id :> t)
  /\ pruned' = PrunedAfter(dag')
  /\ UNCHANGED <<depth, spv, phone, blobs>>

\* The message by which the client asks for headers, up to stop.
GetHeaders(stop) ==
  Message(TAG_GETHEADERS,
          <<build_locator(spv), IF stop = NoBlock THEN <<>> ELSE <<stop>>, MaxCount>>)

\* sync_headers_via_relay.
SyncHeaders(stop) ==
  /\ spv # NoClient
  /\ \E answer \in {Exchanged(dag, pruned, GetHeaders(stop))} :
       spv' = IF answer = Refused THEN spv
              ELSE AddHeaders(spv, dag, ts, answer.fields[1]).client
  /\ UNCHANGED <<dag, ts, pruned, depth, phone, blobs>>

\* export_light_sync (from = NoBlock) or export_light_sync_from.  A phone asks
\* for what is after its synced_tip_id; the request may come late, so `from' is
\* any header it keeps, not only its tip of now.
ExportLightSync(from) ==
  /\ spv = NoClient
  /\ from \in phone \cup {NoBlock}
  /\ blobs' = blobs \cup {encode_light_sync(dag, pruned, from)}
  /\ Cardinality(blobs') <= MaxBlobs
  /\ UNCHANGED <<dag, ts, pruned, depth, spv, phone>>

\* The phone gets any blob under way.
ReceiveLightSync(blob) ==
  /\ spv = NoClient
  /\ phone' = receive_light_sync(phone, dag, ts, blob)
  /\ UNCHANGED <<dag, ts, pruned, depth, spv, blobs>>

\* A blob arrives no more.
LoseBlob(blob) ==
  /\ blobs' = blobs \ {blob}
  /\ UNCHANGED <<dag, ts, pruned, depth, spv, phone>>

Next ==
  \/ \E id \in Id, ps \in SUBSET Nodes(dag) :
       /\ ps # {} /\ Cardinality(ps) <= MaxParents
       /\ Insert(id, ps, Max({ts[p] : p \in ps}) + GapOf[id])
  \/ \E stop \in Nodes(dag) \cup {NoBlock} : SyncHeaders(stop)
  \/ \E from \in phone \cup {NoBlock} : ExportLightSync(from)
  \/ \E blob \in blobs : ReceiveLightSync(blob)
  \/ \E blob \in blobs : LoseBlob(blob)

Spec == Init /\ [][Next]_vars

-----------------------------------------------------------------------------
\* Headers the server still has, after the client's tip and up to the limit.
ExpectedTip ==
  LET chain == selected_chain(dag)
      here  == SelectInSeq(chain, LAMBDA b : b = spv.tip)
  IN  chain[Min({Len(chain), here + MaxCount})]

(***************************************************************************)
(* A client whose tip is on the server's selected chain, and whose next    *)
(* header the server still has the payload for, gets every header it asked *)
(* for: no honest header is refused for its height, its link, its work or  *)
(* its difficulty, although the client sees only the selected chain        *)
(* (sync_headers_via_relay, headers_from, verify_difficulty).              *)
(***************************************************************************)
ServedChainAccepted ==
  [][SyncHeaders(NoBlock)
       /\ spv.tip \in ToSet(selected_chain(dag))
       /\ pruned \cap {b \in Nodes(dag) : dag.node[b].sp = spv.tip} = {}
     => spv'.tip = ExpectedTip]_vars

(***************************************************************************)
(* Whatever order blobs arrive in, an older one behind a younger one or    *)
(* one blob twice, every header a phone keeps connects to genesis through  *)
(* headers it keeps, unless the exporter had pruned the block in between:  *)
(* receive_light_sync links the first header of a blob to nothing, and     *)
(* relies on the phone keeping every header it ever had.                   *)
(***************************************************************************)
PhoneChainConnected ==
  \A b \in phone \ {Genesis} : dag.node[b].sp \in phone \cup pruned

(***************************************************************************)
(* A Merkle block is accepted exactly for the transactions of the blocks   *)
(* on the client's chain whose payload the server has kept; the proof of a *)
(* transaction verifies against no other block's header.                   *)
(***************************************************************************)
InclusionExact ==
  \A b \in dag.tips :
    \A i \in DOMAIN TxsOf[b] :
      LET proof == generate_merkle_proof(TxsOf[b], i)
      IN  /\ VerifiesProof(proof)
          /\ b \notin pruned =>
               (VerifiesMerkleBlock(spv, dag, pruned, b, TxsOf[b][i])
                  <=> \E h \in DOMAIN spv.headers : spv.headers[h] = b)
          /\ \A c \in Nodes(dag) \ {b} :
               VerifiesProof([proof EXCEPT !.root = merkle_root(TxsOf[c])])
                 => TxsOf[b][i] \in ToSet(TxsOf[c])

(***************************************************************************)
(* A filter never misses: every address a block pays is found by contains. *)
(* (A miss means a wallet does not fetch a block that pays it.)            *)
(***************************************************************************)
FiltersNeverMiss ==
  \A b \in dag.tips : LET filter == block_filter(b)
                      IN  \A t \in ToSet(TxsOf[b]) : \A a \in PaidTo[t] : contains(filter, a)

(***************************************************************************)
(* What an SPV client asks about a block is answered right, both ways: which *)
(* transactions it holds, and which addresses it pays.                     *)
(***************************************************************************)
AnswersExact == spv # NoClient => InclusionExact /\ FiltersNeverMiss

(***************************************************************************)
(* A message that is followed by an answer of the server on a session is   *)
(* read as it was sent, or refused when the format cannot carry it: a list *)
(* whose count wrapped or that is over a limit is never taken for another  *)
(* message.  Unless the frame is too long, the answer is read next, so     *)
(* that one refused message does not put the session out of step           *)
(* (encode_msg, decode_msg, recv).                                         *)
(***************************************************************************)
SessionInStep ==
  spv # NoClient =>
    LET answer == Frame(handle_relay_query(dag, pruned, GetHeaders(NoBlock)))
    IN  \A i \in DOMAIN Messages :
          LET m   == Messages[i]
              got == recv(Frame(m) \o answer)
          IN  /\ got.msg = IF Carriable(m) THEN m ELSE Refused
              /\ Len(encode_msg(m)) <= MAX_FRAME => got.rest = answer

=============================================================================
