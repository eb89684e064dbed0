# Kovanica node: TLA+ models

TLA+ models, TLC runs and TLAPS proofs of the core of the Kovanica node
(`crates/` of the repository): the block DAG with GHOSTDAG colouring, the total
order derived from it, block pruning, the ledger with reorganisation and
finality, hybrid admission, the transaction pool, the wallet and the atomic
swap, the gossip mesh with its peer scoring and discovery, synchronisation over
TCP, light clients, and the files the node restarts from. Operators and actions
keep the names of the code; `PROJECT.json` maps each definition to the lines it
models.

## 1. The system

| component | code | state | operations |
|---|---|---|---|
| block DAG | `kovanica-dag/src/dag.rs`, `ghostdag.rs` | nodes (block, children, GHOSTDAG data, past size), tips, k, admission policies | `new`, `preview`, `insert` |
| total order | `ordering.rs` | none (reads the DAG) | `selected_tip`, `selected_chain`, `linearize` |
| reachability oracle | `reachability.rs` | tree intervals, future-covering sets | `add_block`, `is_ancestor`, `remove_blocks` |
| pruning | `dag.rs` | payload and block pruning depth | `prune_old_payloads`, `prune_old_blocks` |
| admission policies | `difficulty.rs`, `pow.rs`, `vrf.rs`, `validation.rs` | target, beacon, thresholds | tests before a block is wired in |
| ledger | `kovanica-state/src/ledger.rs`, `utxo.rs`, `stake.rs`, `tx.rs` | per-block UTXO and stake deltas, heights, materialised tip, supply | `insert`, `state`, `prune`, `ledger_state`, snapshots, checkpoints |
| store | `store.rs` | append-only log of blocks | `create`, `append`, `open` |
| mempool | `kovanica-node/src/mempool_v2.rs` | pending, orphans, index by missing outpoint, byte count | `add`, `revalidate_with_utxo`, `on_new_block`, `replace_by_fee`, `remove_all` |
| node | `node.rs` | ledger, mempool, log, unpersisted blocks | `submit_tx`, `produce_block`, `receive_block`, `persist_incremental`, `load` |
| gossip | `p2p.rs`, `p2p_hardening.rs` | peers, queue, seen sets, rate windows, scores, bans | `connect`, `tick`, `announce_block`, `on_block`, `ban` |
| explorer | `explorer.rs` | the mesh, the faucet's accounts, data directory | HTTP routes, mining ticks, `tick_p2p`, `sync_peers`, `persist_all` |
| header sync | `net.rs` | one TCP connection | headers-first and full-dump exchanges, both ends |
| relay | `relay.rs` | one framed session | `encode_msg`, `decode_msg`, `handle_relay_query` |
| peer discovery | `dht.rs`, `dns_seed.rs`, `p2p.rs` | routing table of buckets with caches | lookup, update, mark as failed, bootstrap, replenish |
| wallet calls | `node.rs`, `script_v2.rs`, `htlc.rs`, `vault.rs`, `multisig.rs` | none beside the node; clients hold drafts | prepare, submit, CoinJoin, multisig, bond, unbond, lock, release |
| atomic swap | `atomic_swap.rs` | parameters of one swap | templates, fund, redeem, refund, scan for the preimage |
| light clients | `kovanica-state/src/spv.rs`, `kovanica-node/src/spv.rs`, `kovanica-ffi/src/light_node.rs` | header chain | header exchange, Merkle proofs, filters, light-sync blobs |

**How they interact.** Everything in one process runs under one lock around the
`Explorer` (or `Mesh`), so a handler of the node is atomic with respect to the
others; what interleaves is the *order* of handlers, of messages between nodes,
and process crashes. A block that is produced or received goes through
`Ledger::insert`: the ledger rebuilds the view of the block's selected parent,
asks `Dag::preview` for the mergeset, applies merged blocks and the block on a
copy, and only then inserts into the DAG. The node then queues the id for the
log (`note_inserted`), revalidates the pool against `ledger_state`, and the mesh
announces the block. The log is written by `persist_all` after the request; a
restart replays it through the same insert.

**What is hard here.**

- *Incremental data that is never recomputed*: anticone sizes copied from the
  selected parent, `past_size`, the oracle fed with its own answers, deltas
  folded into children, running supply totals, `total_bytes`, the orphan index.
- *Order*: blocks arrive in any order; parallel blocks conflict; the selected
  tip moves between branches, and finality and pruning follow it.
- *Partial failure*: a merged block that does not apply, a replacement refused
  half-way, an append that fails inside a record.
- *Crash and restart*: log, snapshot, checkpoint, faucet and ban file are all
  that survives, and each is written at its own time.
- *Timeouts and retries*: two single-threaded explorers that dial each other,
  with two protocols and a fallback between them; refund heights of a swap.
- *Limits*: pool and orphan limits, supply cap, fixed rate windows, score bans,
  bucket sizes, counts and frame sizes on the wire.

The hazards are listed, each at its line, in `PROJECT.json`; the properties
below are what covers them.

## 2. Modules

| module | models | state and actions |
|---|---|---|
| `GhostDag` | `Dag::insert` and `compute_ghostdag` with the colouring loop one iteration per step | the maps of the DAG; `BeginInsert`, `ColourBlue`, `ColourRed`, `RejectInsert`, `CommitInsert` |
| `AtomicDag` | what GHOSTDAG promises to record, as a rule without an algorithm: ancestry, the greedy k-cluster, their sizes and weights | a DAG value; `Insert`, one step |
| `GhostDagRefinement` | `GhostDag` implements `AtomicDag` (`INSTANCE ... WITH`, property `ImplementsAtomicDag`) | |
| `GhostDagProofs` | proofs about the three, for all constants | |
| `DagOps` | the DAG as a value: `insert`, `ChainTo`, `mergeset_order`, `linearize`, `pruning_point`, `prune_old_blocks` | pure operators used by the modules below |
| `Reachability` | the interval oracle: tree intervals, re-layouts, future-covering sets, eviction, and the build from scratch | pure operators on one value |
| `Replicas`, `Linearization`, `DagProofs`, `ReplicasProofs` | two nodes that share blocks, one of which may prune; its oracle follows every insertion and eviction | `archive`, `replica`, `evicted`, `depth`, `reach`; `Mine`, `Deliver` |
| `StateDelta` | UTXO sets and the stake registry, with the undo log's diff, apply and compose on both | pure operators |
| `Transactions` | `apply_block`: coinbase, fees, locks, assets, bonds, supply cap | pure operators |
| `Ledger`, `LedgerProps`, `MCLedger`, `LedgerProofs`, `LoopProofs` | `apply_new_block` with the undo log, finality, folding, the materialised tip; properties; the transactions tried; proofs of all its properties, and about loops | the fields of `Ledger`; `Insert` |
| `Difficulty`, `Hybrid` | retargeting; admission by work or by a VRF draw over the epoch beacon, in proportion to stake | the ledger with `stamp`, `staked_seen`; `InsertMined`, `InsertStaked` |
| `Restore`, `MCRestore` | writing and reading ledger snapshots and finality checkpoints, block by block | the ledger with `phase`, `image`, `left` |
| `Mempool`, `NodeMempool`, `MempoolProofs`, `MCMempool` | the pool's operations; the node's handlers that call them; proofs | `pool`, `applied`; `Submit`, `ReplaceByFee`, `ReceiveBlock`, `ProduceBlock`, ... |
| `ScriptV2` | the stack machine of script v2 addresses | pure operators |
| `Wallet` | coin selection and every builder of the node's wallet calls, as functions of a node value | pure operators |
| `WalletNode`, `MCWallet` | a node, its clients with their drafts, and two parties of a swap | `node`, `todo`, `drafts`, `swap`; one action per API call, block production, the moves of Alice and Bob |
| `Hardening`, `Gossip`, `GossipProofs`, `MCGossip` | rate limit, scores, bans and the ban file; the mesh; proofs about it | `mesh`; `Connect`, `Announce`, `SyncHeadersFirst`, `BanPeer`, `UnbanPeer`, `Tick`, `Restart` |
| `Discovery`, `MCDiscovery` | routing tables with replacement caches, those of the mesh or those nodes have themselves; DHT bootstrap, lookups, DNS seeds, pruning, replenishing | `keeper`, `table`, `peers` |
| `SyncWire`, `PeerSync`, `MCPeerSync` | the sync messages and what each end computes; two explorers with their loops, connections, timeouts, crashes | per node: program counter, connection, blocks, boot state, statistics of the round |
| `Relay` | framing and codec of a relay session, cell by cell | pure operators |
| `Spv`, `LightClient`, `MCLightClient` | locators, header exchange, Merkle proofs, filters, light-sync blobs; an SPV client and a phone beside a node | server DAG, pruned payloads, `spv`, `phone`, `blobs`; `Insert`, `SyncHeaders`, `ExportLightSync`, `ReceiveLightSync`, `LoseBlob` |
| `Store` | log, snapshot, and the calls that write and reread them | memory, disk, what was acknowledged; `Insert`, `PersistAppend`, `PersistCreate`, `Save`, `Load`, `Crash`, `Reset`, `BootFromLog`, `BootAnew` |
| `Service`, `ServiceProofs`, `MCService` | the explorer's requests and ticks over `Store`: mining, faucet, uploads, templates, sync, reset, boot; proofs about both | the variables of `Store` with `request`, `given`, `gfile`, `told`, `away` |

**Composition.** `Ledger` extends `DagOps` and `Transactions`; `Hybrid` adds
admission to `Ledger`, `Restore` adds images to `Hybrid`, so a restored ledger
runs the same insert. `Service` puts requests over `Store`'s actions. The
replica of `Replicas` drives an instance of `Reachability`, `LightClient` reads
`DagOps` and `Difficulty` through the messages of `Relay`, and `WalletNode`
builds with `Wallet` what `Transactions` must accept.

**Abstractions.** A block id is a number: ids have the total order the code
breaks ties with, and nothing else of a hash. Signatures are who signs by which
path; script v2 is executed, its hashes are terms. A transaction of the pool is
its inputs, outputs, size and fee. Refused operations leave the state as it is
in the code (the work is done on copies, or every check precedes the first
assignment) and are then no step; where a refusal does change something
(`RejectInsert`, `replace_by_fee`, `add` after evictions, a merged block that
fails, an upload refused half-way), it is modelled. `Hardening` leaves out the
counters of `peer_stats` and the removal of what a peer announced more than
10 000 ticks ago. `Store` reduces a block to its parents and lets every
topological order stand for `linearize`; whatever follows a torn record is taken
as unreadable, which ignores the chance that misread bytes decode. In `Relay` a
connection is a sequence of cells, one per field or character, so that limits
count cells. `WalletNode` runs on a chain without forks, because
reorganisations are the matter of `Ledger`, and `Discovery` drops addresses and
times because no decision reads them. A node has two routing tables: the one
the mesh keeps for it (`Mesh.dht_tables`: connections, bootstraps, lookups,
replenishing) and its own (`Node.dht_routing_table`: DNS seeds, answers over
relay sessions, the pruning of `tick_dht`). No code moves a contact between
them, so a behaviour of `Discovery` has tables of one kind (`keeper`) and the
actions on that kind; the copy that the explorer keeps of the second is read
nowhere and left out. A phone's headers are in memory only, so one that starts
again begins with none; what it then makes of a blob it asked for before is left
out, and would be a chain that begins in the air. In `Hybrid` a VRF is a fixed
function of key and beacon.

Each module declares its constants with the bounds named as such. Mutated
operators that a property is tried against stand before the operator they
replace and are marked as mutants; no specification uses them.

## 3. What the runs show

| run | instance | properties |
|---|---|---|
| `GhostDag` | up to 5 blocks, at most 3 parents, two works, k = 1, ascending and descending ids; 6 equal blocks with 2 parents; any insertion may be refused | `TypeOK`, `ColouringSound`, `WeightInv`, `ImplementsAtomicDag` |
| `Linearization` | two nodes, 5 blocks without and 6 with pruning, one of them heavier, k = 1, a tree interval of 40 points | `ReplicasAgree`, `ArchiveFollowsRule`, `OrderSound`, `EvictionSound` |
| `PrunedReindex` | 5 blocks, pruning at depth 1, an interval of 8 points | **violated**: `ReindexCompletes` |
| `Ledger` | 4 blocks over genesis of transfers or of bonds, 5 with locks and assets; finality depth 2, supply cap 22 | `ViewsExact`, `SupplyExact`, `RegistryBacked`, `SupplyCapped`, `SpendsObeyRules` |
| `Restore` | hybrid or plain admission, two staked keys, up to 5 blocks over genesis, a slow clock; one image, written at any time | `SnapshotRestores`, `CheckpointRestores` |
| `Mempool` | 7 transactions, room for 2 pending and 2 orphans | `PendingSpendable`, `LimitsHold`, `FairlyDisplaced`, `ProducedBlockApplies` |
| `Wallet` | five scenarios: payments in two assets, CoinJoin and multisig, locks and scripts, bonds, two swaps | `BuiltIsAccepted`, `BondsHold`, `PoolDrains`, `SwapSafe`, `BobIsPaid` |
| `Gossip` | 3 nodes, 2 blocks, 1 transaction, 4 calls from outside, 5 ticks | `Floods`, `MeshSettles`, `BansHold` |
| `Discovery` | 3 nodes in an id space of 3 bits, two DNS seeds that are no nodes, buckets of one, dead after two failures | `LookupFinds`, `TablesHold` |
| `PeerSync` | two explorers, 3 blocks, one dated ahead of a slow clock, one staked, one crash, one slow timeout | `BodiesApplyInOrder`, `ExchangesEnd`, `CatchesUp` |
| `LightClient` | 5 blocks with side branches, difficulty window 1, payload pruning or not, two blobs under way, 25 further messages at and around their limits, one longer than a frame may be | `ServedChainAccepted`, `PhoneChainConnected`, `AnswersExact`, `SessionInStep` |
| `Service` | 5 blocks (a faucet payment, on it a second one and a block from outside, one mined on both), of which others fetch the first, 2 crashes or resets, one failed write of each file | `LogCovers`, `DurableAcked`, `FaucetCapped`, `ToldSurvives` |

What they say, in one sentence each:

- *DAG.* `ColouringSound`: blue sets are k-clusters with exact anticone sizes,
  and no red block would have fitted. `WeightInv`: the selected tip is the
  heaviest block. `ImplementsAtomicDag`: walk, copied counts and loop record for
  every block its ancestry, the greedy k-cluster and their sizes and weights.
- *Order and pruning.* `ReplicasAgree`: oracle answers, colours and order do not
  depend on arrival. `ArchiveFollowsRule`: the functional insertion that the
  ledger and the light client use records what `AtomicDag` asks for.
  `OrderSound`: the order is complete and topological and grows at its end.
  `EvictionSound`: what is evicted is past-closed and in the past of what is
  accepted later.
- *Ledger.* `ViewsExact`: the tip's state is its view, every non-final view is
  there and equals the replay of its past after deltas were folded, and
  `ledger_state` is the replay of all blocks. `SupplyExact` counts each block
  once; `SupplyCapped`: no view holds coins that were not minted in it, nor more
  than the cap; `RegistryBacked`: bonds are unspent outputs; `SpendsObeyRules`:
  what a view holds was spent in time, and no asset comes from nowhere.
- *Images.* A snapshot restores the very ledger; a checkpoint restores every
  view, total and height above it.
- *Pool.* What is pending can be spent, the accounts are exact and the limits
  hold, only the cheapest and the outbid are displaced, a produced block
  applies.
- *Wallet and swap.* What is built is accepted at exactly its fee, bonds get in
  and can be released, the pool drains in any order; nobody gets both sides of a
  swap, and Bob gets one.
- *Mesh.* Floods reach all, hellos close the graph and die out, bans hold in the
  middle of a round and over a restart; tables keep their first comers, and
  tables that cover the id space find everybody.
- *Synchronisation.* Bodies apply in the order they are asked for, exchanges
  end, two nodes catch up; light clients accept the chain they are served, and
  get right answers, each to its own question.
- *Service.* What was logged or told survives, and the faucet's cap holds over
  crashes and resets.

Several properties are conjunctions of named parts that are stated one by one
in the module.

**Why the bounds are enough.** k = 1 with five blocks has DAGs with two blocks
in one anticone, so candidates are refused both by their own count and by a
blue block's; with three parents a mergeset has up to four blocks and merges
nest. Pruning needs six blocks for a second round of eviction on a DAG with
holes; an interval of 40 points with a reserve of 16 lets several rounds of
eviction happen and still forces re-layouts (with the 8 points of
`PrunedReindex` every other insertion re-lays out). With finality depth 2, five
blocks fold two deltas into a third and merge side blocks above and at the
finality score; the supply cap of 22 is passed by parallel coinbases of 4. In
`Restore` an epoch has two blocks, so beacons of two epochs and a tail above the
finality score exist in one image; `FewHeavy` keeps the heavy blocks few. The
pool's transactions were chosen so that each pair of conflict, chain, low fee
and eviction meets in a pool of two. In the mesh a duplicate bans a new peer
and the rate limit refuses a fifth message, so bans and refusals happen within
four calls. A fork whose ids are not in topological order is the least that
`topo_sort_headers` can get wrong, and with bodies in chunks of two it takes two
requests; one crash and one slow timeout may fall into any state of either end.
Of two blobs
under way each may be the older one, whole or incremental, and arrive again
after the other. In `Relay` counts wrap at 4, lists of the messages sent are one
below, at and one above each limit, and a frame is one cell too long. In the store a torn piece, a retry and a second crash fit
in the bounds, and the first payment, fetched by others before a reset, may come
back before the second is asked for. Where ids or payloads are restricted to
keep a run short (`InBounds`, `SixthOnPlain`, `OneFamily`, `FewHeavy`, `Few`),
the definition says so.

**Fairness.** Two specifications state it; the others have safety properties
only.

- `PeerSync`: every process goes on with what it does (weak fairness of client
  and server steps, of accepting, of the 10 s dial), a read ends after its
  timeout (strong fairness of `GiveUp`), a supervisor restarts a crashed process
  and a slow clock is set. The periods of two processes are not locked to each
  other, so not every dial meets a busy peer (strong fairness of a dial to an
  idle peer and of accepting a first dial). `CatchesUp` has a premise besides:
  again and again neither is busy (`NotAlwaysColliding`); without it the code
  gives no guarantee, for both ends wait the same 800 ms.
- `WalletNode`: blocks go on being mined, and Bob acts when he can (weak
  fairness). Alice is not fair. That Bob looks at least every `Lag` blocks is
  part of his action, not a fairness assumption: he funds his side only if his
  own refund is not already due at his next look, and `SwapSafe` needs that.

In the mesh every call may be refused for ever; what the code promises to end,
the flood, is the bounded `DrainsSoon`: after `MaxQuiet` ticks without calls the
queue is empty. Deadlock is checked where a process can always do something
(`Mempool`, `PeerSync`, `Discovery`, `Service`, `Restore`); the other models stop
when their bound of blocks, ticks or calls is reached.

## 4. What is proved

**The DAG.** `GhostDagProofs` proves every
property of the run `GhostDag` for every finite set of ids, every k, all works
and any number of parents, from the assumptions of `GhostDag` (ids are naturals,
genesis is one of them).

The properties are not inductive. `IInv` adds:

- `PastOrder`: the oracle's answers are a strict partial order generated by the
  parent edges. Without it the walk of `mergeset_ordered` could miss a block;
  `MergesetIsPast` derives that it finds exactly the new block's past outside
  the selected parent's.
- `InsInv`: the loop invariant of the colouring. The map being built counts
  anticones exactly and stays within k, candidates partition the mergeset, and
  no candidate already red fits into the blue set so far (`KClusterSubset`:
  sets that hold one that is no k-cluster are none either).

Each action has a step lemma; `CommitInsertStep` turns the loop invariant into
the invariant of the DAG, split by `CommitTypeOK`, `CommitPastOrder`,
`CommitColourInv` and `CommitWeightInv`. `KClusterHolds`, `ColouringIsExact` and
`RedsAreJustified` are the parts of `ColouringIsSound`; `TipMoves` proves from
the same invariant that the selected tip changes only to the block just
inserted.

`RefinesAtomicDag` is the refinement. `RInv` adds two facts about the loop to
`IInv`: the work summed so far is that of the blue set (`WorkExact`, with work
counted in units), and what is coloured so far is coloured as the rule says
(`GreedySoFar`). The second is inductive because the loop takes its candidates
in the order of their keys: no later candidate is among the blues that an
earlier one is judged by. `CommitWritesRecord` then compares the record field by
field.

`DagProofs` says why the rule is worth implementing: it leaves no choice.
`ByTheRule` (genesis is alone at the bottom, every block was inserted by the
rule into the blocks of its own past) holds in every state (`AlwaysByTheRule`
of `ReplicasProofs`).
In two such DAGs with the same contents under the same ids (`SameBlocks`: an id
is a hash of parents and work) every shared block has the same record
(`Agreement`). The proof takes the oldest block that differs: the blocks of its
past agree, so all keys do; the selected parent is unique (`HeaviestUnique`),
and so is the greedy set, by the least candidate that two would differ on
(`GreedyUnique`). `NodesAgree` of `ReplicasProofs` puts two behaviours of `AtomicDag` side by side:
two nodes, each with its own blocks in its own order, agree on what they share
in every state. With the refinement this is "independent of block-arrival order
and identical on every node" for the loop of the code. `Numbers`, the hypothesis
about the constants, is that of `GhostDag` without the finiteness of `Id`.

`DagProofs` is also about `DagOps`, the insertion as the ledger, the wallet and
the light clients use it, and `ReplicasProofs` about the nodes that insert by it.
`ArchiveFollows`: every record it computes is the one the rule asks for. Its
parts are lemmas about the recursive definitions that compute it, each shown to
be defined and unique: the bounded walk finds exactly what the block merges
(`MergesetIs`), the sort lists it in the order of the keys (`SortTopoLists`),
each turn of the loop keeps the greedy choice and the exact counts
(`ColourStep`, `GreedyStep`), and the sum of works counts the units of the blue
set (`WorkSums`). `AgreeUnpruned` follows with `Agreement`: as long as the
replica has evicted nothing, both nodes hold records by the same rule, so that
colours agree on every block both have, and the total order agrees as soon as
the blocks do. The rest of `ReplicasAgree`, the oracle's answers and the order
after evictions, is model-checked only.

`OrderIsSound` proves `OrderSound` for the node that prunes nothing, from lemmas
of `DagProofs` that the ledger's replays use as well. The order
of a block is that of its selected parent, then the mergeset, then the block
(`OrderIs`: the recursions of `ChainTo` and `FlattenSeq` are defined, because
past sizes fall along the chain). Each piece lists blocks whose parents are
listed already (`ListsSorted`, `ListsAppend`), so that the order of a block
lists its past and the block (`OrderLists`), and with the tail all blocks
(`LinearizeLists`; genesis is in every past, so that nothing has to be moved to
the front). It reads only records, which an insertion leaves alone
(`SameOrders`), hence what was ordered up to the selected tip stays in its place
when the next tip has it as selected parent. `NoBlockAssumption`, that "no
block" is not an id, is what keeps genesis without a selected parent.

`EvictionIsSound` proves `EvictionSound` for the replica, at every pruning depth
and in any order of delivery. `EvictInv` says what the replica is (`PartOf`):
what is left of the archive once `evicted` is taken away. Each record keeps the
parents it has in the archive and its ancestors that were not evicted, and
`evicted` is closed downwards, genesis apart. Neither the equality of records nor
the property alone is inductive: the replica may colour a block differently from
the archive once part of the mergeset is gone. A walk over parents from a
remaining block still reaches every ancestor that remains (`PartMergeset`), so
that what lies below a pruning point is exactly the part of its past that is left
(`EvictableIs`), and removing it keeps `evicted` closed (`PartPruned`). The
recursion along the selected chain is grounded by the past sizes of the archive,
not of the replica (`RuleGrounded`), since an evicted block may be delivered
again. `DepthAssumption` is the type of the code: a pruning depth is an unsigned
integer. The bounds of the run on parents, on works and on the number of blocks
are not used.

**The supply.** `LedgerProofs` proves `SupplyCapped` of `Ledger`: in every view
that can be rebuilt and in the materialised one, what is unspent and what was
burned was minted in that view, and never more than MAX_SUPPLY. This holds for
every DAG, finality depth, k, subsidy schedule and cap, and every set of bodies
blocks may be made of, also with repeated transaction ids and unequal work,
where `ViewsExact` does not hold. The hypotheses are the types of the code:
amounts in genesis and in bodies are unsigned (`GenesisAssumption`,
`PayloadIsTyped`), the constants are numbers (`NumbersAssumption`), and "no
block" is not an id (`NoBlockAssumption`).

`BlockBalances` is the step for one block: what it leaves unspent is what there
was and what its coinbase mints, less its fees. Conservation is checked asset by
asset over sums, so the lemmas on loops (`LoopProofs`) count value in units: a
sum is the cardinality of a set, of which additions and removals follow without
induction. `MergedViewGains` adds up the mergeset. Then the undo log: it keeps
differences, and a view that is rebuilt from them need not be the one that was
computed. Three theorems say what may be relied on, for every UTXO set: applying
the recorded difference gives back the state (`ApplyDiff`), unless an outpoint
comes back with another entry, which is then lost (`ApplyDiffLoses`); folding a
delta into its child's preserves what both do (`ApplyCompose`), when the child
creates nothing that the folded one spends. The invariant therefore does not say
that rebuilt views are exact. `UndoInv` says that there is a bound for each: a
UTXO set that the selected parent's, with the block's delta applied, lies below
(`Bounds`), and whose native value is backed by what was minted for its block
(`Backed`). Without a bound for each block of the path nothing could be said
after folding; with them a new delta (`PutKeepsBounds`), the fold of a final
block into its children (`FoldKeepsBounds`) and all turns of `prune`
(`PruneKeepsBounds`) keep the same bounds. `DagProofs` supplies that chains end
and that mergesets list known blocks.

**The views.** `ViewsAreExact` is the other half of the undo log: `StateAvailable`,
`TipStateIsView` and `RegistryBacked` for every DAG, depth, schedule and payload.
Its invariant says that for each block that is not final there is a view, once
computed, that the log rebuilds (`Exact`) and that some set of transactions of
the block's past made (`Made`: an outpoint of the view was created by one of
them and spent by none; a bond lies on an unspent output of its value; the
totals are the sums of the bonds by key). One view `Follows` another when what is
new in it was made by transactions that the first had not applied. That is what
the two theorems on registry deltas need (`ApplyStakeDiff`, which is also why
`apply_stake_delta` does not panic, and `ComposeStakeDiff`), and `ApplyDiff` and
`ApplyCompose`. Folding keeps every entry that is still rebuilt from
(`FoldOnePrunes`, `PruneKeepsExact`), and the walk down the selected chain gives
back the view (`ViewsAreRebuilt`).

It holds where the log can be exact, and its three hypotheses are the recorded
deviations of the code (section 5): an id stands for one transaction and a
coinbase for one block (`UniqueIds`), finality does not retreat
(`FinalityRises`), and a merged block that does not apply has bonded nothing
(`NoStrayBonds`). The histories of the run `Ledger` satisfy them, with conflicts,
bonds, failing merges and folding. `SupplyIsCapped` needs none of them.
`RegistryIsBacked` states its part about the registry as a theorem of its own.

**The replay.** `ReplaysAreExact` proves `ViewsExact` and `SupplyIsExact` proves
`SupplyExact`, under the same three hypotheses: what the log gives for a block,
and the totals kept for it, are what applying the order of its past from nothing
gives. `ReplayInv` adds to the views above that each is the run over the order of
its block (`Told`), as far as heights can be told: a merged block that is final
has no stored height and falls back to its blue score, so the run is exact while
the two agree (`FallsBack`, the `FallbackExact` of the properties; since finality
does not retreat, it held before each step at which it holds). The step is that
order and computation grow alike: `OrderIs` splits the order of the new block
into that of its selected parent, the mergeset and the block, a loop over a
concatenation is one loop after the other (`RunConcat`), and merging applies the
same blocks at the same heights (`HeightsMatch`). `PastIsRuled` and `SameOrders`
are why the replay may be done in the DAG of the past alone, as the property has
it. For `LedgerStateIsReplay`, `TailFollows` goes along the blocks after the
selected tip, where the code replays with an empty registry and no total: with
no bonds and coinbases within the cap neither makes a difference.

**Locks and assets.** `AssetsAreConserved` and `SpendsObeyTheRules` prove
`SpendsObeyRules`. The first needs no hypothesis but typed payloads, also where
ids repeat: as for the supply there is a bound for each block of the log
(`Covers`), here in each asset, which is what the coinbases of its past made. It
is kept because a mergeset lists every block once and nothing of the selected
parent's past, so that no coinbase is counted twice. Time locks are proved of replays and so hold of
views (`ReplaysObey`). Every entry of a replay leads back to a transaction of a
block at whose height it was made, and everything that transaction spent leads
back in the same way and had aged by then (`Traced`); a block keeps this whether
it applies or not (`BlockTraced`). For scripts, `ExecuteRuns` makes of the
execution a loop over sets of stacks that fails for good once it is empty, and
`Popped` says which number of the witness a leading time check finds on top.
Unique ids turn the transaction that made an outpoint into the one the property
looks up (`MakerIs`).

**Files and service.** `ServiceProofs` proves types, `LogCovers` and
`DurableAcked` of `Store`, the log under `Service`, for every finite set of
blocks with any parents, any number of crashes and of failing writes. A write
only adds at the end of a log or begins a new one, so the argument is about
sequences of pieces: one that is no record changes neither what is logged nor
whether it can be inserted (`InsertPiece`); what one write adds and what stays
queued after it are together what was queued (`WriteKeepsCover`). `LogCovers` is
inductive with the types; `DurableAcked` needs `AckedOnDisk` as well: an untorn
log can be read and has what was acknowledged, also while the process is down.

Its second half is about the server over that log, for any blocks, parents,
addresses and cap, any number of requests, crashes, resets and lost writes.
`ServiceImplementsStore` is the refinement: every step of the server is one of
`Store`'s or leaves the store alone, so its theorems hold under the server
(`ServiceLogCovers`, `ServiceDurable`). The other two properties need
invariants of their own. `FaucetCapped` speaks of the ledger only; a crash puts
the log in its place and the file in place of the map, so `Books` says of each
of the four, ledger, log, map and file, which payments it knows: what is paid in
memory is in the map, what is paid on disk is in the file, and a write of the
file that is lost costs one cap. A reset or a lost log takes back no payment that
others fetched before: `sync_peers` brings it again (`away`), and it counts as on
disk. It had left the process between two requests, when the file was written, or
its writing lost and counted. `RequestOK` says how far the running request
has got, for between the payment and the file the map is ahead. `ToldSurvives`
needs `Vouched`: a block that was told is in the log, or queued behind a request
that will not answer before it is logged, or among the blocks that the property
excepts.

**The pool.** `MempoolProofs` proves all four properties of the run `Mempool`,
for any transactions, however they conflict or depend on each other, any
outputs, sizes, fees and limits, and whatever blocks and reorganisations come.
It assumes what the types of the code say: limits are positive, sizes too, fees
are not negative (`MempoolAssumption`). Each operation of the pool has a lemma
that it keeps the pool in order (`Sound`) and what it does to the pending
transactions. Byte count and orphan index are inductive only together: the bytes
of promoted orphans are right because no orphan is pending, and that a
transaction does not become an orphan while it is pending is what the index's
cleaning in `add` is for. `LedgerInv` adds that the ledger is one that some
order of its transactions gives. A produced block appends to that order what
`Taken` takes, in the order of ids (`ProducedApplies`). For this `Ledgers` says
that an order exists and `Taken` which set the loop takes, instead of recursions
over them.

**The mesh.** `GossipProofs` proves all three properties of the run `Gossip`, for
any number of nodes and of items, any edges, limits, weights and scores, and any
calls, bans and restarts. It assumes what the types of the code say: names are
ordered, counts are not negative, a rate window is not empty, a fresh score is no
ban, what is below a block is a block (`GossipAssumption`,
`HardeningAssumption`).

A tick delivers a queue whose every envelope may append to the next one, so no
property of the queue between ticks is inductive. The proof puts both queues in
one sequence, the rest of the old and then the new (`Rest`): a delivery takes
its first envelope and appends others (`TakeAndOffer`, `DeliverOne`). `Sound`
speaks of the mesh and of what waits, and every delivery keeps it, hence a tick
does (`TickDelivers`). For each item that a node has and each edge in time,
`Offered` says that the neighbour has seen it, or it waits on that edge. `InStep`
and `Taken` are why flooding loses no block as long as nothing is refused and no
edge is late: an item waits behind what it needs, unless the receiver has that
already, so a block can be taken when it is first seen, which marks it for good.
The same form serves the peer graph (`Closing`: an edge that the other end does
not know, or two peers of a node that do not know each other, have a hello on its
way). `QueueBounded` needs `WindowFits`: the sender's window has counted all that
it has in the queue, because windows end only by the clock, and a tick takes the
old queue away when it moves the clock. `BansAreHeld` needs of `Sound` only that
the ban file holds whoever is banned (`Filed`).

`MeshDrains` is the termination argument, stated as safety: a delivery that sends
anything has taught a node a peer or an item (`Spreads`), and nothing is
forgotten before the next call, so the ticks since the last call do not outnumber
what is known while something is queued (`Draining`). The queue is empty once
they outnumber all there is to know, N (N + I) for N nodes and I items; this is
the hypothesis on `MaxQuiet`. TLC checks the run's mesh against its diameter,
which is much less. `MeshIsBounded`, the other two parts of `MeshSettles`, needs
no such bound.

**Only model-checked**: the interval oracle and what pruning makes of colours and
order (the rest of `ReplicasAgree`), because a re-layout is a recursion over the
interval tree; ledger snapshots and checkpoints; wallet and swap, whose builders
are many and flat; discovery (`Bitwise`); synchronisation (`RECURSIVE`); SPV and
phone clients. Liveness, ENABLED and recursive operators are beyond the prover
used here.

## 5. Findings and known deviations

**Checked.** *A re-layout after pruning panics* (`PrunedReindex`):
`remove_blocks` hangs the tree children of evicted blocks under genesis but
leaves evicted children in the child list of genesis. The next reindex that
climbs to genesis looks one of them up. With the real constants a plain chain
uses its interval up after some forty blocks.

**Findings without a run**, seen in behaviours of the models:

- *Finality retreats.* The finality score follows the tip with most work, whose
  blue score may be lower than its predecessor's; a block whose delta was dropped
  can be non-final again, and building on it meets the `expect` at
  `ledger.rs:2721`. The comment on `prune` says "Finality only rises". The run
  `Ledger` gives all blocks the same work, with which it does.
- *A torn append spoils the log.* The retry of `persist_incremental` writes
  behind the bytes that the failed write left, and the log cannot be read any
  more, although its doc says "no block is silently dropped from the log".
- *Colouring under pruning.* An evicted ancestor counts as being in a
  candidate's anticone (`try_colour_blue`), so a pruning node can colour a block
  otherwise than an archive does, against the module doc of `ghostdag.rs`.
  `ReplicasAgree` compares colours as long as nothing was evicted.
- *Stake changes of a failed block stay.* Bonds and unbonds before the failing
  transaction of a merged block are kept, against the doc of `apply_block`.

**Ledger, DAG and images.** The others are assumptions of a property, named
where it is stated, or lie outside what any doc or test promises:

- A block that names genesis as a redundant parent can make `prune_old_blocks`
  evict genesis (`Replicas` mines antichains when it prunes). The pruning point
  can retreat like the finality score (`BuildsOnEvictedUnlessRetreat`).
- A merged final block has no stored height and is applied at its blue score;
  `FallbackExact` is the case in which the two agree.
- A coinbase equal to one whose output was spent creates the same outpoint
  again; a composed delta creates before it spends and loses it
  (`ApplyDiffLoses`).
- `ledger_state` applies the tail after the selected tip with a fresh registry,
  so an unbond there fails.
- The doc of `read_snapshot` says that the ledger restores "at unbounded finality"
  and that the snapshot does not store that policy (`ledger.rs:3085`). The code,
  and the doc of `write_snapshot`, store and restore the depth; so does the model.
- A snapshot stores the finality depth and is replayed in linearized order, so a
  block whose selected parent is final by its turn makes the whole snapshot
  unreadable (`ReplaysAboveFinality`).
- A checkpoint stores neither siblings of its block at the same score nor, when
  that block scores above the finality score, is free of storing it twice;
  blocks with parents below it are re-hung and get new ids, and so does all
  above them (`CleanCut`). Under hybrid admission restored scores start at 0 and
  the retarget window is cut, so beacons, epochs and works no longer match, and
  `load_checkpoint` never turns hybrid admission on (`~hybrid`).
- Which of two staked blocks of one key over one parent is admitted depends on
  which came first (`staked_seen`), and `epoch_beacon` indexes a selected parent
  that block pruning may have evicted.

**Files.** A log that ends inside a length is opened without error, although
`StoreError::Truncated` is described as "The log ended in the middle of a
record"; one that ends inside a body cannot be opened at all, and
`load_or_genesis` then truncates it. `create` truncates in place: cut off between
two records it leaves a readable log that hides a more complete snapshot. A
replayed log gives a ledger without finality depth until one is set. `fs::write`
truncates `faucet.txt` first and its errors are ignored, so the cap may be forgotten once
per lost write (`FaucetCapped` counts them); a reset keeps that file. A wire
upload that is refused at some record leaves the earlier ones unannounced and
unlogged until the next `persist_all`, as does a connection whose serving failed
(`shaky` in `ToldSurvives`). `ensure_network` wipes log and snapshot whenever the
`network` marker cannot be read, and every genesis overwrites
`operator-wallet.key`. `sync_peers` does not count a peer whose dump brought
nothing as one that answered.

**Pool and mesh.**

- `replace_by_fee` does not put back what it removed when the byte limit refuses
  the replacement. The eviction that empties the pool makes the submission fail
  with `CapacityExceeded`.
- No code path of the node calls `promote_orphans`; mined transactions of
  received blocks stay in the pool as orphans until pruned.
- Bans by score become permanent when saved, and expiry ticks are absolute while
  a new process counts from 0.
- A refused or rate-limited item stays marked as seen; only `sync_headers_first`
  brings it later. One duplicate tracker serves all receivers, so an honest
  fan-out costs score (`tests/load_gossip_convergence.rs` turns scoring off).
- Nothing but tests calls `mark_failed`, so contacts are never removed in
  production; contacts from DNS seeds get ids made of their addresses, which no
  node has; a new contact brings the failure count its introducer claims;
  `promote_from_cache` and `refresh_bucket` are unused.

**Wire.**

- Headers-first refuses staked blocks, whose headers do not carry VRF fields
  (`Plain` in `CatchesUp`), and `decode_getheaders` limits its list while the
  encoder does not.
- A read timeout inside a relay frame loses the bytes read, and a frame that is
  too large leaves its payload on the connection: the session is out of step.
  u16 counts wrap; a Headers answer above `MAX_HEADERS` is sent and cannot be
  decoded; DHT messages accept trailing bytes (`Carriable` says which messages
  the format can carry). `request_merkle_block` compares the block but not the
  transaction of an answer, and a proof that cannot be made is never answered.
- An SPV client has no rollback: after a reorganisation every exchange ends in
  `HeightMismatch` (`ServedChainAccepted` is about clients on the served chain).
  `receive_light_sync` panics on a blob without headers, never links the first
  header of an incremental one, and keeps headers of stale branches. That an
  incremental blob connects rests on the phone keeping all it ever had
  (`PhoneChainConnected`): it does not check; servers
  that pruned payloads skip headers silently.

**Wallet and swap.**

- Coin selection does not tell bonded coins from others, so what it builds may
  be refused; `bond_stake` may panic on a pending conflict or pick coins of
  another asset, and refuses no fee where the pool asks for one.
- An asset transfer pays its fee in the asset although `/api/prepare` announces
  KVNC, and `/api/submit` prepares natively again, so it is never submitted.
  Multisig and vault builders ignore assets; an HTLC of the fee's value cannot
  be spent by the wallet; a CoinJoin that names an address twice has duplicate
  inputs.
- `verify_against` compares neither amount nor asset of a funded HTLC.
- Script v2: AND and OR take any numbers although the doc says 0 or 1, the
  parse bound of THRESHOLD is off by one, and its inline signatures would have
  to sign a hash of the script they are in.

## 6. Not modelled

- Hashing, signatures and byte encodings, but for what `Relay` says of counts,
  limits and framing. Proof of work is a fact about a block.
- `mempool.rs`: no module declares it. Fuzz targets and test support.
- Pages, JSON, metrics, the command line and `rpc.rs`: wording around calls that
  are modelled where they change state.
- The loops of relay sessions and their timeouts; servers that prune payloads in
  `PeerSync`; DNS itself.
- Queries of the phone library that only read, and its history.
- Legacy VRF inputs (`use_epoch_beacon` off) and old checkpoint versions.
- One model of ledger, pool and store together: the three meet in the node under
  one lock, and the product of their states is out of TLC's reach at bounds at
  which each is interesting.

What would be proved next: that a phone's chain stays connected, and
`TablesSound` of the routing tables, whose distances would have to be written
without `Bitwise` first.
