------------------------------ MODULE Replicas ------------------------------
(***************************************************************************)
(* Two nodes of the network and the blocks they share.  The archive keeps  *)
(* every block and is where blocks are made; the replica receives the same *)
(* blocks in whatever order the network delivers them, some late or never, *)
(* and may run with block pruning on (set_block_pruning_depth).            *)
(*                                                                         *)
(* A delivery that Dag::insert refuses (MissingParent, DuplicateBlock,     *)
(* BuildsOnPrunedHistory) leaves the replica as it is, so it is no step of *)
(* the model; the block may be delivered again later.                      *)
(*                                                                         *)
(* The parents of a block this software mines are the miner's tips         *)
(* (produce_block in node.rs), so none is an ancestor of another.  Nothing *)
(* in Dag::insert requires that, and while the replica prunes nothing any  *)
(* present parents are tried; with pruning on, a redundant parent can make *)
(* prune_old_blocks evict genesis (README, known deviations), so there the *)
(* parents are an antichain.                                               *)
(***************************************************************************)
EXTENDS DagOps

CONSTANTS ROOT_CAPACITY, CHILD_RESERVE,   \* of the oracle, scaled down
          Id,               \* block ids
          Work,             \* the values block.work() may take
          Depths,           \* what block_pruning_depth of the replica may be
          MaxParents        \* bound: parents of one block

ASSUME CapacityAssumption ==
  ROOT_CAPACITY \in Nat \ {0} /\ CHILD_RESERVE \in Nat \ {0}

\* An id is 256 bits compared as a number; k is an unsigned integer and a
\* work a u128.
ASSUME NumbersAssumption ==
  K \in Nat /\ Genesis \in Nat /\ Id \subseteq Nat /\ Work \subseteq Nat

\* A pruning depth is an unsigned integer, u64::MAX meaning none.
ASSUME DepthAssumption == Depths \ {NoPruning} \subseteq Nat

\* "No block" is not the id of a block.
ASSUME NoBlockAssumption == NoBlock \notin Id \cup {Genesis}

VARIABLES archive,  \* the DAG of the node that prunes nothing
          replica,  \* the DAG of the other node
          evicted,  \* the blocks the replica has evicted so far
          depth,    \* block_pruning_depth of the replica, set once at start
          reach     \* the reachability oracle of the replica

vars == <<archive, replica, evicted, depth, reach>>

Oracle == INSTANCE Reachability
Rule == INSTANCE AtomicDag WITH dag <- archive

Init ==
  /\ \E w \in Work : archive = NewDag(w) /\ replica = NewDag(w)
  /\ evicted = {}
  /\ depth \in Depths
  /\ reach = Oracle!NewOracle

IsAntichain(d, ps) == \A a, b \in ps : ~is_ancestor(d, a, b)

\* State bound: at most six blocks with pruning and five without, one of them
\* with more work than the others, made in ascending id order, except that
\* without pruning the first four come in any order.
InBounds(id, w) ==
  LET size == Cardinality(Nodes(archive))
  IN  /\ w > 1 => \A b \in Nodes(archive) : archive.node[b].work = 1
      /\ IF depth = NoPruning THEN id \in 0 .. 3 \/ (size = 4 /\ id = 4)
                              ELSE id = size

\* A block is made somewhere and inserted by the archive.
Mine(id, ps, w) ==
  /\ InBounds(id, w)
  /\ Cardinality(ps) <= MaxParents
  /\ depth = NoPruning \/ IsAntichain(archive, ps)
  /\ Admissible(archive, id, ps, NoPruning)
  /\ archive' = insert(archive, id, ps, w, NoPruning)
  /\ UNCHANGED <<replica, evicted, depth, reach>>

\* The oracle after the insertion of b, which turned the replica into d; the
\* mergeset is what the insertion recorded, before anything was evicted.
OracleAfter(b, blk, d) ==
  LET node   == NewNode(replica, blk.parents, blk.work)
      before == Nodes(replica) \cup {b}
  IN  {IF r.dead THEN r ELSE Oracle!remove_blocks(r, before \ Nodes(d)) :
         r \in Oracle!add_block(reach, b, node.sp, node.blues \cup node.reds)}

\* The replica receives a block and inserts it.  When a lookup of the oracle
\* panics the process ends in the middle of the insertion.
Deliver(b) ==
  LET blk == archive.node[b]
      d   == insert(replica, b, blk.parents, blk.work, depth)
  IN  /\ ~reach.dead
      /\ Admissible(replica, b, blk.parents, depth)
      /\ reach' \in OracleAfter(b, blk, d)
      /\ IF reach'.dead THEN UNCHANGED <<replica, evicted>>
         ELSE /\ replica' = d
              /\ evicted' = evicted \cup ((Nodes(replica) \cup {b}) \ Nodes(d))
      /\ UNCHANGED <<archive, depth>>

Next ==
  \/ \E id \in Id, ps \in SUBSET Nodes(archive), w \in Work : Mine(id, ps, w)
  \/ \E b \in Nodes(archive) : Deliver(b)

Spec == Init /\ [][Next]_vars

-----------------------------------------------------------------------------
\* What GHOSTDAG records for a block.
Ghostdag(d, b) ==
  [sp |-> d.node[b].sp, blues |-> d.node[b].blues, reds |-> d.node[b].reds,
   blue_score |-> d.node[b].blue_score, blue_work |-> d.node[b].blue_work]

Common == Nodes(archive) \cap Nodes(replica)

(***************************************************************************)
(* Dag::insert as a function computes what GHOSTDAG promises to record     *)
(* (AtomicDag), on a node that prunes nothing.                             *)
(***************************************************************************)
ArchiveFollowsRule == Rule!Spec

(***************************************************************************)
(* The colouring of a block does not depend on the order in which a node   *)
(* received the blocks, nor on what it received besides the block's past:  *)
(* "independent of block-arrival order and identical on every node"        *)
(* (ghostdag.rs, module doc).                                              *)
(***************************************************************************)
SameColouring == \A b \in Common : Ghostdag(archive, b) = Ghostdag(replica, b)

(***************************************************************************)
(* The same as long as the replica has evicted nothing: blue sets keep the *)
(* ids of evicted blocks and the oracle no longer knows them, so that a    *)
(* node that has pruned may leave red what others colour blue.             *)
(***************************************************************************)
SameColouringUnpruned == evicted = {} => SameColouring

(***************************************************************************)
(* Two nodes with the same blocks agree on the total order of the blocks.  *)
(***************************************************************************)
SameOrder ==
  Nodes(archive) = Nodes(replica) => linearize(archive) = linearize(replica)

(***************************************************************************)
(* The oracle answers as the ancestor relation does, in the DAG and along  *)
(* the selected chains, whatever has been reindexed and evicted and in     *)
(* whatever order the blocks came; the oracle built from scratch over an   *)
(* unpruned DAG answers the same (reachability.rs, module doc).            *)
(***************************************************************************)
OracleAnswers(r) ==
  \A a, b \in Nodes(replica) :
     /\ Oracle!is_ancestor(r, a, b) <=> a \in replica.node[b].past
     /\ Oracle!is_chain_ancestor(r, a, b)
          <=> a # b /\ a \in ToSet(ChainTo(archive, b))

FromScratch ==
  Oracle!build([b \in Nodes(replica) |-> replica.node[b].parents],
               [b \in Nodes(replica) \ {Genesis} |-> replica.node[b].sp])

OracleExact ==
  /\ OracleAnswers(reach)
  /\ evicted = {} => OracleAnswers(FromScratch)

(***************************************************************************)
(* What consensus is made of depends on the blocks only, not on how they   *)
(* arrived: ancestry as the oracle answers it, colours and order.          *)
(***************************************************************************)
ReplicasAgree == OracleExact /\ SameColouringUnpruned /\ SameOrder

(***************************************************************************)
(* Eviction never leaves a hole: the past of an evicted block is evicted   *)
(* too, genesis apart, although each round of prune_old_blocks walks a DAG *)
(* that already has blocks missing.                                        *)
(***************************************************************************)
EvictedPastClosed ==
  \A b \in evicted : archive.node[b].past \subseteq evicted \cup {Genesis}

(***************************************************************************)
(* The evicted blocks are in the past of every block accepted afterwards   *)
(* ("This keeps the evicted set (past(P)) inside the new block's past",    *)
(* insert_with_id), as long as they are in the past of the pruning point,  *)
(* that is, the pruning point has not retreated.                           *)
(***************************************************************************)
BuildsOnEvictedUnlessRetreat ==
  evicted \subseteq archive.node[pruning_point(replica, depth)].past =>
    \A b \in Nodes(replica') \ Nodes(replica) : evicted \subseteq archive.node[b].past

(***************************************************************************)
(* Pruning takes nothing away that a later block needs.                    *)
(***************************************************************************)
EvictionSound == []EvictedPastClosed /\ [][BuildsOnEvictedUnlessRetreat]_vars

(***************************************************************************)
(* The oracle forgets what is evicted: "Remove `evicted` blocks from the   *)
(* oracle (block pruning)" (remove_blocks, reachability.rs), so that no    *)
(* re-layout of an insertion looks an evicted block up.  It does: evicted  *)
(* children stay in the child list of genesis (README, findings).          *)
(***************************************************************************)
ReindexCompletes == ~reach.dead

=============================================================================
