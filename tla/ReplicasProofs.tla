--------------------------- MODULE ReplicasProofs ---------------------------
(***************************************************************************)
(* The archive node follows the rule, two nodes agree on what they hold,   *)
(* the total order over the blocks is sound, and so is what the replica    *)
(* evicts: for every set of ids, every k, all works, any number of parents *)
(* and any pruning depth.                                                  *)
(*                                                                         *)
(* The order.  That of a block is its selected parent's, followed by the   *)
(* mergeset in the order of the keys and by the block (OrderIs).  Each of  *)
(* the three pieces lists blocks whose parents are listed before (Lists),  *)
(* so that the order of a block lists its past and the block (OrderLists). *)
(* It reads only records, which an insertion leaves alone (SameOrders).    *)
(* These lemmas are in DagProofs, the ledger's replays need them as well.  *)
(*                                                                         *)
(* Eviction.  The replica is what is left of the archive (PartOf), and     *)
(* what it evicted is closed downwards: a walk from a remaining block      *)
(* finds all of its past that remains (EvictableIs).                       *)
(***************************************************************************)
EXTENDS Linearization, DagProofs

-----------------------------------------------------------------------------
(***************************************************************************)
(* A node that inserts by the rule.                                        *)
(***************************************************************************)
\* The rule, by either of its names.
LEMMA RuleIsRules ==
  /\ \A d : Rule!Nodes(d) = Nodes(d)
  /\ \A S : Rule!Cardinality(S) = Cardinality(S)
  /\ \A w : Rule!NewDag(w) = NewDag(w)
  /\ \A d, s, ps : Rule!Merged(d, s, ps) = Rules!Merged(d, s, ps)
  /\ \A d, ps, s, B : Rule!IsColouring(d, ps, s, B) <=> Rules!IsColouring(d, ps, s, B)
  /\ \A d, ps, w, s, B : Rule!NodeOf(d, ps, w, s, B) = Rules!NodeOf(d, ps, w, s, B)
  /\ \A d, id, n : Rule!With(d, id, n) = Rules!With(d, id, n)
<1>1. \A d : Rule!Nodes(d) = Nodes(d) /\ Rules!Nodes(d) = Nodes(d)
  BY Zenon DEF Rule!Nodes, Rules!Nodes, Nodes
<1>2. \A S : Rule!Cardinality(S) = Cardinality(S)
  BY Zenon DEF Rule!Cardinality, Cardinality
<1>3. \A w : Rule!NewDag(w) = NewDag(w)
  BY Zenon DEF Rule!NewDag, Rule!GenesisNode, NewDag
<1>4. \A d, s, ps : Rule!Merged(d, s, ps) = Rules!Merged(d, s, ps)
  BY Zenon DEF Rule!Merged, Rules!Merged, Rule!Ancestors, Rules!Ancestors
<1>5. \A d, ps, s, B : Rule!IsColouring(d, ps, s, B) <=> Rules!IsColouring(d, ps, s, B)
  <2> TAKE d, ps, s, B
  <2> QED
    BY Zenon DEF Rule!IsColouring, Rule!IsHeaviest, Rule!ChainKeyLess, Rule!Merged,
       Rule!Ancestors, Rule!IsGreedy, Rule!Inherited, Rule!IsKCluster,
       Rule!TopoKeyLess, Rule!AnticoneIn, Rule!in_anticone, Rule!Cardinality,
       Rules!IsColouring, Rules!IsHeaviest, Rules!ChainKeyLess, Rules!Merged,
       Rules!Ancestors, Rules!IsGreedy, Rules!Inherited, Rules!IsKCluster,
       Rules!TopoKeyLess, Rules!AnticoneIn, Rules!in_anticone, Rules!Cardinality
<1>6. \A d, ps, w, s, B : Rule!NodeOf(d, ps, w, s, B) = Rules!NodeOf(d, ps, w, s, B)
  <2> TAKE d, ps, w, s, B
  <2> QED
    BY Zenon DEF Rule!NodeOf, Rule!Merged, Rule!Ancestors, Rule!Inherited, Rule!WorkOf,
       Rule!AnticoneIn, Rule!in_anticone, Rule!Cardinality,
       Rules!NodeOf, Rules!Merged, Rules!Ancestors, Rules!Inherited, Rules!WorkOf,
       Rules!AnticoneIn, Rules!in_anticone, Rules!Cardinality
<1>7. \A d, id, n : Rule!With(d, id, n) = Rules!With(d, id, n)
  BY Zenon DEF Rule!With, Rules!With, Rule!Nodes, Rules!Nodes
<1> QED
  BY <1>1, <1>2, <1>3, <1>4, <1>5, <1>6, <1>7

\* An insertion by the rule keeps the DAG built by the rule.
LEMMA RuleNext ==
  ASSUME ByTheRule(archive), [Rule!Next]_archive
  PROVE  ByTheRule(archive')
<1>1. CASE archive' = archive
  BY <1>1
<1>2. ASSUME NEW id \in Id, NEW ps \in SUBSET Rule!Nodes(archive), NEW w \in Work,
             Rule!Insert(id, ps, w)
      PROVE  ByTheRule(archive')
  <2>1. PICK s \in ps : \E B \in SUBSET Rule!Merged(archive, s, ps) :
               /\ Rule!IsColouring(archive, ps, s, B)
               /\ archive' = Rule!With(archive, id, Rule!NodeOf(archive, ps, w, s, B))
    BY <1>2 DEF Rule!Insert
  <2>2. PICK B \in SUBSET Rule!Merged(archive, s, ps) :
               /\ Rule!IsColouring(archive, ps, s, B)
               /\ archive' = Rule!With(archive, id, Rule!NodeOf(archive, ps, w, s, B))
    BY <2>1
  <2>3. id \in Nat \ Nodes(archive) /\ ps \in SUBSET Nodes(archive) /\ ps # {} /\ w \in Nat
    BY <1>2, NumbersAssumption, RuleIsRules DEF Rule!Insert
  <2>4. Rules!IsColouring(archive, ps, s, B)
    BY <2>2, RuleIsRules
  <2>5. archive' = Rules!With(archive, id, Rules!NodeOf(archive, ps, w, s, B))
    BY <2>2, RuleIsRules
  <2> QED
    BY <2>3, <2>4, <2>5, InsertKeepsRule
<1> QED
  BY <1>1, <1>2 DEF Rule!Next

(***************************************************************************)
(* Every DAG that insertions build is the one the rule describes: later    *)
(* blocks change nothing of what was recorded, nor what should have been.  *)
(***************************************************************************)
THEOREM AlwaysByTheRule == Rule!Spec => []ByTheRule(archive)
<1>1. Rule!Init => ByTheRule(archive)
  BY RuleIsRules, NewSound, NumbersAssumption DEF Rule!Init, Sound
<1>2. ByTheRule(archive) /\ [Rule!Next]_archive => ByTheRule(archive)'
  BY RuleNext
<1> QED
  BY <1>1, <1>2, PTL DEF Rule!Spec

-----------------------------------------------------------------------------
(***************************************************************************)
(* Two nodes that insert by the rule, each what reaches it and in its own  *)
(* order; they need not share blocks, as those of Replicas do.             *)
(***************************************************************************)
Other == INSTANCE AtomicDag WITH dag <- replica

\* The rule, by the name it has for the other node.
LEMMA OtherIsRules ==
  /\ \A d : Other!Nodes(d) = Nodes(d)
  /\ \A w : Other!NewDag(w) = NewDag(w)
  /\ \A d, ps, s, B : Other!IsColouring(d, ps, s, B) <=> Rules!IsColouring(d, ps, s, B)
  /\ \A d, ps, w, s, B : Other!NodeOf(d, ps, w, s, B) = Rules!NodeOf(d, ps, w, s, B)
  /\ \A d, id, n : Other!With(d, id, n) = Rules!With(d, id, n)
<1>1. \A d : Other!Nodes(d) = Nodes(d) /\ Rules!Nodes(d) = Nodes(d)
  BY Zenon DEF Other!Nodes, Rules!Nodes, Nodes
<1>2. \A w : Other!NewDag(w) = NewDag(w)
  BY Zenon DEF Other!NewDag, Other!GenesisNode, NewDag
<1>3. \A d, ps, s, B : Other!IsColouring(d, ps, s, B) <=> Rules!IsColouring(d, ps, s, B)
  <2> TAKE d, ps, s, B
  <2> QED
    BY ZenonT(40) DEF Other!IsColouring, Other!IsHeaviest, Other!ChainKeyLess, Other!Merged,
       Other!Ancestors, Other!IsGreedy, Other!Inherited, Other!IsKCluster,
       Other!TopoKeyLess, Other!AnticoneIn, Other!in_anticone, Other!Cardinality,
       Rules!IsColouring, Rules!IsHeaviest, Rules!ChainKeyLess, Rules!Merged,
       Rules!Ancestors, Rules!IsGreedy, Rules!Inherited, Rules!IsKCluster,
       Rules!TopoKeyLess, Rules!AnticoneIn, Rules!in_anticone, Rules!Cardinality
<1>4. \A d, ps, w, s, B : Other!NodeOf(d, ps, w, s, B) = Rules!NodeOf(d, ps, w, s, B)
  <2> TAKE d, ps, w, s, B
  <2> QED
    BY ZenonT(40) DEF Other!NodeOf, Other!Merged, Other!Ancestors, Other!Inherited, Other!WorkOf,
       Other!AnticoneIn, Other!in_anticone, Other!Cardinality,
       Rules!NodeOf, Rules!Merged, Rules!Ancestors, Rules!Inherited, Rules!WorkOf,
       Rules!AnticoneIn, Rules!in_anticone, Rules!Cardinality
<1>5. \A d, id, n : Other!With(d, id, n) = Rules!With(d, id, n)
  BY Zenon DEF Other!With, Rules!With, Other!Nodes, Rules!Nodes
<1> QED
  BY <1>1, <1>2, <1>3, <1>4, <1>5

\* An insertion of the other node keeps its DAG built by the rule.
LEMMA OtherNext ==
  ASSUME ByTheRule(replica), [Other!Next]_replica
  PROVE  ByTheRule(replica')
<1>1. CASE replica' = replica
  BY <1>1
<1>2. ASSUME NEW id \in Id, NEW ps \in SUBSET Other!Nodes(replica), NEW w \in Work,
             Other!Insert(id, ps, w)
      PROVE  ByTheRule(replica')
  <2>1. PICK s \in ps : \E B \in SUBSET Other!Merged(replica, s, ps) :
               /\ Other!IsColouring(replica, ps, s, B)
               /\ replica' = Other!With(replica, id, Other!NodeOf(replica, ps, w, s, B))
    BY <1>2 DEF Other!Insert
  <2>2. PICK B \in SUBSET Other!Merged(replica, s, ps) :
               /\ Other!IsColouring(replica, ps, s, B)
               /\ replica' = Other!With(replica, id, Other!NodeOf(replica, ps, w, s, B))
    BY <2>1
  <2>3. id \in Nat \ Nodes(replica) /\ ps \in SUBSET Nodes(replica) /\ ps # {} /\ w \in Nat
    BY <1>2, NumbersAssumption, OtherIsRules DEF Other!Insert
  <2>4. Rules!IsColouring(replica, ps, s, B)
    BY <2>2, OtherIsRules
  <2>5. replica' = Rules!With(replica, id, Rules!NodeOf(replica, ps, w, s, B))
    BY <2>2, OtherIsRules
  <2> QED
    BY <2>3, <2>4, <2>5, InsertKeepsRule
<1> QED
  BY <1>1, <1>2 DEF Other!Next

(***************************************************************************)
(* At any time two nodes record the same for every block that both have,   *)
(* as long as an id stands for one block.  Selected parents, colours,      *)
(* scores and weights are the same on every node (ghostdag.rs).            *)
(***************************************************************************)
THEOREM NodesAgree ==
  Rule!Spec /\ Other!Spec
    => [](SameBlocks(archive, replica) => SameRecords(archive, replica))
<1>1. Rule!Spec => []ByTheRule(archive)
  BY AlwaysByTheRule
<1>2. Other!Init => ByTheRule(replica)
  BY OtherIsRules, NewSound, NumbersAssumption DEF Other!Init, Sound
<1>3. ByTheRule(replica) /\ [Other!Next]_replica => ByTheRule(replica)'
  BY OtherNext
<1>4. ByTheRule(archive) /\ ByTheRule(replica)
        => (SameBlocks(archive, replica) => SameRecords(archive, replica))
  BY Agreement
<1> QED
  BY <1>1, <1>2, <1>3, <1>4, PTL DEF Other!Spec

-----------------------------------------------------------------------------
(***************************************************************************)
(* The archive of Replicas computes what the rule asks for.                *)
(***************************************************************************)
\* The archive starts as the rule does.
LEMMA ArchiveInit ==
  ASSUME Init
  PROVE  ByTheRule(archive) /\ Rule!Init
<1>1. PICK w \in Work : archive = NewDag(w)
  BY DEF Init
<1>4. ByTheRule(archive)
  BY <1>1, NewSound, NumbersAssumption DEF Sound
<1>5. Rule!Init
  BY <1>1, RuleIsRules DEF Rule!Init
<1> QED
  BY <1>4, <1>5

\* Every step leaves the archive built by the rule and takes a step of it,
\* or none.
LEMMA ArchiveNext ==
  ASSUME ByTheRule(archive), [Next]_vars
  PROVE  ByTheRule(archive') /\ [Rule!Next]_archive
<1>1. ASSUME NEW id \in Id, NEW ps \in SUBSET Nodes(archive), NEW w \in Work, Mine(id, ps, w)
      PROVE  ByTheRule(archive') /\ Rule!Next
  <2>1. /\ Cardinality(ps) <= MaxParents /\ id \notin Nodes(archive) /\ ps # {}
        /\ archive' = insert(archive, id, ps, w, NoPruning)
    BY <1>1 DEF Mine, Admissible
  <2>2. id \in Nat \ Nodes(archive) /\ w \in Nat
    BY <2>1, NumbersAssumption
  <2>3. archive' = Wired(archive, id, ps, w)
    BY <2>1, InsertIs
  <2>4. PICK s \in ps : \E B \in SUBSET Rules!Merged(archive, s, ps) :
           /\ Rules!IsColouring(archive, ps, s, B)
           /\ Wired(archive, id, ps, w) = Rules!With(archive, id, Rules!NodeOf(archive, ps, w, s, B))
           /\ ByTheRule(Wired(archive, id, ps, w))
    BY <2>1, <2>2, WiredIs, NumbersAssumption
  <2>5. PICK B \in SUBSET Rules!Merged(archive, s, ps) :
           /\ Rules!IsColouring(archive, ps, s, B)
           /\ Wired(archive, id, ps, w) = Rules!With(archive, id, Rules!NodeOf(archive, ps, w, s, B))
           /\ ByTheRule(Wired(archive, id, ps, w))
    BY <2>4
  <2>6. /\ B \in SUBSET Rule!Merged(archive, s, ps)
        /\ Rule!IsColouring(archive, ps, s, B)
        /\ archive' = Rule!With(archive, id, Rule!NodeOf(archive, ps, w, s, B))
    BY <2>3, <2>5, RuleIsRules
  <2>7. /\ Rule!Cardinality(ps) <= MaxParents /\ id \notin Rule!Nodes(archive)
        /\ ps \in SUBSET Rule!Nodes(archive)
    BY <2>1, RuleIsRules
  <2>8. Rule!Insert(id, ps, w)
    BY <2>1, <2>6, <2>7 DEF Rule!Insert
  <2>9. Rule!Next
    BY <2>7, <2>8 DEF Rule!Next
  <2> QED
    BY <2>3, <2>5, <2>9
<1>2. ASSUME NEW b \in Nodes(archive), Deliver(b) PROVE archive' = archive
  BY <1>2 DEF Deliver
<1>3. CASE UNCHANGED vars
  BY <1>3 DEF vars
<1> QED
  BY <1>1, <1>2, <1>3 DEF Next

(***************************************************************************)
(* Dag::insert, which walks, sorts, colours one candidate at a time and    *)
(* adds up what its selected parent recorded, records for every block what *)
(* GHOSTDAG promises: the ancestry, the one greedy k-cluster over the      *)
(* selected parent's, and their sizes and weights (ghostdag.rs, dag.rs).   *)
(***************************************************************************)
THEOREM ArchiveFollows == Spec => ArchiveFollowsRule
<1>1. Init => ByTheRule(archive) /\ Rule!Init
  BY ArchiveInit
<1>2. ByTheRule(archive) /\ [Next]_vars
        => ByTheRule(archive)' /\ [Rule!Next]_archive
  BY ArchiveNext
<1> QED
  BY <1>1, <1>2, PTL DEF Spec, ArchiveFollowsRule, Rule!Spec

-----------------------------------------------------------------------------
(***************************************************************************)
(* The two nodes.  As long as the replica has evicted nothing, what it     *)
(* holds is a DAG of the rule too.                                         *)
(***************************************************************************)
AgreeInv ==
  /\ Sound(archive)
  /\ evicted = {} => /\ Sound(replica)
                     /\ Nodes(replica) \subseteq Nodes(archive)
                     /\ SameBlocks(archive, replica)

\* Pruning that evicts nothing changes nothing.
LEMMA NothingEvicted ==
  ASSUME NEW d, Sound(d), NEW dp, Nodes(d) \subseteq Nodes(prune_old_blocks(d, dp))
  PROVE  prune_old_blocks(d, dp) = d
<1>1. CASE pruning_point(d, dp) = Genesis
  BY <1>1, Zenon DEF prune_old_blocks
<1>2. CASE pruning_point(d, dp) # Genesis
  <2> DEFINE E == Evictable(d, pruning_point(d, dp))
             r == remove_blocks(d, E)
  <2>1. prune_old_blocks(d, dp) = r
    BY <1>2, Zenon DEF prune_old_blocks
  <2> HIDE DEF E
  <2>2. r = [tips |-> d.tips \ E, node |-> [b \in Nodes(d) \ E |-> d.node[b]]]
    BY Zenon DEF remove_blocks
  <2>3. Nodes(r) = Nodes(d) \ E
    <3> HIDE DEF r
    <3> QED
      BY <2>2 DEF Nodes
  <2>4. Nodes(d) \ E = Nodes(d)
    BY <2>1, <2>3
  <2>5. d.tips \ E = d.tips
    BY <2>4 DEF Sound, Childless
  <2>6. d = [tips |-> d.tips, node |-> [b \in Nodes(d) |-> d.node[b]]]
    BY DEF Sound
  <2> HIDE DEF r
  <2> QED
    BY <2>1, <2>2, <2>4, <2>5, <2>6
<1> QED
  BY <1>1, <1>2

\* Replica and archive start equal.
LEMMA AgreeInit ==
  ASSUME Init
  PROVE  AgreeInv
<1>1. PICK w \in Work : archive = NewDag(w) /\ replica = NewDag(w)
  BY DEF Init
<1>6. Sound(archive)
  BY <1>1, NewSound, NumbersAssumption
<1>7. archive = replica
  BY <1>1
<1> QED
  BY <1>6, <1>7 DEF AgreeInv, SameBlocks

\* A block mined on the archive leaves what the replica holds untouched.
LEMMA MineAgrees ==
  ASSUME AgreeInv, NEW id \in Id, NEW ps \in SUBSET Nodes(archive), NEW w \in Work,
         Mine(id, ps, w)
  PROVE  AgreeInv'
<1>1. /\ id \notin Nodes(archive) /\ ps # {} /\ replica' = replica /\ evicted' = evicted
      /\ archive' = insert(archive, id, ps, w, NoPruning)
  BY DEF Mine, Admissible
<1>2. archive' = Wired(archive, id, ps, w)
  BY <1>1, InsertIs
<1>3. id \in Nat \ Nodes(archive) /\ w \in Nat /\ Sound(archive)
  BY <1>1, NumbersAssumption DEF AgreeInv
<1>4. /\ Sound(archive') /\ Nodes(archive') = Nodes(archive) \cup {id}
      /\ \A b \in Nodes(archive) : archive'.node[b] = archive.node[b]
  <2>1. Grown(archive, Wired(archive, id, ps, w), id, ps, w)
    BY <1>1, <1>3, WiredSound, NumbersAssumption
  <2> QED
    BY <1>2, <2>1 DEF Grown
<1>5. ASSUME evicted = {}
      PROVE  /\ Sound(replica) /\ Nodes(replica) \subseteq Nodes(archive')
             /\ SameBlocks(archive', replica)
  <2>1. /\ Sound(replica) /\ Nodes(replica) \subseteq Nodes(archive)
        /\ \A b \in Nodes(replica) : /\ archive.node[b].parents = replica.node[b].parents
                                     /\ archive.node[b].work = replica.node[b].work
    BY <1>5, SameNodes DEF AgreeInv, SameBlocks
  <2> QED
    BY <1>4, <2>1, SameNodes DEF SameBlocks
<1> QED
  BY <1>1, <1>4, <1>5 DEF AgreeInv

\* A block the replica receives gets the record the archive gave it.
LEMMA DeliverAgrees ==
  ASSUME AgreeInv, NEW b \in Nodes(archive), Deliver(b)
  PROVE  AgreeInv'
<1> DEFINE blk == archive.node[b]
           d == insert(replica, b, blk.parents, blk.work, depth)
           e == Wired(replica, b, blk.parents, blk.work)
<1>1. /\ archive' = archive
      /\ Admissible(replica, b, blk.parents, depth)
      /\ IF reach'.dead THEN replica' = replica /\ evicted' = evicted
         ELSE /\ replica' = d
              /\ evicted' = evicted \cup ((Nodes(replica) \cup {b}) \ Nodes(d))
  BY DEF Deliver
<1>2. CASE reach'.dead
  BY <1>1, <1>2 DEF AgreeInv
<1>3. CASE ~reach'.dead
  <2>1. SUFFICES ASSUME evicted' = {}
                 PROVE  /\ Sound(replica') /\ Nodes(replica') \subseteq Nodes(archive)
                        /\ SameBlocks(archive, replica')
    BY <1>1 DEF AgreeInv
  <2>2. evicted = {} /\ (Nodes(replica) \cup {b}) \subseteq Nodes(d) /\ replica' = d
    BY <1>1, <1>3, <2>1
  <2>3. /\ Sound(archive) /\ Sound(replica) /\ Nodes(replica) \subseteq Nodes(archive)
        /\ \A c \in Nodes(replica) : /\ archive.node[c].parents = replica.node[c].parents
                                     /\ archive.node[c].work = replica.node[c].work
    BY <2>2, SameNodes DEF AgreeInv, SameBlocks
  <2>4. /\ b \notin Nodes(replica) /\ blk.parents # {} /\ blk.parents \in SUBSET Nodes(replica)
    BY <1>1 DEF Admissible
  <2>5. b \in Nat /\ blk.work \in Nat
    BY <2>3, WellFormedIs DEF Sound, ByTheRule
  <2>6. /\ Sound(e) /\ Nodes(e) = Nodes(replica) \cup {b}
        /\ e.node[b].parents = blk.parents /\ e.node[b].work = blk.work
        /\ \A c \in Nodes(replica) : e.node[c] = replica.node[c]
    <3> DEFINE ps == blk.parents
               w == blk.work
    <3> HIDE DEF ps, w, d
    <3>1. Grown(replica, Wired(replica, b, ps, w), b, ps, w)
      BY <2>3, <2>4, <2>5, WiredSound, NumbersAssumption DEF ps, w
    <3> QED
      BY <3>1 DEF Grown, ps, w
  <2>7. d = prune_old_blocks(e, depth)
    BY Zenon DEF insert, Wired
  <2> HIDE DEF e, d
  <2>8. d = e
    BY <2>2, <2>6, <2>7, NothingEvicted
  <2> QED
    BY <2>2, <2>3, <2>6, <2>8, SameNodes DEF SameBlocks
<1> QED
  BY <1>2, <1>3

\* What the invariant says of the two nodes: equal DAGs are ordered alike.
LEMMA AgreeInvSuffices ==
  ASSUME AgreeInv
  PROVE  SameColouringUnpruned /\ (evicted = {} => SameOrder)
<1> SUFFICES ASSUME evicted = {} PROVE SameColouring /\ SameOrder
  BY DEF SameColouringUnpruned
<1>1. Sound(archive) /\ Sound(replica) /\ SameBlocks(archive, replica)
  BY DEF AgreeInv
<1>2. SameRecords(archive, replica)
  BY <1>1, Agreement DEF Sound
<1>3. \A b \in Nodes(archive) \cap Nodes(replica) : archive.node[b] = replica.node[b]
  BY <1>2, SameNodes DEF SameRecords
<1>4. SameColouring
  <2>1. \A b \in Common : archive.node[b] = replica.node[b]
    BY <1>3 DEF Common
  <2> QED
    BY <2>1, Zenon DEF SameColouring, Ghostdag
<1>5. ASSUME Nodes(archive) = Nodes(replica) PROVE archive = replica
  <2>1. \A b \in Nodes(archive) : archive.node[b] = replica.node[b]
    BY <1>3, <1>5
  <2>2. Childless(archive) = Childless(replica)
    BY <1>5, <2>1 DEF Childless
  <2>3. [b \in Nodes(archive) |-> archive.node[b]] = [b \in Nodes(replica) |-> replica.node[b]]
    BY <1>5, <2>1
  <2>4. /\ archive = [tips |-> Childless(archive), node |-> [b \in Nodes(archive) |-> archive.node[b]]]
        /\ replica = [tips |-> Childless(replica), node |-> [b \in Nodes(replica) |-> replica.node[b]]]
    BY <1>1, Zenon DEF Sound
  <2> QED
    BY <2>2, <2>3, <2>4, Zenon
<1>6. SameOrder
  BY <1>5, Zenon DEF SameOrder
<1> QED
  BY <1>4, <1>6

(***************************************************************************)
(* As long as the replica has evicted nothing, the two nodes record the    *)
(* same for every block both have, and once they have the same blocks they *)
(* agree on the total order, whatever order the blocks came in.            *)
(***************************************************************************)
THEOREM AgreeUnpruned == Spec => [](SameColouringUnpruned /\ (evicted = {} => SameOrder))
<1>1. Init => AgreeInv
  BY AgreeInit
<1>2. AgreeInv /\ [Next]_vars => AgreeInv'
  <2> SUFFICES ASSUME AgreeInv, [Next]_vars PROVE AgreeInv'
    OBVIOUS
  <2>1. CASE UNCHANGED vars
    BY <2>1 DEF AgreeInv, vars
  <2>2. CASE Next
    BY <2>2, MineAgrees, DeliverAgrees DEF Next
  <2> QED
    BY <2>1, <2>2
<1>3. AgreeInv => SameColouringUnpruned /\ (evicted = {} => SameOrder)
  BY AgreeInvSuffices
<1> QED
  BY <1>1, <1>2, <1>3, PTL DEF Spec


-----------------------------------------------------------------------------
(***************************************************************************)
(* In every state, and from one state to the next.                         *)
(***************************************************************************)
\* The archive is built by the rule from blocks with ids.
OrderInv == AgreeInv /\ Nodes(archive) \subseteq Id \cup {Genesis}

\* Then the orders are complete and topological.
LEMMA OrderInvExact ==
  ASSUME OrderInv
  PROVE  OrderExact
<1>1. Sound(archive) /\ ByTheRule(archive) /\ NoBlock \notin Nodes(archive)
  BY NoBlockAssumption DEF OrderInv, AgreeInv, Sound
<1>2. OrderCoversPast
  <2> SUFFICES ASSUME NEW b \in Nodes(archive)
               PROVE  LET order == OrderOf(archive, b)
                      IN  /\ ToSet(order) = archive.node[b].past \cup {b}
                          /\ Len(order) = Cardinality(archive.node[b].past) + 1
    BY DEF OrderCoversPast
  <2>1. Lists(archive, OrderOf(archive, b), archive.node[b].past \cup {b})
    BY <1>1, OrderLists
  <2>2. IsFiniteSet(archive.node[b].past) /\ b \notin archive.node[b].past
    BY <1>1, WellFormedIs, FS_Subset DEF ByTheRule
  <2>3. Cardinality(archive.node[b].past \cup {b}) = Cardinality(archive.node[b].past) + 1
    <3> DEFINE P == archive.node[b].past
    <3>1. IsFiniteSet(P) /\ b \notin P
      BY <2>2
    <3> HIDE DEF P
    <3>2. Cardinality(P \cup {b}) = Cardinality(P) + 1
      BY <3>1, FS_AddElement
    <3> QED
      BY <3>2 DEF P
  <2> QED
    BY <2>1, <2>3 DEF Lists
<1>3. LinearizeIsTopological
  <2>1. Lists(archive, linearize(archive), Nodes(archive))
    BY <1>1, LinearizeLists
  <2>2. DOMAIN linearize(archive) = 1 .. Len(linearize(archive))
    BY <2>1 DEF Lists
  <2> QED
    BY <2>1, <2>2 DEF Lists, LinearizeIsTopological
<1> QED
  BY <1>2, <1>3 DEF OrderExact

\* What a sequence continues begins with it.
LEMMA ContinuedIsPrefix ==
  ASSUME NEW X, NEW q \in Seq(X), NEW r \in Seq(X)
  PROVE  IsPrefix(q, q \o r)
BY DEF IsPrefix

\* Every step keeps the invariant, and one that extends the selected chain
\* leaves what was ordered in its place.
LEMMA OrderStep ==
  ASSUME OrderInv, [Next]_vars
  PROVE  OrderInv' /\ [OrderGrowsAtTheEnd]_archive
<1>1. AgreeInv' /\ Nodes(archive') \subseteq Id \cup {Genesis}
      /\ (archive' # archive =>
            \E id \in Id, ps \in SUBSET Nodes(archive), w \in Work : Mine(id, ps, w))
  <2>1. ASSUME NEW id \in Id, NEW ps \in SUBSET Nodes(archive), NEW w \in Work, Mine(id, ps, w)
        PROVE  AgreeInv' /\ Nodes(archive') \subseteq Id \cup {Genesis}
    <3>1. AgreeInv'
      BY <2>1, MineAgrees DEF OrderInv
    <3>2. Nodes(archive') = Nodes(archive) \cup {id}
      <4>1. archive' = Wired(archive, id, ps, w)
        BY <2>1, InsertIs DEF Mine
      <4> QED
        BY <4>1 DEF Wired, Nodes
    <3> QED
      BY <3>1, <3>2 DEF OrderInv
  <2>2. ASSUME NEW b \in Nodes(archive), Deliver(b)
        PROVE  AgreeInv' /\ archive' = archive
    <3>1. AgreeInv'
      BY <2>2, DeliverAgrees DEF OrderInv
    <3> QED
      BY <2>2, <3>1 DEF Deliver
  <2>3. CASE UNCHANGED vars
    BY <2>3 DEF OrderInv, AgreeInv, vars
  <2> QED
    BY <2>1, <2>2, <2>3 DEF Next, OrderInv
<1>2. ASSUME archive' # archive PROVE OrderGrowsAtTheEnd
  <2> DEFINE d == archive
             e == archive'
             t == selected_tip(d)
             u == selected_tip(e)
             T == Nodes(e) \ (e.node[u].past \cup {u})
             M == Rules!Merged(e, t, e.node[u].parents)
  <2>1. PICK id \in Id : \E ps \in SUBSET Nodes(archive), w \in Work : Mine(id, ps, w)
    BY <1>1, <1>2
  <2>2. PICK ps \in SUBSET Nodes(archive) : \E w \in Work : Mine(id, ps, w)
    BY <2>1
  <2>3. PICK w \in Work : Mine(id, ps, w)
    BY <2>2
  <2>4. /\ id \notin Nodes(d) /\ ps # {} /\ e = insert(d, id, ps, w, NoPruning)
    BY <2>3 DEF Mine, Admissible
  <2>5. /\ id \in Nat \ Nodes(d) /\ w \in Nat /\ Sound(d) /\ e = Wired(d, id, ps, w)
    BY <2>4, InsertIs, NumbersAssumption DEF OrderInv, AgreeInv
  <2>6. Grown(d, e, id, ps, w)
    BY <2>4, <2>5, WiredSound, NumbersAssumption
  <2>7. /\ Sound(e) /\ ByTheRule(d) /\ ByTheRule(e)
        /\ NoBlock \notin Nodes(e) /\ Nodes(d) \subseteq Nodes(e)
        /\ \A b \in Nodes(d) : e.node[b] = d.node[b]
    BY <1>1, <2>5, <2>6, NoBlockAssumption DEF Grown, Sound
  <2> HIDE DEF d, e
  <2>8. t \in Nodes(d) /\ u \in Nodes(e)
    BY <2>5, <2>7, TipIs
  <2> SUFFICES ASSUME e.node[u].sp = t PROVE IsPrefix(OrderOf(d, t), linearize(e))
    BY DEF OrderGrowsAtTheEnd, d, e
  <2>9. u # Genesis
    BY <2>7, <2>8, SelectedBelow
  <2>10. /\ linearize(e) = OrderOf(e, u) \o SortTopo(e, T)
         /\ OrderOf(e, u) = OrderOf(e, t) \o Append(SortTopo(e, M), u)
         /\ OrderOf(e, t) = OrderOf(d, t)
    BY <2>7, <2>8, <2>9, LinearizeIs, OrderIs, SameOrders
  <2>11. /\ OrderOf(d, t) \in Seq(Nodes(e)) /\ SortTopo(e, T) \in Seq(Nodes(e))
         /\ Append(SortTopo(e, M), u) \in Seq(Nodes(e))
    <3>0. WellFormed(e) /\ PastIsAncestry(e)
      BY <2>7, RuledAncestry DEF ByTheRule
    <3>1. OrderOf(e, t) \in Seq(Nodes(e))
      BY <2>7, <2>8, OrderIs
    <3>2. T \in SUBSET Nodes(e)
      OBVIOUS
    <3>3. M \in SUBSET Nodes(e)
      <4>1. t \in Nodes(e) /\ e.node[u].parents \in SUBSET Nodes(e)
        BY <2>7, <2>8, <3>0, WellFormedIs
      <4> QED
        BY <3>0, <4>1, MergesetIs
    <3> HIDE DEF T, M
    <3>4. SortTopo(e, T) \in Seq(T) /\ SortTopo(e, M) \in Seq(M)
      BY <3>0, <3>2, <3>3, WellNumbered, SortTopoLists
    <3>5. SortTopo(e, T) \in Seq(Nodes(e)) /\ SortTopo(e, M) \in Seq(Nodes(e))
      BY <3>2, <3>3, <3>4
    <3> QED
      BY <2>8, <2>10, <3>1, <3>5, AppendIs
  <2> DEFINE o == OrderOf(d, t)
             p == Append(SortTopo(e, M), u)
             q == SortTopo(e, T)
  <2> HIDE DEF o, p, q
  <2>12. o \in Seq(Nodes(e)) /\ p \in Seq(Nodes(e)) /\ q \in Seq(Nodes(e)) /\ linearize(e) = (o \o p) \o q
    BY <2>10, <2>11 DEF o, p, q
  <2>13. (o \o p) \o q = o \o (p \o q) /\ p \o q \in Seq(Nodes(e))
    BY <2>12
  <2>14. IsPrefix(o, o \o (p \o q))
    BY <2>12, <2>13, ContinuedIsPrefix
  <2> QED
    BY <2>12, <2>13, <2>14 DEF o
<1> QED
  BY <1>1, <1>2 DEF OrderInv

(***************************************************************************)
(* At every time the order lists every block once and after its parents,   *)
(* that of a block lists its past, and no insertion that extends the       *)
(* selected chain moves anything listed before the old selected tip        *)
(* (linearize, on which the ledger's replay of a tip relies).              *)
(***************************************************************************)
THEOREM OrderIsSound == Spec => OrderSound
<1>1. Init => OrderInv
  <2> SUFFICES ASSUME Init PROVE OrderInv
    OBVIOUS
  <2>1. Nodes(archive) = {Genesis}
    BY DEF Init, NewDag, Nodes
  <2> QED
    BY <2>1, AgreeInit DEF OrderInv
<1>2. OrderInv /\ [Next]_vars => OrderInv' /\ [OrderGrowsAtTheEnd]_archive
  BY OrderStep
<1>3. OrderInv => OrderExact
  BY OrderInvExact
<1> QED
  BY <1>1, <1>2, <1>3, PTL DEF Spec, OrderSound


-----------------------------------------------------------------------------
(***************************************************************************)
(* Eviction.  What is left of a DAG a after the blocks of E were evicted:  *)
(* a block keeps the parents it had and every ancestor that is not in E,   *)
(* and its ancestors are left or in E.  E is closed downwards, genesis     *)
(* apart, so that a walk over parents from a block that is left reaches    *)
(* each ancestor outside E (PartMergeset): every block on the way has that *)
(* ancestor, and is therefore not in E.                                    *)
(***************************************************************************)
Keeps(a, r, E, b) ==
  /\ r.node[b].parents = a.node[b].parents
  /\ r.node[b].past \subseteq a.node[b].past
  /\ a.node[b].past \subseteq Nodes(r) \cup E
  /\ a.node[b].past \ E \subseteq r.node[b].past
  /\ IF b = Genesis THEN r.node[b].sp = NoBlock ELSE r.node[b].sp \in a.node[b].parents
  /\ r.node[b].sizes \in SizesOf(Nodes(a))

PartOf(a, r, E) ==
  /\ Numbered(r)
  /\ Nodes(r) \subseteq Nodes(a) /\ E \subseteq Nodes(a)
  /\ r.tips \subseteq Nodes(r) /\ r.tips # {}
  /\ \A x \in E : a.node[x].past \subseteq E \cup {Genesis}
  /\ \A b \in Nodes(r) : Keeps(a, r, E, b)

\* The whole DAG.
Whole(a) == ByTheRule(a) /\ NoBlock \notin Nodes(a)

\* Ancestry in the whole DAG, block by block.
LEMMA WholeAncestry ==
  ASSUME NEW a, Whole(a)
  PROVE  /\ IsFiniteSet(Nodes(a)) /\ Nodes(a) \subseteq Nat
         /\ \A b \in Nodes(a) :
              /\ a.node[b].work \in Nat
              /\ a.node[b].parents \subseteq Nodes(a)
              /\ a.node[b].parents \subseteq a.node[b].past
              /\ a.node[b].past \subseteq Nodes(a) \ {b}
              /\ \A x \in a.node[b].past : a.node[x].past \subseteq a.node[b].past
              /\ a.node[b].past = Rules!Ancestors(a, a.node[b].parents)
              /\ a.node[b].past_size \in Nat
              /\ \A x \in a.node[b].parents : PastBelow(a, x, b)
<1>1. WellFormed(a) /\ PastIsAncestry(a)
  BY RuledAncestry DEF Whole, ByTheRule
<1> QED
  BY <1>1, WellFormedIs, ParentsBefore DEF Whole, PastIsAncestry, Rules!Ancestors

\* An ancestor of ps is in ps or in the past of one of them.
LEMMA AncestorsAre ==
  ASSUME NEW a, NEW ps, NEW x
  PROVE  x \in Rules!Ancestors(a, ps) <=> x \in ps \/ \E p \in ps : x \in a.node[p].past
BY DEF Rules!Ancestors

\* The mergeset found in what is left holds only ancestors, and all that are
\* neither evicted nor in the past of the selected parent.
LEMMA PartMergeset ==
  ASSUME NEW a, Whole(a), NEW r, NEW E, PartOf(a, r, E),
         NEW s \in Nodes(a), NEW ps \in SUBSET Nodes(a),
         Rules!Ancestors(a, ps) \subseteq Nodes(r) \cup E
  PROVE  LET M == ToSet(mergeset_ordered(r, s, ps))
         IN  /\ M \subseteq Nodes(r) /\ M \subseteq Rules!Ancestors(a, ps)
             /\ \A x \in Rules!Ancestors(a, ps) \ (E \cup {Genesis, s}) :
                  x \notin a.node[s].past => x \in M
<1> DEFINE P == Rules!Ancestors(a, ps)
           V == Outside(r, s)
           anc(x, y) == x \in a.node[y].past
<1>0. Numbered(r) /\ IsFiniteSet(Nodes(r)) /\ Nodes(r) \subseteq Nodes(a)
  BY DEF PartOf, Numbered
<1>1. PICK w : mergeset_ordered(r, s, ps) = SortTopo(r, w) /\ IsReach(r, s, ps, w)
  BY <1>0, MergesetWalk
<1>2. /\ w \in SUBSET V /\ ps \cap V \subseteq w
      /\ \A x \in w : r.node[x].parents \cap V \subseteq w
      /\ \A B : /\ ps \cap V \subseteq B
                /\ \A x \in B : r.node[x].parents \cap V \subseteq B
                => w \subseteq B
  BY <1>1, Zenon DEF IsReach
<1>3. V \in SUBSET Nodes(r)
  BY DEF Outside
<1>4. w \in SUBSET Nodes(r) /\ ToSet(mergeset_ordered(r, s, ps)) = w
  <2>1. w \in SUBSET Nodes(r)
    BY <1>2, <1>3
  <2>2. ToSet(SortTopo(r, w)) = w
    BY <1>0, <2>1, SortTopoLists
  <2> QED
    BY <1>1, <2>1, <2>2
<1>5. /\ \A x : x \in P <=> x \in ps \/ \E p \in ps : anc(x, p)
      /\ P \subseteq Nodes(a)
  BY AncestorsAre, WholeAncestry
<1>6. /\ \A b \in Nodes(r) : r.node[b].parents = a.node[b].parents
      /\ \A b \in Nodes(r) : r.node[b].past \subseteq a.node[b].past
      /\ \A z \in E : a.node[z].past \subseteq E \cup {Genesis}
  BY DEF PartOf, Keeps
<1> HIDE DEF P, V
<1>7. w \subseteq P
  <2>1. ps \cap V \subseteq P \cap V
    BY <1>5
  <2>2. ASSUME NEW x \in P \cap V, NEW y \in r.node[x].parents \cap V PROVE y \in P \cap V
    <3>1. x \in Nodes(r) /\ x \in Nodes(a) /\ y \in a.node[x].parents
      BY <1>0, <1>3, <1>6, <2>2
    <3>2. anc(y, x)
      BY <3>1, WholeAncestry
    <3>3. \E p \in ps : anc(y, p)
      <4>1. CASE x \in ps
        BY <3>2, <4>1
      <4>2. CASE \E p \in ps : anc(x, p)
        <5>1. PICK p \in ps : anc(x, p)
          BY <4>2
        <5>2. a.node[x].past \subseteq a.node[p].past
          BY <5>1, WholeAncestry
        <5> QED
          BY <3>2, <5>1, <5>2
      <4> QED
        BY <1>5, <4>1, <4>2
    <3> QED
      BY <1>5, <2>2, <3>3
  <2>3. w \subseteq P \cap V
    BY <1>2, <2>1, <2>2
  <2> QED
    BY <2>3
<1>8. ASSUME NEW x \in P \ (E \cup {Genesis, s}), ~anc(x, s), x \notin w PROVE FALSE
  <2>1. ASSUME NEW z \in P, z = x \/ anc(x, z) PROVE z \in V
    <3>1. z \notin E
      BY <1>6, <1>8, <2>1
    <3>2. z \in Nodes(r) /\ z # s
      BY <1>8, <2>1, <3>1 DEF P
    <3>3. ~is_ancestor(r, z, s)
      <4> SUFFICES ASSUME is_ancestor(r, z, s) PROVE FALSE
        OBVIOUS
      <4>1. anc(z, s)
        BY <1>6 DEF is_ancestor
      <4>2. a.node[z].past \subseteq a.node[s].past
        BY <4>1, WholeAncestry
      <4> QED
        BY <1>8, <2>1, <4>1, <4>2
    <3> QED
      BY <3>2, <3>3 DEF V, Outside
  <2> DEFINE C == {c \in w : anc(x, c)}
  <2>2. x \in V
    BY <2>1
  <2>3. PICK p \in ps : anc(x, p)
    BY <1>2, <1>5, <1>8, <2>2
  <2>4. p \in P /\ p \in C
    <3>1. p \in P
      BY <1>5
    <3> QED
      BY <1>2, <2>1, <2>3, <3>1
  <2>5. PICK c \in C : \A y \in C : y \notin a.node[c].past
    <3>1. C \in SUBSET Nodes(a) /\ C # {} /\ WellFormed(a)
      BY <1>0, <1>4, <2>4 DEF Whole, ByTheRule
    <3> HIDE DEF C
    <3> QED
      BY <3>1, SameNodes, HasOldest
  <2>6. c \in w /\ c \in Nodes(r) /\ c \in Nodes(a) /\ c \in P /\ anc(x, c)
    BY <1>0, <1>4, <1>7, <2>5
  <2>7. a.node[c].past \subseteq P
    <3>1. CASE c \in ps
      BY <1>5, <3>1
    <3>2. CASE \E q \in ps : anc(c, q)
      <4>1. PICK q \in ps : anc(c, q)
        BY <3>2
      <4>2. a.node[c].past \subseteq a.node[q].past
        BY <4>1, WholeAncestry
      <4> QED
        BY <1>5, <4>2
    <3> QED
      BY <1>5, <2>6, <3>1, <3>2
  <2>8. CASE x \in a.node[c].parents
    BY <1>2, <1>6, <1>8, <2>2, <2>6, <2>8
  <2>9. CASE \E q \in a.node[c].parents : anc(x, q)
    <3>1. PICK q \in a.node[c].parents : anc(x, q)
      BY <2>9
    <3>2. q \in a.node[c].past
      BY <2>6, <3>1, WholeAncestry
    <3>3. q \in V
      BY <2>1, <2>7, <3>1, <3>2
    <3>4. q \in w
      BY <1>2, <1>6, <2>6, <3>1, <3>3
    <3> QED
      BY <2>5, <3>1, <3>2, <3>4
  <2>10. a.node[c].past = Rules!Ancestors(a, a.node[c].parents)
    BY <2>6, WholeAncestry
  <2> QED
    BY <2>6, <2>8, <2>9, <2>10, AncestorsAre
<1> QED
  BY <1>4, <1>7, <1>8 DEF P


\* Appending adds the block.
LEMMA AppendSet ==
  ASSUME NEW X, NEW q \in Seq(X), NEW x \in X
  PROVE  ToSet(Append(q, x)) = ToSet(q) \cup {x}
<1> DEFINE n == Len(q)
           t == Append(q, x)
<1>1. /\ n \in Nat /\ t \in Seq(X) /\ Len(t) = n + 1 /\ t[n + 1] = x
      /\ \A i \in 1 .. n : t[i] = q[i]
  BY AppendIs
<1>2. DOMAIN t = 1 .. n + 1 /\ DOMAIN q = 1 .. n
  BY <1>1
<1> HIDE DEF n, t
<1>3. ToSet(t) = {t[i] : i \in 1 .. n + 1} /\ ToSet(q) = {q[i] : i \in 1 .. n}
  BY <1>2 DEF ToSet
<1>4. \A i : i \in 1 .. n + 1 <=> i \in 1 .. n \/ i = n + 1
  BY <1>1
<1> QED
  BY <1>1, <1>3, <1>4 DEF t

\* The selected chain of what is left: the block and ancestors of it, down to
\* where the selected parent is missing.
LEMMA PartChain ==
  ASSUME NEW a, Whole(a), NEW r, NEW E, PartOf(a, r, E), NEW p \in Nodes(r)
  PROVE  LET C == ToSet(ChainTo(r, p))
         IN  /\ p \in C /\ C \subseteq Nodes(r) /\ C \subseteq a.node[p].past \cup {p}
             /\ \A c \in C : r.node[c].sp \in Nodes(r) => r.node[c].sp \in C
<1> DEFINE N == Nodes(r)
           sp(x) == r.node[x].sp
           S(x) == ToSet(ChainTo(r, x))
           Good(x) == /\ x \in S(x) /\ S(x) \subseteq N /\ S(x) \subseteq a.node[x].past \cup {x}
                      /\ \A c \in S(x) : sp(c) \in N => sp(c) \in S(x)
           Bad == {x \in N : ~Good(x)}
<1>1. /\ \A x \in N : /\ x \in Nodes(a) /\ a.node[x].past_size \in Nat
                      /\ IF x = Genesis THEN sp(x) = NoBlock ELSE sp(x) \in a.node[x].parents
      /\ NoBlock \notin N
  BY WholeAncestry DEF PartOf, Keeps, Whole
<1>2. Grounded(r, N, a)
  <2>1. ASSUME NEW x \in N, sp(x) \in N PROVE PastBelow(a, sp(x), x)
    BY <1>1, <2>1, WholeAncestry
  <2> QED
    BY <1>1, <2>1 DEF Grounded
<1>3. ASSUME NEW x \in N
      PROVE  /\ sp(x) \notin N => S(x) = {x}
             /\ sp(x) \in N => S(x) = S(sp(x)) \cup {x}
  <2>1. CASE sp(x) \notin N
    <3>1. ChainTo(r, x) = <<x>>
      BY <1>2, <2>1, ChainIs
    <3>2. DOMAIN <<x>> = {1} /\ <<x>>[1] = x
      OBVIOUS
    <3>3. ToSet(<<x>>) = {x}
      BY <3>2 DEF ToSet
    <3> QED
      BY <2>1, <3>1, <3>3
  <2>2. CASE sp(x) \in N
    <3>1. ChainTo(r, x) = Append(ChainTo(r, sp(x)), x) /\ ChainTo(r, sp(x)) \in Seq(N)
      BY <1>2, <2>2, ChainIs
    <3> QED
      BY <2>2, <3>1, AppendSet
  <2> QED
    BY <2>1, <2>2
<1>4. Bad = {}
  <2> HIDE DEF S
  <2> SUFFICES ASSUME Bad # {} PROVE FALSE
    OBVIOUS
  <2>1. PICK x \in Bad : \A y \in Bad : ~PastBelow(a, y, x)
    <3>1. \A y \in Bad : a.node[y].past_size \in Nat
      BY <1>1
    <3> HIDE DEF Bad
    <3> QED
      BY <3>1, LowestOf
  <2>2. x \in N /\ x \in Nodes(a) /\ ~Good(x)
    BY <1>1, <2>1
  <2>3. CASE sp(x) \notin N
    BY <1>3, <2>2, <2>3
  <2>4. CASE sp(x) \in N
    <3>1. Good(sp(x)) /\ sp(x) \in Nodes(a)
      BY <1>1, <1>2, <2>1, <2>2, <2>4 DEF Grounded
    <3>2. x # Genesis
      BY <1>1, <2>2, <2>4
    <3>3. sp(x) \in a.node[x].past /\ a.node[sp(x)].past \subseteq a.node[x].past
      BY <1>1, <2>2, <3>2, WholeAncestry
    <3>4. S(x) = S(sp(x)) \cup {x}
      BY <1>3, <2>2, <2>4
    <3>5. Good(x)
      BY <2>2, <2>4, <3>1, <3>3, <3>4
    <3> QED
      BY <2>2, <3>5
  <2> QED
    BY <2>3, <2>4
<1>5. Good(p)
  BY <1>4
<1> QED
  BY <1>5

\* What is collected from a pruning point is its past, but for genesis, and
\* what was evicted before.
LEMMA EvictableIs ==
  ASSUME NEW a, Whole(a), NEW r, NEW E, PartOf(a, r, E), NEW p \in Nodes(r)
  PROVE  /\ Evictable(r, p) \subseteq a.node[p].past
         /\ a.node[p].past \subseteq Evictable(r, p) \cup E \cup {Genesis}
<1> DEFINE N == Nodes(r)
           C == ToSet(ChainTo(r, p))
           sp(x) == r.node[x].sp
           M(x) == ToSet(mergeset_ordered(r, sp(x), r.node[x].parents))
           walked == {b \in C : b # Genesis}
           X == Evictable(r, p)
<1>1. X = (walked \ {p}) \cup UNION {M(b) : b \in walked}
  BY Zenon DEF Evictable
<1>2. /\ p \in C /\ C \subseteq N /\ C \subseteq a.node[p].past \cup {p}
      /\ \A c \in C : sp(c) \in N => sp(c) \in C
  BY PartChain
<1>3. /\ N \subseteq Nodes(a)
      /\ \A x \in N : /\ r.node[x].parents = a.node[x].parents
                      /\ a.node[x].past \subseteq N \cup E
                      /\ x # Genesis => sp(x) \in a.node[x].parents
      /\ \A z \in E : a.node[z].past \subseteq E \cup {Genesis}
  BY DEF PartOf, Keeps
<1>4. ASSUME NEW c \in walked
      PROVE  /\ c \in N /\ c \in Nodes(a) /\ sp(c) \in a.node[c].past /\ M(c) \subseteq a.node[c].past
             /\ \A x \in a.node[c].past \ (E \cup {Genesis, sp(c)}) :
                  x \notin a.node[sp(c)].past => x \in M(c)
  <2> DEFINE s == sp(c)
             ps == r.node[c].parents
  <2>1. c \in N /\ c \in Nodes(a) /\ s \in a.node[c].parents /\ ps = a.node[c].parents
    BY <1>2, <1>3
  <2>2. /\ s \in Nodes(a) /\ s \in a.node[c].past /\ ps \in SUBSET Nodes(a)
        /\ a.node[c].past = Rules!Ancestors(a, ps) /\ a.node[c].past \subseteq N \cup E
    BY <1>3, <2>1, WholeAncestry
  <2> HIDE DEF s, ps
  <2>3. LET W == ToSet(mergeset_ordered(r, s, ps))
         IN  /\ W \subseteq Nodes(r) /\ W \subseteq Rules!Ancestors(a, ps)
             /\ \A x \in Rules!Ancestors(a, ps) \ (E \cup {Genesis, s}) :
                  x \notin a.node[s].past => x \in W
    BY <2>2, PartMergeset
  <2> QED
    BY <2>1, <2>2, <2>3 DEF s, ps
<1> HIDE DEF C, M, X
<1>5. X \subseteq a.node[p].past
  <2>1. walked \ {p} \subseteq a.node[p].past
    BY <1>2
  <2>2. ASSUME NEW b \in walked PROVE M(b) \subseteq a.node[p].past
    <3>1. a.node[b].past \subseteq a.node[p].past
      BY <1>2, <1>3, WholeAncestry
    <3> QED
      BY <1>4, <3>1
  <2> QED
    BY <1>1, <2>1, <2>2
<1>6. ASSUME NEW x \in a.node[p].past, x \notin X \cup E \cup {Genesis} PROVE FALSE
  <2> DEFINE D == {c \in C : x \in a.node[c].past}
  <2>1. PICK c \in D : \A y \in D : ~PastBelow(a, y, c)
    <3>1. D # {} /\ \A y \in D : a.node[y].past_size \in Nat
      BY <1>2, <1>3, WholeAncestry
    <3> HIDE DEF D
    <3> QED
      BY <3>1, LowestOf
  <2>2. c \in C /\ c \in N /\ c \in Nodes(a) /\ x \in a.node[c].past
    BY <1>2, <1>3, <2>1
  <2>3. c # Genesis
    <3>1. ByTheRule(a) /\ a.node[Genesis].past = {}
      BY GenesisFields DEF Whole
    <3> QED
      BY <2>2, <3>1
  <2>4. c \in walked
    BY <2>2, <2>3
  <2>5. sp(c) \in a.node[c].past /\ x \notin M(c)
    BY <1>1, <1>4, <1>6, <2>4
  <2>6. x = sp(c) \/ x \in a.node[sp(c)].past
    BY <1>4, <1>6, <2>2, <2>4, <2>5
  <2>7. sp(c) \in N
    BY <1>3, <1>6, <2>2, <2>5, <2>6
  <2>8. sp(c) \in C
    BY <1>2, <2>2, <2>7
  <2>9. CASE x = sp(c)
    <3>1. x # p
      BY <1>3, WholeAncestry
    <3> QED
      BY <1>1, <1>6, <2>8, <2>9, <3>1
  <2>10. CASE x \in a.node[sp(c)].past
    <3>1. sp(c) \in D
      BY <2>8, <2>10
    <3>2. PastBelow(a, sp(c), c)
      BY <1>3, <2>2, <2>3, WholeAncestry
    <3> QED
      BY <2>1, <3>1, <3>2
  <2> QED
    BY <2>6, <2>9, <2>10
<1> QED
  BY <1>5, <1>6 DEF X


\* The pruning point is genesis or on the selected chain.
LEMMA PointIs ==
  ASSUME NEW a, Whole(a), NEW r, NEW E, PartOf(a, r, E), NEW dp \in Nat \cup {NoPruning}
  PROVE  /\ selected_tip(r) \in r.tips
         /\ \/ pruning_point(r, dp) = Genesis
            \/ pruning_point(r, dp) \in ToSet(ChainTo(r, selected_tip(r)))
<1> DEFINE t == selected_tip(r)
           score(b) == r.node[b].blue_score
           C == ToSet(ChainTo(r, t))
           threshold == block_pruning_score(r, dp)
           high == {b \in C : score(b) >= threshold}
<1>1. /\ Numbered(r) /\ r.tips \in SUBSET Nodes(r) /\ r.tips # {}
      /\ \A b \in Nodes(r) : score(b) \in Nat
  BY DEF PartOf, Numbered
<1>2. t \in r.tips /\ t \in Nodes(r)
  BY <1>1, HeaviestIs DEF selected_tip, Rules!IsHeaviest
<1>3. t \in C /\ C \subseteq Nodes(r)
  <2> HIDE DEF t
  <2> QED
    BY <1>2, PartChain
<1>4. pruning_point(r, dp) =
        IF threshold = 0 THEN Genesis
        ELSE CHOOSE b \in high : \A c \in high : score(b) <= score(c)
  BY Zenon DEF pruning_point, selected_chain
<1>5. threshold = IF dp = NoPruning THEN 0 ELSE Max({0, score(t) - dp})
  BY Zenon DEF block_pruning_score
<1> HIDE DEF t, C, threshold
<1>6. ASSUME threshold # 0 PROVE threshold \in Int /\ threshold <= score(t)
  <2>1. dp \in Nat /\ threshold = Max({0, score(t) - dp})
    BY <1>5, <1>6
  <2> DEFINE v == score(t) - dp
  <2>2. v \in Int /\ v <= score(t)
    BY <1>1, <1>2, <2>1
  <2> HIDE DEF v
  <2>3. \E x \in {0, v} : \A y \in {0, v} : x >= y
    <3>1. v >= 0 \/ 0 >= v
      BY <2>2
    <3> QED
      BY <2>2, <3>1
  <2>4. Max({0, v}) \in {0, v}
    BY <2>3, Zenon DEF Max
  <2>5. threshold = v
    BY <1>6, <2>1, <2>4 DEF v
  <2> QED
    BY <2>2, <2>5
<1>7. ASSUME threshold # 0 PROVE pruning_point(r, dp) \in C
  <2>1. t \in high /\ high \in SUBSET Nodes(r)
    BY <1>3, <1>6, <1>7, <1>1, <1>2
  <2>2. \E b \in high : \A c \in high : score(b) <= score(c)
    <3> DEFINE H == {score(b) : b \in high}
    <3> HIDE DEF high
    <3>1. H \in SUBSET Nat /\ H # {}
      BY <1>1, <2>1
    <3>2. PICK k \in H : \A l \in H : k <= l
      <4> HIDE DEF H
      <4> QED
        BY <3>1, NatLeast
    <3> QED
      BY <3>2
  <2>3. (CHOOSE b \in high : \A c \in high : score(b) <= score(c)) \in high
    <3> HIDE DEF high
    <3> QED
      BY <2>2, Zenon
  <2>4. pruning_point(r, dp) \in high
    BY <1>4, <1>7, <2>3
  <2> QED
    BY <2>4
<1> QED
  BY <1>2, <1>4, <1>7 DEF t, C

\* What pruning leaves is a part again, with what it evicted added to the rest.
LEMMA PartPruned ==
  ASSUME NEW a, Whole(a), NEW r, NEW E, PartOf(a, r, E), NEW dp \in Nat \cup {NoPruning}
  PROVE  LET d == prune_old_blocks(r, dp)
         IN  /\ PartOf(a, d, E \cup (Nodes(r) \ Nodes(d))) /\ Nodes(d) \subseteq Nodes(r)
             /\ dp = NoPruning => Nodes(d) = Nodes(r)
<1> DEFINE p == pruning_point(r, dp)
           t == selected_tip(r)
           X == Evictable(r, p)
           d == prune_old_blocks(r, dp)
           F == E \cup (Nodes(r) \ Nodes(d))
<1>1. CASE p = Genesis
  <2>1. d = r
    BY <1>1, Zenon DEF prune_old_blocks
  <2>2. E \cup (Nodes(r) \ Nodes(r)) = E
    OBVIOUS
  <2> QED
    BY <2>1, <2>2
<1>2. CASE p # Genesis
  <2>1. dp # NoPruning
    <3>1. block_pruning_score(r, NoPruning) = 0
      BY DEF block_pruning_score
    <3>2. pruning_point(r, NoPruning) = Genesis
      BY <3>1, Zenon DEF pruning_point
    <3> QED
      BY <1>2, <3>2
  <2>2. t \in r.tips /\ p \in ToSet(ChainTo(r, t))
    BY <1>2, PointIs
  <2>3. d = [tips |-> r.tips \ X, node |-> [b \in Nodes(r) \ X |-> r.node[b]]]
    BY <1>2, Zenon DEF prune_old_blocks, remove_blocks
  <2> HIDE DEF X, d, t, p
  <2>4. /\ Nodes(d) = Nodes(r) \ X /\ d.tips = r.tips \ X
        /\ \A b \in Nodes(d) : d.node[b] = r.node[b]
    BY <2>3 DEF Nodes
  <2>5. /\ Numbered(r) /\ Nodes(r) \subseteq Nodes(a) /\ E \subseteq Nodes(a)
        /\ r.tips \subseteq Nodes(r)
        /\ \A x \in E : a.node[x].past \subseteq E \cup {Genesis}
        /\ \A b \in Nodes(r) : Keeps(a, r, E, b)
    BY DEF PartOf
  <2>6. t \in Nodes(r) /\ p \in Nodes(r) /\ p \in a.node[t].past \cup {t}
    <3>1. t \in Nodes(r)
      BY <2>2, <2>5
    <3> QED
      BY <2>2, <3>1, PartChain
  <2>7. X \subseteq a.node[p].past /\ a.node[p].past \subseteq X \cup E \cup {Genesis}
    BY <2>6, EvictableIs DEF X
  <2>8. p \in Nodes(a) /\ t \in Nodes(a) /\ a.node[p].past \subseteq a.node[t].past /\ t \notin X
    BY <2>5, <2>6, <2>7, WholeAncestry
  <2>9. d.tips \subseteq Nodes(d) /\ d.tips # {}
    BY <2>2, <2>4, <2>5, <2>8
  <2>10. F \subseteq Nodes(a) /\ E \subseteq F /\ X \subseteq F \cup (Nodes(a) \ Nodes(r))
    BY <2>4, <2>5, <2>7, <2>8, WholeAncestry
  <2>11. Numbered(d)
    <3>1. IsFiniteSet(Nodes(d))
      BY <2>4, <2>5, FS_Subset DEF Numbered
    <3> QED
      BY <2>4, <2>5, <3>1 DEF Numbered
  <2>12. ASSUME NEW x \in F PROVE a.node[x].past \subseteq F \cup {Genesis}
    <3>1. CASE x \in E
      BY <2>5, <2>10, <3>1
    <3>2. CASE x \in Nodes(r) \ Nodes(d)
      <4>1. x \in X /\ x \in a.node[p].past
        BY <2>4, <2>7, <3>2
      <4>2. a.node[x].past \subseteq X \cup E \cup {Genesis}
        BY <2>7, <2>8, <4>1, WholeAncestry
      <4>3. a.node[x].past \subseteq Nodes(r) \cup E
        BY <2>5, <3>2 DEF Keeps, PartOf
      <4> QED
        BY <2>4, <2>10, <4>2, <4>3
    <3> QED
      BY <3>1, <3>2
  <2>13. ASSUME NEW b \in Nodes(d) PROVE Keeps(a, d, F, b)
    <3>1. b \in Nodes(r) /\ Keeps(a, r, E, b) /\ d.node[b] = r.node[b]
      BY <2>4, <2>5
    <3>2. a.node[b].past \subseteq Nodes(d) \cup F /\ a.node[b].past \ F \subseteq r.node[b].past
      BY <3>1 DEF Keeps
    <3> QED
      BY <3>1, <3>2 DEF Keeps
  <2>14. PartOf(a, d, F)
    BY <2>4, <2>5, <2>9, <2>10, <2>11, <2>12, <2>13 DEF PartOf
  <2> QED
    BY <2>1, <2>4, <2>14 DEF d
<1> QED
  BY <1>1, <1>2


\* A block inserted into what is left keeps what the others keep.
LEMMA PartWired ==
  ASSUME NEW a, Whole(a), NEW r, NEW E, PartOf(a, r, E), NEW b \in Nodes(a) \ Nodes(r),
         NEW ps, ps = a.node[b].parents, ps # {}, ps \subseteq Nodes(r), NEW w \in Nat
  PROVE  /\ PartOf(a, Wired(r, b, ps, w), E)
         /\ Nodes(Wired(r, b, ps, w)) = Nodes(r) \cup {b}
         /\ Heaviest(r, ps) \in ps
<1> DEFINE e == Wired(r, b, ps, w)
           n == NewNode(r, ps, w)
           s == Heaviest(r, ps)
           M == ToSet(mergeset_ordered(r, s, ps))
<1>1. /\ Numbered(r) /\ Nodes(r) \subseteq Nodes(a) /\ E \subseteq Nodes(a)
      /\ r.tips \subseteq Nodes(r)
      /\ \A x \in E : a.node[x].past \subseteq E \cup {Genesis}
      /\ \A c \in Nodes(r) : Keeps(a, r, E, c)
  BY DEF PartOf
<1>2. /\ s \in ps /\ n.sp = s /\ n.parents = ps /\ n.work = w
      /\ n.past = r.node[s].past \cup {s} \cup M
      /\ n.past_size \in Nat /\ n.blue_score \in Nat /\ n.blue_work \in Nat
      /\ n.sizes \in SizesOf(Nodes(a))
  <2>1. /\ ps \in SUBSET Nodes(r) /\ IsFiniteSet(Nodes(a))
        /\ \A c \in Nodes(r) : r.node[c].sizes \in SizesOf(Nodes(a))
    BY <1>1, WholeAncestry DEF Keeps
  <2> QED
    BY <1>1, <2>1, NewNodeTyped
<1>3. e = [tips |-> (r.tips \ ps) \cup {b},
           node |-> [c \in Nodes(r) \cup {b} |-> IF c = b THEN n ELSE r.node[c]]]
  BY Zenon DEF Wired, n
<1> HIDE DEF n, s, e
<1>4. /\ Nodes(e) = Nodes(r) \cup {b} /\ e.tips = (r.tips \ ps) \cup {b}
      /\ e.node[b] = n /\ \A c \in Nodes(r) : e.node[c] = r.node[c]
  <2>1. /\ e.tips = (r.tips \ ps) \cup {b}
        /\ e.node = [c \in Nodes(r) \cup {b} |-> IF c = b THEN n ELSE r.node[c]]
    BY <1>3
  <2> QED
    BY <2>1 DEF Nodes
<1>5. /\ s \in Nodes(r) /\ s \in Nodes(a) /\ b \in Nodes(a) /\ ps \in SUBSET Nodes(a)
      /\ a.node[b].past = Rules!Ancestors(a, ps)
      /\ s \in a.node[b].past /\ a.node[s].past \subseteq a.node[b].past
  BY <1>1, <1>2, WholeAncestry
<1>6. a.node[b].past \subseteq Nodes(r) \cup E
  <2>1. ASSUME NEW x \in a.node[b].past PROVE x \in Nodes(r) \cup E
    <3>1. x \in ps \/ \E p \in ps : x \in a.node[p].past
      BY <1>5, AncestorsAre
    <3> QED
      BY <1>1, <3>1 DEF Keeps
  <2> QED
    BY <2>1
<1>7. /\ M \subseteq a.node[b].past
      /\ \A x \in a.node[b].past \ (E \cup {Genesis, s}) : x \notin a.node[s].past => x \in M
  <2>1. LET W == ToSet(mergeset_ordered(r, s, ps))
         IN  /\ W \subseteq Nodes(r) /\ W \subseteq Rules!Ancestors(a, ps)
             /\ \A x \in Rules!Ancestors(a, ps) \ (E \cup {Genesis, s}) :
                  x \notin a.node[s].past => x \in W
    BY <1>5, <1>6, PartMergeset
  <2> QED
    BY <1>5, <2>1
<1> HIDE DEF M
<1>8. n.past \subseteq a.node[b].past /\ a.node[b].past \ E \subseteq n.past
  <2>1. r.node[s].past \subseteq a.node[s].past /\ a.node[s].past \ E \subseteq r.node[s].past
    BY <1>1, <1>5 DEF Keeps
  <2>2. Genesis \in a.node[s].past \cup {s}
    BY <1>5, GenesisBelow DEF Whole
  <2> QED
    BY <1>2, <1>5, <1>7, <2>1, <2>2
<1>9. b # Genesis
  <2>1. a.node[Genesis].parents = {}
    BY SelectedBelow DEF Whole
  <2> QED
    BY <2>1
<1>10. Keeps(a, e, E, b)
  BY <1>2, <1>4, <1>6, <1>8, <1>9 DEF Keeps
<1>11. ASSUME NEW c \in Nodes(r) PROVE Keeps(a, e, E, c)
  BY <1>1, <1>4 DEF Keeps
<1>12. Numbered(e)
  <2>1. IsFiniteSet(Nodes(e)) /\ Nodes(e) \subseteq Nat
    <3>1. Nodes(e) \in SUBSET Nodes(a) /\ IsFiniteSet(Nodes(a)) /\ Nodes(a) \subseteq Nat
      BY <1>1, <1>4, WholeAncestry
    <3> QED
      BY <3>1, FS_Subset
  <2> QED
    BY <1>1, <1>2, <1>4, <2>1 DEF Numbered
<1>13. /\ e.tips \subseteq Nodes(e) /\ e.tips # {} /\ Nodes(e) \subseteq Nodes(a)
  BY <1>1, <1>4
<1>14. \A c \in Nodes(e) : Keeps(a, e, E, c)
  BY <1>4, <1>10, <1>11
<1>15. PartOf(a, e, E)
  BY <1>1, <1>12, <1>13, <1>14 DEF PartOf
<1> QED
  BY <1>2, <1>4, <1>15 DEF e, s

\* What is left of a DAG is left of a larger one with the same records.
LEMMA PartOfLarger ==
  ASSUME NEW a, NEW r, NEW E, PartOf(a, r, E),
         NEW f, Nodes(a) \subseteq Nodes(f), \A b \in Nodes(a) : f.node[b] = a.node[b]
  PROVE  PartOf(f, r, E)
<1>1. SizesOf(Nodes(a)) \subseteq SizesOf(Nodes(f))
  BY DEF SizesOf
<1>2. \A b \in Nodes(r) : Keeps(a, r, E, b) /\ b \in Nodes(a) /\ f.node[b] = a.node[b]
  BY DEF PartOf
<1>3. \A b \in Nodes(r) : Keeps(f, r, E, b)
  BY <1>1, <1>2 DEF Keeps
<1> QED
  BY <1>3 DEF PartOf

(***************************************************************************)
(* The invariant: the replica is what is left of the archive.              *)
(***************************************************************************)
EvictInv ==
  /\ OrderInv
  /\ depth \in Depths
  /\ PartOf(archive, replica, evicted)
  /\ depth = NoPruning => evicted = {}

\* The archive is whole.
LEMMA ArchiveWhole == OrderInv => Whole(archive)
BY NoBlockAssumption DEF OrderInv, AgreeInv, Sound, Whole

\* It holds in the beginning.
LEMMA EvictInit ==
  ASSUME Init
  PROVE  EvictInv
<1>1. PICK w \in Work : archive = NewDag(w) /\ replica = NewDag(w)
  BY DEF Init
<1> DEFINE a == NewDag(w)
<1>2. Sound(a) /\ Nodes(a) = {Genesis}
  BY NewSound, NumbersAssumption
<1>3. OrderInv
  BY <1>1, <1>2, AgreeInit DEF OrderInv
<1>4. Numbered(a)
  BY <1>2, WellNumbered DEF Sound, ByTheRule
<1>5. /\ a.tips = {Genesis} /\ a.node[Genesis].past = {} /\ a.node[Genesis].sp = NoBlock
      /\ a.node[Genesis].sizes = [x \in {} |-> 0]
  BY DEF NewDag
<1>6. a.node[Genesis].sizes \in SizesOf(Nodes(a))
  <2>1. [x \in {} |-> 0] \in [{} -> Nat] /\ {} \in SUBSET Nodes(a)
    OBVIOUS
  <2> HIDE DEF a
  <2> QED
    BY <1>5, <2>1 DEF SizesOf
<1> HIDE DEF a
<1>7. PartOf(a, a, {})
  BY <1>2, <1>4, <1>5, <1>6 DEF PartOf, Keeps
<1> QED
  BY <1>1, <1>3, <1>7 DEF EvictInv, Init, a

\* A block made elsewhere leaves it.
LEMMA MineEvicts ==
  ASSUME EvictInv, OrderInv', NEW id \in Id, NEW ps \in SUBSET Nodes(archive),
         NEW w \in Work, Mine(id, ps, w)
  PROVE  EvictInv' /\ replica' = replica
<1>1. /\ id \notin Nodes(archive) /\ ps # {} /\ replica' = replica /\ evicted' = evicted
      /\ depth' = depth /\ archive' = insert(archive, id, ps, w, NoPruning)
  BY DEF Mine, Admissible
<1>2. archive' = Wired(archive, id, ps, w)
  BY <1>1, InsertIs
<1>3. id \in Nat \ Nodes(archive) /\ w \in Nat /\ Sound(archive)
  BY <1>1, NumbersAssumption DEF EvictInv, OrderInv, AgreeInv
<1>4. Nodes(archive) \subseteq Nodes(archive') /\ \A b \in Nodes(archive) : archive'.node[b] = archive.node[b]
  <2>1. Grown(archive, Wired(archive, id, ps, w), id, ps, w)
    BY <1>1, <1>3, WiredSound, NumbersAssumption
  <2> QED
    BY <1>2, <2>1 DEF Grown
<1>5. PartOf(archive', replica, evicted)
  BY <1>4, PartOfLarger DEF EvictInv
<1> QED
  BY <1>1, <1>5 DEF EvictInv

\* A delivery keeps it, and the block delivered builds on what was evicted.
LEMMA DeliverEvicts ==
  ASSUME EvictInv, OrderInv', NEW b \in Nodes(archive), Deliver(b)
  PROVE  EvictInv' /\ BuildsOnEvictedUnlessRetreat
<1> DEFINE ps == archive.node[b].parents
           w == archive.node[b].work
           e == Wired(replica, b, ps, w)
           d == insert(replica, b, ps, w, depth)
           p == pruning_point(replica, depth)
<1>1. /\ archive' = archive /\ depth' = depth
      /\ b \notin Nodes(replica) /\ ps # {} /\ ps \subseteq Nodes(replica)
      /\ ~BuildsOnPrunedHistory(replica, ps, depth)
      /\ IF reach'.dead THEN replica' = replica /\ evicted' = evicted
         ELSE /\ replica' = d
              /\ evicted' = evicted \cup ((Nodes(replica) \cup {b}) \ Nodes(d))
  BY DEF Deliver, Admissible
<1>2. /\ Whole(archive) /\ PartOf(archive, replica, evicted)
      /\ depth \in Nat \cup {NoPruning} /\ w \in Nat /\ (depth = NoPruning => evicted = {})
  BY ArchiveWhole, WholeAncestry, DepthAssumption DEF EvictInv
<1>3. /\ PartOf(archive, e, evicted) /\ Nodes(e) = Nodes(replica) \cup {b}
      /\ Heaviest(replica, ps) \in ps
  <2>1. b \in Nodes(archive) \ Nodes(replica)
    BY <1>1
  <2> HIDE DEF ps, w
  <2> QED
    BY <1>1, <1>2, <2>1, PartWired DEF ps
<1>4. d = prune_old_blocks(e, depth)
  BY Zenon DEF insert, Wired
<1> HIDE DEF e, d
<1>5. /\ PartOf(archive, d, evicted \cup (Nodes(e) \ Nodes(d))) /\ Nodes(d) \subseteq Nodes(e)
      /\ depth = NoPruning => Nodes(d) = Nodes(e)
  BY <1>2, <1>3, <1>4, PartPruned
<1>6. EvictInv'
  <2>1. CASE reach'.dead
    BY <1>1, <2>1 DEF EvictInv
  <2>2. CASE ~reach'.dead
    <3>1. replica' = d /\ evicted' = evicted \cup (Nodes(e) \ Nodes(d))
      BY <1>1, <1>3, <2>2
    <3> QED
      BY <1>1, <1>2, <1>5, <3>1 DEF EvictInv
  <2> QED
    BY <2>1, <2>2
<1>7. Nodes(replica') \ Nodes(replica) \subseteq {b}
  BY <1>1, <1>3, <1>5
<1>8. ASSUME evicted \subseteq archive.node[p].past
      PROVE  evicted \subseteq archive.node[b].past
  <2>1. CASE depth = NoPruning
    BY <1>2, <2>1
  <2>2. CASE depth # NoPruning
    <3> DEFINE s == Heaviest(replica, ps)
    <3>1. s = p \/ is_ancestor(replica, p, s)
      BY <1>1, <2>2, Zenon DEF BuildsOnPrunedHistory
    <3>2. s \in ps /\ s \in Nodes(replica)
      BY <1>1, <1>3
    <3> HIDE DEF s, p
    <3>3. s \in archive.node[b].past /\ archive.node[s].past \subseteq archive.node[b].past
      BY <1>2, <3>2, WholeAncestry
    <3>4. p = s \/ p \in archive.node[s].past
      BY <1>2, <3>1, <3>2 DEF is_ancestor, PartOf, Keeps
    <3>5. archive.node[p].past \subseteq archive.node[b].past
      BY <1>2, <3>3, <3>4, WholeAncestry
    <3> QED
      BY <1>8, <3>5 DEF p
  <2> QED
    BY <2>1, <2>2
<1> QED
  BY <1>1, <1>6, <1>7, <1>8 DEF BuildsOnEvictedUnlessRetreat

(***************************************************************************)
(* Block pruning leaves no hole: whatever is evicted, in however many      *)
(* rounds and of a DAG with blocks missing, so is its past; and a block    *)
(* accepted afterwards builds on what was evicted, as long as the pruning  *)
(* point has not retreated (prune_old_blocks and insert_with_id, dag.rs).  *)
(***************************************************************************)
THEOREM EvictionIsSound == Spec => EvictionSound
<1>1. Init => EvictInv
  BY EvictInit
<1>2. EvictInv /\ [Next]_vars => EvictInv' /\ [BuildsOnEvictedUnlessRetreat]_vars
  <2> SUFFICES ASSUME EvictInv, [Next]_vars
               PROVE  EvictInv' /\ [BuildsOnEvictedUnlessRetreat]_vars
    OBVIOUS
  <2>1. OrderInv'
    BY OrderStep DEF EvictInv
  <2>2. CASE UNCHANGED vars
    BY <2>1, <2>2 DEF EvictInv, vars
  <2>3. ASSUME NEW id \in Id, NEW ps \in SUBSET Nodes(archive), NEW w \in Work, Mine(id, ps, w)
        PROVE  EvictInv' /\ BuildsOnEvictedUnlessRetreat
    BY <2>1, <2>3, MineEvicts DEF BuildsOnEvictedUnlessRetreat
  <2>4. ASSUME NEW b \in Nodes(archive), Deliver(b)
        PROVE  EvictInv' /\ BuildsOnEvictedUnlessRetreat
    BY <2>1, <2>4, DeliverEvicts
  <2> QED
    BY <2>2, <2>3, <2>4 DEF Next
<1>3. EvictInv => EvictedPastClosed
  BY DEF EvictInv, PartOf, EvictedPastClosed
<1> QED
  BY <1>1, <1>2, <1>3, PTL DEF Spec, EvictionSound

=============================================================================
