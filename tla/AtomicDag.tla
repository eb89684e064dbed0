----------------------------- MODULE AtomicDag ------------------------------
(***************************************************************************)
(* What GHOSTDAG promises to record for a block, said without an           *)
(* algorithm: the past is the ancestry, the blue set is the greedy         *)
(* k-cluster over the selected parent's, and everything else counts or     *)
(* weighs one of the two (ghostdag.rs, dag.rs).  An insertion is a single  *)
(* step.  GhostDag, which walks, copies and bumps one candidate per step,  *)
(* is shown to implement this in GhostDagRefinement, and DagOps, which     *)
(* computes the record as a function, in Replicas.                         *)
(*                                                                         *)
(* A DAG value is that of DagOps; block pruning is off.                    *)
(***************************************************************************)
EXTENDS Integers, FiniteSets

CONSTANTS Id,         \* block ids
          Genesis,    \* the id of the genesis block
          NoBlock,    \* "no block": Option::None of a BlockId
          K,          \* the GHOSTDAG parameter k
          Work,       \* the values block.work() may take
          MaxParents  \* bound: parents of one block

VARIABLE dag

Nodes(d) == DOMAIN d.node

in_anticone(d, a, b) == a # b /\ a \notin d.node[b].past /\ b \notin d.node[a].past

AnticoneIn(d, x, S) == {y \in S : in_anticone(d, x, y)}

IsKCluster(d, S) == \A x \in S : Cardinality(AnticoneIn(d, x, S)) <= K

\* The work of a set of blocks: its units, counted.
WorkOf(d, S) == Cardinality(UNION {{b} \X (1 .. d.node[b].work) : b \in S})

\* chain_key and topo_key, compared lexicographically.
ChainKeyLess(d, a, b) ==
  \/ d.node[a].blue_work < d.node[b].blue_work
  \/ /\ d.node[a].blue_work = d.node[b].blue_work
     /\ \/ d.node[a].blue_score < d.node[b].blue_score
        \/ d.node[a].blue_score = d.node[b].blue_score /\ a < b

TopoKeyLess(d, a, b) ==
  \/ d.node[a].past_size < d.node[b].past_size
  \/ d.node[a].past_size = d.node[b].past_size /\ a < b

IsHeaviest(d, s, S) == s \in S /\ \A c \in S \ {s} : ChainKeyLess(d, c, s)

-----------------------------------------------------------------------------
Ancestors(d, ps) == ps \cup UNION {d.node[p].past : p \in ps}

\* What a block with selected parent s merges, and what it takes over.
Merged(d, s, ps) == Ancestors(d, ps) \ (d.node[s].past \cup {s})

Inherited(d, s) == DOMAIN d.node[s].sizes \cup {s}

\* In the order of their keys, the blocks of M that fit are blue: with the
\* seed and the blue ones before them they are a k-cluster.
IsGreedy(d, seed, M, B) ==
  \A c \in M :
    c \in B <=> IsKCluster(d, seed \cup {b \in B : TopoKeyLess(d, b, c)} \cup {c})

\* The choice of the selected parent s and of the merged blues B is right.
IsColouring(d, ps, s, B) ==
  /\ IsHeaviest(d, s, ps)
  /\ B \subseteq Merged(d, s, ps)
  /\ IsGreedy(d, Inherited(d, s), Merged(d, s, ps), B)

\* What is recorded then.
NodeOf(d, ps, w, s, B) ==
  LET blue == Inherited(d, s) \cup B
  IN  [parents    |-> ps,
       work       |-> w,
       past       |-> Ancestors(d, ps),
       past_size  |-> Cardinality(Ancestors(d, ps)),
       sp         |-> s,
       blues      |-> B,
       reds       |-> Merged(d, s, ps) \ B,
       blue_score |-> Cardinality(blue),
       blue_work  |-> WorkOf(d, blue),
       sizes      |-> [x \in blue |-> Cardinality(AnticoneIn(d, x, blue))]]

\* Dag::new.
GenesisNode(w) ==
  [parents |-> {}, work |-> w, past |-> {}, past_size |-> 0, sp |-> NoBlock,
   blues |-> {}, reds |-> {}, blue_score |-> 0, blue_work |-> 0,
   sizes |-> [x \in {} |-> 0]]

NewDag(w) == [tips |-> {Genesis}, node |-> [b \in {Genesis} |-> GenesisNode(w)]]

\* The DAG with one block more.
With(d, id, n) ==
  [tips |-> (d.tips \ n.parents) \cup {id},
   node |-> [b \in Nodes(d) \cup {id} |-> IF b = id THEN n ELSE d.node[b]]]

-----------------------------------------------------------------------------
Init == \E w \in Work : dag = NewDag(w)

Insert(id, ps, w) ==
  /\ id \notin Nodes(dag)
  /\ ps # {} /\ Cardinality(ps) <= MaxParents
  /\ \E s \in ps : \E B \in SUBSET Merged(dag, s, ps) :
       /\ IsColouring(dag, ps, s, B)
       /\ dag' = With(dag, id, NodeOf(dag, ps, w, s, B))

Next == \E id \in Id, ps \in SUBSET Nodes(dag), w \in Work : Insert(id, ps, w)

Spec == Init /\ [][Next]_dag

=============================================================================
