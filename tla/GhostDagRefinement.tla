------------------------- MODULE GhostDagRefinement -------------------------
(***************************************************************************)
(* GhostDag implements AtomicDag: the locals of the insertion in progress  *)
(* are hidden, the colouring steps stutter, and CommitInsert is the one    *)
(* atomic Insert.                                                          *)
(***************************************************************************)
EXTENDS GhostDag

\* The fields of Dag, as one value; nothing of `ins' shows.
dagValue ==
  [tips |-> tips,
   node |-> [b \in nodes |->
     [parents |-> parents[b], work |-> work[b], past |-> past[b],
      past_size |-> past_size[b], sp |-> selected_parent[b],
      blues |-> mergeset_blues[b], reds |-> mergeset_reds[b],
      blue_score |-> blue_score[b], blue_work |-> blue_work[b],
      sizes |-> blue_anticone_sizes[b]]]]

Atomic == INSTANCE AtomicDag WITH dag <- dagValue

(***************************************************************************)
(* The walk over parent edges, the counts copied from the selected parent  *)
(* and bumped one candidate at a time, and the sums kept beside them       *)
(* record for every block exactly what GHOSTDAG promises: its ancestry,    *)
(* the greedy k-cluster, their sizes and weights (compute_ghostdag).  A    *)
(* refused block leaves no trace.                                          *)
(***************************************************************************)
ImplementsAtomicDag == Atomic!Spec

\* State bound: blocks arrive in ascending or, up to five, in descending order
\* of their ids, so that the younger of two equal blocks is the larger one in
\* some behaviours and the smaller one in others.
Bounds ==
  LET n   == Cardinality(nodes)
      new == nodes \cup {ins'.id}
  IN  \/ ins'.id = NoBlock
      \/ new = 0 .. n /\ ins'.id = n
      \/ n <= 4 /\ new = {Genesis} \cup (6 - n .. 5)

\* State bound: a sixth block is added only when all blocks have the same work
\* and at most two parents.
SixthOnPlain ==
  Cardinality(nodes) = 5 =>
    /\ \A b \in nodes : work[b] = 1 /\ Cardinality(parents[b]) <= 2
    /\ ins # Idle => ins.work = 1 /\ Cardinality(ins.parents) <= 2

=============================================================================
