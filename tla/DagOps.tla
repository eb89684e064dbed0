------------------------------- MODULE DagOps -------------------------------
(***************************************************************************)
(* The block DAG of crates/kovanica-dag as a value, and Dag::insert as a   *)
(* function from one value to the next: GHOSTDAG colouring (ghostdag.rs),  *)
(* the linearization (ordering.rs) and block pruning (dag.rs).             *)
(*                                                                         *)
(* A DAG value d has                                                       *)
(*   d.tips  the blocks with no children;                                  *)
(*   d.node  block id -> [parents, work, past, past_size, sp, blues, reds, *)
(*           blue_score, blue_work, sizes], a Node with its GhostdagData.  *)
(* Its blocks are the ids in DOMAIN d.node; an evicted block is in no      *)
(* domain but may still be in the past or the sizes of a present one.      *)
(* Nothing here has state: Replicas and the ledger give these operators    *)
(* their variables.  Replicas shows that what is computed here is what     *)
(* AtomicDag asks for.  The abstractions are those of GhostDag.            *)
(***************************************************************************)
EXTENDS Integers, SequencesExt

CONSTANTS Genesis,    \* the id of the genesis block
          NoBlock,    \* "no block": Option::None of a BlockId
          K,          \* the GHOSTDAG parameter k
          NoPruning   \* block_pruning_depth = u64::MAX: pruning disabled

Nodes(d) == DOMAIN d.node

\* Dag::new.
NewDag(w) ==
  [tips |-> {Genesis},
   node |-> [b \in {Genesis} |->
     [parents |-> {}, work |-> w, past |-> {}, past_size |-> 0, sp |-> NoBlock,
      blues |-> {}, reds |-> {}, blue_score |-> 0, blue_work |-> 0,
      sizes |-> [x \in {} |-> 0]]]]

-----------------------------------------------------------------------------
\* The oracle answers false about a block it does not hold.
is_ancestor(d, a, b) == {a, b} \subseteq Nodes(d) /\ a \in d.node[b].past

in_anticone(d, a, b) == /\ a # b
                        /\ ~is_ancestor(d, a, b)
                        /\ ~is_ancestor(d, b, a)

\* chain_key and topo_key, compared lexicographically.
ChainKeyLess(d, a, b) ==
  LET x == d.node[a]  y == d.node[b]
  IN  \/ x.blue_work < y.blue_work
      \/ x.blue_work = y.blue_work /\ x.blue_score < y.blue_score
      \/ x.blue_work = y.blue_work /\ x.blue_score = y.blue_score /\ a < b

TopoKeyLess(d, a, b) ==
  \/ d.node[a].past_size < d.node[b].past_size
  \/ d.node[a].past_size = d.node[b].past_size /\ a < b

Heaviest(d, S) == CHOOSE b \in S : \A c \in S \ {b} : ChainKeyLess(d, c, b)

selected_tip(d) == Heaviest(d, d.tips)

\* S in the order of the keys: at place i the block that i - 1 others precede.
SortTopo(d, S) ==
  LET Before(b) == {a \in S : TopoKeyLess(d, a, b)}
  IN  [i \in 1 .. Cardinality(S) |-> CHOOSE b \in S : Cardinality(Before(b)) = i - 1]

\* The breadth-first walk over parent edges from ps, bounded by the past of s
\* and by the evicted blocks, sorted by (past_size, id).
mergeset_ordered(d, s, ps) ==
  LET V == {x \in Nodes(d) \ {s} : ~is_ancestor(d, x, s)}
      Walk[n \in Nat] ==
        IF n = 0 THEN ps \cap V
        ELSE Walk[n - 1] \cup
             ((UNION {d.node[x].parents : x \in Walk[n - 1]}) \cap V)
  IN  SortTopo(d, Walk[Cardinality(V)])

-----------------------------------------------------------------------------
\* The blue blocks in the candidate's anticone, given the sizes so far.
AnticoneBlues(d, sizes, c) == {b \in DOMAIN sizes : in_anticone(d, b, c)}

try_colour_blue(d, sizes, c) ==
  LET A == AnticoneBlues(d, sizes, c)
  IN  Cardinality(A) <= K /\ \A b \in A : sizes[b] + 1 <= K

\* One iteration of the colouring loop.
ColourOne(d, acc, c) ==
  LET A == AnticoneBlues(d, acc.sizes, c)
  IN  IF try_colour_blue(d, acc.sizes, c)
      THEN [acc EXCEPT
              !.blues = @ \cup {c},
              !.sizes = [b \in DOMAIN @ \cup {c} |->
                           IF b = c THEN Cardinality(A)
                           ELSE IF b \in A THEN acc.sizes[b] + 1
                                ELSE acc.sizes[b]]]
      ELSE [acc EXCEPT !.reds = @ \cup {c}]

\* past_size(B), from the selected parent's and the size of the mergeset.
PastSize(d, s, merge) == d.node[s].past_size + 1 + Len(merge)

\* Mutant of the next: the selected parent's own work is forgotten.
BlueWorkInherited(d, s, blues) ==
  d.node[s].blue_work + MapThenSumSet(LAMBDA b : d.node[b].work, blues)

\* The work of a blue set.
BlueWork(d, s, blues) ==
  d.node[s].blue_work + d.node[s].work
    + MapThenSumSet(LAMBDA b : d.node[b].work, blues)

\* compute_ghostdag, and the Node insert builds from it.
NewNode(d, ps, w) ==
  LET s     == Heaviest(d, ps)
      sn    == d.node[s]
      merge == mergeset_ordered(d, s, ps)
      gd    == FoldLeft(LAMBDA acc, c : ColourOne(d, acc, c),
                        [blues |-> {}, reds |-> {},
                         sizes |-> [b \in DOMAIN sn.sizes \cup {s} |->
                                      IF b = s THEN 0 ELSE sn.sizes[b]]],
                        merge)
  IN  [parents    |-> ps,
       work       |-> w,
       past       |-> sn.past \cup {s} \cup ToSet(merge),
       past_size  |-> PastSize(d, s, merge),
       sp         |-> s,
       blues      |-> gd.blues,
       reds       |-> gd.reds,
       blue_score |-> sn.blue_score + 1 + Cardinality(gd.blues),
       blue_work  |-> BlueWork(d, s, gd.blues),
       sizes      |-> gd.sizes]

-----------------------------------------------------------------------------
\* The selected-parent chain, ending at b; it starts above an evicted block.
ChainTo(d, b) ==
  LET up[x \in Nodes(d)] ==
        IF d.node[x].sp \in Nodes(d) THEN Append(up[d.node[x].sp], x) ELSE <<x>>
  IN  up[b]

selected_chain(d) == ChainTo(d, selected_tip(d))

mergeset_order(d, b) ==
  IF d.node[b].sp \in Nodes(d)
  THEN mergeset_ordered(d, d.node[b].sp, d.node[b].parents)
  ELSE <<>>

\* The order of block b: its selected chain, each block after its mergeset.
OrderOf(d, b) ==
  LET chain == ChainTo(d, b)
  IN  FlattenSeq([i \in DOMAIN chain |->
                    Append(mergeset_order(d, chain[i]), chain[i])])

\* Mutant of linearize: a plain topological sort of all blocks.
PriorityOrder(d) == SortTopo(d, Nodes(d))

\* The spine (each chain block after its mergeset), then the tail; genesis is
\* moved to the front when pruning has left it in the tail.
linearize(d) ==
  LET chain == selected_chain(d)
      spine == FlattenSeq([i \in DOMAIN chain |->
                             Append(mergeset_order(d, chain[i]), chain[i])])
      rest  == Nodes(d) \ ToSet(spine)
  IN  IF Genesis \in rest
      THEN <<Genesis>> \o spine \o SortTopo(d, rest \ {Genesis})
      ELSE spine \o SortTopo(d, rest)

-----------------------------------------------------------------------------
\* The blue score below which blocks may be evicted; 0 prunes nothing.
block_pruning_score(d, depth) ==
  IF depth = NoPruning THEN 0
  ELSE Max({0, d.node[selected_tip(d)].blue_score - depth})

\* The lowest selected-chain block with that score; genesis when disabled.
pruning_point(d, depth) ==
  LET threshold == block_pruning_score(d, depth)
      high      == {b \in ToSet(selected_chain(d)) :
                      d.node[b].blue_score >= threshold}
  IN  IF threshold = 0 THEN Genesis
      ELSE CHOOSE b \in high :
             \A c \in high : d.node[b].blue_score <= d.node[c].blue_score

\* What prune_old_blocks collects from its walk down the selected chain from
\* the pruning point p: the mergeset of every chain block it reaches, and the
\* chain blocks below p; it does not step onto genesis or an evicted block.
Evictable(d, p) ==
  LET walked == {b \in ToSet(ChainTo(d, p)) : b # Genesis}
  IN  (walked \ {p}) \cup
      UNION {ToSet(mergeset_ordered(d, d.node[b].sp, d.node[b].parents)) :
               b \in walked}

remove_blocks(d, evicted) ==
  [tips |-> d.tips \ evicted,
   node |-> [b \in Nodes(d) \ evicted |-> d.node[b]]]

prune_old_blocks(d, depth) ==
  LET p == pruning_point(d, depth)
  IN  IF p = Genesis THEN d ELSE remove_blocks(d, Evictable(d, p))

-----------------------------------------------------------------------------
\* Mutant of the next: whatever the selected parent is will do.
NeverPruned(d, ps, depth) == FALSE

\* The checks of insert_with_id: duplicate, no parents, missing parent, and,
\* when block pruning is on, a selected parent in future(P) \cup {P}.
BuildsOnPrunedHistory(d, ps, depth) ==
  LET s == Heaviest(d, ps)
      p == pruning_point(d, depth)
  IN  depth # NoPruning /\ s # p /\ ~is_ancestor(d, p, s)

Admissible(d, id, ps, depth) ==
  /\ id \notin Nodes(d)
  /\ ps # {}
  /\ ps \subseteq Nodes(d)
  /\ ~BuildsOnPrunedHistory(d, ps, depth)

\* insert_with_id, once the block is admissible.
insert(d, id, ps, w, depth) ==
  LET wired == [tips |-> (d.tips \ ps) \cup {id},
                node |-> [b \in Nodes(d) \cup {id} |->
                            IF b = id THEN NewNode(d, ps, w) ELSE d.node[b]]]
  IN  prune_old_blocks(wired, depth)

=============================================================================
