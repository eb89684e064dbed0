------------------------------ MODULE GhostDag ------------------------------
(***************************************************************************)
(* The block DAG of crates/kovanica-dag with GHOSTDAG colouring: Dag::new  *)
(* and Dag::insert (dag.rs), the colouring of a new block's mergeset       *)
(* (ghostdag.rs), the tips and the selected tip (ordering.rs).             *)
(*                                                                         *)
(* Dag::insert runs under &mut self, so at most one insertion is in        *)
(* progress.  Its colouring loop is modelled one iteration per step: the   *)
(* local variables of Dag::insert and Dag::compute_ghostdag live in `ins', *)
(* and no other insertion starts before this one is committed or rejected. *)
(* Stating the loop this way makes the k-cluster rule an inductive         *)
(* invariant instead of a fact about a recursive function.                 *)
(*                                                                         *)
(* Abstractions.                                                           *)
(*   - A block id is a hash; here it is a natural number, so that ids have *)
(*     the total order the code breaks ties with.  Ids and contents are    *)
(*     paired arbitrarily: every id not yet present may be the next block. *)
(*   - The reachability oracle is its answer: past[b] is the set of blocks *)
(*     that is_ancestor(_, b) accepts.                                     *)
(*   - A BlockValidator and the difficulty, proof-of-work and VRF policies *)
(*     may reject any block (RejectInsert); what they test is not modelled *)
(*     here.  Payload and block pruning are off, the default.              *)
(*   - blue_work is unbounded (u128 in the code), and                      *)
(*     mergeset_blues/mergeset_reds are sets: nothing in the crate depends *)
(*     on the order in which the two vectors list their blocks.            *)
(***************************************************************************)
EXTENDS Integers, FiniteSets

CONSTANTS Id,         \* block ids
          Genesis,    \* the id of the genesis block
          NoBlock,    \* "no block": Option::None of a BlockId
          K,          \* the GHOSTDAG parameter k
          Work,       \* the values block.work() may take
          MaxParents  \* bound: parents of one block

ASSUME IdAssumption   == /\ IsFiniteSet(Id)
                         /\ Id \subseteq Nat
                         /\ Genesis \in Id
                         /\ NoBlock \notin Id
ASSUME KAssumption    == K \in Nat
ASSUME WorkAssumption == Work \subseteq Nat

VARIABLES
  nodes,                \* ids present in the DAG
  tips,                 \* blocks with no children
  parents,              \* block.parents(): sorted and without duplicates
  work,                 \* block.work()
  past,                 \* the oracle: strict ancestors of a block
  past_size,            \* the stored count |past|
  selected_parent,      \* GhostdagData ...
  mergeset_blues,
  mergeset_reds,
  blue_score,
  blue_work,
  blue_anticone_sizes,  \* blue block -> blue blocks in its anticone
  ins                   \* the insertion in progress

dagVars == <<nodes, tips, parents, work, past, past_size, selected_parent,
             mergeset_blues, mergeset_reds, blue_score, blue_work,
             blue_anticone_sizes>>
vars    == <<dagVars, ins>>

\* No insertion in progress.
Idle == [id |-> NoBlock, parents |-> {}, work |-> 0, sp |-> NoBlock,
         todo |-> {}, blues |-> {}, reds |-> {}, blue_work |-> 0,
         sizes |-> [b \in {} |-> 0]]

-----------------------------------------------------------------------------
\* The keys of a block's blue_anticone_sizes map are its blue set.
BlueSet(b) == DOMAIN blue_anticone_sizes[b]

is_ancestor(a, b) == a \in past[b]

in_anticone(a, b) == /\ a # b
                     /\ ~is_ancestor(a, b)
                     /\ ~is_ancestor(b, a)

\* (blue_work, blue_score, id), compared lexicographically.
ChainKeyLess(a, b) ==
  \/ blue_work[a] < blue_work[b]
  \/ blue_work[a] = blue_work[b] /\ blue_score[a] < blue_score[b]
  \/ blue_work[a] = blue_work[b] /\ blue_score[a] = blue_score[b] /\ a < b

\* The block of S that max_by_key(chain_key) picks.
IsHeaviest(b, S) == b \in S /\ \A c \in S \ {b} : ChainKeyLess(c, b)

selected_tip == CHOOSE t \in tips : IsHeaviest(t, tips)

\* (past_size, id), compared lexicographically: the order of a mergeset.
TopoKeyLess(a, b) == \/ past_size[a] < past_size[b]
                     \/ past_size[a] = past_size[b] /\ a < b

\* mergeset_ordered: the walk over parent edges from ps.  A block in
\* past(s) \cup {s} is a boundary, neither merged nor passed through.
Visitable(s) == nodes \ (past[s] \cup {s})

WalkClosed(S, s, ps) == /\ ps \cap Visitable(s) \subseteq S
                        /\ \A x \in S : parents[x] \cap Visitable(s) \subseteq S

MergesetOf(s, ps) ==
  {x \in Visitable(s) :
      \A S \in SUBSET Visitable(s) : WalkClosed(S, s, ps) => x \in S}

-----------------------------------------------------------------------------
Init ==
  /\ nodes = {Genesis}
  /\ tips = {Genesis}
  /\ parents = [b \in Id |-> {}]
  /\ work \in {[b \in Id |-> IF b = Genesis THEN w ELSE 0] : w \in Work}
  /\ past = [b \in Id |-> {}]
  /\ past_size = [b \in Id |-> 0]
  /\ selected_parent = [b \in Id |-> NoBlock]
  /\ mergeset_blues = [b \in Id |-> {}]
  /\ mergeset_reds = [b \in Id |-> {}]
  /\ blue_score = [b \in Id |-> 0]
  /\ blue_work = [b \in Id |-> 0]
  /\ blue_anticone_sizes = [b \in Id |-> [x \in {} |-> 0]]
  /\ ins = Idle

\* The blue set a new block inherits: its selected parent's, whose recorded
\* sizes carry over, and the selected parent itself, which starts at 0.
SeedSizes(s) == [x \in BlueSet(s) \cup {s} |->
                   IF x = s THEN 0 ELSE blue_anticone_sizes[s][x]]

\* The work of that blue set.
SeedWork(s) == blue_work[s] + work[s]

(***************************************************************************)
(* insert, up to the colouring loop: the structural checks (duplicate, no  *)
(* parents, missing parent) are the guard; then the selected parent, the   *)
(* mergeset, and the blue set inherited from the selected parent.          *)
(***************************************************************************)
BeginInsert(id, ps, w) ==
  /\ ins = Idle
  /\ id \notin nodes
  /\ ps # {}
  /\ ps \subseteq nodes
  /\ \E s \in ps :
       /\ IsHeaviest(s, ps)
       /\ ins' = [id |-> id, parents |-> ps, work |-> w, sp |-> s,
                  todo |-> MergesetOf(s, ps), blues |-> {}, reds |-> {},
                  blue_work |-> SeedWork(s), sizes |-> SeedSizes(s)]
  /\ UNCHANGED dagVars

\* Mutant of IsNextCandidate: ties are broken by the larger id.
IsNextByLargerId(c) ==
  c \in ins.todo /\ \A d \in ins.todo \ {c} :
    \/ past_size[c] < past_size[d]
    \/ past_size[c] = past_size[d] /\ c > d

\* The next candidate of the loop: mergesets are sorted by (past_size, id).
IsNextCandidate(c) ==
  c \in ins.todo /\ \A d \in ins.todo \ {c} : TopoKeyLess(c, d)

\* The blue blocks, so far, in the candidate's anticone.
AnticoneBlues(c) == {b \in DOMAIN ins.sizes : in_anticone(b, c)}

\* try_colour_blue: neither the candidate nor a blue block in its anticone
\* would have more than K blue blocks in its anticone.
try_colour_blue(c) ==
  /\ Cardinality(AnticoneBlues(c)) <= K
  /\ \A b \in AnticoneBlues(c) : ins.sizes[b] + 1 <= K

\* Mutant of SizesWith: the blocks in the anticone of c are not bumped.
SizesWithoutBump(c) == [b \in DOMAIN ins.sizes \cup {c} |->
                          IF b = c THEN Cardinality(AnticoneBlues(c))
                          ELSE ins.sizes[b]]

\* The sizes once c is blue: its own, and one more for every blue block that
\* has it in its anticone.
SizesWith(c) == [b \in DOMAIN ins.sizes \cup {c} |->
                   CASE b = c -> Cardinality(AnticoneBlues(c))
                     [] b # c /\ b \in AnticoneBlues(c) -> ins.sizes[b] + 1
                     [] OTHER -> ins.sizes[b]]

\* One iteration of the loop that colours its candidate blue.  blue_work is
\* summed here instead of in the code's second loop over mergeset_blues.
ColourBlue ==
  /\ ins # Idle
  /\ \E c \in ins.todo :
       /\ IsNextCandidate(c)
       /\ try_colour_blue(c)
       /\ ins' = [ins EXCEPT
            !.todo = @ \ {c},
            !.blues = @ \cup {c},
            !.blue_work = @ + work[c],
            !.sizes = SizesWith(c)]
  /\ UNCHANGED dagVars

\* One iteration that colours its candidate red.
ColourRed ==
  /\ ins # Idle
  /\ \E c \in ins.todo :
       /\ IsNextCandidate(c)
       /\ ~try_colour_blue(c)
       /\ ins' = [ins EXCEPT !.todo = @ \ {c}, !.reds = @ \cup {c}]
  /\ UNCHANGED dagVars

\* Mutant of TipsWithNew: only the selected parent stops being a tip.
TipsWithoutSelectedParent == (tips \ {ins.sp}) \cup {ins.id}

\* The tips once the new block is wired in.
TipsWithNew == (tips \ ins.parents) \cup {ins.id}

\* insert, after the loop: wire the block in, refresh the tips, and hand the
\* selected parent and the mergeset to the oracle (Reachability::add_block).
CommitInsert ==
  /\ ins # Idle
  /\ ins.todo = {}
  /\ nodes' = nodes \cup {ins.id}
  /\ tips' = TipsWithNew
  /\ parents' = [parents EXCEPT ![ins.id] = ins.parents]
  /\ work' = [work EXCEPT ![ins.id] = ins.work]
  /\ past' = [past EXCEPT ![ins.id] =
                past[ins.sp] \cup {ins.sp} \cup ins.blues \cup ins.reds]
  /\ past_size' = [past_size EXCEPT ![ins.id] =
                past_size[ins.sp] + 1 + Cardinality(ins.blues)
                                      + Cardinality(ins.reds)]
  /\ selected_parent' = [selected_parent EXCEPT ![ins.id] = ins.sp]
  /\ mergeset_blues' = [mergeset_blues EXCEPT ![ins.id] = ins.blues]
  /\ mergeset_reds' = [mergeset_reds EXCEPT ![ins.id] = ins.reds]
  /\ blue_score' = [blue_score EXCEPT ![ins.id] =
                blue_score[ins.sp] + 1 + Cardinality(ins.blues)]
  /\ blue_work' = [blue_work EXCEPT ![ins.id] = ins.blue_work]
  /\ blue_anticone_sizes' = [blue_anticone_sizes EXCEPT ![ins.id] = ins.sizes]
  /\ ins' = Idle

\* Mutant of RejectInsert: the tips were refreshed before the block is refused.
RejectAfterTips ==
  /\ ins # Idle
  /\ ins.todo = {}
  /\ ins' = Idle
  /\ tips' = TipsWithNew
  /\ UNCHANGED <<nodes, parents, work, past, past_size, selected_parent,
                 mergeset_blues, mergeset_reds, blue_score, blue_work,
                 blue_anticone_sizes>>

\* A validator or an enforced policy refuses the block before it is wired in.
RejectInsert ==
  /\ ins # Idle
  /\ ins.todo = {}
  /\ ins' = Idle
  /\ UNCHANGED dagVars

Next ==
  \/ \E id \in Id, ps \in SUBSET nodes, w \in Work :
        Cardinality(ps) <= MaxParents /\ BeginInsert(id, ps, w)
  \/ ColourBlue
  \/ ColourRed
  \/ CommitInsert
  \/ RejectInsert

Spec == Init /\ [][Next]_vars

-----------------------------------------------------------------------------
\* A map from some blocks of the DAG to counts.
IsSizeMap(f) == DOMAIN f \subseteq nodes /\ f \in [DOMAIN f -> Nat]

\* The locals of an insertion in progress.
IsInsertion(i) ==
  /\ i \in [id : Id \ nodes, parents : SUBSET nodes, work : Work, sp : nodes,
            todo : SUBSET nodes, blues : SUBSET nodes, reds : SUBSET nodes,
            blue_work : Nat, sizes : {i.sizes}]
  /\ IsSizeMap(i.sizes)

TypeOK ==
  /\ nodes \in SUBSET Id
  /\ tips \in SUBSET nodes
  /\ parents \in [Id -> SUBSET nodes]
  /\ work \in [Id -> Nat]
  /\ past \in [Id -> SUBSET nodes]
  /\ past_size \in [Id -> Nat]
  /\ selected_parent \in [Id -> nodes \cup {NoBlock}]
  /\ mergeset_blues \in [Id -> SUBSET nodes]
  /\ mergeset_reds \in [Id -> SUBSET nodes]
  /\ blue_score \in [Id -> Nat]
  /\ blue_work \in [Id -> Nat]
  /\ DOMAIN blue_anticone_sizes = Id
  /\ \A b \in Id : IsSizeMap(blue_anticone_sizes[b])
  /\ ins = Idle \/ IsInsertion(ins)

\* The blue blocks of S in the anticone of b.
BlueAnticoneIn(b, S) == {c \in S : in_anticone(b, c)}

\* The k-cluster rule over a set of blocks.
IsKCluster(S) == \A b \in S : Cardinality(BlueAnticoneIn(b, S)) <= K

(***************************************************************************)
(* The sizes a block's blue_anticone_sizes map records, inherited from its *)
(* selected parent and bumped one candidate at a time, are exact: each is  *)
(* the number of blue blocks in that block's anticone (GhostdagData).      *)
(***************************************************************************)
AnticoneSizesExact ==
  \A b \in nodes : \A x \in BlueSet(b) :
      blue_anticone_sizes[b][x] = Cardinality(BlueAnticoneIn(x, BlueSet(b)))

(***************************************************************************)
(* The rule GHOSTDAG exists for: in the blue set of every block, no block  *)
(* has more than K blue blocks in its anticone (ghostdag.rs, module doc).  *)
(***************************************************************************)
KCluster == \A b \in nodes : IsKCluster(BlueSet(b))

(***************************************************************************)
(* A red block was not left out by accident of the loop: adding it to the  *)
(* block's final blue set would break the k-cluster rule, so the greedy    *)
(* colouring is maximal.                                                   *)
(***************************************************************************)
RedsJustified ==
  \A b \in nodes : \A r \in mergeset_reds[b] :
      ~IsKCluster(BlueSet(b) \cup {r})

(***************************************************************************)
(* The oracle, which is fed only the selected parent and the mergeset that *)
(* was computed with its own answers, still says exactly what the parent   *)
(* edges say: past(b) is the union of the parents and their pasts.         *)
(***************************************************************************)
OracleExact ==
  \A b \in nodes :
      past[b] = UNION {past[p] \cup {p} : p \in parents[b]}

(***************************************************************************)
(* The count past(sp) + 1 + |mergeset| that Dag::insert stores instead of  *)
(* a past set is the size of the past: it is what makes (past_size, id) a  *)
(* topological key.                                                        *)
(***************************************************************************)
PastSizeExact == \A b \in nodes : past_size[b] = Cardinality(past[b])

(***************************************************************************)
(* The two ways in which Dag::insert remembers the past of a block, answers *)
(* of the oracle and a count, agree with the parent edges.                 *)
(***************************************************************************)
AncestryExact == OracleExact /\ PastSizeExact

(***************************************************************************)
(* The blue score is the number of blocks in the blue set, as the code's   *)
(* debug_assert states.                                                    *)
(***************************************************************************)
BlueScoreExact == \A b \in nodes : blue_score[b] = Cardinality(BlueSet(b))

(***************************************************************************)
(* What is copied from the selected parent and counted on is exact.        *)
(***************************************************************************)
ColouringExact == AnticoneSizesExact /\ BlueScoreExact

(***************************************************************************)
(* The colouring of every block is the one GHOSTDAG asks for: a k-cluster, *)
(* maximal, and with the bookkeeping that the next block will inherit      *)
(* exact (compute_ghostdag).                                               *)
(***************************************************************************)
ColouringSound == ColouringExact /\ KCluster /\ RedsJustified

(***************************************************************************)
(* Along every parent edge, not only the selected one, the chain key       *)
(* grows: a block is heavier than every block it builds on.                *)
(***************************************************************************)
ChildIsHeavier ==
  \A b \in nodes : \A p \in parents[b] : ChainKeyLess(p, b)

(***************************************************************************)
(* The selected tip, looked for among the tips only, is the heaviest block *)
(* of the whole DAG, and the tips are exactly the blocks nobody builds on. *)
(***************************************************************************)
SelectedTipHeaviest ==
  /\ tips = {b \in nodes : \A c \in nodes : b \notin parents[c]}
  /\ \E t \in tips : IsHeaviest(t, nodes)

(***************************************************************************)
(* Fork choice: weights grow along the edges, so the heaviest tip is the   *)
(* heaviest block.                                                         *)
(***************************************************************************)
WeightInv == ChildIsHeavier /\ SelectedTipHeaviest

(***************************************************************************)
(* The selected tip moves only to the block just inserted, never to an     *)
(* older block: one insertion is one reorganisation at most.  What is      *)
(* recorded for a block never changes afterwards.                          *)
(***************************************************************************)
TipMovesOnlyToNewBlock ==
  [][selected_tip' # selected_tip => selected_tip' = ins.id]_vars

=============================================================================
