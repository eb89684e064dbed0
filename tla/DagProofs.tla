----------------------------- MODULE DagProofs -----------------------------
(***************************************************************************)
(* Dag::insert, computed as DagOps computes it, records what GHOSTDAG      *)
(* promises, for every DAG, k and work; and that is determined by the      *)
(* blocks in a block's past, so that nodes which received the blocks in    *)
(* different orders, and different blocks besides, agree on every block    *)
(* they share.                                                             *)
(*                                                                         *)
(* Why they agree.  The greedy colouring of a mergeset is unique, because  *)
(* the first candidate that two colourings treat differently finds the     *)
(* same blues before it (GreedyUnique).  All that the rule reads is in the *)
(* past of the new block (ColouringIn, SameNode).  So of the blocks that   *)
(* two nodes record differently none can have a minimal past (Agreement).  *)
(*                                                                         *)
(* The order of a block and its past is that of its selected parent, then  *)
(* the mergeset, then the block (OrderIs), and lists blocks after their    *)
(* parents (OrderLists); heights count along the selected chain (HeightIs).*)
(***************************************************************************)
EXTENDS DagOps, FiniteSetTheorems, TLAPS

\* The rule, which says what the records of any DAG must be.
Rules == INSTANCE AtomicDag WITH dag <- NoBlock, Id <- Nat, Work <- Nat, MaxParents <- 0

-----------------------------------------------------------------------------
(***************************************************************************)
(* Names that mean the same in DagOps and in the rule.                     *)
(***************************************************************************)
LEMMA SameNodes == \A d : Rules!Nodes(d) = Nodes(d)
BY DEF Nodes, Rules!Nodes

\* Cardinality and finiteness are the same through the instance.
LEMMA SameCard == \A S : Rules!Cardinality(S) = Cardinality(S) /\
                         (Rules!IsFiniteSet(S) <=> IsFiniteSet(S))
BY Zenon DEF Rules!Cardinality, Cardinality, Rules!IsFiniteSet, IsFiniteSet

\* The ancestry is a finite strict order, and keys are numbers.
WellFormed(d) ==
  /\ IsFiniteSet(Nodes(d)) /\ Nodes(d) \subseteq Nat
  /\ \A b \in Nodes(d) :
       /\ d.node[b].parents \subseteq Nodes(d)
       /\ d.node[b].past \subseteq Nodes(d) \ {b}
       /\ \A x \in d.node[b].past : d.node[x].past \subseteq d.node[b].past
       /\ DOMAIN d.node[b].sizes \subseteq d.node[b].past
       /\ d.node[b].work \in Nat
       /\ d.node[b].past_size \in Nat
       /\ d.node[b].blue_score \in Nat
       /\ d.node[b].blue_work \in Nat

\* A block is recorded as the rule says.
IsRuled(d, n) ==
  /\ n.parents # {}
  /\ Rules!IsColouring(d, n.parents, n.sp, n.blues)
  /\ n = Rules!NodeOf(d, n.parents, n.work, n.sp, n.blues)

Ruled(d) ==
  /\ Genesis \in Nodes(d)
  /\ \A b \in Nodes(d) :
       IF b = Genesis THEN d.node[b] = Rules!GenesisNode(d.node[b].work)
       ELSE IsRuled(d, d.node[b])

ByTheRule(d) == WellFormed(d) /\ Ruled(d)

-----------------------------------------------------------------------------
(***************************************************************************)
(* The order of the candidates has a least element in every set.           *)
(***************************************************************************)
LEMMA HasLeast ==
  ASSUME NEW d, WellFormed(d), NEW T \in SUBSET Nodes(d), T # {}
  PROVE  \E x \in T : \A y \in T : ~Rules!TopoKeyLess(d, y, x)
<1> DEFINE Below(x) == {y \in Nodes(d) : Rules!TopoKeyLess(d, y, x)}
           Belows   == {Below(x) : x \in T}
           R        == StrictSubsetOrdering(Nodes(d))
<1>1. IsWellFoundedOn(R, SUBSET Nodes(d))
  <2>1. \A S : IsFiniteSet(S) => IsWellFoundedOn(StrictSubsetOrdering(S), SUBSET S)
    BY FS_FiniteSubsetsOfFinite, FS_StrictSubsetOrderingWellFounded
  <2>2. IsFiniteSet(Nodes(d))
    BY DEF WellFormed
  <2> QED
    BY <2>1, <2>2
<1>2. Belows \subseteq SUBSET Nodes(d) /\ Belows # {}
  OBVIOUS
<1>3. PICK F \in Belows : \A G \in Belows : <<G, F>> \notin R
  <2> HIDE DEF R, Belows
  <2> QED
    BY <1>1, <1>2, WFMin
<1>4. PICK x \in T : F = Below(x)
  BY <1>3
<1>5. ASSUME NEW y \in T, Rules!TopoKeyLess(d, y, x) PROVE FALSE
  <2>1. /\ d.node[x].past_size \in Nat /\ d.node[y].past_size \in Nat
        /\ x \in Nat /\ y \in Nat
    BY DEF WellFormed
  <2>2. \A z \in Nodes(d) : Rules!TopoKeyLess(d, z, y) => Rules!TopoKeyLess(d, z, x)
    <3> TAKE z \in Nodes(d)
    <3>1. d.node[z].past_size \in Nat /\ z \in Nat
      BY DEF WellFormed
    <3> QED
      BY <1>5, <2>1, <3>1 DEF Rules!TopoKeyLess
  <2>3. ~Rules!TopoKeyLess(d, y, y)
    BY <2>1 DEF Rules!TopoKeyLess
  <2>4. Below(y) \subseteq Below(x) /\ y \in Below(x) /\ y \notin Below(y)
    BY <1>5, <2>2, <2>3
  <2>5. <<Below(y), Below(x)>> \in R
    BY <2>4 DEF StrictSubsetOrdering
  <2> QED
    BY <2>5, <1>3, <1>4
<1> QED
  BY <1>5

(***************************************************************************)
(* Each mergeset has one greedy colouring: the order of the candidates     *)
(* settles it (mergeset_ordered is sorted, with ids to break ties).        *)
(***************************************************************************)
LEMMA GreedyUnique ==
  ASSUME NEW d, WellFormed(d), NEW seed, NEW M \in SUBSET Nodes(d),
         NEW B \in SUBSET M, NEW C \in SUBSET M,
         Rules!IsGreedy(d, seed, M, B), Rules!IsGreedy(d, seed, M, C)
  PROVE  B = C
<1> DEFINE D == (B \ C) \cup (C \ B)
<1> SUFFICES ASSUME D # {} PROVE FALSE
  OBVIOUS
<1>1. PICK c \in D : \A y \in D : ~Rules!TopoKeyLess(d, y, c)
  <2>1. D \in SUBSET Nodes(d)
    OBVIOUS
  <2> HIDE DEF D
  <2> QED
    BY <2>1, HasLeast
<1>2. {b \in B : Rules!TopoKeyLess(d, b, c)} = {b \in C : Rules!TopoKeyLess(d, b, c)}
  BY <1>1
<1>3. c \in B <=> c \in C
  BY <1>2 DEF Rules!IsGreedy
<1> QED
  BY <1>3

(***************************************************************************)
(* The heaviest of the parents is one block.                               *)
(***************************************************************************)
LEMMA HeaviestUnique ==
  ASSUME NEW d, WellFormed(d), NEW S \in SUBSET Nodes(d),
         NEW s, NEW t, Rules!IsHeaviest(d, s, S), Rules!IsHeaviest(d, t, S)
  PROVE  s = t
<1> SUFFICES ASSUME s # t PROVE FALSE
  OBVIOUS
<1>1. s \in S /\ t \in S /\ Rules!ChainKeyLess(d, s, t) /\ Rules!ChainKeyLess(d, t, s)
  BY DEF Rules!IsHeaviest
<1>2. /\ d.node[s].blue_work \in Nat /\ d.node[t].blue_work \in Nat
      /\ d.node[s].blue_score \in Nat /\ d.node[t].blue_score \in Nat
      /\ s \in Nat /\ t \in Nat
  BY <1>1 DEF WellFormed
<1> QED
  BY <1>1, <1>2 DEF Rules!ChainKeyLess


-----------------------------------------------------------------------------
(***************************************************************************)
(* Two DAGs with the same records for the blocks of P: nothing that the    *)
(* rule reads inside P differs.                                            *)
(***************************************************************************)
SameIn(d, e, P) == \A b \in P : d.node[b] = e.node[b]

LEMMA SameCounts ==
  ASSUME NEW d, NEW e, NEW P, SameIn(d, e, P), NEW S \in SUBSET P
  PROVE  /\ \A x \in P : Rules!AnticoneIn(d, x, S) = Rules!AnticoneIn(e, x, S)
         /\ Rules!IsKCluster(d, S) <=> Rules!IsKCluster(e, S)
         /\ Rules!WorkOf(d, S) = Rules!WorkOf(e, S)
<1>1. \A x \in P : Rules!AnticoneIn(d, x, S) = Rules!AnticoneIn(e, x, S)
  <2> TAKE x \in P
  <2>1. \A y \in S : Rules!in_anticone(d, x, y) <=> Rules!in_anticone(e, x, y)
    BY DEF SameIn, Rules!in_anticone
  <2> QED
    BY <2>1 DEF Rules!AnticoneIn
<1>2. Rules!IsKCluster(d, S) <=> Rules!IsKCluster(e, S)
  BY <1>1 DEF Rules!IsKCluster
<1>3. Rules!WorkOf(d, S) = Rules!WorkOf(e, S)
  <2>1. \A b \in S : d.node[b].work = e.node[b].work
    BY DEF SameIn
  <2>2. {{b} \X (1 .. d.node[b].work) : b \in S} = {{b} \X (1 .. e.node[b].work) : b \in S}
    BY <2>1, Zenon
  <2> QED
    BY <2>2, Zenon DEF Rules!WorkOf
<1> QED
  BY <1>1, <1>2, <1>3

LEMMA SameKeys ==
  ASSUME NEW d, NEW e, NEW P, SameIn(d, e, P), NEW a \in P, NEW b \in P
  PROVE  /\ Rules!TopoKeyLess(d, a, b) <=> Rules!TopoKeyLess(e, a, b)
         /\ Rules!ChainKeyLess(d, a, b) <=> Rules!ChainKeyLess(e, a, b)
<1>1. d.node[a] = e.node[a] /\ d.node[b] = e.node[b]
  BY DEF SameIn
<1>2. Rules!TopoKeyLess(d, a, b) <=> Rules!TopoKeyLess(e, a, b)
  BY <1>1, Zenon DEF Rules!TopoKeyLess
<1>3. Rules!ChainKeyLess(d, a, b) <=> Rules!ChainKeyLess(e, a, b)
  BY <1>1, Zenon DEF Rules!ChainKeyLess
<1> QED
  BY <1>2, <1>3

LEMMA SameAncestors ==
  ASSUME NEW d, NEW e, NEW P, SameIn(d, e, P), NEW ps \in SUBSET P, NEW s \in P
  PROVE  /\ Rules!Ancestors(d, ps) = Rules!Ancestors(e, ps)
         /\ Rules!Merged(d, s, ps) = Rules!Merged(e, s, ps)
         /\ Rules!Inherited(d, s) = Rules!Inherited(e, s)
         /\ Rules!IsHeaviest(d, s, ps) <=> Rules!IsHeaviest(e, s, ps)
<1>1. d.node[s] = e.node[s] /\ \A p \in ps : d.node[p].past = e.node[p].past
  BY DEF SameIn
<1>2. Rules!Ancestors(d, ps) = Rules!Ancestors(e, ps)
  BY <1>1 DEF Rules!Ancestors
<1>3. \A c \in ps : Rules!ChainKeyLess(d, c, s) <=> Rules!ChainKeyLess(e, c, s)
  BY SameKeys
<1> QED
  BY <1>1, <1>2, <1>3 DEF Rules!Merged, Rules!Inherited, Rules!IsHeaviest

(***************************************************************************)
(* The colouring and the record of a block read nothing outside its past.  *)
(***************************************************************************)
LEMMA ColouringIn ==
  ASSUME NEW d, NEW e, NEW P, SameIn(d, e, P), NEW ps \in SUBSET P, NEW s \in P,
         Rules!Ancestors(d, ps) \subseteq P, Rules!Inherited(d, s) \subseteq P, NEW B,
         Rules!IsColouring(d, ps, s, B)
  PROVE  Rules!IsColouring(e, ps, s, B)
<1> DEFINE M    == Rules!Merged(d, s, ps)
           seed == Rules!Inherited(d, s)
           Before(x, c) == {b \in B : Rules!TopoKeyLess(x, b, c)}
<1>1. /\ Rules!IsHeaviest(e, s, ps) /\ B \subseteq Rules!Merged(e, s, ps)
      /\ M = Rules!Merged(e, s, ps) /\ seed = Rules!Inherited(e, s)
  BY SameAncestors DEF Rules!IsColouring
<1>2. B \subseteq M /\ M \subseteq P /\ seed \subseteq P /\ Rules!IsGreedy(d, seed, M, B)
  BY DEF Rules!IsColouring, Rules!Merged
<1> HIDE DEF M, seed
<1>3. ASSUME NEW c \in M
      PROVE  c \in B <=> Rules!IsKCluster(e, seed \cup Before(e, c) \cup {c})
  <2>1. Before(d, c) = Before(e, c)
    BY <1>2, SameKeys
  <2>2. seed \cup Before(d, c) \cup {c} \in SUBSET P
    BY <1>2
  <2>3. c \in B <=> Rules!IsKCluster(d, seed \cup Before(d, c) \cup {c})
    BY <1>2 DEF Rules!IsGreedy
  <2> HIDE DEF Before
  <2>4. c \in B <=> Rules!IsKCluster(e, seed \cup Before(d, c) \cup {c})
    BY <2>2, <2>3, SameCounts
  <2> QED
    BY <2>1, <2>4
<1>4. Rules!IsGreedy(e, seed, M, B)
  BY <1>3 DEF Rules!IsGreedy
<1> QED
  BY <1>1, <1>4 DEF Rules!IsColouring

LEMMA SameNode ==
  ASSUME NEW d, NEW e, NEW P, SameIn(d, e, P), NEW ps \in SUBSET P, NEW s \in P,
         Rules!Inherited(d, s) \subseteq P, NEW B \in SUBSET P, NEW w
  PROVE  Rules!NodeOf(d, ps, w, s, B) = Rules!NodeOf(e, ps, w, s, B)
<1> DEFINE blue == Rules!Inherited(d, s) \cup B
           sizes(x) == [y \in blue |-> Rules!Cardinality(Rules!AnticoneIn(x, y, blue))]
<1>1. /\ Rules!Ancestors(d, ps) = Rules!Ancestors(e, ps) /\ Rules!Merged(d, s, ps) = Rules!Merged(e, s, ps)
      /\ Rules!Inherited(d, s) = Rules!Inherited(e, s)
  BY SameAncestors
<1>2. blue \in SUBSET P
  OBVIOUS
<1> HIDE DEF blue
<1>3. Rules!WorkOf(d, blue) = Rules!WorkOf(e, blue)
  BY <1>2, SameCounts
<1>4. \A y \in blue : Rules!AnticoneIn(d, y, blue) = Rules!AnticoneIn(e, y, blue)
  BY <1>2, SameCounts
<1>5. sizes(d) = sizes(e)
  BY <1>4, Zenon
<1>6. \A x : Rules!Inherited(d, s) = Rules!Inherited(x, s) => Rules!NodeOf(x, ps, w, s, B) =
        [parents |-> ps, work |-> w, past |-> Rules!Ancestors(x, ps),
         past_size |-> Rules!Cardinality(Rules!Ancestors(x, ps)), sp |-> s, blues |-> B,
         reds |-> Rules!Merged(x, s, ps) \ B, blue_score |-> Rules!Cardinality(blue),
         blue_work |-> Rules!WorkOf(x, blue), sizes |-> sizes(x)]
  BY Zenon DEF Rules!NodeOf, blue
<1> HIDE DEF sizes
<1> QED
  BY <1>1, <1>3, <1>5, <1>6


-----------------------------------------------------------------------------
(***************************************************************************)
(* Every set of blocks has one with none of the others in its past.        *)
(***************************************************************************)
LEMMA HasOldest ==
  ASSUME NEW d, WellFormed(d), NEW T \in SUBSET Nodes(d), T # {}
  PROVE  \E x \in T : \A y \in T : y \notin d.node[x].past
<1> DEFINE Pasts == {d.node[x].past : x \in T}
           R     == StrictSubsetOrdering(Nodes(d))
<1>1. IsWellFoundedOn(R, SUBSET Nodes(d))
  <2>1. \A S : IsFiniteSet(S) => IsWellFoundedOn(StrictSubsetOrdering(S), SUBSET S)
    BY FS_FiniteSubsetsOfFinite, FS_StrictSubsetOrderingWellFounded
  <2>2. IsFiniteSet(Nodes(d))
    BY DEF WellFormed
  <2> QED
    BY <2>1, <2>2
<1>2. Pasts \subseteq SUBSET Nodes(d) /\ Pasts # {}
  BY DEF WellFormed
<1>3. PICK F \in Pasts : \A G \in Pasts : <<G, F>> \notin R
  <2> HIDE DEF R, Pasts
  <2> QED
    BY <1>1, <1>2, WFMin
<1>4. PICK x \in T : F = d.node[x].past
  BY <1>3
<1>5. ASSUME NEW y \in T, y \in d.node[x].past PROVE FALSE
  <2>1. /\ d.node[y].past \subseteq d.node[x].past /\ y \notin d.node[y].past
        /\ d.node[y].past \subseteq Nodes(d) /\ d.node[x].past \subseteq Nodes(d)
    BY <1>5 DEF WellFormed
  <2>2. <<d.node[y].past, d.node[x].past>> \in R
    BY <1>5, <2>1 DEF StrictSubsetOrdering
  <2> QED
    BY <2>2, <1>3, <1>4
<1> QED
  BY <1>5

\* An id is the hash of the block: where two nodes have it, they have the same
\* parents and the same work.
SameBlocks(d, e) ==
  \A b \in Nodes(d) \cap Nodes(e) : /\ d.node[b].parents = e.node[b].parents
                                    /\ d.node[b].work = e.node[b].work

\* What is recorded for the blocks that both have.
SameRecords(d, e) == \A b \in Nodes(d) \cap Nodes(e) : d.node[b] = e.node[b]

(***************************************************************************)
(* Two blocks with the same content and the same records in their past     *)
(* are recorded alike.                                                     *)
(***************************************************************************)
LEMMA SameStep ==
  ASSUME NEW d, NEW e, WellFormed(d), WellFormed(e), NEW n, NEW m,
         n.parents \subseteq Nodes(d), n.parents = m.parents, n.work = m.work,
         IsRuled(d, n), IsRuled(e, m), SameIn(d, e, Rules!Ancestors(d, n.parents))
  PROVE  n = m
<1> DEFINE ps == n.parents
           P  == Rules!Ancestors(d, ps)
           s  == n.sp
<1>1. /\ Rules!IsColouring(d, ps, s, n.blues) /\ n = Rules!NodeOf(d, ps, n.work, s, n.blues)
      /\ Rules!IsColouring(e, ps, m.sp, m.blues) /\ m = Rules!NodeOf(e, ps, n.work, m.sp, m.blues)
  BY DEF IsRuled
<1>2. ps \subseteq P /\ P \subseteq Nodes(d) /\ s \in ps /\ m.sp \in ps
  BY <1>1 DEF Rules!Ancestors, Rules!IsColouring, Rules!IsHeaviest, WellFormed
<1>3. Rules!Inherited(d, s) \subseteq P
  BY <1>2 DEF Rules!Ancestors, Rules!Inherited, WellFormed
<1>4. SameIn(d, e, P) /\ SameIn(e, d, P)
  BY DEF SameIn
<1> HIDE DEF P, s, ps
<1>5. m.sp = s
  <2>1. Rules!IsHeaviest(d, s, ps) /\ Rules!IsHeaviest(e, m.sp, ps)
    BY <1>1 DEF Rules!IsColouring
  <2>2. ps \in SUBSET P /\ s \in P /\ m.sp \in P
    BY <1>2
  <2>3. Rules!IsHeaviest(d, m.sp, ps)
    BY <1>4, <2>1, <2>2, SameAncestors
  <2> QED
    BY <1>2, <2>1, <2>3, HeaviestUnique
<1>6. /\ Rules!Ancestors(e, ps) \subseteq P /\ Rules!Inherited(e, s) \subseteq P
      /\ ps \in SUBSET P /\ s \in P
  <2>1. ps \in SUBSET P /\ s \in P
    BY <1>2
  <2>2. Rules!Ancestors(e, ps) = Rules!Ancestors(d, ps) /\ Rules!Inherited(e, s) = Rules!Inherited(d, s)
    BY <1>4, <2>1, SameAncestors
  <2> QED
    BY <1>3, <2>1, <2>2 DEF P
<1>7. Rules!IsColouring(d, ps, s, m.blues)
  <2>1. Rules!IsColouring(e, ps, s, m.blues)
    BY <1>1, <1>5
  <2> QED
    BY <1>4, <1>6, <2>1, ColouringIn
<1>8. n.blues = m.blues
  <2> DEFINE M == Rules!Merged(d, s, ps)
  <2>1. M \in SUBSET Nodes(d)
    BY <1>2 DEF Rules!Merged, P
  <2>2. /\ n.blues \in SUBSET M /\ m.blues \in SUBSET M
        /\ Rules!IsGreedy(d, Rules!Inherited(d, s), M, n.blues)
        /\ Rules!IsGreedy(d, Rules!Inherited(d, s), M, m.blues)
    BY <1>1, <1>7 DEF Rules!IsColouring
  <2> HIDE DEF M
  <2> QED
    BY <2>1, <2>2, GreedyUnique
<1>9. n.blues \in SUBSET P
  BY <1>1 DEF Rules!IsColouring, Rules!Merged, P
<1>10. Rules!NodeOf(d, ps, n.work, s, n.blues) = Rules!NodeOf(e, ps, n.work, s, n.blues)
  BY <1>3, <1>4, <1>6, <1>9, SameNode
<1> QED
  BY <1>1, <1>5, <1>8, <1>10

(***************************************************************************)
(* Whatever two nodes received besides, and in whatever order, they record *)
(* the same for every block they share: "independent of block-arrival      *)
(* order and identical on every node" (ghostdag.rs, module doc).           *)
(***************************************************************************)
THEOREM Agreement ==
  ASSUME NEW d, NEW e, ByTheRule(d), ByTheRule(e), SameBlocks(d, e)
  PROVE  SameRecords(d, e)
<1> USE DEF ByTheRule
<1> DEFINE Common == Nodes(d) \cap Nodes(e)
           Bad    == {b \in Common : d.node[b] # e.node[b]}
<1> SUFFICES ASSUME Bad # {} PROVE FALSE
  BY DEF SameRecords
<1>1. PICK b \in Bad : \A y \in Bad : y \notin d.node[b].past
  <2>1. Bad \in SUBSET Nodes(d)
    OBVIOUS
  <2> HIDE DEF Bad
  <2> QED
    BY <2>1, HasOldest
<1> DEFINE n == d.node[b]
           m == e.node[b]
           ps == n.parents
<1>2. /\ b \in Nodes(d) /\ b \in Nodes(e) /\ n # m
      /\ ps = m.parents /\ n.work = m.work
      /\ ps \subseteq Nodes(d) /\ ps \subseteq Nodes(e)
  BY <1>1 DEF SameBlocks, WellFormed
<1>3. b # Genesis
  BY <1>2, Zenon DEF Ruled
<1>4. IsRuled(d, n) /\ IsRuled(e, m)
  BY <1>2, <1>3, Zenon DEF Ruled
<1>5. n.past = Rules!Ancestors(d, ps)
  <2>1. n = Rules!NodeOf(d, ps, n.work, n.sp, n.blues)
    BY <1>4, Zenon DEF IsRuled
  <2>2. Rules!NodeOf(d, ps, n.work, n.sp, n.blues).past = Rules!Ancestors(d, ps)
    BY DEF Rules!NodeOf
  <2> QED
    BY <2>1, <2>2, Zenon
<1>6. \A x \in Common : x \in Rules!Ancestors(d, ps) => d.node[x] = e.node[x]
  BY <1>1, <1>5
<1>7. Rules!Ancestors(d, ps) \subseteq Common
  <2>1. ps \subseteq Rules!Ancestors(d, ps)
    BY DEF Rules!Ancestors
  <2>2. \A p \in ps : d.node[p] = e.node[p]
    BY <1>2, <1>6, <2>1
  <2>3. \A p \in ps : d.node[p].past \subseteq Nodes(d) /\ d.node[p].past \subseteq Nodes(e)
    BY <1>2, <2>2 DEF WellFormed
  <2> QED
    BY <1>2, <2>3 DEF Rules!Ancestors
<1>8. SameIn(d, e, Rules!Ancestors(d, ps))
  BY <1>6, <1>7 DEF SameIn
<1> HIDE DEF n, m, Bad
<1>9. n = m
  BY <1>2, <1>4, <1>8, SameStep
<1> QED
  BY <1>2, <1>9


-----------------------------------------------------------------------------
(***************************************************************************)
(* An insertion keeps the DAG well formed and ruled.                       *)
(***************************************************************************)
LEMMA WorkIsNat ==
  ASSUME NEW d, WellFormed(d), NEW S \in SUBSET Nodes(d)
  PROVE  Rules!WorkOf(d, S) \in Nat /\ Cardinality(S) \in Nat /\ IsFiniteSet(S)
<1> DEFINE units(b) == {b} \X (1 .. d.node[b].work)
           f == [b \in S |-> units(b)]
           R == {units(b) : b \in S}
<1>1. IsFiniteSet(S) /\ Cardinality(S) \in Nat
  BY FS_Subset, FS_CardinalityType DEF WellFormed
<1>2. \A b \in S : IsFiniteSet(units(b))
  <2> TAKE b \in S
  <2>1. d.node[b].work \in Nat
    BY DEF WellFormed
  <2>2. IsFiniteSet(1 .. d.node[b].work) /\ IsFiniteSet({b})
    <3>1. \A k \in Nat : IsFiniteSet(1 .. k)
      BY FS_Interval
    <3> QED
      BY <2>1, <3>1, FS_Singleton
  <2> QED
    BY <2>2, FS_Product
<1> HIDE DEF units
<1>3. f \in Surjection(S, R)
  BY DEF Surjection
<1>4. IsFiniteSet(R)
  BY <1>1, <1>3, FS_Surjection
<1>5. IsFiniteSet(UNION R)
  BY <1>2, <1>4, FS_UNION
<1>6. Cardinality(UNION R) \in Nat
  BY <1>5, FS_CardinalityType
<1>7. Rules!WorkOf(d, S) = Cardinality(UNION R)
  <2>1. Rules!WorkOf(d, S) = Rules!Cardinality(UNION R)
    BY Zenon DEF Rules!WorkOf, units
  <2> QED
    BY <2>1, SameCard
<1> QED
  BY <1>1, <1>6, <1>7

\* A block recorded by the rule stays so when others arrive.
LEMMA RuledStays ==
  ASSUME NEW d, NEW e, WellFormed(d), SameIn(d, e, Nodes(d)), NEW n,
         n.parents \subseteq Nodes(d), IsRuled(d, n)
  PROVE  IsRuled(e, n)
<1> DEFINE P == Nodes(d)
<1>1. /\ Rules!IsColouring(d, n.parents, n.sp, n.blues)
      /\ n = Rules!NodeOf(d, n.parents, n.work, n.sp, n.blues) /\ n.parents # {}
  BY DEF IsRuled
<1>2. n.parents \in SUBSET P /\ n.sp \in n.parents
  BY <1>1 DEF Rules!IsColouring, Rules!IsHeaviest
<1>3. Rules!Ancestors(d, n.parents) \subseteq P
  BY <1>2 DEF Rules!Ancestors, WellFormed
<1>4. Rules!Inherited(d, n.sp) \subseteq P
  BY <1>2 DEF Rules!Inherited, WellFormed
<1>5. n.blues \in SUBSET P /\ n.sp \in P
  BY <1>1, <1>2, <1>3 DEF Rules!IsColouring, Rules!Merged
<1> HIDE DEF P
<1>6. SameIn(d, e, P)
  BY DEF P
<1>7. Rules!IsColouring(e, n.parents, n.sp, n.blues)
  BY <1>1, <1>2, <1>3, <1>4, <1>5, <1>6, ColouringIn
<1>8. Rules!NodeOf(d, n.parents, n.work, n.sp, n.blues) =
      Rules!NodeOf(e, n.parents, n.work, n.sp, n.blues)
  BY <1>2, <1>4, <1>5, <1>6, SameNode
<1> QED
  BY <1>1, <1>7, <1>8 DEF IsRuled

LEMMA InsertKeepsRule ==
  ASSUME NEW d, ByTheRule(d), NEW id \in Nat \ Nodes(d), NEW ps \in SUBSET Nodes(d),
         ps # {}, NEW w \in Nat, NEW s, NEW B, Rules!IsColouring(d, ps, s, B)
  PROVE  ByTheRule(Rules!With(d, id, Rules!NodeOf(d, ps, w, s, B)))
<1> USE DEF ByTheRule
<1> DEFINE n == Rules!NodeOf(d, ps, w, s, B)
           e == Rules!With(d, id, n)
           P == Rules!Ancestors(d, ps)
           blue == Rules!Inherited(d, s) \cup B
<1>1. /\ n.parents = ps /\ n.work = w /\ n.sp = s /\ n.blues = B /\ n.past = P
      /\ n.past_size = Cardinality(P) /\ n.blue_score = Cardinality(blue)
      /\ n.blue_work = Rules!WorkOf(d, blue) /\ DOMAIN n.sizes = blue
  BY SameCard DEF Rules!NodeOf
<1>2. /\ Nodes(e) = Nodes(d) \cup {id} /\ e.node[id] = n
      /\ \A b \in Nodes(d) : e.node[b] = d.node[b]
  BY SameNodes DEF Rules!With, Nodes
<1>3. s \in ps /\ B \subseteq P /\ ps \subseteq P
  BY DEF Rules!IsColouring, Rules!IsHeaviest, Rules!Merged, Rules!Ancestors
<1>4. P \subseteq Nodes(d)
  BY DEF Rules!Ancestors, WellFormed
<1>5. \A x \in P : d.node[x].past \subseteq P
  BY DEF Rules!Ancestors, WellFormed
<1>6. blue \subseteq P
  BY <1>3 DEF Rules!Ancestors, Rules!Inherited, WellFormed
<1>7. /\ Cardinality(P) \in Nat /\ Cardinality(blue) \in Nat
      /\ Rules!WorkOf(d, blue) \in Nat
  <2> HIDE DEF P, blue
  <2> QED
    BY <1>4, <1>6, WorkIsNat
<1>8. IsRuled(d, n)
  BY <1>1, Zenon DEF IsRuled
<1> HIDE DEF n, e, P, blue
<1>9. WellFormed(e)
  <2>1. IsFiniteSet(Nodes(e)) /\ Nodes(e) \subseteq Nat
    BY <1>2, FS_AddElement DEF WellFormed
  <2>2. ASSUME NEW b \in Nodes(d)
        PROVE  /\ e.node[b].parents \subseteq Nodes(e)
               /\ e.node[b].past \subseteq Nodes(e) \ {b}
               /\ \A x \in e.node[b].past : e.node[x].past \subseteq e.node[b].past
               /\ DOMAIN e.node[b].sizes \subseteq e.node[b].past
               /\ e.node[b].work \in Nat
               /\ e.node[b].past_size \in Nat
               /\ e.node[b].blue_score \in Nat
               /\ e.node[b].blue_work \in Nat
    BY <1>2 DEF WellFormed
  <2>3. /\ n.parents \subseteq Nodes(e)
        /\ n.past \subseteq Nodes(e) \ {id}
        /\ \A x \in n.past : e.node[x].past \subseteq n.past
        /\ DOMAIN n.sizes \subseteq n.past
        /\ n.work \in Nat /\ n.past_size \in Nat
        /\ n.blue_score \in Nat /\ n.blue_work \in Nat
    BY <1>1, <1>2, <1>4, <1>5, <1>6, <1>7
  <2> QED
    BY <1>2, <2>1, <2>2, <2>3 DEF WellFormed
<1>10. Ruled(e)
  <2>1. SameIn(d, e, Nodes(d))
    BY <1>2 DEF SameIn
  <2>2. IsRuled(e, n)
    BY <1>1, <1>8, <2>1, RuledStays
  <2>3. ASSUME NEW b \in Nodes(d) \ {Genesis} PROVE IsRuled(e, e.node[b])
    <3>1. IsRuled(d, d.node[b]) /\ d.node[b].parents \subseteq Nodes(d)
      BY DEF Ruled, WellFormed
    <3> QED
      BY <1>2, <2>1, <3>1, RuledStays
  <2>4. e.node[Genesis] = Rules!GenesisNode(e.node[Genesis].work) /\ Genesis \in Nodes(d)
    BY <1>2, Zenon DEF Ruled
  <2> QED
    BY <1>2, <2>2, <2>3, <2>4, Zenon DEF Ruled
<1> QED
  BY <1>9, <1>10 DEF e, n

LEMMA NewByTheRule ==
  ASSUME Genesis \in Nat, NEW w \in Nat
  PROVE  ByTheRule(Rules!NewDag(w))
<1> DEFINE d == Rules!NewDag(w)
<1>1. Nodes(d) = {Genesis} /\ d.node[Genesis] = Rules!GenesisNode(w)
  BY DEF Rules!NewDag, Nodes
<1>2. /\ Rules!GenesisNode(w).parents = {} /\ Rules!GenesisNode(w).past = {}
      /\ DOMAIN Rules!GenesisNode(w).sizes = {} /\ Rules!GenesisNode(w).work = w
      /\ Rules!GenesisNode(w).past_size = 0 /\ Rules!GenesisNode(w).blue_score = 0
      /\ Rules!GenesisNode(w).blue_work = 0 /\ w \in Nat
  BY DEF Rules!GenesisNode
<1>3. IsFiniteSet({Genesis}) /\ Genesis \in Nat
  BY FS_Singleton
<1> HIDE DEF d
<1>4. WellFormed(d)
  BY <1>1, <1>2, <1>3 DEF WellFormed
<1>5. Ruled(d)
  BY <1>1, <1>2, Zenon DEF Ruled
<1> QED
  BY <1>4, <1>5 DEF ByTheRule, d

-----------------------------------------------------------------------------
(***************************************************************************)
(* Recursion over the subsets of a finite set.                             *)
(***************************************************************************)
LEMMA HasMinimal ==
  ASSUME NEW S, IsFiniteSet(S), NEW F \in SUBSET SUBSET S, F # {}
  PROVE  \E U \in F : \A V \in F : V \subseteq U => V = U
<1> DEFINE R == StrictSubsetOrdering(S)
<1>1. IsWellFoundedOn(R, SUBSET S)
  <2>1. \A X : IsFiniteSet(X) => IsWellFoundedOn(StrictSubsetOrdering(X), SUBSET X)
    BY FS_FiniteSubsetsOfFinite, FS_StrictSubsetOrderingWellFounded
  <2> QED
    BY <2>1
<1>2. PICK U \in F : \A V \in F : <<V, U>> \notin R
  <2> HIDE DEF R
  <2> QED
    BY <1>1, WFMin
<1> QED
  BY <1>2 DEF StrictSubsetOrdering

\* h is what MapThenFoldSet computes over the subsets of U.
IsFold(U, T, base, pick, step, h) ==
  /\ h \in [SUBSET U -> T]
  /\ \A s \in SUBSET U :
       h[s] = IF s = {} THEN base ELSE step[<<pick[s], h[s \ {pick[s]}]>>]

\* Two folds with the same choices agree wherever both are defined.
LEMMA FoldUnique ==
  ASSUME NEW S, IsFiniteSet(S), NEW T, NEW base, NEW step,
         NEW pick, \A s \in (SUBSET S) \ {{}} : pick[s] \in s,
         NEW U \in SUBSET S, NEW V \in SUBSET S, NEW g, NEW h,
         IsFold(U, T, base, pick, step, g), IsFold(V, T, base, pick, step, h),
         NEW s \in SUBSET (U \cap V)
  PROVE  g[s] = h[s]
<1> DEFINE Bad == {x \in SUBSET (U \cap V) : g[x] # h[x]}
<1> SUFFICES ASSUME Bad # {} PROVE FALSE
  OBVIOUS
<1>1. PICK x \in Bad : \A y \in Bad : y \subseteq x => y = x
  <2>1. Bad \in SUBSET SUBSET S
    OBVIOUS
  <2> HIDE DEF Bad
  <2> QED
    BY <2>1, HasMinimal
<1>2. x # {}
  BY <1>1 DEF IsFold
<1>3. pick[x] \in x
  BY <1>1, <1>2
<1>4. g[x \ {pick[x]}] = h[x \ {pick[x]}]
  BY <1>1, <1>3
<1>5. /\ g[x] = step[<<pick[x], g[x \ {pick[x]}]>>]
      /\ h[x] = step[<<pick[x], h[x \ {pick[x]}]>>]
  <2>1. x \in SUBSET U /\ x \in SUBSET V
    BY <1>1
  <2> QED
    BY <1>2, <2>1, Zenon DEF IsFold
<1> QED
  BY <1>1, <1>4, <1>5

\* A set that is finite can be folded, whatever order its members are
\* picked in: what MapThenFoldSet chooses exists.
LEMMA FoldExists ==
  ASSUME NEW S, IsFiniteSet(S), NEW T, NEW base \in T, NEW step \in [S \X T -> T],
         NEW pick, \A s \in (SUBSET S) \ {{}} : pick[s] \in s
  PROVE  \E h : IsFold(S, T, base, pick, step, h)
<1> DEFINE Fold(U, h) == IsFold(U, T, base, pick, step, h)
           Bad == {U \in SUBSET S : ~ \E h : Fold(U, h)}
<1> SUFFICES ASSUME Bad # {} PROVE FALSE
  OBVIOUS
<1>1. PICK U \in Bad : \A V \in Bad : V \subseteq U => V = U
  <2>1. Bad \in SUBSET SUBSET S
    OBVIOUS
  <2> HIDE DEF Bad
  <2> QED
    BY <2>1, HasMinimal
<1> DEFINE H(s) == CHOOSE h : Fold(s, h)
           rest == U \ {pick[U]}
           last == IF U = {} THEN base ELSE step[<<pick[U], H(rest)[rest]>>]
           f    == [s \in SUBSET U |-> IF s = U THEN last ELSE H(s)[s]]
<1>2. ASSUME NEW s \in SUBSET U, s # U
      PROVE  Fold(s, H(s)) /\ H(s)[s] \in T
  <2>1. \E h : Fold(s, h)
    BY <1>1, <1>2
  <2>2. Fold(s, H(s))
    BY <2>1, Zenon
  <2>3. H(s) \in [SUBSET s -> T]
    BY <2>2 DEF IsFold
  <2> QED
    BY <2>2, <2>3
<1>3. U # {} => pick[U] \in U /\ pick[U] \in S /\ rest \in SUBSET U /\ rest # U
  BY <1>1
<1>4. last \in T
  BY <1>2, <1>3
<1> HIDE DEF last
<1>5. ASSUME NEW s \in SUBSET U
      PROVE  f[s] = IF s = {} THEN base ELSE step[<<pick[s], f[s \ {pick[s]}]>>]
  <2>1. s # {} => pick[s] \in s /\ s \ {pick[s]} \in SUBSET U /\ s \ {pick[s]} # U
    BY <1>1
  <2>2. CASE s = U
    <3>1. f[s] = last /\ (U # {} => f[rest] = H(rest)[rest])
      BY <1>3, <2>2
    <3> QED
      BY <2>2, <3>1 DEF last
  <2>3. CASE s # U
    <3> HIDE DEF H, Fold
    <3>1. f[s] = H(s)[s] /\ Fold(s, H(s))
      BY <1>2, <2>3
    <3>2. H(s)[s] = IF s = {} THEN base ELSE step[<<pick[s], H(s)[s \ {pick[s]}]>>]
      BY <3>1 DEF Fold, IsFold
    <3>3. ASSUME s # {}
          PROVE  f[s \ {pick[s]}] = H(s)[s \ {pick[s]}]
      <4> DEFINE t == s \ {pick[s]}
      <4>1. t \in SUBSET U /\ t # U /\ t \in SUBSET (s \cap t)
        BY <2>1, <3>3
      <4>2. Fold(t, H(t)) /\ f[t] = H(t)[t]
        BY <1>2, <4>1
      <4>3. s \in SUBSET S /\ t \in SUBSET S
        BY <1>1, <4>1
      <4> HIDE DEF t
      <4>4. H(s)[t] = H(t)[t]
        BY <3>1, <4>1, <4>2, <4>3, FoldUnique DEF Fold
      <4> QED
        BY <4>2, <4>4 DEF t
    <3> QED
      BY <3>1, <3>2, <3>3
  <2> QED
    BY <2>2, <2>3
<1>6. f \in [SUBSET U -> T]
  BY <1>2, <1>4
<1>7. Fold(U, f)
  BY <1>5, <1>6 DEF IsFold
<1> QED
  BY <1>1, <1>7

-----------------------------------------------------------------------------
(***************************************************************************)
(* The operators of DagOps and those of the rule, where both have one.     *)
(***************************************************************************)
\* The rule sorts mergesets by the key DagOps sorts by.
LEMMA SameTopo == \A d, a, b : Rules!TopoKeyLess(d, a, b) <=> TopoKeyLess(d, a, b)
BY Zenon DEF Rules!TopoKeyLess, TopoKeyLess

\* The rule compares selected-parent candidates by the key DagOps uses.
LEMMA SameChain == \A d, a, b : Rules!ChainKeyLess(d, a, b) <=> ChainKeyLess(d, a, b)
BY ZenonT(40) DEF Rules!ChainKeyLess, ChainKeyLess

\* in_anticone is the rule's, and an ancestor is a member of the past.
LEMMA SameAnticone ==
  ASSUME NEW d, NEW a \in Nodes(d), NEW b \in Nodes(d)
  PROVE  /\ in_anticone(d, a, b) <=> Rules!in_anticone(d, a, b)
         /\ is_ancestor(d, a, b) <=> a \in d.node[b].past
BY DEF in_anticone, is_ancestor, Rules!in_anticone

\* A well-formed DAG, written out.
LEMMA WellFormedIs ==
  ASSUME NEW d, WellFormed(d)
  PROVE  /\ IsFiniteSet(Nodes(d)) /\ Nodes(d) \subseteq Nat
         /\ \A b \in Nodes(d) :
              /\ d.node[b].parents \subseteq Nodes(d)
              /\ d.node[b].past \subseteq Nodes(d) \ {b}
              /\ \A x \in d.node[b].past : d.node[x].past \subseteq d.node[b].past
              /\ DOMAIN d.node[b].sizes \subseteq d.node[b].past
              /\ d.node[b].work \in Nat
              /\ d.node[b].past_size \in Nat
              /\ d.node[b].blue_score \in Nat
              /\ d.node[b].blue_work \in Nat
BY DEF WellFormed

(***************************************************************************)
(* What the keys need of a DAG: finitely many blocks, and numbers.  A DAG  *)
(* from which blocks were evicted has that much, but is not well formed:   *)
(* it has lost parents.                                                    *)
(***************************************************************************)
Numbered(d) ==
  /\ IsFiniteSet(Nodes(d)) /\ Nodes(d) \subseteq Nat
  /\ \A b \in Nodes(d) : /\ d.node[b].work \in Nat /\ d.node[b].past_size \in Nat
                         /\ d.node[b].blue_score \in Nat /\ d.node[b].blue_work \in Nat

\* A well-formed DAG has numbers for keys.
LEMMA WellNumbered ==
  ASSUME NEW d, WellFormed(d)
  PROVE  Numbered(d)
BY WellFormedIs DEF Numbered

-----------------------------------------------------------------------------
(***************************************************************************)
(* The key (past_size, id) orders the blocks, and sorting by it lists them *)
(* (mergeset_ordered, and the tail of linearize).                          *)
(***************************************************************************)
LEMMA TopoOrder ==
  ASSUME NEW d, Numbered(d)
  PROVE  /\ \A a \in Nodes(d) : ~TopoKeyLess(d, a, a)
         /\ \A a, b \in Nodes(d) : a = b \/ TopoKeyLess(d, a, b) \/ TopoKeyLess(d, b, a)
         /\ \A a, b, c \in Nodes(d) :
              TopoKeyLess(d, a, b) /\ TopoKeyLess(d, b, c) => TopoKeyLess(d, a, c)
<1>1. \A b \in Nodes(d) : b \in Nat /\ d.node[b].past_size \in Nat
  BY DEF Numbered
<1> QED
  BY <1>1 DEF TopoKeyLess

\* How many blocks of S come before b.
Rank(d, S, b) == Cardinality({a \in S : TopoKeyLess(d, a, b)})

\* The topological key totally orders a set of blocks: the ranks are
\* exactly 0 .. n - 1, each taken once.
LEMMA RankIsPlace ==
  ASSUME NEW d, Numbered(d), NEW S \in SUBSET Nodes(d)
  PROVE  LET n == Cardinality(S)
         IN  /\ n \in Nat
             /\ \A b \in S : Rank(d, S, b) \in 0 .. n - 1
             /\ \A a, b \in S : TopoKeyLess(d, a, b) <=> Rank(d, S, a) < Rank(d, S, b)
             /\ \A i \in 0 .. n - 1 : \E b \in S : Rank(d, S, b) = i
<1> DEFINE n == Cardinality(S)
           Before(b) == {a \in S : TopoKeyLess(d, a, b)}
<1>1. IsFiniteSet(S) /\ n \in Nat
  BY FS_Subset, FS_CardinalityType DEF Numbered
<1>2. ASSUME NEW b \in S
      PROVE  /\ IsFiniteSet(Before(b)) /\ Rank(d, S, b) \in Nat
             /\ IsFiniteSet(Before(b) \cup {b}) /\ Cardinality(Before(b) \cup {b}) = Rank(d, S, b) + 1
  <2>1. Before(b) \in SUBSET S /\ b \notin Before(b)
    BY TopoOrder
  <2>2. IsFiniteSet(Before(b))
    BY <1>1, <2>1, FS_Subset
  <2>3. Rank(d, S, b) = Cardinality(Before(b))
    BY DEF Rank
  <2> HIDE DEF Before
  <2> QED
    BY <2>1, <2>2, <2>3, FS_CardinalityType, FS_AddElement
<1>3. ASSUME NEW b \in S PROVE Rank(d, S, b) \in 0 .. n - 1
  <2>1. Before(b) \cup {b} \in SUBSET S
    OBVIOUS
  <2>2. Cardinality(Before(b) \cup {b}) <= n
    <3> HIDE DEF Before
    <3> QED
      BY <1>1, <2>1, FS_Subset
  <2>3. Cardinality(Before(b) \cup {b}) = Rank(d, S, b) + 1 /\ Rank(d, S, b) \in Nat
    BY <1>2
  <2> HIDE DEF n, Before
  <2> QED
    BY <1>1, <2>2, <2>3
<1>4. ASSUME NEW a \in S, NEW b \in S, TopoKeyLess(d, a, b) PROVE Rank(d, S, a) < Rank(d, S, b)
  <2>1. Before(a) \cup {a} \in SUBSET Before(b)
    BY <1>4, TopoOrder
  <2>2. Cardinality(Before(a) \cup {a}) <= Rank(d, S, b)
    <3>1. IsFiniteSet(Before(b))
      BY <1>2
    <3>2. Rank(d, S, b) = Cardinality(Before(b))
      BY DEF Rank
    <3> HIDE DEF Before
    <3> QED
      BY <2>1, <3>1, <3>2, FS_Subset
  <2>3. Cardinality(Before(a) \cup {a}) = Rank(d, S, a) + 1 /\ Rank(d, S, a) \in Nat
    BY <1>2
  <2>4. Rank(d, S, b) \in Nat
    BY <1>2
  <2> HIDE DEF Before
  <2> QED
    BY <2>2, <2>3, <2>4
<1> HIDE DEF n
<1>5. ASSUME NEW a \in S, NEW b \in S PROVE TopoKeyLess(d, a, b) <=> Rank(d, S, a) < Rank(d, S, b)
  <2>1. Rank(d, S, a) \in Int /\ Rank(d, S, b) \in Int
    BY <1>1, <1>3
  <2>2. a = b \/ TopoKeyLess(d, a, b) \/ TopoKeyLess(d, b, a)
    BY TopoOrder
  <2>3. TopoKeyLess(d, b, a) => Rank(d, S, b) < Rank(d, S, a)
    BY <1>4
  <2>4. TopoKeyLess(d, a, b) => Rank(d, S, a) < Rank(d, S, b)
    BY <1>4
  <2> QED
    BY <2>1, <2>2, <2>3, <2>4
<1>6. ASSUME NEW i \in 0 .. n - 1 PROVE \E b \in S : Rank(d, S, b) = i
  <2> DEFINE f == [b \in S |-> Rank(d, S, b)]
             I == 0 .. n - 1
  <2>1. f \in Injection(S, I)
    <3>1. f \in [S -> I]
      BY <1>3
    <3>2. ASSUME NEW a \in S, NEW b \in S, f[a] = f[b] PROVE a = b
      <4>1. ~(Rank(d, S, a) < Rank(d, S, b)) /\ ~(Rank(d, S, b) < Rank(d, S, a))
        BY <3>2, <1>3, <1>1
      <4> QED
        BY <4>1, <1>5, TopoOrder
    <3> QED
      BY <3>1, <3>2 DEF Injection, IsInjective
  <2>2. IsFiniteSet(I) /\ Cardinality(I) = n
    <3>1. \A k \in Int : IsFiniteSet(0 .. k) /\ Cardinality(0 .. k) = IF 0 > k THEN 0 ELSE k - 0 + 1
      BY FS_Interval
    <3>2. n - 1 \in Int /\ n \in Nat
      BY <1>1
    <3> QED
      BY <3>1, <3>2
  <2>3. n = Cardinality(S)
    BY DEF n
  <2> HIDE DEF I, f
  <2>4. f \in Surjection(S, I)
    BY <2>1, <2>2, <2>3, FS_Injection
  <2>5. \E b \in S : f[b] = i
    BY <2>4 DEF Surjection, I
  <2> QED
    BY <2>5 DEF f
<1>7. n \in Nat
  BY <1>1
<1>8. /\ \A b \in S : Rank(d, S, b) \in 0 .. n - 1
      /\ \A a, b \in S : TopoKeyLess(d, a, b) <=> Rank(d, S, a) < Rank(d, S, b)
      /\ \A i \in 0 .. n - 1 : \E b \in S : Rank(d, S, b) = i
  BY <1>3, <1>5, <1>6
<1> QED
  BY <1>7, <1>8 DEF n

\* SortTopo lists exactly the blocks of S, in the order of their keys.
LEMMA SortTopoLists ==
  ASSUME NEW d, Numbered(d), NEW S \in SUBSET Nodes(d)
  PROVE  LET q == SortTopo(d, S)
             n == Cardinality(S)
         IN  /\ n \in Nat /\ q \in Seq(S) /\ Len(q) = n /\ q \in [1 .. n -> S]
             /\ ToSet(q) = S
             /\ \A i, j \in 1 .. n : TopoKeyLess(d, q[i], q[j]) <=> i < j
<1> DEFINE n == Cardinality(S)
           q == [i \in 1 .. n |-> CHOOSE b \in S : Rank(d, S, b) = i - 1]
<1>1. /\ n \in Nat
      /\ \A b \in S : Rank(d, S, b) \in 0 .. n - 1
      /\ \A a, b \in S : TopoKeyLess(d, a, b) <=> Rank(d, S, a) < Rank(d, S, b)
      /\ \A i \in 0 .. n - 1 : \E b \in S : Rank(d, S, b) = i
  BY RankIsPlace
<1>2. SortTopo(d, S) = q
  BY Zenon DEF SortTopo, Rank
<1> HIDE DEF n
<1>3. ASSUME NEW i \in 1 .. n PROVE q[i] \in S /\ Rank(d, S, q[i]) = i - 1
  <2>1. i - 1 \in 0 .. n - 1
    BY <1>1
  <2>2. \E b \in S : Rank(d, S, b) = i - 1
    BY <1>1, <2>1
  <2> QED
    BY <2>2
<1>4. DOMAIN q = 1 .. n
  OBVIOUS
<1>5. q \in [1 .. n -> S]
  BY <1>3
<1> HIDE DEF q
<1>6. q \in Seq(S) /\ Len(q) = n
  BY <1>1, <1>5
<1>7. ASSUME NEW b \in S PROVE \E i \in 1 .. n : q[i] = b
  <2>1. Rank(d, S, b) + 1 \in 1 .. n /\ Rank(d, S, b) \in Nat
    BY <1>1
  <2>2. q[Rank(d, S, b) + 1] \in S /\ Rank(d, S, q[Rank(d, S, b) + 1]) = Rank(d, S, b)
    BY <1>3, <2>1
  <2>3. q[Rank(d, S, b) + 1] = b
    <3> DEFINE c == q[Rank(d, S, b) + 1]
    <3> HIDE DEF c
    <3>1. c \in S /\ Rank(d, S, c) = Rank(d, S, b)
      BY <2>2 DEF c
    <3>2. ~(Rank(d, S, c) < Rank(d, S, b)) /\ ~(Rank(d, S, b) < Rank(d, S, c))
      BY <3>1, <2>1
    <3>3. c = b
      BY <3>1, <3>2, <1>1, TopoOrder
    <3> QED
      BY <3>3 DEF c
  <2> QED
    BY <2>1, <2>3
<1>8. ToSet(q) = S
  BY <1>3, <1>4, <1>7 DEF ToSet
<1>9. ASSUME NEW i \in 1 .. n, NEW j \in 1 .. n
      PROVE  TopoKeyLess(d, q[i], q[j]) <=> i < j
  <2>1. Rank(d, S, q[i]) = i - 1 /\ Rank(d, S, q[j]) = j - 1 /\ q[i] \in S /\ q[j] \in S
    BY <1>3
  <2>2. TopoKeyLess(d, q[i], q[j]) <=> Rank(d, S, q[i]) < Rank(d, S, q[j])
    BY <1>1, <2>1
  <2> QED
    BY <1>1, <2>1, <2>2
<1> QED
  BY <1>1, <1>2, <1>5, <1>6, <1>8, <1>9 DEF n

-----------------------------------------------------------------------------
(***************************************************************************)
(* Iteration: what a function that recurs on the number below computes.    *)
(***************************************************************************)
LEMMA NatLeast ==
  ASSUME NEW B \in SUBSET Nat, B # {}
  PROVE  \E n \in B : \A m \in B : n <= m
<1>1. PICK k \in B : TRUE
  OBVIOUS
<1> DEFINE F == {0 .. n : n \in {m \in B : m <= k}}
<1>2. IsFiniteSet(0 .. k)
  <2>1. \A n \in Int : IsFiniteSet(0 .. n)
    BY FS_Interval
  <2> QED
    BY <2>1
<1>3. F \in SUBSET SUBSET (0 .. k) /\ F # {}
  BY <1>1
<1>4. PICK U \in F : \A V \in F : V \subseteq U => V = U
  <2> DEFINE I == 0 .. k
  <2> HIDE DEF F
  <2>1. IsFiniteSet(I) /\ F \in SUBSET SUBSET I /\ F # {}
    BY <1>2, <1>3
  <2> HIDE DEF I
  <2>2. \A G \in SUBSET SUBSET I : G # {} => \E U \in G : \A V \in G : V \subseteq U => V = U
    BY <2>1, HasMinimal
  <2> QED
    BY <2>1, <2>2
<1>5. PICK n \in B : n <= k /\ U = 0 .. n
  BY <1>4
<1>6. ASSUME NEW m \in B, m < n PROVE FALSE
  <2>1. 0 .. m \in F
    BY <1>5, <1>6
  <2>2. 0 .. m \subseteq U /\ n \in U /\ n \notin 0 .. m
    BY <1>5, <1>6
  <2> QED
    BY <1>4, <2>1, <2>2
<1> QED
  BY <1>5, <1>6

\* A fold over 1 .. n takes n first, then folds 1 .. n - 1.
LEMMA MaxOfPrefix ==
  ASSUME NEW n \in Nat, n > 0
  PROVE  /\ Max(1 .. n) = n /\ (1 .. n) \ {Max(1 .. n)} = 1 .. n - 1
         /\ \A s \in (SUBSET (1 .. n)) \ {{}} : Max(s) \in s
<1>1. ASSUME NEW s \in (SUBSET (1 .. n)) \ {{}}
      PROVE  Max(s) \in s /\ \A y \in s : Max(s) >= y
  <2> DEFINE B == {n - y : y \in s}
  <2>1. B \in SUBSET Nat /\ B # {}
    OBVIOUS
  <2>2. \E b \in B : \A c \in B : b <= c
    <3> HIDE DEF B
    <3> QED
      BY <2>1, NatLeast
  <2>3. PICK x \in s : \A y \in s : n - x <= n - y
    BY <2>2
  <2>4. \E z \in s : \A y \in s : z >= y
    BY <2>3
  <2> QED
    BY <2>4 DEF Max
<1>2. 1 .. n \in (SUBSET (1 .. n)) \ {{}}
  OBVIOUS
<1>3. Max(1 .. n) = n
  BY <1>1, <1>2
<1> QED
  BY <1>1, <1>3

IsStep(T, step) == step \in [Nat \X T -> T]
IsIteration(T, base, step, f) ==
  /\ f \in [Nat -> T]
  /\ \A n \in Nat : f[n] = IF n = 0 THEN base ELSE step[<<n, f[n - 1]>>]

\* A recursive function on Nat is defined at every argument.
LEMMA Iterates ==
  ASSUME NEW T, NEW base \in T, NEW step, IsStep(T, step)
  PROVE  \E f : IsIteration(T, base, step, f)
<1> USE DEF IsStep
<1> DEFINE pick == [s \in SUBSET Nat |-> Max(s)]
           Fold(n, h) == IsFold(1 .. n, T, base, pick, step, h)
           H(n) == CHOOSE h : Fold(n, h)
           f == [n \in Nat |-> H(n)[1 .. n]]
<1>1. ASSUME NEW n \in Nat
      PROVE  \A s \in (SUBSET (1 .. n)) \ {{}} : pick[s] \in s
  <2> TAKE s \in (SUBSET (1 .. n)) \ {{}}
  <2>1. n > 0 /\ s \in SUBSET Nat
    OBVIOUS
  <2>2. Max(s) \in s
    BY <2>1, MaxOfPrefix
  <2> QED
    BY <2>1, <2>2
<1>2. ASSUME NEW n \in Nat
      PROVE  Fold(n, H(n)) /\ f[n] \in T
  <2> DEFINE S == 1 .. n
             st == [p \in S \X T |-> step[p]]
  <2>1. IsFiniteSet(S)
    <3>1. \A k \in Int : IsFiniteSet(1 .. k)
      BY FS_Interval
    <3> QED
      BY <3>1
  <2>2. st \in [S \X T -> T]
    OBVIOUS
  <2>3. \A s \in (SUBSET S) \ {{}} : pick[s] \in s
    BY <1>1
  <2>4. \E h : IsFold(S, T, base, pick, st, h)
    <3> HIDE DEF S, st, pick
    <3> QED
      BY <2>1, <2>2, <2>3, FoldExists
  <2>5. PICK h : IsFold(S, T, base, pick, st, h)
    BY <2>4
  <2>6. ASSUME NEW s \in SUBSET S, s # {}
        PROVE  st[<<pick[s], h[s \ {pick[s]}]>>] = step[<<pick[s], h[s \ {pick[s]}]>>]
    <3>1. pick[s] \in S
      BY <2>3, <2>6
    <3>2. h[s \ {pick[s]}] \in T
      BY <2>5 DEF IsFold
    <3> HIDE DEF pick, S
    <3> QED
      BY <3>1, <3>2
  <2>7. Fold(n, h)
    <3> HIDE DEF st, pick, S
    <3>1. h \in [SUBSET S -> T]
      BY <2>5 DEF IsFold
    <3>2. \A s \in SUBSET S : h[s] = IF s = {} THEN base ELSE step[<<pick[s], h[s \ {pick[s]}]>>]
      BY <2>5, <2>6 DEF IsFold
    <3> QED
      BY <3>1, <3>2 DEF IsFold, S
  <2>8. Fold(n, H(n))
    <3> HIDE DEF Fold
    <3> QED
      BY <2>7, Zenon
  <2>9. H(n) \in [SUBSET (1 .. n) -> T]
    BY <2>8 DEF IsFold
  <2> QED
    BY <2>8, <2>9
<1>3. f[0] = base
  <2>1. Fold(0, H(0))
    BY <1>2
  <2>2. 1 .. 0 = {}
    OBVIOUS
  <2>3. H(0)[{}] = base
    <3> HIDE DEF H
    <3> QED
      BY <2>1 DEF IsFold
  <2> QED
    BY <2>2, <2>3
<1>4. ASSUME NEW n \in Nat, n # 0 PROVE f[n] = step[<<n, f[n - 1]>>]
  <2> DEFINE S == 1 .. n
             U == 1 .. n - 1
  <2>1. Fold(n, H(n)) /\ Fold(n - 1, H(n - 1))
    <3>1. n - 1 \in Nat
      BY <1>4
    <3> HIDE DEF Fold, H, f
    <3> QED
      BY <3>1, <1>2
  <2>2. pick[S] = n /\ S \ {n} = U /\ S # {}
    BY <1>4, MaxOfPrefix
  <2>3. f[n] = H(n)[S] /\ f[n - 1] = H(n - 1)[U]
    BY <1>4
  <2>4. H(n)[S] = step[<<n, H(n)[U]>>]
    <3> HIDE DEF H, pick, U
    <3> QED
      BY <2>1, <2>2 DEF IsFold
  <2>5. H(n)[U] = H(n - 1)[U]
    <3>1. IsFiniteSet(S) /\ S \in SUBSET S /\ U \in SUBSET S /\ U \in SUBSET (S \cap U)
      <4>1. \A k \in Int : IsFiniteSet(1 .. k)
        BY FS_Interval
      <4> QED
        BY <4>1
    <3>2. \A s \in (SUBSET S) \ {{}} : pick[s] \in s
      BY <1>1
    <3>3. /\ IsFold(S, T, base, pick, step, H(n))
          /\ IsFold(U, T, base, pick, step, H(n - 1))
      BY <2>1
    <3> HIDE DEF S, U, pick, H
    <3> QED
      BY <3>1, <3>2, <3>3, FoldUnique
  <2> QED
    BY <2>3, <2>4, <2>5
<1> HIDE DEF H, pick
<1>5. f \in [Nat -> T]
  BY <1>2
<1> HIDE DEF f
<1>6. \A n \in Nat : f[n] = IF n = 0 THEN base ELSE step[<<n, f[n - 1]>>]
  BY <1>3, <1>4
<1> QED
  BY <1>5, <1>6 DEF IsIteration

-----------------------------------------------------------------------------
(***************************************************************************)
(* The selected parent and the mergeset.                                   *)
(***************************************************************************)
LEMMA ChainOrder ==
  ASSUME NEW d, Numbered(d)
  PROVE  /\ \A a \in Nodes(d) : ~ChainKeyLess(d, a, a)
         /\ \A a, b \in Nodes(d) : a = b \/ ChainKeyLess(d, a, b) \/ ChainKeyLess(d, b, a)
         /\ \A a, b, c \in Nodes(d) :
              ChainKeyLess(d, a, b) /\ ChainKeyLess(d, b, c) => ChainKeyLess(d, a, c)
<1>1. \A b \in Nodes(d) : /\ b \in Nat /\ d.node[b].blue_work \in Nat
                          /\ d.node[b].blue_score \in Nat
  BY DEF Numbered
<1> QED
  BY <1>1 DEF ChainKeyLess

\* What Heaviest returns is the greatest by the chain key.
LEMMA HeaviestIs ==
  ASSUME NEW d, Numbered(d), NEW S \in SUBSET Nodes(d), S # {}
  PROVE  Rules!IsHeaviest(d, Heaviest(d, S), S)
<1> DEFINE Above(x) == {y \in Nodes(d) : ChainKeyLess(d, x, y)}
           F == {Above(x) : x \in S}
           N == Nodes(d)
<1>1. PICK U \in F : \A V \in F : V \subseteq U => V = U
  <2>1. F \in SUBSET SUBSET N /\ F # {}
    OBVIOUS
  <2>2. IsFiniteSet(N)
    BY DEF Numbered
  <2> HIDE DEF F, N
  <2> QED
    BY <2>1, <2>2, HasMinimal
<1>2. PICK x \in S : U = Above(x)
  BY <1>1
<1>3. ASSUME NEW y \in S \ {x} PROVE ChainKeyLess(d, y, x)
  <2>1. SUFFICES ASSUME ChainKeyLess(d, x, y) PROVE FALSE
    BY ChainOrder
  <2>2. Above(y) \subseteq Above(x) /\ y \in Above(x) /\ y \notin Above(y)
    BY <2>1, ChainOrder
  <2>3. Above(y) \in F
    OBVIOUS
  <2> HIDE DEF Above, F
  <2> QED
    BY <1>1, <1>2, <2>2, <2>3
<1>4. \E b \in S : \A c \in S \ {b} : ChainKeyLess(d, c, b)
  BY <1>3
<1>5. LET b == Heaviest(d, S) IN b \in S /\ \A c \in S \ {b} : ChainKeyLess(d, c, b)
  BY <1>4, Zenon DEF Heaviest
<1> QED
  BY <1>5, SameChain DEF Rules!IsHeaviest

\* The blocks a mergeset with selected parent s may hold.
Outside(d, s) == {x \in Nodes(d) \ {s} : ~is_ancestor(d, x, s)}

\* W is the walk of mergeset_ordered, within V.
IsWalk(d, V, ps, W) ==
  W = [n \in Nat |-> IF n = 0 THEN ps \cap V
                     ELSE W[n - 1] \cup ((UNION {d.node[x].parents : x \in W[n - 1]}) \cap V)]

\* The walk through parents inside V is defined at every length.
LEMMA WalkExists ==
  ASSUME NEW d, NEW V, NEW ps
  PROVE  \E W : IsWalk(d, V, ps, W)
<1> DEFINE base == ps \cap V
           T == SUBSET V
           Up(t) == t \cup ((UNION {d.node[x].parents : x \in t}) \cap V)
           step == [p \in Nat \X T |-> Up(p[2])]
<1>1. base \in T /\ step \in [Nat \X T -> T]
  OBVIOUS
<1>2. PICK f \in [Nat -> T] :
        \A n \in Nat : f[n] = IF n = 0 THEN base ELSE step[<<n, f[n - 1]>>]
  <2> HIDE DEF base, T, step
  <2>1. IsStep(T, step)
    BY <1>1 DEF IsStep
  <2>2. PICK f : IsIteration(T, base, step, f)
    BY <1>1, <2>1, Iterates
  <2> QED
    BY <2>2 DEF IsIteration
<1>3. ASSUME NEW n \in Nat, n # 0 PROVE step[<<n, f[n - 1]>>] = Up(f[n - 1])
  <2>1. <<n, f[n - 1]>> \in Nat \X T
    <3>1. n - 1 \in Nat
      BY <1>3
    <3> HIDE DEF T, step
    <3> QED
      BY <3>1
  <2> HIDE DEF T, Up
  <2> QED
    BY <2>1
<1>4. \A n \in Nat : f[n] = IF n = 0 THEN base ELSE Up(f[n - 1])
  <2> TAKE n \in Nat
  <2>1. f[n] = IF n = 0 THEN base ELSE step[<<n, f[n - 1]>>]
    BY <1>2
  <2> HIDE DEF step, Up, base
  <2> QED
    BY <2>1, <1>3
<1>5. f = [n \in Nat |-> IF n = 0 THEN base ELSE Up(f[n - 1])]
  <2> HIDE DEF step, Up, base
  <2> QED
    BY <1>2, <1>4
<1> QED
  BY <1>5 DEF IsWalk

\* After Cardinality(V) steps the walk is the least set of V that holds the
\* parents it starts from and is closed under parents.
LEMMA WalkCloses ==
  ASSUME NEW d, NEW V, IsFiniteSet(V), NEW ps, NEW W, IsWalk(d, V, ps, W)
  PROVE  LET N == Cardinality(V)
         IN  /\ W[N] \in SUBSET V /\ ps \cap V \subseteq W[N]
             /\ \A x \in W[N] : d.node[x].parents \cap V \subseteq W[N]
             /\ \A M : /\ ps \cap V \subseteq M
                       /\ \A x \in M : d.node[x].parents \cap V \subseteq M
                       => W[N] \subseteq M
<1> DEFINE N == Cardinality(V)
           Up(t) == t \cup ((UNION {d.node[x].parents : x \in t}) \cap V)
<1>1. N \in Nat
  BY FS_CardinalityType
<1>2. /\ W[0] = ps \cap V
      /\ \A n \in Nat : W[n + 1] = Up(W[n])
  <2>1. \A n \in Nat : W[n] = IF n = 0 THEN ps \cap V ELSE Up(W[n - 1])
    BY DEF IsWalk
  <2>2. ASSUME NEW n \in Nat PROVE W[n + 1] = Up(W[n])
    <3>1. n + 1 \in Nat /\ n + 1 # 0 /\ (n + 1) - 1 = n
      OBVIOUS
    <3> HIDE DEF Up
    <3> QED
      BY <2>1, <3>1
  <2> QED
    BY <2>1, <2>2
<1> HIDE DEF N
<1>3. ASSUME NEW P \in SUBSET Nat, 0 \in P, \A n \in P : n + 1 \in P PROVE P = Nat
  <2> SUFFICES ASSUME Nat \ P # {} PROVE FALSE
    OBVIOUS
  <2>1. PICK n \in Nat \ P : \A m \in Nat \ P : n <= m
    <3>1. Nat \ P \in SUBSET Nat
      OBVIOUS
    <3> QED
      BY <3>1, NatLeast
  <2>2. n # 0 /\ n - 1 \in Nat /\ n - 1 \in P
    BY <1>3, <2>1
  <2>3. (n - 1) + 1 \in P
    BY <1>3, <2>2
  <2> QED
    BY <2>1, <2>3
<1>4. \A n \in Nat : W[n] \in SUBSET V /\ ps \cap V \subseteq W[n]
  <2> DEFINE P == {n \in Nat : W[n] \in SUBSET V /\ ps \cap V \subseteq W[n]}
  <2>1. 0 \in P /\ \A n \in P : n + 1 \in P
    BY <1>2
  <2>2. P \in SUBSET Nat
    OBVIOUS
  <2>3. P = Nat
    <3> HIDE DEF P
    <3> QED
      BY <1>3, <2>1, <2>2
  <2> QED
    BY <2>3
<1>5. \E n \in 0 .. N : W[n + 1] = W[n]
  <2> SUFFICES ASSUME \A n \in 0 .. N : W[n + 1] # W[n] PROVE FALSE
    OBVIOUS
  <2> DEFINE P == {n \in Nat : n <= N + 1 => Cardinality(W[n]) >= n}
  <2>1. \A n \in Nat : IsFiniteSet(W[n]) /\ Cardinality(W[n]) \in Nat /\ Cardinality(W[n]) <= N
    BY <1>4, FS_Subset, FS_CardinalityType DEF N
  <2>2. 0 \in P
    BY <2>1
  <2>3. ASSUME NEW n \in P PROVE n + 1 \in P
    <3>1. SUFFICES ASSUME n + 1 <= N + 1 PROVE Cardinality(W[n + 1]) >= n + 1
      OBVIOUS
    <3>2. n \in 0 .. N /\ Cardinality(W[n]) >= n /\ n + 1 \in Nat
      BY <3>1, <1>1
    <3>3. W[n] \subseteq W[n + 1] /\ W[n + 1] # W[n]
      BY <1>2, <3>2
    <3> DEFINE A == W[n]
               B == W[n + 1]
    <3>4. IsFiniteSet(B) /\ A \in SUBSET B /\ A # B
      BY <2>1, <3>2, <3>3
    <3>5. Cardinality(A) \in Nat /\ Cardinality(B) \in Nat
      BY <2>1, <3>2
    <3>6. Cardinality(A) <= Cardinality(B) /\ Cardinality(A) # Cardinality(B)
      <4> HIDE DEF A, B
      <4> QED
        BY <3>4, FS_Subset
    <3> QED
      BY <3>2, <3>5, <3>6
  <2>4. P = Nat
    <3>1. P \in SUBSET Nat
      OBVIOUS
    <3> HIDE DEF P
    <3> QED
      BY <1>3, <2>2, <2>3, <3>1
  <2>5. N + 1 \in Nat
    BY <1>1
  <2>6. Cardinality(W[N + 1]) >= N + 1
    BY <2>4, <2>5
  <2> QED
    BY <1>1, <2>1, <2>5, <2>6
<1>6. PICK n \in 0 .. N : W[n + 1] = W[n]
  BY <1>5
<1>7. W[N] = W[n]
  <2> DEFINE P == {m \in Nat : m >= n => W[m] = W[n]}
  <2>1. 0 \in P
    BY <1>1
  <2>2. ASSUME NEW m \in P PROVE m + 1 \in P
    <3>1. SUFFICES ASSUME m + 1 >= n PROVE W[m + 1] = W[n]
      OBVIOUS
    <3>2. CASE m + 1 = n
      BY <3>2
    <3>3. CASE m >= n
      <4>1. W[m] = W[n] /\ m \in Nat /\ n \in Nat
        BY <1>1, <3>3
      <4>2. W[m + 1] = Up(W[m]) /\ W[n + 1] = Up(W[n])
        BY <1>2, <4>1
      <4> HIDE DEF Up
      <4> QED
        BY <1>6, <4>1, <4>2
    <3>4. m \in Nat /\ n \in Nat
      BY <1>1
    <3> QED
      BY <3>1, <3>2, <3>3, <3>4
  <2>3. P = Nat
    <3>1. P \in SUBSET Nat
      OBVIOUS
    <3> HIDE DEF P
    <3> QED
      BY <1>3, <2>1, <2>2, <3>1
  <2> QED
    BY <1>1, <1>6, <2>3
<1>8. \A x \in W[N] : d.node[x].parents \cap V \subseteq W[N]
  <2>1. n \in Nat
    BY <1>1
  <2>2. W[n] = Up(W[n])
    BY <1>2, <1>6, <2>1
  <2> QED
    BY <1>7, <2>2
<1>9. ASSUME NEW M, ps \cap V \subseteq M, \A x \in M : d.node[x].parents \cap V \subseteq M
      PROVE  W[N] \subseteq M
  <2> DEFINE P == {m \in Nat : W[m] \subseteq M}
  <2>1. 0 \in P /\ \A m \in P : m + 1 \in P
    BY <1>2, <1>9
  <2>2. P = Nat
    <3>1. P \in SUBSET Nat
      OBVIOUS
    <3> HIDE DEF P
    <3> QED
      BY <1>3, <2>1, <3>1
  <2> QED
    BY <1>1, <2>2
<1>10. W[N] \in SUBSET V /\ ps \cap V \subseteq W[N]
  BY <1>1, <1>4
<1> QED
  BY <1>8, <1>9, <1>10 DEF N

\* The past of a block is its parents and their pasts.
PastIsAncestry(d) ==
  \A b \in Nodes(d) : d.node[b].past = Rules!Ancestors(d, d.node[b].parents)

\* M is what the walk of mergeset_ordered from ps finds: the least set of
\* blocks outside the past of s with those of ps and closed under parents.
IsReach(d, s, ps, M) ==
  /\ M \in SUBSET Outside(d, s) /\ ps \cap Outside(d, s) \subseteq M
  /\ \A x \in M : d.node[x].parents \cap Outside(d, s) \subseteq M
  /\ \A B : /\ ps \cap Outside(d, s) \subseteq B
            /\ \A x \in B : d.node[x].parents \cap Outside(d, s) \subseteq B
            => M \subseteq B

\* mergeset_ordered sorts what the walk finds.
LEMMA MergesetWalk ==
  ASSUME NEW d, IsFiniteSet(Nodes(d)), NEW s, NEW ps
  PROVE  \E M : mergeset_ordered(d, s, ps) = SortTopo(d, M) /\ IsReach(d, s, ps, M)
<1> DEFINE V == Outside(d, s)
           N == Cardinality(V)
           w == CHOOSE W : W = [n \in Nat |-> IF n = 0 THEN ps \cap V
                     ELSE W[n - 1] \cup ((UNION {d.node[x].parents : x \in W[n - 1]}) \cap V)]
<1>1. mergeset_ordered(d, s, ps) = SortTopo(d, w[N])
  BY Zenon DEF mergeset_ordered, Outside
<1>2. IsWalk(d, V, ps, w)
  <2> HIDE DEF V
  <2>1. PICK W : IsWalk(d, V, ps, W)
    BY WalkExists, Zenon
  <2>2. W = [n \in Nat |-> IF n = 0 THEN ps \cap V
                     ELSE W[n - 1] \cup ((UNION {d.node[x].parents : x \in W[n - 1]}) \cap V)]
    BY <2>1, Zenon DEF IsWalk
  <2> QED
    BY <2>2, Zenon DEF IsWalk
<1> HIDE DEF w
<1>3. IsFiniteSet(V)
  <2>1. V \in SUBSET Nodes(d)
    BY DEF Outside
  <2> HIDE DEF V
  <2> QED
    BY <2>1, FS_Subset
<1> HIDE DEF V
<1>4. /\ w[N] \in SUBSET V /\ ps \cap V \subseteq w[N]
      /\ \A x \in w[N] : d.node[x].parents \cap V \subseteq w[N]
      /\ \A B : /\ ps \cap V \subseteq B
                /\ \A x \in B : d.node[x].parents \cap V \subseteq B
                => w[N] \subseteq B
  BY <1>2, <1>3, WalkCloses
<1>5. IsReach(d, s, ps, w[N])
  BY <1>4 DEF IsReach, V
<1> QED
  BY <1>1, <1>5

(***************************************************************************)
(* The walk over parent edges finds the mergeset: the ancestry of the      *)
(* parents that the selected parent does not have.  What else the DAG      *)
(* holds makes no difference.                                              *)
(***************************************************************************)
LEMMA MergesetIs ==
  ASSUME NEW d, WellFormed(d), PastIsAncestry(d),
         NEW s \in Nodes(d), NEW ps \in SUBSET Nodes(d)
  PROVE  /\ mergeset_ordered(d, s, ps) = SortTopo(d, Rules!Merged(d, s, ps))
         /\ Rules!Merged(d, s, ps) \in SUBSET Nodes(d)
<1> DEFINE V == Outside(d, s)
           M == Rules!Merged(d, s, ps)
<1>1. PICK w : mergeset_ordered(d, s, ps) = SortTopo(d, w) /\ IsReach(d, s, ps, w)
  BY MergesetWalk, WellFormedIs
<1>3. /\ V \in SUBSET Nodes(d)
      /\ \A x \in Nodes(d) : x \in V <=> x # s /\ x \notin d.node[s].past
  BY SameAnticone DEF Outside
<1>5. \A x : x \in M <=> /\ x # s /\ x \notin d.node[s].past
                         /\ (x \in ps \/ \E p \in ps : x \in d.node[p].past)
  BY DEF Rules!Merged, Rules!Ancestors
<1>6. M \in SUBSET V
  BY <1>3, <1>5, WellFormedIs
<1>7. /\ w \in SUBSET V /\ ps \cap V \subseteq w
      /\ \A x \in w : d.node[x].parents \cap V \subseteq w
      /\ \A B : /\ ps \cap V \subseteq B
                /\ \A x \in B : d.node[x].parents \cap V \subseteq B
                => w \subseteq B
  BY <1>1, Zenon DEF IsReach
<1> HIDE DEF V, M
<1>8. ASSUME NEW b \in Nodes(d), NEW x
      PROVE  x \in d.node[b].past <=>
               x \in d.node[b].parents \/ \E q \in d.node[b].parents : x \in d.node[q].past
  BY DEF PastIsAncestry, Rules!Ancestors
<1>9. w \subseteq M
  <2>1. ps \cap V \subseteq M
    BY <1>3, <1>5
  <2>2. ASSUME NEW x \in M, NEW y \in d.node[x].parents \cap V PROVE y \in M
    <3>1. y \in d.node[x].past /\ x \in Nodes(d)
      BY <1>3, <1>6, <1>8
    <3>2. \E p \in ps : y \in d.node[p].past
      BY <1>5, <3>1, WellFormedIs
    <3> QED
      BY <1>3, <1>5, <2>2, <3>2
  <2> QED
    BY <1>7, <2>1, <2>2
<1>10. ASSUME NEW x \in M \ w PROVE FALSE
  <2> DEFINE C == {c \in w : x \in d.node[c].past}
  <2>1. x \in V /\ x \in Nodes(d) /\ x # s /\ x \notin d.node[s].past
    BY <1>3, <1>5, <1>6
  <2>2. PICK p \in ps : x \in d.node[p].past
    BY <1>5, <1>7, <1>10, <2>1
  <2>3. ASSUME NEW q \in Nodes(d), x \in d.node[q].past PROVE q \in V
    BY <1>3, <2>1, <2>3, WellFormedIs
  <2>4. p \in C
    BY <1>7, <2>2, <2>3
  <2>5. C \in SUBSET Nodes(d) /\ C # {}
    BY <1>3, <1>7, <2>4
  <2>6. PICK c \in C : \A y \in C : y \notin d.node[c].past
    <3> HIDE DEF C
    <3> QED
      BY <2>5, SameNodes, HasOldest
  <2>7. c \in Nodes(d) /\ c \in w /\ x \in d.node[c].past
    BY <2>5, <2>6
  <2>8. CASE x \in d.node[c].parents
    BY <1>7, <1>10, <2>1, <2>7, <2>8
  <2>9. CASE \E q \in d.node[c].parents : x \in d.node[q].past
    <3>1. PICK q \in d.node[c].parents : x \in d.node[q].past
      BY <2>9
    <3>2. q \in Nodes(d) /\ q \in d.node[c].past
      BY <1>8, <2>7, <3>1, WellFormedIs
    <3>3. q \in w
      BY <1>7, <2>3, <2>7, <3>1, <3>2
    <3> QED
      BY <2>6, <3>1, <3>2, <3>3
  <2> QED
    BY <1>8, <2>7, <2>8, <2>9
<1>11. w = M
  BY <1>9, <1>10
<1> QED
  BY <1>1, <1>3, <1>6, <1>11 DEF M

-----------------------------------------------------------------------------
(***************************************************************************)
(* The blue sets are k-clusters.                                           *)
(***************************************************************************)
LEMMA AnticoneFacts ==
  ASSUME NEW d, WellFormed(d), NEW S \in SUBSET Nodes(d), NEW x \in Nodes(d)
  PROVE  /\ IsFiniteSet(Rules!AnticoneIn(d, x, S))
         /\ Cardinality(Rules!AnticoneIn(d, x, S)) \in Nat
         /\ \A R \in SUBSET S :
              Cardinality(Rules!AnticoneIn(d, x, R)) <= Cardinality(Rules!AnticoneIn(d, x, S))
         /\ \A c \in Nodes(d) \ S :
              Cardinality(Rules!AnticoneIn(d, x, S \cup {c})) =
                     IF Rules!in_anticone(d, x, c)
                     THEN Cardinality(Rules!AnticoneIn(d, x, S)) + 1
                     ELSE Cardinality(Rules!AnticoneIn(d, x, S))
<1> DEFINE A(R) == Rules!AnticoneIn(d, x, R)
<1>1. \A R : \A y : y \in A(R) <=> y \in R /\ Rules!in_anticone(d, x, y)
  BY DEF Rules!AnticoneIn
<1> HIDE DEF A
<1>2. A(S) \in SUBSET Nodes(d) /\ IsFiniteSet(Nodes(d))
  BY <1>1, WellFormedIs
<1>3. IsFiniteSet(A(S)) /\ Cardinality(A(S)) \in Nat
  BY <1>2, FS_Subset, FS_CardinalityType
<1>4. ASSUME NEW R \in SUBSET S PROVE Cardinality(A(R)) <= Cardinality(A(S))
  <2>1. A(R) \in SUBSET A(S)
    BY <1>1
  <2> QED
    BY <1>3, <2>1, FS_Subset
<1>5. ASSUME NEW c \in Nodes(d) \ S
      PROVE  Cardinality(A(S \cup {c})) =
               IF Rules!in_anticone(d, x, c) THEN Cardinality(A(S)) + 1 ELSE Cardinality(A(S))
  <2>1. CASE Rules!in_anticone(d, x, c)
    <3>1. A(S \cup {c}) = A(S) \cup {c} /\ c \notin A(S)
      BY <1>1, <2>1
    <3> QED
      BY <1>3, <2>1, <3>1, FS_AddElement
  <2>2. CASE ~Rules!in_anticone(d, x, c)
    <3>1. A(S \cup {c}) = A(S)
      BY <1>1, <2>2
    <3> QED
      BY <2>2, <3>1
  <2> QED
    BY <2>1, <2>2
<1> QED
  BY <1>3, <1>4, <1>5, Zenon DEF A

\* A subset of a k-cluster is a k-cluster.
LEMMA SubClusters ==
  ASSUME NEW d, WellFormed(d), K \in Nat, NEW S \in SUBSET Nodes(d), NEW R \in SUBSET S,
         Rules!IsKCluster(d, S)
  PROVE  Rules!IsKCluster(d, R)
<1>1. ASSUME NEW x \in R PROVE Cardinality(Rules!AnticoneIn(d, x, R)) <= K
  <2>1. x \in Nodes(d) /\ x \in S /\ R \in SUBSET Nodes(d)
    OBVIOUS
  <2>2. /\ Cardinality(Rules!AnticoneIn(d, x, R)) <= Cardinality(Rules!AnticoneIn(d, x, S))
        /\ Cardinality(Rules!AnticoneIn(d, x, R)) \in Nat
        /\ Cardinality(Rules!AnticoneIn(d, x, S)) \in Nat
    BY <2>1, AnticoneFacts
  <2>3. Cardinality(Rules!AnticoneIn(d, x, S)) <= K
    BY SameCard DEF Rules!IsKCluster
  <2> QED
    BY <2>2, <2>3
<1> QED
  BY <1>1, SameCard DEF Rules!IsKCluster

\* A block next to blocks of its past.
LEMMA PastIsNoAnticone ==
  ASSUME NEW d, WellFormed(d), K \in Nat, NEW s \in Nodes(d),
         NEW S \in SUBSET d.node[s].past, Rules!IsKCluster(d, S)
  PROVE  /\ Rules!IsKCluster(d, S \cup {s})
         /\ Rules!AnticoneIn(d, s, S \cup {s}) = {}
         /\ \A x \in S : Rules!AnticoneIn(d, x, S \cup {s}) = Rules!AnticoneIn(d, x, S)
<1>1. \A y \in S : ~Rules!in_anticone(d, s, y) /\ ~Rules!in_anticone(d, y, s)
  BY DEF Rules!in_anticone
<1>2. ~Rules!in_anticone(d, s, s)
  BY DEF Rules!in_anticone
<1>3. Rules!AnticoneIn(d, s, S \cup {s}) = {}
  BY <1>1, <1>2 DEF Rules!AnticoneIn
<1>4. \A x \in S : Rules!AnticoneIn(d, x, S \cup {s}) = Rules!AnticoneIn(d, x, S)
  BY <1>1 DEF Rules!AnticoneIn
<1>5. Rules!Cardinality({}) <= K
  BY SameCard, FS_EmptySet
<1>6. Rules!IsKCluster(d, S \cup {s})
  BY <1>3, <1>4, <1>5 DEF Rules!IsKCluster
<1> QED
  BY <1>3, <1>4, <1>6

(***************************************************************************)
(* In a DAG recorded by the rule the blue set of every block is a          *)
(* k-cluster, and the sizes of its anticones are recorded.                 *)
(***************************************************************************)
BlueSets(d) ==
  \A b \in Nodes(d) :
    LET blue == DOMAIN d.node[b].sizes
    IN  /\ Rules!IsKCluster(d, blue)
        /\ d.node[b].sizes = [x \in blue |-> Cardinality(Rules!AnticoneIn(d, x, blue))]

\* What the records hold.
BlueOf(d, b) == Rules!Inherited(d, d.node[b].sp) \cup d.node[b].blues

\* What is recorded of genesis.
LEMMA GenesisFields ==
  ASSUME NEW d, ByTheRule(d)
  PROVE  /\ Genesis \in Nodes(d)
         /\ d.node[Genesis] = Rules!GenesisNode(d.node[Genesis].work)
         /\ d.node[Genesis].parents = {} /\ d.node[Genesis].past = {}
         /\ d.node[Genesis].past_size = 0
         /\ d.node[Genesis].blue_score = 0 /\ d.node[Genesis].blue_work = 0
         /\ d.node[Genesis].sizes = [x \in {} |-> 0]
<1> DEFINE r == Rules!GenesisNode(d.node[Genesis].work)
<1>1. Genesis \in Nodes(d) /\ d.node[Genesis] = r
  BY SameNodes, Zenon DEF ByTheRule, Ruled
<1>2. /\ r.parents = {} /\ r.past = {} /\ r.past_size = 0
      /\ r.blue_score = 0 /\ r.blue_work = 0 /\ r.sizes = [x \in {} |-> 0]
  BY DEF Rules!GenesisNode
<1> HIDE DEF r
<1> QED
  BY <1>1, <1>2, Zenon DEF r

\* What is recorded of every other block.
LEMMA RecordFields ==
  ASSUME NEW d, ByTheRule(d), NEW b \in Nodes(d), b # Genesis
  PROVE  /\ d.node[b].parents # {} /\ d.node[b].sp \in d.node[b].parents
         /\ Rules!IsColouring(d, d.node[b].parents, d.node[b].sp, d.node[b].blues)
         /\ d.node[b].past = Rules!Ancestors(d, d.node[b].parents)
         /\ d.node[b].past_size = Cardinality(d.node[b].past)
         /\ d.node[b].reds =
              Rules!Merged(d, d.node[b].sp, d.node[b].parents) \ d.node[b].blues
         /\ d.node[b].blue_score = Cardinality(BlueOf(d, b))
         /\ d.node[b].blue_work = Rules!WorkOf(d, BlueOf(d, b))
         /\ d.node[b].sizes =
              [x \in BlueOf(d, b) |-> Cardinality(Rules!AnticoneIn(d, x, BlueOf(d, b)))]
<1>1. IsRuled(d, d.node[b])
  BY SameNodes, Zenon DEF ByTheRule, Ruled
<1> DEFINE n == d.node[b]
           r == Rules!NodeOf(d, n.parents, n.work, n.sp, n.blues)
           blue == BlueOf(d, b)
<1>2. /\ n.parents # {} /\ Rules!IsColouring(d, n.parents, n.sp, n.blues)
      /\ n = r
  BY <1>1, Zenon DEF IsRuled
<1>3. n.sp \in n.parents
  BY <1>2, Zenon DEF Rules!IsColouring, Rules!IsHeaviest
<1>4. /\ r.past = Rules!Ancestors(d, n.parents)
      /\ r.past_size = Rules!Cardinality(Rules!Ancestors(d, n.parents))
      /\ r.reds = Rules!Merged(d, n.sp, n.parents) \ n.blues
      /\ r.blue_score = Rules!Cardinality(blue)
      /\ r.blue_work = Rules!WorkOf(d, blue)
      /\ r.sizes = [x \in blue |-> Rules!Cardinality(Rules!AnticoneIn(d, x, blue))]
  BY DEF Rules!NodeOf, BlueOf
<1> HIDE DEF n, r, blue
<1>5. [x \in blue |-> Rules!Cardinality(Rules!AnticoneIn(d, x, blue))] =
      [x \in blue |-> Cardinality(Rules!AnticoneIn(d, x, blue))]
  BY SameCard
<1> QED
  BY <1>2, <1>3, <1>4, <1>5, SameCard DEF n, blue

\* A set of blocks that is not empty has a last one by the topological key.
LEMMA HasLast ==
  ASSUME NEW d, WellFormed(d), NEW S \in SUBSET Nodes(d), S # {}
  PROVE  \E c \in S : \A y \in S \ {c} : TopoKeyLess(d, y, c)
<1> DEFINE q == SortTopo(d, S)
           n == Cardinality(S)
<1>1. /\ n \in Nat /\ Len(q) = n /\ q \in [1 .. n -> S] /\ ToSet(q) = S
      /\ \A i, j \in 1 .. n : TopoKeyLess(d, q[i], q[j]) <=> i < j
  BY WellNumbered, SortTopoLists
<1>2. S = {q[i] : i \in 1 .. n}
  BY <1>1 DEF ToSet
<1> HIDE DEF q, n
<1>3. n \in 1 .. n
  BY <1>1, <1>2
<1>4. q[n] \in S /\ \A y \in S \ {q[n]} : TopoKeyLess(d, y, q[n])
  <2>1. q[n] \in S
    BY <1>1, <1>3
  <2>2. ASSUME NEW y \in S \ {q[n]} PROVE TopoKeyLess(d, y, q[n])
    <3>1. PICK i \in 1 .. n : y = q[i]
      BY <1>2
    <3>2. i < n
      BY <1>1, <3>1
    <3> QED
      BY <1>1, <1>3, <3>1, <3>2
  <2> QED
    BY <2>1, <2>2
<1> QED
  BY <1>4

\* A greedy colouring over a k-cluster makes a k-cluster.
LEMMA GreedyIsCluster ==
  ASSUME NEW d, WellFormed(d), NEW seed \in SUBSET Nodes(d), Rules!IsKCluster(d, seed),
         NEW M \in SUBSET Nodes(d), NEW B \in SUBSET M, Rules!IsGreedy(d, seed, M, B)
  PROVE  Rules!IsKCluster(d, seed \cup B)
<1>1. CASE B = {}
  <2>1. seed \cup B = seed
    BY <1>1
  <2> QED
    BY <2>1
<1>2. CASE B # {}
  <2>1. PICK c \in B : \A y \in B \ {c} : TopoKeyLess(d, y, c)
    BY <1>2, HasLast
  <2>2. seed \cup B = seed \cup {b \in B : Rules!TopoKeyLess(d, b, c)} \cup {c}
    BY <2>1, SameTopo
  <2>3. Rules!IsKCluster(d, seed \cup {b \in B : Rules!TopoKeyLess(d, b, c)} \cup {c})
    BY <2>1 DEF Rules!IsGreedy
  <2> QED
    BY <2>2, <2>3
<1> QED
  BY <1>1, <1>2

\* In a DAG built by the rule every blue set is a k-cluster and the anticone
\* sizes recorded for its members are exact.
LEMMA RuledBlueSets ==
  ASSUME NEW d, ByTheRule(d), K \in Nat
  PROVE  BlueSets(d)
<1>0. WellFormed(d)
  BY DEF ByTheRule
<1> DEFINE Blue(b) == DOMAIN d.node[b].sizes
           Fine(b) == /\ Rules!IsKCluster(d, Blue(b))
                      /\ d.node[b].sizes =
                           [x \in Blue(b) |-> Cardinality(Rules!AnticoneIn(d, x, Blue(b)))]
           Bad == {b \in Nodes(d) : ~Fine(b)}
<1> SUFFICES ASSUME Bad # {} PROVE FALSE
  BY DEF BlueSets
<1>1. PICK b \in Bad : \A y \in Bad : y \notin d.node[b].past
  <2>1. Bad \in SUBSET Nodes(d)
    OBVIOUS
  <2> HIDE DEF Bad
  <2> QED
    BY <1>0, <2>1, SameNodes, HasOldest
<1>2. b \in Nodes(d) /\ ~Fine(b) /\ \A y \in d.node[b].past \cap Nodes(d) : Fine(y)
  BY <1>1
<1>3. CASE b = Genesis
  <2>1. d.node[b].sizes = [x \in {} |-> 0]
    BY <1>3, GenesisFields
  <2>2. Blue(b) = {}
    BY <2>1
  <2>3. Rules!IsKCluster(d, Blue(b))
    BY <2>2 DEF Rules!IsKCluster
  <2>4. d.node[b].sizes = [x \in Blue(b) |-> Cardinality(Rules!AnticoneIn(d, x, Blue(b)))]
    BY <2>1, <2>2
  <2> QED
    BY <1>2, <2>3, <2>4
<1>4. CASE b # Genesis
  <2> DEFINE n == d.node[b]
             s == n.sp
             seed == Rules!Inherited(d, s)
             M == Rules!Merged(d, s, n.parents)
             blue == BlueOf(d, b)
  <2>1. /\ s \in n.parents /\ Rules!IsColouring(d, n.parents, s, n.blues)
        /\ n.past = Rules!Ancestors(d, n.parents)
        /\ n.sizes = [x \in blue |-> Cardinality(Rules!AnticoneIn(d, x, blue))]
    <3>1. b \in Nodes(d) /\ b # Genesis
      BY <1>2, <1>4
    <3> HIDE DEF Bad, Fine, Blue, seed, M
    <3> QED
      BY <3>1, RecordFields
  <2>2. s \in Nodes(d) /\ s \in n.past /\ n.past \subseteq Nodes(d)
    BY <1>0, <1>2, <2>1, WellFormedIs DEF Rules!Ancestors
  <2>3. Rules!IsKCluster(d, Blue(s)) /\ Blue(s) \in SUBSET d.node[s].past
    BY <1>0, <1>2, <2>2, WellFormedIs
  <2>4. Rules!IsKCluster(d, Blue(s) \cup {s})
    BY <1>0, <2>2, <2>3, PastIsNoAnticone
  <2>5. Rules!IsKCluster(d, seed) /\ seed \in SUBSET Nodes(d)
    BY <1>0, <2>2, <2>3, <2>4, WellFormedIs DEF Rules!Inherited
  <2>6. M \in SUBSET Nodes(d)
    BY <2>1, <2>2 DEF Rules!Merged
  <2>7. n.blues \in SUBSET M /\ Rules!IsGreedy(d, seed, M, n.blues)
    BY <2>1 DEF Rules!IsColouring
  <2> HIDE DEF M, seed
  <2>8. Rules!IsKCluster(d, blue)
    <3>1. Rules!IsKCluster(d, seed \cup n.blues)
      BY <1>0, <2>5, <2>6, <2>7, GreedyIsCluster
    <3> QED
      BY <3>1 DEF BlueOf, seed
  <2>9. Blue(b) = blue
    <3> HIDE DEF blue
    <3> QED
      BY <2>1
  <2> HIDE DEF blue
  <2> QED
    BY <1>2, <2>1, <2>8, <2>9
<1> QED
  BY <1>3, <1>4

\* In a DAG built by the rule a past is the ancestors by parents.
LEMMA RuledAncestry ==
  ASSUME NEW d, ByTheRule(d)
  PROVE  PastIsAncestry(d)
<1>0. WellFormed(d)
  BY DEF ByTheRule
<1> SUFFICES ASSUME NEW b \in Nodes(d)
             PROVE  d.node[b].past = Rules!Ancestors(d, d.node[b].parents)
  BY DEF PastIsAncestry
<1>1. CASE b = Genesis
  <2>1. d.node[b].past = {} /\ d.node[b].parents = {}
    BY <1>1, GenesisFields
  <2> QED
    BY <2>1 DEF Rules!Ancestors
<1>2. CASE b # Genesis
  BY <1>2, RecordFields
<1> QED
  BY <1>1, <1>2

\* The mergeset is a sequence of blocks of the DAG.
LEMMA MergesetLists ==
  ASSUME NEW d, ByTheRule(d), NEW s \in Nodes(d), NEW ps \in SUBSET Nodes(d)
  PROVE  mergeset_ordered(d, s, ps) \in Seq(Nodes(d))
<1> DEFINE M == Rules!Merged(d, s, ps)
<1>1. mergeset_ordered(d, s, ps) = SortTopo(d, M) /\ M \in SUBSET Nodes(d)
  BY RuledAncestry, MergesetIs DEF ByTheRule
<1> HIDE DEF M
<1>2. SortTopo(d, M) \in Seq(M)
  BY <1>1, WellNumbered, SortTopoLists DEF ByTheRule
<1> QED
  BY <1>1, <1>2

-----------------------------------------------------------------------------
(***************************************************************************)
(* The colouring loop of compute_ghostdag, one candidate at a time.        *)
(***************************************************************************)
Sized(d, S) == [x \in S |-> Cardinality(Rules!AnticoneIn(d, x, S))]

Acc(d, seed, B, R) == [blues |-> B, reds |-> R, sizes |-> Sized(d, seed \cup B)]

\* try_colour_blue lets in whom the k-cluster can take.
LEMMA FitsIs ==
  ASSUME NEW d, WellFormed(d), K \in Nat, NEW D \in SUBSET Nodes(d),
         NEW c \in Nodes(d) \ D, Rules!IsKCluster(d, D)
  PROVE  /\ AnticoneBlues(d, Sized(d, D), c) = Rules!AnticoneIn(d, c, D)
         /\ try_colour_blue(d, Sized(d, D), c) <=> Rules!IsKCluster(d, D \cup {c})
<1> DEFINE z == Sized(d, D)
           A == AnticoneBlues(d, z, c)
           n(x) == Cardinality(Rules!AnticoneIn(d, x, D))
           m(x) == Cardinality(Rules!AnticoneIn(d, x, D \cup {c}))
<1>1. DOMAIN z = D /\ \A x \in D : z[x] = n(x)
  BY DEF Sized
<1> HIDE DEF z
<1>2. \A x \in D : in_anticone(d, x, c) <=> Rules!in_anticone(d, x, c)
  BY SameAnticone
<1>3. \A x \in D : Rules!in_anticone(d, x, c) <=> Rules!in_anticone(d, c, x)
  BY DEF Rules!in_anticone
<1>4. A = Rules!AnticoneIn(d, c, D)
  BY <1>1, <1>2, <1>3 DEF AnticoneBlues, Rules!AnticoneIn
<1>5. \A x \in D : x \in A <=> Rules!in_anticone(d, x, c)
  BY <1>1, <1>2 DEF AnticoneBlues
<1> HIDE DEF A
<1>6. \A x \in D : /\ n(x) \in Nat /\ n(x) <= K
                   /\ m(x) = IF x \in A THEN n(x) + 1 ELSE n(x)
  <2> TAKE x \in D
  <2>1. n(x) \in Nat /\ m(x) = IF Rules!in_anticone(d, x, c) THEN n(x) + 1 ELSE n(x)
    BY AnticoneFacts
  <2>2. n(x) <= K
    BY SameCard DEF Rules!IsKCluster
  <2> QED
    BY <1>5, <2>1, <2>2
<1>7. m(c) = n(c)
  <2>1. Rules!AnticoneIn(d, c, D \cup {c}) = Rules!AnticoneIn(d, c, D)
    BY DEF Rules!AnticoneIn, Rules!in_anticone
  <2> QED
    BY <2>1
<1>8. A \in SUBSET D
  BY <1>4 DEF Rules!AnticoneIn
<1>9. Cardinality(A) = m(c)
  BY <1>4, <1>7
<1>10. Rules!IsKCluster(d, D \cup {c}) <=> \A x \in D \cup {c} : m(x) <= K
  BY SameCard DEF Rules!IsKCluster
<1>11. try_colour_blue(d, z, c) <=> m(c) <= K /\ \A x \in A : n(x) + 1 <= K
  BY <1>1, <1>8, <1>9 DEF try_colour_blue, A
<1> HIDE DEF m, n
<1>12. (\A x \in D \cup {c} : m(x) <= K) <=> m(c) <= K /\ \A x \in A : n(x) + 1 <= K
  BY <1>6, <1>8
<1> QED
  BY <1>4, <1>10, <1>11, <1>12 DEF A, z

\* The loop does with c what the k-cluster says.
ColoursRight(d, seed, B, R, c) ==
  IF Rules!IsKCluster(d, seed \cup B \cup {c})
  THEN ColourOne(d, Acc(d, seed, B, R), c) = Acc(d, seed, B \cup {c}, R)
  ELSE ColourOne(d, Acc(d, seed, B, R), c) = Acc(d, seed, B, R \cup {c})

\* One step of the colouring loop: a candidate turns blue exactly when the
\* k-cluster can take it, and every size is kept exact.
LEMMA ColourStep ==
  ASSUME NEW d, WellFormed(d), K \in Nat,
         NEW seed \in SUBSET Nodes(d), NEW B \in SUBSET Nodes(d), NEW R,
         NEW c \in Nodes(d) \ (seed \cup B), Rules!IsKCluster(d, seed \cup B)
  PROVE  ColoursRight(d, seed, B, R, c)
<1> DEFINE D == seed \cup B
           z == Sized(d, D)
           A == Rules!AnticoneIn(d, c, D)
           zc == [x \in DOMAIN z \cup {c} |->
                    IF x = c THEN Cardinality(A) ELSE IF x \in A THEN z[x] + 1 ELSE z[x]]
<1>1. /\ AnticoneBlues(d, z, c) = A
      /\ try_colour_blue(d, z, c) <=> Rules!IsKCluster(d, D \cup {c})
  <2>1. D \in SUBSET Nodes(d) /\ c \in Nodes(d) \ D /\ Rules!IsKCluster(d, D)
    OBVIOUS
  <2> HIDE DEF D
  <2> QED
    BY <2>1, FitsIs
<1>2. ColourOne(d, Acc(d, seed, B, R), c) =
        IF Rules!IsKCluster(d, D \cup {c})
        THEN [blues |-> B \cup {c}, reds |-> R, sizes |-> zc]
        ELSE [blues |-> B, reds |-> R \cup {c}, sizes |-> z]
  <2> DEFINE a == Acc(d, seed, B, R)
  <2>1. a = [blues |-> B, reds |-> R, sizes |-> z]
    BY DEF Acc
  <2>2. a.blues = B /\ a.reds = R /\ a.sizes = z
    BY <2>1
  <2>3. /\ [a EXCEPT !.blues = B \cup {c}, !.sizes = zc] =
             [blues |-> B \cup {c}, reds |-> R, sizes |-> zc]
        /\ [a EXCEPT !.reds = R \cup {c}] = [blues |-> B, reds |-> R \cup {c}, sizes |-> z]
    <3> DEFINE B1 == B \cup {c}
               R1 == R \cup {c}
               S == {B, B1, R, R1, z, zc}
               T == [blues : S, reds : S, sizes : S]
               e == [a EXCEPT !.blues = B1, !.sizes = zc]
               f == [a EXCEPT !.reds = R1]
    <3>1. B \in S /\ B1 \in S /\ R \in S /\ R1 \in S /\ z \in S /\ zc \in S
      OBVIOUS
    <3> HIDE DEF S, a, z, zc, B1, R1
    <3>2. a \in T
      BY <2>1, <3>1
    <3>3. e \in T /\ f \in T
      BY <3>1, <3>2
    <3>4. /\ e.blues = B1 /\ e.reds = R /\ e.sizes = zc
          /\ f.blues = B /\ f.reds = R1 /\ f.sizes = z
      BY <2>2, <3>1, <3>2
    <3> HIDE DEF e, f
    <3>5. e = [blues |-> B1, reds |-> R, sizes |-> zc]
      BY <3>3, <3>4
    <3>6. f = [blues |-> B, reds |-> R1, sizes |-> z]
      BY <3>3, <3>4
    <3> QED
      BY <3>5, <3>6 DEF e, f, B1, R1
  <2> DEFINE az == [x \in DOMAIN a.sizes \cup {c} |->
                      IF x = c THEN Cardinality(AnticoneBlues(d, a.sizes, c))
                      ELSE IF x \in AnticoneBlues(d, a.sizes, c) THEN a.sizes[x] + 1
                           ELSE a.sizes[x]]
  <2>4. az = zc
    <3> HIDE DEF a, z, D, A
    <3> QED
      BY <1>1, <2>2, Zenon
  <2>5. ColourOne(d, a, c) =
          IF try_colour_blue(d, a.sizes, c)
          THEN [a EXCEPT !.blues = a.blues \cup {c}, !.sizes = az]
          ELSE [a EXCEPT !.reds = a.reds \cup {c}]
    <3> HIDE DEF a
    <3> QED
      BY Zenon DEF ColourOne
  <2> SUFFICES ColourOne(d, a, c) =
        IF Rules!IsKCluster(d, D \cup {c})
        THEN [blues |-> B \cup {c}, reds |-> R, sizes |-> zc]
        ELSE [blues |-> B, reds |-> R \cup {c}, sizes |-> z]
    OBVIOUS
  <2> HIDE DEF a, z, zc, az, D
  <2>6. CASE Rules!IsKCluster(d, D \cup {c})
    BY <1>1, <2>2, <2>3, <2>4, <2>5, <2>6
  <2>7. CASE ~Rules!IsKCluster(d, D \cup {c})
    BY <1>1, <2>2, <2>3, <2>5, <2>7
  <2> QED
    BY <2>6, <2>7
<1>3. zc = Sized(d, D \cup {c})
  <2>1. DOMAIN z = D /\ \A x \in D : z[x] = Cardinality(Rules!AnticoneIn(d, x, D))
    BY DEF Sized
  <2>2. Rules!AnticoneIn(d, c, D \cup {c}) = A
    BY DEF Rules!AnticoneIn, Rules!in_anticone
  <2>3. ASSUME NEW x \in D
        PROVE  Cardinality(Rules!AnticoneIn(d, x, D \cup {c})) =
                 IF x \in A THEN z[x] + 1 ELSE z[x]
    <3>1. x \in A <=> Rules!in_anticone(d, x, c)
      BY <2>3 DEF Rules!AnticoneIn, Rules!in_anticone
    <3>2. D \in SUBSET Nodes(d) /\ x \in Nodes(d) /\ c \in Nodes(d) \ D
      BY <2>3
    <3> HIDE DEF A, D, z
    <3> QED
      BY <2>1, <2>3, <3>1, <3>2, AnticoneFacts
  <2>4. c \notin D
    OBVIOUS
  <2> HIDE DEF A, D, z
  <2> QED
    BY <2>1, <2>2, <2>3, <2>4 DEF Sized
<1>4. seed \cup (B \cup {c}) = D \cup {c}
  OBVIOUS
<1> HIDE DEF zc
<1> QED
  BY <1>2, <1>3, <1>4 DEF Acc, ColoursRight

\* What the accumulator of the loop may be: the sizes are of blocks in X,
\* which may have been evicted since.
SizesOf(X) == UNION {[D -> Nat] : D \in SUBSET X}

Accs(d, X) == [blues : SUBSET Nodes(d), reds : SUBSET Nodes(d), sizes : SizesOf(X)]

\* The colouring loop keeps its accumulator typed.
LEMMA ColourTyped ==
  ASSUME NEW d, NEW X, IsFiniteSet(X), Nodes(d) \subseteq X, NEW acc \in Accs(d, X),
         NEW c \in Nodes(d)
  PROVE  ColourOne(d, acc, c) \in Accs(d, X)
<1> DEFINE N == Nodes(d)
           Z == SizesOf(X)
           A == AnticoneBlues(d, acc.sizes, c)
           z == [b \in DOMAIN acc.sizes \cup {c} |->
                   IF b = c THEN Cardinality(A)
                   ELSE IF b \in A THEN acc.sizes[b] + 1 ELSE acc.sizes[b]]
           e == [acc EXCEPT !.blues = acc.blues \cup {c}, !.sizes = z]
           f == [acc EXCEPT !.reds = acc.reds \cup {c}]
<1>1. PICK D \in SUBSET X : acc.sizes \in [D -> Nat]
  <2>1. acc.sizes \in SizesOf(X)
    BY DEF Accs
  <2> QED
    BY <2>1 DEF SizesOf
<1>2. A \in SUBSET D
  BY <1>1 DEF AnticoneBlues
<1>3. Cardinality(A) \in Nat
  <2>1. A \in SUBSET X
    BY <1>1, <1>2
  <2> HIDE DEF A
  <2> QED
    BY <2>1, FS_Subset, FS_CardinalityType
<1> HIDE DEF A
<1>4. z \in [D \cup {c} -> Nat]
  BY <1>1, <1>3
<1>5. z \in Z
  <2> HIDE DEF z
  <2> QED
    BY <1>1, <1>4 DEF SizesOf
<1>6. acc \in [blues : SUBSET N, reds : SUBSET N, sizes : Z]
  BY DEF Accs
<1> HIDE DEF z, Z
<1>7. acc.blues \cup {c} \in SUBSET N /\ acc.reds \cup {c} \in SUBSET N
  BY <1>6
<1>8. e \in [blues : SUBSET N, reds : SUBSET N, sizes : Z]
  BY <1>5, <1>6, <1>7
<1>9. f \in [blues : SUBSET N, reds : SUBSET N, sizes : Z]
  BY <1>6, <1>7
<1>10. ColourOne(d, acc, c) = IF try_colour_blue(d, acc.sizes, c) THEN e ELSE f
  BY Zenon DEF ColourOne, A, z
<1> HIDE DEF e, f
<1> QED
  BY <1>8, <1>9, <1>10 DEF Accs, Z

\* The loop, one iteration after the other.
IsLoop(d, X, base, n, q, f) ==
  /\ f \in [0 .. n -> Accs(d, X)] /\ f[0] = base
  /\ \A i \in 1 .. n : f[i] = ColourOne(d, f[i - 1], q[i])

IsColourFold(d, base, n, q, it) ==
  it = [s \in SUBSET (1 .. n) |->
          IF s = {} THEN base ELSE ColourOne(d, it[s \ {Max(s)}], q[Max(s)])]

\* The colouring loop, as a fold, is defined.
LEMMA ColourFoldExists ==
  ASSUME NEW d, NEW X, IsFiniteSet(X), Nodes(d) \subseteq X, NEW base \in Accs(d, X),
         NEW n \in Nat, NEW q \in [1 .. n -> Nodes(d)]
  PROVE  \E it : IsColourFold(d, base, n, q, it) /\ it \in [SUBSET (1 .. n) -> Accs(d, X)]
<1> DEFINE S == 1 .. n
           T == Accs(d, X)
           step == [p \in S \X T |-> ColourOne(d, p[2], q[p[1]])]
           pick == [s \in SUBSET S |-> Max(s)]
<1>1. IsFiniteSet(S)
  <2>1. \A k \in Int : IsFiniteSet(1 .. k)
    BY FS_Interval
  <2> QED
    BY <2>1
<1>2. \A s \in (SUBSET S) \ {{}} : pick[s] \in s
  <2> TAKE s \in (SUBSET S) \ {{}}
  <2>1. n > 0 /\ s \in SUBSET S
    OBVIOUS
  <2>2. Max(s) \in s
    BY <2>1, MaxOfPrefix
  <2> QED
    BY <2>1, <2>2
<1>3. step \in [S \X T -> T]
  <2>1. \A p \in S \X T : p[2] \in T /\ q[p[1]] \in Nodes(d)
    OBVIOUS
  <2> HIDE DEF T
  <2>2. \A p \in S \X T : ColourOne(d, p[2], q[p[1]]) \in T
    BY <2>1, ColourTyped DEF T
  <2> QED
    BY <2>2
<1>4. PICK h : IsFold(S, T, base, pick, step, h)
  <2> HIDE DEF S, T, step, pick
  <2>1. base \in T
    BY DEF T
  <2> QED
    BY <1>1, <1>2, <1>3, <2>1, FoldExists
<1>5. h \in [SUBSET S -> T]
  BY <1>4 DEF IsFold
<1>6. ASSUME NEW s \in SUBSET S
      PROVE  h[s] = IF s = {} THEN base ELSE ColourOne(d, h[s \ {Max(s)}], q[Max(s)])
  <2>1. h[s] = IF s = {} THEN base ELSE step[<<pick[s], h[s \ {pick[s]}]>>]
    BY <1>4 DEF IsFold
  <2>2. pick[s] = Max(s)
    OBVIOUS
  <2>3. s # {} => Max(s) \in S /\ h[s \ {Max(s)}] \in T
    BY <1>2, <1>5, <2>2
  <2>4. ASSUME s # {}
        PROVE  step[<<Max(s), h[s \ {Max(s)}]>>] = ColourOne(d, h[s \ {Max(s)}], q[Max(s)])
    <3>1. <<Max(s), h[s \ {Max(s)}]>> \in S \X T
      BY <2>3, <2>4
    <3> HIDE DEF S, T
    <3> QED
      BY <3>1
  <2> HIDE DEF step, pick, S
  <2> QED
    BY <2>1, <2>2, <2>4
<1>7. h = [s \in SUBSET S |-> IF s = {} THEN base ELSE ColourOne(d, h[s \ {Max(s)}], q[Max(s)])]
  <2> HIDE DEF S, T
  <2> QED
    BY <1>5, <1>6
<1> QED
  BY <1>5, <1>7 DEF IsColourFold

Coloured(d, base, q) == FoldLeft(LAMBDA acc, c : ColourOne(d, acc, c), base, q)

\* The colouring loop, step by step along the mergeset.
LEMMA ColourLoop ==
  ASSUME NEW d, NEW X, IsFiniteSet(X), Nodes(d) \subseteq X, NEW base \in Accs(d, X),
         NEW n \in Nat, NEW q \in [1 .. n -> Nodes(d)]
  PROVE  \E f : /\ IsLoop(d, X, base, n, q, f)
                /\ Coloured(d, base, q) = f[n]
<1> DEFINE W == CHOOSE it : IsColourFold(d, base, n, q, it)
           f == [i \in 0 .. n |-> W[1 .. i]]
<1>1. DOMAIN q = 1 .. n
  OBVIOUS
<1>2. Coloured(d, base, q) = W[1 .. n]
  BY <1>1, Zenon DEF Coloured, FoldLeft, MapThenFoldSet, IsColourFold
<1>3. IsColourFold(d, base, n, q, W)
  BY ColourFoldExists, Zenon
<1> HIDE DEF W
<1>4. \A s \in SUBSET (1 .. n) :
        W[s] = IF s = {} THEN base ELSE ColourOne(d, W[s \ {Max(s)}], q[Max(s)])
  BY <1>3 DEF IsColourFold
<1>5. f[0] = base
  <2>1. 0 \in 0 .. n /\ 1 .. 0 = {}
    OBVIOUS
  <2>2. W[{}] = base
    BY <1>4
  <2>3. f[0] = W[1 .. 0]
    BY <2>1
  <2> QED
    BY <2>1, <2>2, <2>3
<1>6. ASSUME NEW i \in 1 .. n PROVE f[i] = ColourOne(d, f[i - 1], q[i])
  <2>1. Max(1 .. i) = i /\ (1 .. i) \ {i} = 1 .. i - 1
    <3>1. i \in Nat /\ i > 0
      OBVIOUS
    <3> QED
      BY <3>1, MaxOfPrefix
  <2>2. 1 .. i \in SUBSET (1 .. n) /\ 1 .. i # {}
    <3>1. i \in 1 .. i /\ \A j \in 1 .. i : j \in 1 .. n
      OBVIOUS
    <3> QED
      BY <3>1
  <2>3. W[1 .. i] = ColourOne(d, W[1 .. i - 1], q[i])
    BY <1>4, <2>1, <2>2
  <2>4. i \in 0 .. n /\ i - 1 \in 0 .. n
    OBVIOUS
  <2> QED
    BY <2>3, <2>4
<1>7. f \in [0 .. n -> Accs(d, X)]
  <2> DEFINE T == Accs(d, X)
             Bad == {i \in 0 .. n : f[i] \notin T}
  <2> SUFFICES ASSUME Bad # {} PROVE FALSE
    OBVIOUS
  <2> HIDE DEF f
  <2>1. PICK i \in Bad : \A j \in Bad : i <= j
    <3>1. Bad \in SUBSET Nat
      OBVIOUS
    <3> HIDE DEF Bad
    <3> QED
      BY <3>1, NatLeast
  <2>2. i # 0
    BY <1>5, <2>1
  <2>3. i \in 1 .. n /\ i - 1 \in 0 .. n /\ i - 1 < i
    BY <2>1, <2>2
  <2>4. f[i - 1] \in T
    BY <2>1, <2>3
  <2>5. q[i] \in Nodes(d)
    BY <2>3
  <2>6. ColourOne(d, f[i - 1], q[i]) \in T
    BY <2>4, <2>5, ColourTyped
  <2> QED
    BY <1>6, <2>1, <2>3, <2>6
<1>8. f[n] = W[1 .. n]
  OBVIOUS
<1> HIDE DEF f
<1>9. IsLoop(d, X, base, n, q, f)
  BY <1>5, <1>6, <1>7 DEF IsLoop
<1> QED
  BY <1>2, <1>8, <1>9

\* A greedy colouring of the candidates so far, and the next one.
LEMMA GreedyStep ==
  ASSUME NEW d, WellFormed(d), NEW seed, NEW P \in SUBSET Nodes(d), NEW B \in SUBSET P,
         Rules!IsGreedy(d, seed, P, B),
         NEW c \in Nodes(d) \ P, \A y \in P : TopoKeyLess(d, y, c),
         NEW C, C = IF Rules!IsKCluster(d, seed \cup B \cup {c}) THEN B \cup {c} ELSE B
  PROVE  Rules!IsGreedy(d, seed, P \cup {c}, C)
<1> DEFINE Before(X, x) == {b \in X : Rules!TopoKeyLess(d, b, x)}
<1>1. \A x \in P : ~Rules!TopoKeyLess(d, c, x)
  <2> TAKE x \in P
  <2>1. TopoKeyLess(d, x, c) /\ x \in Nodes(d)
    OBVIOUS
  <2>2. ~TopoKeyLess(d, c, x)
    BY <2>1, WellNumbered, TopoOrder
  <2> QED
    BY <2>2, SameTopo
<1>2. ~Rules!TopoKeyLess(d, c, c) /\ \A y \in P : Rules!TopoKeyLess(d, y, c)
  BY WellNumbered, TopoOrder, SameTopo
<1>3. C = B \/ C = B \cup {c}
  OBVIOUS
<1>4. \A x \in P : Before(C, x) = Before(B, x) /\ (x \in C <=> x \in B)
  BY <1>1, <1>3
<1>5. Before(C, c) = B
  BY <1>2, <1>3
<1>6. c \in C <=> Rules!IsKCluster(d, seed \cup B \cup {c})
  OBVIOUS
<1>7. \A x \in P : x \in B <=> Rules!IsKCluster(d, seed \cup Before(B, x) \cup {x})
  BY DEF Rules!IsGreedy
<1> HIDE DEF Before
<1>8. \A x \in P \cup {c} : x \in C <=> Rules!IsKCluster(d, seed \cup Before(C, x) \cup {x})
  <2> TAKE x \in P \cup {c}
  <2>1. CASE x = c
    BY <1>5, <1>6, <2>1
  <2>2. CASE x \in P
    BY <1>4, <1>7, <2>2
  <2> QED
    BY <2>1, <2>2
<1> QED
  BY <1>8 DEF Before, Rules!IsGreedy

\* The accumulator the colouring starts from is typed.
LEMMA EmptyAcc ==
  ASSUME NEW d, WellFormed(d), NEW seed \in SUBSET Nodes(d)
  PROVE  Acc(d, seed, {}, {}) \in Accs(d, Nodes(d))
<1>1. \A x \in seed : Cardinality(Rules!AnticoneIn(d, x, seed)) \in Nat
  BY AnticoneFacts
<1>2. Sized(d, seed) \in [seed -> Nat]
  BY <1>1 DEF Sized
<1>3. Sized(d, seed) \in SizesOf(Nodes(d))
  BY <1>2 DEF SizesOf
<1>4. seed \cup {} = seed
  OBVIOUS
<1> QED
  BY <1>3, <1>4 DEF Acc, Accs

(***************************************************************************)
(* The colouring loop finds the greedy colouring of the mergeset.          *)
(***************************************************************************)
LEMMA LoopColours ==
  ASSUME NEW d, WellFormed(d), K \in Nat,
         NEW seed \in SUBSET Nodes(d), Rules!IsKCluster(d, seed),
         NEW M \in SUBSET Nodes(d), M \cap seed = {}
  PROVE  \E B \in SUBSET M :
           /\ Rules!IsGreedy(d, seed, M, B)
           /\ Coloured(d, Acc(d, seed, {}, {}), SortTopo(d, M)) = Acc(d, seed, B, M \ B)
<1> DEFINE q == SortTopo(d, M)
           n == Cardinality(M)
           base == Acc(d, seed, {}, {})
           gd == Coloured(d, base, q)
           P(i) == {q[j] : j \in 1 .. i}
<1>1. /\ n \in Nat /\ q \in [1 .. n -> M] /\ ToSet(q) = M
      /\ \A i, j \in 1 .. n : TopoKeyLess(d, q[i], q[j]) <=> i < j
  BY WellNumbered, SortTopoLists
<1>2. base \in Accs(d, Nodes(d))
  BY EmptyAcc
<1> HIDE DEF n, base
<1>3. q \in [1 .. n -> Nodes(d)]
  <2> HIDE DEF q
  <2> QED
    BY <1>1
<1> HIDE DEF q
<1>4. PICK f : IsLoop(d, Nodes(d), base, n, q, f) /\ gd = f[n]
  <2> HIDE DEF gd
  <2> QED
    BY <1>1, <1>2, <1>3, ColourLoop, WellFormedIs DEF gd
<1> HIDE DEF gd
<1> DEFINE Done(i, B) == /\ B \in SUBSET P(i)
                         /\ Rules!IsGreedy(d, seed, P(i), B)
                         /\ Rules!IsKCluster(d, seed \cup B)
                         /\ f[i] = Acc(d, seed, B, P(i) \ B)
           Bad == {i \in 0 .. n : ~ \E B : Done(i, B)}
<1>5. Done(0, {})
  <2>1. P(0) = {}
    OBVIOUS
  <2>2. f[0] = Acc(d, seed, {}, {})
    BY <1>4 DEF IsLoop, base
  <2>3. Rules!IsGreedy(d, seed, P(0), {})
    BY <2>1 DEF Rules!IsGreedy
  <2>4. seed \cup {} = seed /\ P(0) \ {} = {}
    BY <2>1
  <2> HIDE DEF P
  <2> QED
    BY <2>2, <2>3, <2>4
<1>6. ASSUME NEW i \in 1 .. n, NEW B, Done(i - 1, B) PROVE \E C : Done(i, C)
  <2> DEFINE c == q[i]
             Q == P(i - 1)
             C == IF Rules!IsKCluster(d, seed \cup B \cup {c}) THEN B \cup {c} ELSE B
  <2>1. P(i) = Q \cup {c}
    <3>1. 1 .. i = (1 .. i - 1) \cup {i}
      OBVIOUS
    <3> QED
      BY <3>1
  <2>2. Q \in SUBSET M /\ c \in M /\ \A y \in Q : TopoKeyLess(d, y, c)
    <3>1. \A j \in 1 .. i - 1 : j \in 1 .. n /\ j < i
      BY <1>1
    <3> QED
      BY <1>1, <3>1
  <2>3. c \notin Q
    <3>1. ~TopoKeyLess(d, c, c)
      BY <2>2, WellNumbered, TopoOrder
    <3> QED
      BY <2>2, <3>1
  <2>4. /\ B \in SUBSET Q /\ Rules!IsGreedy(d, seed, Q, B) /\ Rules!IsKCluster(d, seed \cup B)
        /\ f[i - 1] = Acc(d, seed, B, Q \ B)
    BY <1>6
  <2>5. f[i] = ColourOne(d, f[i - 1], c)
    BY <1>4 DEF IsLoop
  <2> HIDE DEF P, Q, c
  <2>6. Rules!IsGreedy(d, seed, Q \cup {c}, C)
    <3>1. Q \in SUBSET Nodes(d) /\ c \in Nodes(d) \ Q
      BY <2>2, <2>3
    <3> HIDE DEF C
    <3>2. C = IF Rules!IsKCluster(d, seed \cup B \cup {c}) THEN B \cup {c} ELSE B
      BY DEF C
    <3> QED
      BY <2>2, <2>4, <3>1, <3>2, GreedyStep
  <2>7. Rules!IsKCluster(d, seed \cup C) /\ C \in SUBSET (Q \cup {c})
    <3>1. seed \cup (B \cup {c}) = seed \cup B \cup {c}
      OBVIOUS
    <3> QED
      BY <2>4, <3>1
  <2>8. ColourOne(d, Acc(d, seed, B, Q \ B), c) =
          IF Rules!IsKCluster(d, seed \cup B \cup {c})
          THEN Acc(d, seed, B \cup {c}, Q \ B) ELSE Acc(d, seed, B, (Q \ B) \cup {c})
    <3>1. B \in SUBSET Nodes(d) /\ c \in Nodes(d) \ (seed \cup B)
      BY <2>2, <2>3, <2>4
    <3> DEFINE R == Q \ B
    <3> HIDE DEF R
    <3> HIDE DEF C, Done, Bad
    <3>2. ColoursRight(d, seed, B, R, c)
      BY <2>4, <3>1, ColourStep
    <3> QED
      BY <3>2 DEF R, ColoursRight
  <2>9. ColourOne(d, f[i - 1], c) = Acc(d, seed, C, (Q \cup {c}) \ C)
    <3>1. (Q \cup {c}) \ (B \cup {c}) = Q \ B /\ (Q \cup {c}) \ B = (Q \ B) \cup {c}
      BY <2>3, <2>4
    <3>2. CASE Rules!IsKCluster(d, seed \cup B \cup {c})
      BY <2>4, <2>8, <3>1, <3>2
    <3>3. CASE ~Rules!IsKCluster(d, seed \cup B \cup {c})
      BY <2>4, <2>8, <3>1, <3>3
    <3> QED
      BY <3>2, <3>3
  <2> HIDE DEF C
  <2>10. Done(i, C)
    BY <2>1, <2>5, <2>6, <2>7, <2>9
  <2> HIDE DEF Done
  <2> QED
    BY <2>10
<1>7. Bad = {}
  <2> SUFFICES ASSUME Bad # {} PROVE FALSE
    OBVIOUS
  <2> HIDE DEF Done
  <2>1. PICK i \in Bad : \A j \in Bad : i <= j
    <3>1. Bad \in SUBSET Nat
      BY <1>1
    <3> HIDE DEF Bad
    <3> QED
      BY <3>1, NatLeast
  <2>2. i \in 0 .. n /\ i # 0
    BY <1>5, <2>1
  <2>3. i \in 1 .. n /\ i - 1 \in 0 .. n /\ i - 1 < i
    BY <1>1, <2>2
  <2>4. PICK B : Done(i - 1, B)
    BY <2>1, <2>3
  <2> QED
    BY <1>6, <2>1, <2>3, <2>4
<1>8. PICK B : Done(n, B)
  <2>1. n \in 0 .. n
    BY <1>1
  <2> HIDE DEF Done
  <2> QED
    BY <1>7, <2>1
<1>9. P(n) = M
  BY <1>1 DEF ToSet
<1> HIDE DEF P
<1>10. gd = Acc(d, seed, B, M \ B) /\ B \in SUBSET M /\ Rules!IsGreedy(d, seed, M, B)
  BY <1>4, <1>8, <1>9
<1> QED
  BY <1>10 DEF gd, q, base

-----------------------------------------------------------------------------
(***************************************************************************)
(* Scores, weights and sizes.                                              *)
(***************************************************************************)
Units(d, S) == UNION {{b} \X (1 .. d.node[b].work) : b \in S}

\* The work of a set is finite: it counts the units of its blocks.
LEMMA WorkCounts ==
  ASSUME NEW d, WellFormed(d), NEW S \in SUBSET Nodes(d)
  PROVE  /\ Rules!WorkOf(d, S) = Cardinality(Units(d, S))
         /\ IsFiniteSet(Units(d, S)) /\ Rules!WorkOf(d, S) \in Nat
<1> DEFINE units(b) == {b} \X (1 .. d.node[b].work)
           f == [b \in S |-> units(b)]
           R == {units(b) : b \in S}
<1>1. IsFiniteSet(S)
  BY WellFormedIs, FS_Subset
<1>2. \A b \in S : IsFiniteSet(units(b))
  <2> TAKE b \in S
  <2>1. d.node[b].work \in Nat
    BY WellFormedIs
  <2>2. IsFiniteSet(1 .. d.node[b].work) /\ IsFiniteSet({b})
    <3>1. \A k \in Nat : IsFiniteSet(1 .. k)
      BY FS_Interval
    <3> QED
      BY <2>1, <3>1, FS_Singleton
  <2> QED
    BY <2>2, FS_Product
<1> HIDE DEF units
<1>3. f \in Surjection(S, R)
  BY DEF Surjection
<1>4. IsFiniteSet(R)
  BY <1>1, <1>3, FS_Surjection
<1>5. IsFiniteSet(UNION R)
  BY <1>2, <1>4, FS_UNION
<1>6. Cardinality(UNION R) \in Nat
  BY <1>5, FS_CardinalityType
<1>7. Units(d, S) = UNION R
  BY Zenon DEF Units, units
<1>8. Rules!WorkOf(d, S) = Rules!Cardinality(UNION R)
  BY Zenon DEF Rules!WorkOf, units
<1> QED
  BY <1>5, <1>6, <1>7, <1>8, SameCard

\* A block adds its own work to that of a set.
LEMMA WorkAdds ==
  ASSUME NEW d, WellFormed(d), NEW S \in SUBSET Nodes(d), NEW c \in Nodes(d) \ S
  PROVE  Rules!WorkOf(d, S \cup {c}) = Rules!WorkOf(d, S) + d.node[c].work
<1> DEFINE one == {c} \X (1 .. d.node[c].work)
           U == Units(d, S)
           V == Units(d, S \cup {c})
<1>1. d.node[c].work \in Nat
  BY WellFormedIs
<1>2. IsFiniteSet(one) /\ Cardinality(one) = d.node[c].work
  <2>1. IsFiniteSet({c}) /\ Cardinality({c}) = 1
    BY FS_Singleton
  <2>2. IsFiniteSet(1 .. d.node[c].work) /\ Cardinality(1 .. d.node[c].work) = d.node[c].work
    <3>1. \A k \in Nat : IsFiniteSet(1 .. k) /\ Cardinality(1 .. k) = k
      BY FS_Interval
    <3> QED
      BY <1>1, <3>1
  <2>3. IsFiniteSet(one) /\ Cardinality(one) = 1 * d.node[c].work
    BY <2>1, <2>2, FS_Product
  <2> QED
    BY <1>1, <2>3
<1>3. IsFiniteSet(U) /\ Rules!WorkOf(d, S) = Cardinality(U)
  BY WorkCounts
<1>4. Rules!WorkOf(d, S \cup {c}) = Cardinality(V)
  <2>1. S \cup {c} \in SUBSET Nodes(d)
    OBVIOUS
  <2> QED
    BY <2>1, WorkCounts
<1>5. V = U \cup one /\ U \cap one = {}
  BY DEF Units
<1> HIDE DEF U, V, one
<1>6. Cardinality(U \cup one) = Cardinality(U) + Cardinality(one) - Cardinality(U \cap one)
  BY <1>2, <1>3, FS_Union
<1>7. Cardinality(U \cap one) = 0
  BY <1>5, FS_EmptySet
<1>8. Cardinality(U) \in Nat
  BY <1>3, FS_CardinalityType
<1> QED
  BY <1>1, <1>2, <1>3, <1>4, <1>5, <1>6, <1>7, <1>8

\* The empty set has no work.
LEMMA NoWork ==
  ASSUME NEW d, WellFormed(d)
  PROVE  Rules!WorkOf(d, {}) = 0
<1>1. Units(d, {}) = {}
  BY DEF Units
<1>2. Rules!WorkOf(d, {}) = Cardinality(Units(d, {}))
  BY WorkCounts
<1> QED
  BY <1>1, <1>2, FS_EmptySet

SumOfWorks(d, B) == MapThenSumSet(LAMBDA b : d.node[b].work, B)

\* it sums the works of the subsets of B.
IsWorkFold(d, B, it) ==
  it = [s \in SUBSET B |->
          IF s = {} THEN 0
          ELSE d.node[CHOOSE x \in s : TRUE].work + it[s \ {CHOOSE x \in s : TRUE}]]

\* The sum of works, as a fold, is defined.
LEMMA WorkFoldExists ==
  ASSUME NEW d, Numbered(d), NEW B \in SUBSET Nodes(d)
  PROVE  \E it : IsWorkFold(d, B, it)
<1> DEFINE step == [p \in B \X Nat |-> d.node[p[1]].work + p[2]]
           pick == [s \in SUBSET B |-> CHOOSE x \in s : TRUE]
<1>1. IsFiniteSet(B)
  BY FS_Subset DEF Numbered
<1>2. \A s \in (SUBSET B) \ {{}} : pick[s] \in s
  OBVIOUS
<1>3. step \in [B \X Nat -> Nat]
  <2>1. \A b \in B : d.node[b].work \in Nat
    BY DEF Numbered
  <2> QED
    BY <2>1
<1>4. PICK h : IsFold(B, Nat, 0, pick, step, h)
  <2> HIDE DEF step, pick
  <2> QED
    BY <1>1, <1>2, <1>3, FoldExists
<1>5. h \in [SUBSET B -> Nat]
  BY <1>4 DEF IsFold
<1>6. ASSUME NEW s \in SUBSET B
      PROVE  h[s] = IF s = {} THEN 0 ELSE d.node[pick[s]].work + h[s \ {pick[s]}]
  <2>1. h[s] = IF s = {} THEN 0 ELSE step[<<pick[s], h[s \ {pick[s]}]>>]
    BY <1>4 DEF IsFold
  <2>2. s # {} => <<pick[s], h[s \ {pick[s]}]>> \in B \X Nat
    <3> HIDE DEF pick
    <3> QED
      BY <1>2, <1>5
  <2> HIDE DEF pick
  <2> QED
    BY <2>1, <2>2
<1>7. h = [s \in SUBSET B |->
             IF s = {} THEN 0
             ELSE d.node[CHOOSE x \in s : TRUE].work + h[s \ {CHOOSE x \in s : TRUE}]]
  <2>1. \A s \in SUBSET B : pick[s] = CHOOSE x \in s : TRUE
    OBVIOUS
  <2> HIDE DEF pick, step
  <2> QED
    BY <1>5, <1>6, <2>1
<1> QED
  BY <1>7 DEF IsWorkFold

\* The works of finitely many blocks add up to a number.
LEMMA SumTyped ==
  ASSUME NEW d, Numbered(d), NEW B \in SUBSET Nodes(d)
  PROVE  SumOfWorks(d, B) \in Nat
<1> DEFINE W == CHOOSE it : IsWorkFold(d, B, it)
           sum == SumOfWorks(d, B)
           Bad == {s \in SUBSET B : W[s] \notin Nat}
<1>1. sum = W[B]
  BY Zenon DEF SumOfWorks, MapThenSumSet, MapThenFoldSet, IsWorkFold
<1>2. IsWorkFold(d, B, W)
  BY WorkFoldExists, Zenon
<1> HIDE DEF W, sum
<1>3. Bad = {}
  <2> SUFFICES ASSUME Bad # {} PROVE FALSE
    OBVIOUS
  <2>0. IsFiniteSet(B)
    BY FS_Subset DEF Numbered
  <2>1. PICK s \in Bad : \A t \in Bad : t \subseteq s => t = s
    <3>1. Bad \in SUBSET SUBSET B
      OBVIOUS
    <3> HIDE DEF Bad
    <3> QED
      BY <2>0, <3>1, HasMinimal
  <2>2. s \in SUBSET B /\ W[s] \notin Nat
    BY <2>1
  <2>3. s # {}
    BY <1>2, <2>2 DEF IsWorkFold
  <2> DEFINE x == CHOOSE x \in s : TRUE
             t == s \ {x}
  <2>4. x \in s
    BY <2>3
  <2>5. W[s] = d.node[x].work + W[t]
    BY <1>2, <2>2, <2>3, Zenon DEF IsWorkFold
  <2> HIDE DEF x
  <2>6. t \in SUBSET B /\ t # s /\ t \subseteq s
    BY <2>2, <2>4
  <2>7. W[t] \in Nat
    BY <2>1, <2>6
  <2>8. d.node[x].work \in Nat
    BY <2>2, <2>4 DEF Numbered
  <2> HIDE DEF t
  <2> QED
    BY <2>2, <2>5, <2>7, <2>8
<1>4. W[B] \in Nat
  BY <1>3
<1> QED
  BY <1>1, <1>4 DEF sum

(***************************************************************************)
(* The sum of the works of B is what B adds to a blue set.                 *)
(***************************************************************************)
LEMMA WorkSums ==
  ASSUME NEW d, WellFormed(d), NEW S \in SUBSET Nodes(d), NEW B \in SUBSET Nodes(d),
         S \cap B = {}
  PROVE  Rules!WorkOf(d, S \cup B) = Rules!WorkOf(d, S) + SumOfWorks(d, B)
<1> DEFINE W == CHOOSE it : IsWorkFold(d, B, it)
           w(s) == Rules!WorkOf(d, S \cup s)
           sum == SumOfWorks(d, B)
           Bad == {s \in SUBSET B : ~(W[s] \in Nat /\ w(s) = w({}) + W[s])}
<1>1. sum = W[B]
  BY Zenon DEF SumOfWorks, MapThenSumSet, MapThenFoldSet, IsWorkFold
<1>2. IsWorkFold(d, B, W)
  BY WellNumbered, WorkFoldExists, Zenon
<1> HIDE DEF W, sum
<1>3. Bad = {}
  <2> SUFFICES ASSUME Bad # {} PROVE FALSE
    OBVIOUS
  <2>0. IsFiniteSet(B)
    BY WellFormedIs, FS_Subset
  <2>1. PICK s \in Bad : \A t \in Bad : t \subseteq s => t = s
    <3>1. Bad \in SUBSET SUBSET B
      OBVIOUS
    <3> HIDE DEF Bad
    <3> QED
      BY <2>0, <3>1, HasMinimal
  <2>2. w({}) \in Nat
    <3>1. S \cup {} \in SUBSET Nodes(d)
      OBVIOUS
    <3> QED
      BY <3>1, WorkCounts
  <2>3. W[{}] = 0
    BY <1>2 DEF IsWorkFold
  <2> HIDE DEF w
  <2>4. s # {}
    <3> SUFFICES ASSUME s = {} PROVE FALSE
      OBVIOUS
    <3>1. w(s) = w({}) /\ W[s] = 0
      BY <2>3
    <3>2. ~(W[s] \in Nat /\ w(s) = w({}) + W[s])
      BY <2>1
    <3> QED
      BY <2>2, <3>1, <3>2
  <2> DEFINE x == CHOOSE x \in s : TRUE
             t == s \ {x}
  <2>5. x \in s
    BY <2>4
  <2>6. W[s] = d.node[x].work + W[t]
    <3>1. s \in SUBSET B
      BY <2>1
    <3> QED
      BY <1>2, <2>4, <3>1, Zenon DEF IsWorkFold
  <2> HIDE DEF x
  <2>7. t \in SUBSET B /\ t # s /\ t \subseteq s
    BY <2>1, <2>5
  <2>8. W[t] \in Nat /\ w(t) = w({}) + W[t]
    BY <2>1, <2>7
  <2>9. w(s) = w(t) + d.node[x].work
    <3>1. S \cup t \in SUBSET Nodes(d) /\ x \in Nodes(d) \ (S \cup t)
      BY <2>1, <2>5
    <3>2. S \cup s = (S \cup t) \cup {x}
      BY <2>5
    <3> DEFINE X == S \cup t
    <3> HIDE DEF X
    <3>3. Rules!WorkOf(d, X \cup {x}) = Rules!WorkOf(d, X) + d.node[x].work
      BY <3>1, WorkAdds DEF X
    <3> QED
      BY <3>2, <3>3 DEF w, X
  <2>10. d.node[x].work \in Nat
    BY <2>1, <2>5, WellFormedIs
  <2> HIDE DEF t
  <2> QED
    BY <2>1, <2>2, <2>6, <2>8, <2>9, <2>10
<1>4. w(B) = w({}) + W[B]
  BY <1>3
<1>5. S \cup {} = S
  OBVIOUS
<1> QED
  BY <1>1, <1>4, <1>5 DEF sum

\* What is recorded of a block counts and weighs its past and its blue set.
LEMMA RecordCounts ==
  ASSUME NEW d, ByTheRule(d), NEW s \in Nodes(d)
  PROVE  /\ d.node[s].past_size = Cardinality(d.node[s].past)
         /\ d.node[s].blue_score = Cardinality(DOMAIN d.node[s].sizes)
         /\ d.node[s].blue_work = Rules!WorkOf(d, DOMAIN d.node[s].sizes)
<1>0. WellFormed(d)
  BY DEF ByTheRule
<1>1. CASE s = Genesis
  <2>1. /\ d.node[s].past = {} /\ d.node[s].past_size = 0
        /\ d.node[s].blue_score = 0 /\ d.node[s].blue_work = 0
        /\ d.node[s].sizes = [x \in {} |-> 0]
    BY <1>1, GenesisFields
  <2>2. DOMAIN d.node[s].sizes = {}
    BY <2>1
  <2> QED
    BY <1>0, <2>1, <2>2, NoWork, FS_EmptySet
<1>2. CASE s # Genesis
  <2>1. /\ d.node[s].past_size = Cardinality(d.node[s].past)
        /\ d.node[s].blue_score = Cardinality(BlueOf(d, s))
        /\ d.node[s].blue_work = Rules!WorkOf(d, BlueOf(d, s))
        /\ d.node[s].sizes =
             [x \in BlueOf(d, s) |-> Cardinality(Rules!AnticoneIn(d, x, BlueOf(d, s)))]
    BY <1>2, RecordFields
  <2>2. DOMAIN d.node[s].sizes = BlueOf(d, s)
    BY <2>1
  <2> QED
    BY <2>1, <2>2
<1> QED
  BY <1>1, <1>2

\* What a block takes over from its selected parent.
LEMMA InheritedIs ==
  ASSUME NEW d, ByTheRule(d), K \in Nat, NEW s \in Nodes(d)
  PROVE  LET D == DOMAIN d.node[s].sizes
             seed == Rules!Inherited(d, s)
         IN  /\ seed = D \cup {s} /\ s \notin D /\ D \in SUBSET Nodes(d)
             /\ seed \in SUBSET Nodes(d) /\ seed \subseteq d.node[s].past \cup {s}
             /\ Rules!IsKCluster(d, seed)
             /\ [b \in D \cup {s} |-> IF b = s THEN 0 ELSE d.node[s].sizes[b]] = Sized(d, seed)
             /\ Cardinality(seed) = d.node[s].blue_score + 1
             /\ Rules!WorkOf(d, seed) = d.node[s].blue_work + d.node[s].work
<1> DEFINE D == DOMAIN d.node[s].sizes
           seed == Rules!Inherited(d, s)
<1>0. WellFormed(d)
  BY DEF ByTheRule
<1>1. seed = D \cup {s}
  BY DEF Rules!Inherited
<1>2. D \in SUBSET d.node[s].past /\ D \in SUBSET Nodes(d) /\ s \notin D
  BY <1>0, WellFormedIs
<1>3. /\ Rules!IsKCluster(d, D)
      /\ d.node[s].sizes = [x \in D |-> Cardinality(Rules!AnticoneIn(d, x, D))]
  BY RuledBlueSets DEF BlueSets
<1>4. /\ d.node[s].blue_score = Cardinality(D)
      /\ d.node[s].blue_work = Rules!WorkOf(d, D)
  BY RecordCounts
<1> HIDE DEF D, seed
<1>5. /\ Rules!IsKCluster(d, D \cup {s})
      /\ Rules!AnticoneIn(d, s, D \cup {s}) = {}
      /\ \A x \in D : Rules!AnticoneIn(d, x, D \cup {s}) = Rules!AnticoneIn(d, x, D)
  <2>1. D \in SUBSET d.node[s].past /\ Rules!IsKCluster(d, D)
    BY <1>2, <1>3
  <2> QED
    BY <1>0, <2>1, PastIsNoAnticone
<1>6. [b \in D \cup {s} |-> IF b = s THEN 0 ELSE d.node[s].sizes[b]] = Sized(d, seed)
  <2>1. Cardinality({}) = 0
    BY FS_EmptySet
  <2>2. \A b \in D : d.node[s].sizes[b] = Cardinality(Rules!AnticoneIn(d, b, D))
    BY <1>3
  <2>3. \A b \in seed : (IF b = s THEN 0 ELSE d.node[s].sizes[b]) =
                        Cardinality(Rules!AnticoneIn(d, b, seed))
    BY <1>1, <1>2, <1>5, <2>1, <2>2
  <2> QED
    BY <1>1, <2>3 DEF Sized
<1>7. Cardinality(seed) = Cardinality(D) + 1
  <2>1. IsFiniteSet(D)
    BY <1>0, <1>2, WellFormedIs, FS_Subset
  <2> QED
    BY <1>1, <1>2, <2>1, FS_AddElement
<1>8. Rules!WorkOf(d, D \cup {s}) = Rules!WorkOf(d, D) + d.node[s].work
  BY <1>0, <1>2, WorkAdds
<1>9. seed \in SUBSET Nodes(d) /\ seed \subseteq d.node[s].past \cup {s}
  BY <1>1, <1>2
<1>10. /\ Cardinality(seed) = d.node[s].blue_score + 1
       /\ Rules!WorkOf(d, seed) = d.node[s].blue_work + d.node[s].work
       /\ Rules!IsKCluster(d, seed)
  BY <1>1, <1>4, <1>5, <1>7, <1>8
<1> QED
  BY <1>1, <1>2, <1>6, <1>9, <1>10 DEF D, seed

(***************************************************************************)
(* compute_ghostdag records what GHOSTDAG promises.                        *)
(***************************************************************************)
LEMMA NewNodeIs ==
  ASSUME NEW d, ByTheRule(d), K \in Nat,
         NEW ps \in SUBSET Nodes(d), ps # {}, NEW w
  PROVE  \E s \in ps : \E B \in SUBSET Rules!Merged(d, s, ps) :
           /\ Rules!IsColouring(d, ps, s, B)
           /\ NewNode(d, ps, w) = Rules!NodeOf(d, ps, w, s, B)
<1> DEFINE s == Heaviest(d, ps)
           M == Rules!Merged(d, s, ps)
           P == Rules!Ancestors(d, ps)
           seed == Rules!Inherited(d, s)
           D == DOMAIN d.node[s].sizes
           merge == mergeset_ordered(d, s, ps)
           base == [blues |-> {}, reds |-> {},
                    sizes |-> [b \in D \cup {s} |-> IF b = s THEN 0 ELSE d.node[s].sizes[b]]]
           gd == Coloured(d, base, merge)
<1>0. WellFormed(d)
  BY DEF ByTheRule
<1>1. Rules!IsHeaviest(d, s, ps)
  BY <1>0, WellNumbered, HeaviestIs
<1>2. s \in ps /\ s \in Nodes(d)
  BY <1>1 DEF Rules!IsHeaviest
<1> HIDE DEF s
<1>3. merge = SortTopo(d, M) /\ M \in SUBSET Nodes(d)
  BY <1>0, <1>2, RuledAncestry, MergesetIs
<1>4. P \in SUBSET Nodes(d) /\ d.node[s].past \cup {s} \subseteq P
  BY <1>0, <1>2, WellFormedIs DEF Rules!Ancestors
<1>5. M = P \ (d.node[s].past \cup {s})
  BY DEF Rules!Merged
<1>6. /\ seed \in SUBSET Nodes(d) /\ seed \subseteq d.node[s].past \cup {s}
      /\ Rules!IsKCluster(d, seed)
      /\ [b \in D \cup {s} |-> IF b = s THEN 0 ELSE d.node[s].sizes[b]] = Sized(d, seed)
      /\ Cardinality(seed) = d.node[s].blue_score + 1
      /\ Rules!WorkOf(d, seed) = d.node[s].blue_work + d.node[s].work
  BY <1>2, InheritedIs
<1>7. base = Acc(d, seed, {}, {})
  <2>1. seed \cup {} = seed
    OBVIOUS
  <2> HIDE DEF seed, D
  <2> QED
    BY <1>6, <2>1 DEF Acc
<1>8. M \cap seed = {}
  BY <1>5, <1>6
<1> HIDE DEF base, M, seed, merge, P, D
<1> HIDE DEF gd
<1>9. PICK B \in SUBSET M : /\ Rules!IsGreedy(d, seed, M, B)
                            /\ gd = Acc(d, seed, B, M \ B)
  <2>1. gd = Coloured(d, Acc(d, seed, {}, {}), SortTopo(d, M))
    BY <1>3, <1>7 DEF gd
  <2>2. \E B \in SUBSET M :
           /\ Rules!IsGreedy(d, seed, M, B)
           /\ Coloured(d, Acc(d, seed, {}, {}), SortTopo(d, M)) = Acc(d, seed, B, M \ B)
    BY <1>0, <1>3, <1>6, <1>8, LoopColours
  <2> QED
    BY <2>1, <2>2
<1>10. Rules!IsColouring(d, ps, s, B)
  BY <1>1, <1>9 DEF Rules!IsColouring, M, seed
<1> DEFINE blue == seed \cup B
<1>11. gd.blues = B /\ gd.reds = M \ B /\ gd.sizes = Sized(d, blue)
  BY <1>9 DEF Acc
<1>12. Len(merge) = Cardinality(M) /\ ToSet(merge) = M
  BY <1>0, <1>3, WellNumbered, SortTopoLists
<1>13. d.node[s].past \cup {s} \cup ToSet(merge) = P
  BY <1>4, <1>5, <1>12
<1>14. IsFiniteSet(Nodes(d)) /\ s \notin d.node[s].past /\ d.node[s].past \in SUBSET Nodes(d)
  BY <1>0, <1>2, WellFormedIs
<1>15. d.node[s].past_size + 1 + Len(merge) = Cardinality(P)
  <2> DEFINE Q == d.node[s].past
             Qs == Q \cup {s}
  <2>1. IsFiniteSet(Q) /\ IsFiniteSet(M)
    BY <1>3, <1>14, FS_Subset
  <2>2. d.node[s].past_size = Cardinality(Q)
    BY <1>2, RecordCounts
  <2> HIDE DEF Q
  <2>3. Cardinality(Qs) = Cardinality(Q) + 1 /\ IsFiniteSet(Qs)
    BY <1>14, <2>1, FS_AddElement DEF Q
  <2>4. P = Qs \cup M /\ Qs \cap M = {}
    BY <1>4, <1>5 DEF Q
  <2> HIDE DEF Qs
  <2>5. Cardinality(Qs \cup M) = Cardinality(Qs) + Cardinality(M) - Cardinality(Qs \cap M)
    BY <2>1, <2>3, FS_Union
  <2>6. Cardinality(Qs \cap M) = 0
    BY <2>4, FS_EmptySet
  <2>7. Cardinality(Q) \in Nat /\ Cardinality(M) \in Nat
    BY <2>1, FS_CardinalityType
  <2> QED
    BY <1>12, <2>2, <2>3, <2>4, <2>5, <2>6, <2>7
<1>16. d.node[s].blue_score + 1 + Cardinality(B) = Cardinality(blue)
  <2>1. IsFiniteSet(seed) /\ IsFiniteSet(B)
    <3>1. B \in SUBSET Nodes(d)
      BY <1>3
    <3> QED
      BY <1>6, <1>14, <3>1, FS_Subset
  <2>2. Cardinality(seed \cup B) = Cardinality(seed) + Cardinality(B) - Cardinality(seed \cap B)
    BY <2>1, FS_Union
  <2>3. Cardinality(seed \cap B) = 0
    <3>1. seed \cap B = {}
      BY <1>8
    <3> QED
      BY <3>1, FS_EmptySet
  <2>4. Cardinality(seed) \in Nat /\ Cardinality(B) \in Nat
    BY <2>1, FS_CardinalityType
  <2> QED
    BY <1>6, <2>2, <2>3, <2>4
<1>17. BlueWork(d, s, B) = Rules!WorkOf(d, blue)
  <2>1. seed \cap B = {} /\ B \in SUBSET Nodes(d)
    BY <1>3, <1>8
  <2> DEFINE sum == SumOfWorks(d, B)
  <2>2. Rules!WorkOf(d, seed \cup B) = Rules!WorkOf(d, seed) + sum
    BY <1>0, <1>6, <2>1, WorkSums
  <2>3. BlueWork(d, s, B) = d.node[s].blue_work + d.node[s].work + sum
    BY Zenon DEF BlueWork, SumOfWorks
  <2> HIDE DEF sum
  <2> QED
    BY <1>6, <2>2, <2>3
<1>18. Sized(d, blue) = [x \in blue |-> Rules!Cardinality(Rules!AnticoneIn(d, x, blue))]
  BY SameCard DEF Sized
<1>19. NewNode(d, ps, w) =
         [parents |-> ps, work |-> w,
          past |-> d.node[s].past \cup {s} \cup ToSet(merge),
          past_size |-> d.node[s].past_size + 1 + Len(merge),
          sp |-> s, blues |-> gd.blues, reds |-> gd.reds,
          blue_score |-> d.node[s].blue_score + 1 + Cardinality(gd.blues),
          blue_work |-> BlueWork(d, s, gd.blues), sizes |-> gd.sizes]
  BY Zenon DEF NewNode, PastSize, gd, Coloured, base, D, merge, s
<1>20. Rules!NodeOf(d, ps, w, s, B) =
         [parents |-> ps, work |-> w, past |-> P, past_size |-> Rules!Cardinality(P),
          sp |-> s, blues |-> B, reds |-> M \ B,
          blue_score |-> Rules!Cardinality(blue), blue_work |-> Rules!WorkOf(d, blue),
          sizes |-> [x \in blue |-> Rules!Cardinality(Rules!AnticoneIn(d, x, blue))]]
  BY Zenon DEF Rules!NodeOf, P, M, seed
<1> HIDE DEF blue
<1>21. NewNode(d, ps, w) = Rules!NodeOf(d, ps, w, s, B)
  BY <1>11, <1>13, <1>15, <1>16, <1>17, <1>18, <1>19, <1>20, SameCard
<1>22. B \in SUBSET Rules!Merged(d, s, ps)
  BY <1>9 DEF M
<1> QED
  BY <1>2, <1>10, <1>21, <1>22

\* compute_ghostdag records numbers, whatever is left of the DAG.
LEMMA NewNodeTyped ==
  ASSUME NEW d, Numbered(d), NEW X, IsFiniteSet(X), Nodes(d) \subseteq X,
         \A b \in Nodes(d) : d.node[b].sizes \in SizesOf(X),
         NEW ps \in SUBSET Nodes(d), ps # {}, NEW w
  PROVE  LET n == NewNode(d, ps, w)
             s == Heaviest(d, ps)
         IN  /\ s \in ps /\ n.sp = s /\ n.parents = ps /\ n.work = w
             /\ n.past = d.node[s].past \cup {s} \cup ToSet(mergeset_ordered(d, s, ps))
             /\ n.past_size \in Nat /\ n.blue_score \in Nat /\ n.blue_work \in Nat
             /\ n.sizes \in SizesOf(X)
<1> DEFINE N == Nodes(d)
           n == NewNode(d, ps, w)
           s == Heaviest(d, ps)
           D == DOMAIN d.node[s].sizes
           merge == mergeset_ordered(d, s, ps)
           base == [blues |-> {}, reds |-> {},
                    sizes |-> [b \in D \cup {s} |-> IF b = s THEN 0 ELSE d.node[s].sizes[b]]]
           gd == Coloured(d, base, merge)
<1>1. s \in ps /\ s \in N
  BY HeaviestIs DEF Rules!IsHeaviest
<1>2. n = [parents |-> ps, work |-> w,
           past |-> d.node[s].past \cup {s} \cup ToSet(merge),
           past_size |-> d.node[s].past_size + 1 + Len(merge),
           sp |-> s, blues |-> gd.blues, reds |-> gd.reds,
           blue_score |-> d.node[s].blue_score + 1 + Cardinality(gd.blues),
           blue_work |-> BlueWork(d, s, gd.blues), sizes |-> gd.sizes]
  BY Zenon DEF NewNode, PastSize, gd, Coloured, base, D, merge, s
<1> HIDE DEF s
<1>3. /\ d.node[s].past_size \in Nat /\ d.node[s].blue_score \in Nat
      /\ d.node[s].blue_work \in Nat /\ d.node[s].work \in Nat
  BY <1>1 DEF Numbered
<1>4. PICK M \in SUBSET N : merge = SortTopo(d, M)
  <2>1. IsFiniteSet(Nodes(d))
    BY DEF Numbered
  <2>2. PICK M : merge = SortTopo(d, M) /\ IsReach(d, s, ps, M)
    BY <2>1, MergesetWalk
  <2> QED
    BY <2>2 DEF IsReach, Outside
<1> DEFINE m == Cardinality(M)
<1>5. m \in Nat /\ Len(merge) = m /\ merge \in [1 .. m -> M]
  BY <1>4, SortTopoLists
<1>6. base \in Accs(d, X)
  <2>1. d.node[s].sizes \in SizesOf(X) /\ s \in X
    BY <1>1
  <2>2. PICK C \in SUBSET X : d.node[s].sizes \in [C -> Nat]
    BY <2>1 DEF SizesOf
  <2> DEFINE z == [b \in D \cup {s} |-> IF b = s THEN 0 ELSE d.node[s].sizes[b]]
  <2>3. z \in [C \cup {s} -> Nat]
    BY <2>2
  <2>4. C \cup {s} \in SUBSET X
    BY <2>1, <2>2
  <2> HIDE DEF z
  <2>5. z \in SizesOf(X)
    BY <2>3, <2>4 DEF SizesOf
  <2>6. [blues |-> {}, reds |-> {}, sizes |-> z] \in Accs(d, X)
    BY <2>5 DEF Accs
  <2> QED
    BY <2>6 DEF z
<1> HIDE DEF base, m
<1>7. merge \in [1 .. m -> N]
  <2> HIDE DEF merge
  <2> QED
    BY <1>4, <1>5
<1> HIDE DEF merge
<1>8. gd \in Accs(d, X)
  <2>1. PICK f : IsLoop(d, X, base, m, merge, f) /\ gd = f[m]
    <3> HIDE DEF gd
    <3> QED
      BY <1>5, <1>6, <1>7, ColourLoop DEF gd
  <2> QED
    BY <1>5, <2>1 DEF IsLoop
<1> HIDE DEF gd, n
<1>9. gd.blues \in SUBSET N /\ gd.sizes \in SizesOf(X)
  BY <1>8 DEF Accs
<1>10. Cardinality(gd.blues) \in Nat
  <2> DEFINE B == gd.blues
  <2>1. B \in SUBSET N /\ IsFiniteSet(N)
    BY <1>9 DEF Numbered
  <2> HIDE DEF B, N
  <2>2. Cardinality(B) \in Nat
    BY <2>1, FS_Subset, FS_CardinalityType
  <2> QED
    BY <2>2 DEF B
<1>11. BlueWork(d, s, gd.blues) \in Nat
  <2> DEFINE B == gd.blues
             sum == SumOfWorks(d, B)
  <2>1. B \in SUBSET Nodes(d)
    BY <1>9
  <2> HIDE DEF B
  <2>2. sum \in Nat
    BY <2>1, SumTyped
  <2>3. BlueWork(d, s, B) = d.node[s].blue_work + d.node[s].work + sum
    BY Zenon DEF BlueWork, SumOfWorks
  <2> HIDE DEF sum
  <2>4. BlueWork(d, s, B) \in Nat
    BY <1>3, <2>2, <2>3
  <2> QED
    BY <2>4 DEF B
<1>12. /\ n.sp = s /\ n.parents = ps /\ n.work = w
       /\ n.past = d.node[s].past \cup {s} \cup ToSet(merge)
       /\ n.past_size = d.node[s].past_size + 1 + Len(merge)
       /\ n.blue_score = d.node[s].blue_score + 1 + Cardinality(gd.blues)
       /\ n.blue_work = BlueWork(d, s, gd.blues) /\ n.sizes = gd.sizes
  BY <1>2
<1>13. n.past_size \in Nat /\ n.blue_score \in Nat
  <2> DEFINE c == Cardinality(gd.blues)
             l == Len(merge)
             u == d.node[s].past_size
             v == d.node[s].blue_score
  <2>1. u \in Nat /\ v \in Nat
    BY <1>3
  <2>2. l \in Nat /\ c \in Nat
    BY <1>5, <1>10
  <2>3. n.past_size = u + 1 + l /\ n.blue_score = v + 1 + c
    BY <1>12
  <2> HIDE DEF c, l, u, v
  <2>4. u + 1 + l \in Nat /\ v + 1 + c \in Nat
    BY <2>1, <2>2
  <2> QED
    BY <2>3, <2>4
<1> QED
  BY <1>1, <1>9, <1>11, <1>12, <1>13 DEF n, s, merge

-----------------------------------------------------------------------------
(***************************************************************************)
(* The insertion, and the archive.                                         *)
(***************************************************************************)
Wired(d, id, ps, w) ==
  [tips |-> (d.tips \ ps) \cup {id},
   node |-> [b \in Nodes(d) \cup {id} |-> IF b = id THEN NewNode(d, ps, w) ELSE d.node[b]]]

\* A block that is inserted is wired as the rule says: with a colouring of
\* its parents, and the DAG stays built by the rule.
LEMMA WiredIs ==
  ASSUME K \in Nat, NEW d, ByTheRule(d), NEW id \in Nat \ Nodes(d),
         NEW ps \in SUBSET Nodes(d), ps # {}, NEW w \in Nat
  PROVE  \E s \in ps : \E B \in SUBSET Rules!Merged(d, s, ps) :
           /\ Rules!IsColouring(d, ps, s, B)
           /\ Wired(d, id, ps, w) = Rules!With(d, id, Rules!NodeOf(d, ps, w, s, B))
           /\ ByTheRule(Wired(d, id, ps, w))
<1>1. PICK s \in ps : \E B \in SUBSET Rules!Merged(d, s, ps) :
           /\ Rules!IsColouring(d, ps, s, B)
           /\ NewNode(d, ps, w) = Rules!NodeOf(d, ps, w, s, B)
  BY NewNodeIs
<1>2. PICK B \in SUBSET Rules!Merged(d, s, ps) :
           /\ Rules!IsColouring(d, ps, s, B)
           /\ NewNode(d, ps, w) = Rules!NodeOf(d, ps, w, s, B)
  BY <1>1
<1> DEFINE n == Rules!NodeOf(d, ps, w, s, B)
<1>3. n.parents = ps
  BY DEF Rules!NodeOf
<1> HIDE DEF n
<1>4. Wired(d, id, ps, w) = Rules!With(d, id, n)
  BY <1>2, <1>3, SameNodes, Zenon DEF Wired, Rules!With, n
<1>5. ByTheRule(Rules!With(d, id, n))
  BY <1>2, SameNodes, InsertKeepsRule DEF n
<1> QED
  BY <1>2, <1>4, <1>5 DEF n

\* Without a pruning depth, insert only wires the block.
LEMMA InsertIs ==
  ASSUME NEW d, NEW id, NEW ps, NEW w
  PROVE  insert(d, id, ps, w, NoPruning) = Wired(d, id, ps, w)
<1> DEFINE e == Wired(d, id, ps, w)
<1>1. insert(d, id, ps, w, NoPruning) = prune_old_blocks(e, NoPruning)
  BY Zenon DEF insert, Wired
<1> HIDE DEF e
<1>2. block_pruning_score(e, NoPruning) = 0
  BY DEF block_pruning_score
<1>3. pruning_point(e, NoPruning) = Genesis
  BY <1>2, Zenon DEF pruning_point
<1>4. prune_old_blocks(e, NoPruning) = e
  BY <1>3, Zenon DEF prune_old_blocks
<1> QED
  BY <1>1, <1>4 DEF e

\* The blocks without children.
Childless(d) == {b \in Nodes(d) : \A c \in Nodes(d) : b \notin d.node[c].parents}

Sound(d) ==
  /\ ByTheRule(d)
  /\ d.tips = Childless(d)
  /\ d = [tips |-> d.tips, node |-> [b \in Nodes(d) |-> d.node[b]]]

\* A DAG of genesis alone is sound.
LEMMA NewSound ==
  ASSUME Genesis \in Nat, NEW w \in Nat
  PROVE  Sound(NewDag(w)) /\ Nodes(NewDag(w)) = {Genesis}
<1> DEFINE d == NewDag(w)
<1>1. ByTheRule(d)
  <2>1. Rules!NewDag(w) = NewDag(w)
    BY Zenon DEF Rules!NewDag, Rules!GenesisNode, NewDag
  <2>2. ByTheRule(Rules!NewDag(w))
    BY NewByTheRule
  <2> QED
    BY <2>1, <2>2
<1>2. d.tips = {Genesis} /\ Nodes(d) = {Genesis} /\ d.node[Genesis].parents = {}
  BY DEF NewDag, Nodes
<1>3. d.tips = Childless(d)
  BY <1>2 DEF Childless
<1>4. d = [tips |-> d.tips, node |-> [b \in Nodes(d) |-> d.node[b]]]
  BY DEF NewDag, Nodes
<1> HIDE DEF d
<1>5. Sound(d) /\ Nodes(d) = {Genesis}
  BY <1>1, <1>2, <1>3, <1>4 DEF Sound
<1> QED
  BY <1>5 DEF d

\* e is d with one block more.
Grown(d, e, id, ps, w) ==
  /\ Sound(e) /\ Nodes(e) = Nodes(d) \cup {id}
  /\ e.node[id].parents = ps /\ e.node[id].work = w
  /\ \A b \in Nodes(d) : e.node[b] = d.node[b]

\* Wiring a block keeps the DAG sound and every earlier record.
LEMMA WiredSound ==
  ASSUME K \in Nat, NEW d, Sound(d), NEW id \in Nat \ Nodes(d),
         NEW ps \in SUBSET Nodes(d), ps # {}, NEW w \in Nat
  PROVE  Grown(d, Wired(d, id, ps, w), id, ps, w)
<1> DEFINE e == Wired(d, id, ps, w)
           n == NewNode(d, ps, w)
<1>0. ByTheRule(d) /\ WellFormed(d)
  BY DEF Sound, ByTheRule
<1>1. n.parents = ps /\ n.work = w
  BY DEF NewNode
<1> HIDE DEF n
<1>2. /\ e.tips = (d.tips \ ps) \cup {id}
      /\ e.node = [b \in Nodes(d) \cup {id} |-> IF b = id THEN n ELSE d.node[b]]
  BY DEF Wired, n
<1>3. Nodes(e) = Nodes(d) \cup {id}
  BY <1>2 DEF Nodes
<1>4. e.node[id] = n /\ \A b \in Nodes(d) : e.node[b] = d.node[b]
  BY <1>2
<1>5. ByTheRule(e)
  BY <1>0, WiredIs
<1>6. e = [tips |-> e.tips, node |-> [b \in Nodes(e) |-> e.node[b]]]
  <2>1. [b \in Nodes(e) |-> e.node[b]] = e.node
    BY <1>2, <1>3
  <2>2. e = [tips |-> e.tips, node |-> e.node]
    BY DEF Wired
  <2> QED
    BY <2>1, <2>2
<1> HIDE DEF e
<1>7. e.tips = Childless(e)
  <2>1. \A c \in Nodes(d) : id \notin d.node[c].parents
    BY <1>0, WellFormedIs
  <2>2. d.tips = Childless(d)
    BY DEF Sound
  <2>3. \A x \in Nodes(d) : x \in Childless(e) <=> x \in Childless(d) /\ x \notin ps
    BY <1>1, <1>3, <1>4 DEF Childless
  <2>4. id \in Childless(e)
    BY <1>1, <1>3, <1>4, <2>1 DEF Childless
  <2>5. Childless(e) \subseteq Nodes(e) /\ Childless(d) \subseteq Nodes(d)
    BY DEF Childless
  <2> QED
    BY <1>2, <1>3, <2>2, <2>3, <2>4, <2>5
<1> QED
  BY <1>1, <1>3, <1>4, <1>5, <1>6, <1>7 DEF Sound, Grown, e

-----------------------------------------------------------------------------
(***************************************************************************)
(* Sequences.                                                              *)
(***************************************************************************)
\* One sequence after another.
LEMMA ConcatIs ==
  ASSUME NEW X, NEW q \in Seq(X), NEW t \in Seq(X), NEW n, n = Len(q), NEW m, m = Len(t)
  PROVE  /\ n \in Nat /\ m \in Nat
         /\ q \o t \in Seq(X) /\ Len(q \o t) = n + m
         /\ \A i \in 1 .. n : (q \o t)[i] = q[i]
         /\ \A i \in 1 .. m : (q \o t)[n + i] = t[i]
OBVIOUS

\* One element more.
LEMMA AppendIs ==
  ASSUME NEW X, NEW q \in Seq(X), NEW b \in X, NEW n, n = Len(q)
  PROVE  /\ n \in Nat /\ Append(q, b) \in Seq(X) /\ Len(Append(q, b)) = n + 1
         /\ Append(q, b)[n + 1] = b
         /\ \A i \in 1 .. n : Append(q, b)[i] = q[i]
OBVIOUS


\* The order of past_size.
PastBelow(d, p, b) == d.node[p].past_size < d.node[b].past_size

\* A block comes after its parents in the order of the keys.
LEMMA ParentsBefore ==
  ASSUME NEW d, ByTheRule(d), NEW b \in Nodes(d), NEW p \in d.node[b].parents
  PROVE  /\ p \in Nodes(d) /\ p \in d.node[b].past
         /\ PastBelow(d, p, b) /\ TopoKeyLess(d, p, b)
<1>0. WellFormed(d) /\ PastIsAncestry(d)
  BY RuledAncestry DEF ByTheRule
<1>1. /\ IsFiniteSet(Nodes(d)) /\ p \in Nodes(d)
      /\ d.node[b].past \subseteq Nodes(d) \ {b}
      /\ \A x \in d.node[b].past : d.node[x].past \subseteq d.node[b].past
      /\ d.node[p].past \subseteq Nodes(d) \ {p}
  BY <1>0, WellFormedIs
<1>2. p \in d.node[b].past
  BY <1>0 DEF PastIsAncestry, Rules!Ancestors
<1>3. d.node[p].past \subseteq d.node[b].past /\ d.node[p].past # d.node[b].past
  BY <1>1, <1>2
<1>4. Cardinality(d.node[p].past) < Cardinality(d.node[b].past)
  <2> DEFINE P == d.node[p].past
             B == d.node[b].past
  <2>1. IsFiniteSet(B) /\ P \in SUBSET B /\ P # B
    BY <1>1, <1>3, FS_Subset
  <2> HIDE DEF P, B
  <2>2. /\ IsFiniteSet(P) /\ Cardinality(P) <= Cardinality(B)
        /\ (Cardinality(P) = Cardinality(B) => P = B)
    BY <2>1, FS_Subset
  <2>3. Cardinality(P) \in Nat /\ Cardinality(B) \in Nat
    BY <2>1, <2>2, FS_CardinalityType
  <2> QED
    BY <2>1, <2>2, <2>3 DEF P, B
<1>5. /\ d.node[p].past_size = Cardinality(d.node[p].past)
      /\ d.node[b].past_size = Cardinality(d.node[b].past)
  BY <1>1, RecordCounts
<1> QED
  BY <1>1, <1>2, <1>4, <1>5 DEF TopoKeyLess, PastBelow

-----------------------------------------------------------------------------
(***************************************************************************)
(* The selected-parent chain.                                              *)
(***************************************************************************)
\* A recursion up to x from where the selected parent is not in E.
IsUp(d, E, up) ==
  up = [x \in Nodes(d) |->
          IF d.node[x].sp \in E THEN Append(up[d.node[x].sp], x) ELSE <<x>>]

\* The selected parent is a block with a smaller past; genesis has none.
LEMMA SelectedBelow ==
  ASSUME NEW d, ByTheRule(d), NoBlock \notin Nodes(d)
  PROVE  /\ Genesis \in Nodes(d) /\ d.node[Genesis].sp \notin Nodes(d)
         /\ d.node[Genesis].parents = {} /\ d.node[Genesis].past = {}
         /\ \A b \in Nodes(d) \ {Genesis} :
              /\ d.node[b].sp \in Nodes(d) /\ d.node[b].sp \in d.node[b].parents
              /\ d.node[b].sp \in d.node[b].past
              /\ d.node[d.node[b].sp].past_size < d.node[b].past_size
<1>1. /\ Genesis \in Nodes(d) /\ d.node[Genesis].parents = {} /\ d.node[Genesis].past = {}
      /\ d.node[Genesis] = Rules!GenesisNode(d.node[Genesis].work)
  BY GenesisFields
<1>2. d.node[Genesis].sp = NoBlock
  <2> DEFINE r == Rules!GenesisNode(d.node[Genesis].work)
  <2>1. r.sp = NoBlock
    BY DEF Rules!GenesisNode
  <2> HIDE DEF r
  <2> QED
    BY <1>1, <2>1 DEF r
<1>3. ASSUME NEW b \in Nodes(d) \ {Genesis}
      PROVE  /\ d.node[b].sp \in Nodes(d) /\ d.node[b].sp \in d.node[b].parents
             /\ d.node[b].sp \in d.node[b].past
             /\ d.node[d.node[b].sp].past_size < d.node[b].past_size
  <2>1. d.node[b].sp \in d.node[b].parents
    BY RecordFields
  <2>2. /\ d.node[b].sp \in Nodes(d) /\ d.node[b].sp \in d.node[b].past
        /\ d.node[b].past \subseteq Nodes(d) \ {b}
    BY <2>1, ParentsBefore, WellFormedIs DEF ByTheRule
  <2>3. PastBelow(d, d.node[b].sp, b)
    BY <2>1, <2>2, ParentsBefore
  <2> QED
    BY <2>1, <2>2, <2>3 DEF PastBelow
<1> QED
  BY <1>1, <1>2, <1>3

\* Some block of a set is the lowest.
LEMMA LowestOf ==
  ASSUME NEW d, NEW S, S # {}, \A x \in S : d.node[x].past_size \in Nat
  PROVE  \E x \in S : \A y \in S : ~PastBelow(d, y, x)
<1> DEFINE H == {d.node[x].past_size : x \in S}
<1>1. H \in SUBSET Nat /\ H # {}
  OBVIOUS
<1>2. PICK k \in H : \A l \in H : k <= l
  <2> HIDE DEF H
  <2> QED
    BY <1>1, NatLeast
<1>3. PICK x \in S : d.node[x].past_size = k
  BY <1>2
<1>4. ASSUME NEW y \in S PROVE ~PastBelow(d, y, x)
  <2>1. /\ d.node[y].past_size \in H /\ k \in Nat
        /\ d.node[y].past_size \in Nat
    BY <1>1, <1>2
  <2>2. k <= d.node[y].past_size
    BY <1>2, <2>1
  <2> QED
    BY <1>3, <2>1, <2>2 DEF PastBelow
<1> QED
  BY <1>4

\* Whoever has a selected parent in E comes after it in the order of the
\* past_size recorded in a, which may be d itself.
Grounded(d, E, a) ==
  /\ E \in SUBSET Nodes(d)
  /\ \A x \in Nodes(d) :
       /\ a.node[x].past_size \in Nat
       /\ d.node[x].sp \in E => PastBelow(a, d.node[x].sp, x)

\* In a DAG built by the rule, a recursion through any set is grounded.
LEMMA RuleGrounded ==
  ASSUME NEW d, ByTheRule(d), NoBlock \notin Nodes(d), NEW E \in SUBSET Nodes(d)
  PROVE  Grounded(d, E, d)
<1>1. \A x \in Nodes(d) : d.node[x].past_size \in Nat
  BY WellFormedIs DEF ByTheRule
<1>2. ASSUME NEW x \in Nodes(d), d.node[x].sp \in E PROVE PastBelow(d, d.node[x].sp, x)
  <2>1. x # Genesis
    BY <1>2, SelectedBelow
  <2> QED
    BY <2>1, SelectedBelow DEF PastBelow
<1> QED
  BY <1>1, <1>2 DEF Grounded

\* The recursion is defined: it goes down in past_size.
LEMMA UpExists ==
  ASSUME NEW d, NEW E, NEW a, Grounded(d, E, a)
  PROVE  \E up : IsUp(d, E, up) /\ up \in [Nodes(d) -> Seq(Nodes(d))]
<1> DEFINE N == Nodes(d)
           T == [N -> Seq(N)]
           sp(x) == d.node[x].sp
           h(x) == a.node[x].past_size
           Up(f) == [x \in N |-> IF sp(x) \in E THEN Append(f[sp(x)], x) ELSE <<x>>]
           base == [x \in N |-> <<>>]
           step == [p \in Nat \X T |-> Up(p[2])]
<1>0. E \in SUBSET N
  BY DEF Grounded
<1>1. base \in T /\ IsStep(T, step)
  <2>1. base \in T
    OBVIOUS
  <2>2. ASSUME NEW p \in Nat \X T PROVE Up(p[2]) \in T
    <3>1. p[2] \in T
      BY <2>2
    <3>2. \A x \in N : (IF sp(x) \in E THEN Append(p[2][sp(x)], x) ELSE <<x>>) \in Seq(N)
      BY <1>0, <3>1
    <3> QED
      BY <3>2
  <2> QED
    BY <2>1, <2>2 DEF IsStep
<1>2. PICK F : IsIteration(T, base, step, F)
  <2> HIDE DEF T, base, step
  <2> QED
    BY <1>1, Iterates
<1>3. ASSUME NEW n \in Nat, NEW x \in N
      PROVE  /\ F[n] \in T
             /\ F[n + 1][x] = IF sp(x) \in E THEN Append(F[n][sp(x)], x) ELSE <<x>>
  <2>1. F[n] \in T /\ F[n + 1] = step[<<n + 1, F[n]>>]
    <3>1. n + 1 \in Nat /\ n + 1 # 0 /\ (n + 1) - 1 = n
      OBVIOUS
    <3> HIDE DEF T, base, step
    <3> QED
      BY <1>2, <3>1 DEF IsIteration
  <2>2. <<n + 1, F[n]>> \in Nat \X T
    BY <2>1
  <2>3. step[<<n + 1, F[n]>>] = Up(F[n])
    BY <2>2
  <2> QED
    BY <2>1, <2>3
<1>4. \A x \in N : h(x) \in Nat /\ (sp(x) \in E => h(sp(x)) < h(x))
  BY DEF Grounded, PastBelow
<1> HIDE DEF base, step, Up
<1> DEFINE Fixed(x) == \A n \in Nat : n > h(x) => F[n][x] = F[h(x) + 1][x]
           Bad == {x \in N : ~Fixed(x)}
<1>5. Bad = {}
  <2> SUFFICES ASSUME Bad # {} PROVE FALSE
    OBVIOUS
  <2> DEFINE H == {h(x) : x \in Bad}
  <2>1. H \in SUBSET Nat /\ H # {}
    BY <1>4
  <2>2. PICK x \in Bad : \A y \in Bad : h(x) <= h(y)
    <3> HIDE DEF Bad
    <3>1. PICK k \in H : \A l \in H : k <= l
      <4> HIDE DEF H
      <4> QED
        BY <2>1, NatLeast
    <3> QED
      BY <3>1
  <2>3. PICK n \in Nat : n > h(x) /\ F[n][x] # F[h(x) + 1][x]
    BY <2>2
  <2>4. x \in N /\ h(x) \in Nat
    BY <1>4
  <2>5. n - 1 \in Nat /\ (n - 1) + 1 = n
    BY <2>3, <2>4
  <2>6. CASE sp(x) \notin E
    <3>1. F[(n - 1) + 1][x] = <<x>>
      BY <1>3, <2>4, <2>5, <2>6
    <3>2. F[h(x) + 1][x] = <<x>>
      BY <1>3, <2>4, <2>6
    <3> QED
      BY <2>3, <2>5, <3>1, <3>2
  <2>7. CASE sp(x) \in E
    <3>1. sp(x) \in N /\ h(sp(x)) \in Nat /\ h(sp(x)) < h(x)
      BY <1>0, <1>4, <2>4, <2>7
    <3>2. Fixed(sp(x))
      BY <2>2, <2>4, <2>7, <3>1
    <3>3. F[n - 1][sp(x)] = F[h(sp(x)) + 1][sp(x)] /\ F[h(x)][sp(x)] = F[h(sp(x)) + 1][sp(x)]
      <4>1. n - 1 > h(sp(x)) /\ h(x) > h(sp(x))
        BY <2>3, <2>4, <2>5, <3>1
      <4>2. \A i \in Nat : i > h(sp(x)) => F[i][sp(x)] = F[h(sp(x)) + 1][sp(x)]
        BY <3>2
      <4> QED
        BY <2>4, <2>5, <4>1, <4>2
    <3>4. F[n][x] = Append(F[n - 1][sp(x)], x)
      BY <1>3, <2>4, <2>5, <2>7
    <3>5. F[h(x) + 1][x] = Append(F[h(x)][sp(x)], x)
      BY <1>3, <2>4, <2>7
    <3> QED
      BY <2>3, <3>3, <3>4, <3>5
  <2> QED
    BY <2>6, <2>7
<1> DEFINE up == [x \in N |-> F[h(x) + 1][x]]
<1>6. \A x \in N : up[x] = IF sp(x) \in E THEN Append(up[sp(x)], x) ELSE <<x>>
  <2> TAKE x \in N
  <2>1. h(x) \in Nat
    BY <1>4
  <2>2. up[x] = IF sp(x) \in E THEN Append(F[h(x)][sp(x)], x) ELSE <<x>>
    BY <1>3, <2>1
  <2>3. ASSUME sp(x) \in E PROVE up[sp(x)] = F[h(x)][sp(x)]
    <3>1. sp(x) \in N /\ h(sp(x)) \in Nat /\ h(sp(x)) < h(x) /\ Fixed(sp(x))
      BY <1>0, <1>4, <1>5, <2>3
    <3> QED
      BY <2>1, <2>3, <3>1
  <2> QED
    BY <2>2, <2>3
<1>7. up \in T
  <2>1. \A x \in N : h(x) + 1 \in Nat
    BY <1>4
  <2> QED
    BY <1>3, <2>1
<1>8. up = [x \in N |-> up[x]]
  OBVIOUS
<1> HIDE DEF up
<1>9. up = [x \in N |-> IF sp(x) \in E THEN Append(up[sp(x)], x) ELSE <<x>>]
  BY <1>6, <1>8
<1> QED
  BY <1>7, <1>9 DEF IsUp

\* Where the recursion leads.
PathTo(d, E, b) ==
  LET up[x \in Nodes(d)] ==
        IF d.node[x].sp \in E THEN Append(up[d.node[x].sp], x) ELSE <<x>>
  IN  up[b]

\* The path of a block is that of its selected parent and the block.
LEMMA PathIs ==
  ASSUME NEW d, NEW E, NEW a, Grounded(d, E, a), NEW b \in Nodes(d)
  PROVE  /\ PathTo(d, E, b) \in Seq(Nodes(d)) /\ PathTo(d, E, b) # <<>>
         /\ PathTo(d, E, b) = IF d.node[b].sp \in E
                              THEN Append(PathTo(d, E, d.node[b].sp), b) ELSE <<b>>
<1> DEFINE W == CHOOSE up : IsUp(d, E, up)
           N == Nodes(d)
<1>1. \A x : PathTo(d, E, x) = W[x]
  BY Zenon DEF PathTo, IsUp
<1>2. \E up : IsUp(d, E, up)
  BY UpExists
<1>3. IsUp(d, E, W)
  BY <1>2, Zenon
<1> HIDE DEF W
<1>5. \A x \in N : W[x] = IF d.node[x].sp \in E THEN Append(W[d.node[x].sp], x) ELSE <<x>>
  BY <1>3 DEF IsUp
<1>6. \A x \in N : W[x] \in Seq(N)
  <2> DEFINE Bad == {x \in N : W[x] \notin Seq(N)}
  <2> SUFFICES ASSUME Bad # {} PROVE FALSE
    OBVIOUS
  <2>1. PICK x \in Bad : \A y \in Bad : ~PastBelow(a, y, x)
    <3>1. Bad \in SUBSET Nodes(d)
      OBVIOUS
    <3> HIDE DEF Bad
    <3> QED
      BY <3>1, LowestOf DEF Grounded
  <2>2. x \in N /\ W[x] \notin Seq(N)
    BY <2>1
  <2>3. CASE d.node[x].sp \in E
    <3>1. PastBelow(a, d.node[x].sp, x) /\ d.node[x].sp \in N
      BY <2>2, <2>3 DEF Grounded
    <3>2. W[d.node[x].sp] \in Seq(N)
      BY <2>1, <3>1
    <3>3. Append(W[d.node[x].sp], x) \in Seq(N)
      BY <2>2, <3>2
    <3> QED
      BY <1>5, <2>2, <2>3, <3>3
  <2>4. CASE d.node[x].sp \notin E
    <3>1. W[x] = <<x>>
      BY <1>5, <2>2, <2>4
    <3>2. <<x>> \in Seq(N)
      BY <2>2
    <3> QED
      BY <2>2, <3>1, <3>2
  <2> QED
    BY <2>3, <2>4
<1>7. W[b] # <<>>
  <2>1. CASE d.node[b].sp \in E
    <3>1. d.node[b].sp \in N
      BY <2>1 DEF Grounded
    <3>2. W[b] = Append(W[d.node[b].sp], b) /\ W[d.node[b].sp] \in Seq(N)
      BY <1>5, <1>6, <2>1, <3>1
    <3> QED
      BY <3>2
  <2>2. CASE d.node[b].sp \notin E
    <3>1. W[b] = <<b>>
      BY <1>5, <2>2
    <3> QED
      BY <3>1
  <2> QED
    BY <2>1, <2>2
<1> QED
  BY <1>1, <1>5, <1>6, <1>7

\* The chain of a block is that of its selected parent and the block.
LEMMA ChainIs ==
  ASSUME NEW d, NEW a, Grounded(d, Nodes(d), a), NEW b \in Nodes(d)
  PROVE  /\ ChainTo(d, b) \in Seq(Nodes(d)) /\ ChainTo(d, b) # <<>>
         /\ ChainTo(d, b) = IF d.node[b].sp \in Nodes(d)
                            THEN Append(ChainTo(d, d.node[b].sp), b) ELSE <<b>>
<1> DEFINE N == Nodes(d)
<1>1. \A x : ChainTo(d, x) = PathTo(d, N, x)
  BY Zenon DEF ChainTo, PathTo
<1> HIDE DEF N
<1>2. Grounded(d, N, a)
  BY DEF N
<1> QED
  BY <1>1, <1>2, PathIs DEF N

-----------------------------------------------------------------------------
(***************************************************************************)
(* Listings.                                                               *)
(***************************************************************************)
\* q lists the blocks of S, each once and after all of its parents.
Lists(d, q, S) ==
  /\ q \in Seq(Nodes(d)) /\ S \in SUBSET Nodes(d)
  /\ ToSet(q) = S /\ Len(q) = Cardinality(S)
  /\ \A i \in 1 .. Len(q) : d.node[q[i]].parents \subseteq {q[j] : j \in 1 .. i - 1}


\* A block whose parents are listed can be listed next.
LEMMA ListsAppend ==
  ASSUME NEW d, WellFormed(d), NEW q, NEW S, Lists(d, q, S),
         NEW b \in Nodes(d) \ S, d.node[b].parents \subseteq S
  PROVE  Lists(d, Append(q, b), S \cup {b})
<1> DEFINE r == Append(q, b)
           n == Len(q)
<1>1. /\ q \in Seq(Nodes(d)) /\ S \in SUBSET Nodes(d) /\ n \in Nat
      /\ S = {q[i] : i \in 1 .. n} /\ n = Cardinality(S)
      /\ \A i \in 1 .. n : d.node[q[i]].parents \subseteq {q[j] : j \in 1 .. i - 1}
  BY DEF Lists, ToSet
<1>2. /\ r \in Seq(Nodes(d)) /\ Len(r) = n + 1 /\ r[n + 1] = b
      /\ \A i \in 1 .. n : r[i] = q[i]
  <2>1. q \in Seq(Nodes(d)) /\ n = Len(q) /\ r = Append(q, b)
    BY <1>1
  <2> HIDE DEF n, r
  <2> QED
    BY <2>1, AppendIs
<1> HIDE DEF r, n
<1>10. n \in Nat
  BY <1>1
<1>3. DOMAIN r = 1 .. n + 1
  BY <1>1, <1>2
<1>4. ToSet(r) = S \cup {b}
  <2>1. ToSet(r) = {r[i] : i \in 1 .. n + 1}
    BY <1>3 DEF ToSet
  <2>2. \A i \in 1 .. n : i \in 1 .. n + 1
    BY <1>1
  <2>3. n + 1 \in 1 .. n + 1
    BY <1>1
  <2>4. \A i \in 1 .. n + 1 : i = n + 1 \/ i \in 1 .. n
    BY <1>1
  <2> QED
    BY <1>1, <1>2, <2>1, <2>2, <2>3, <2>4
<1>5. Cardinality(S \cup {b}) = n + 1
  <2>1. IsFiniteSet(S)
    <3>1. IsFiniteSet(Nodes(d)) /\ S \subseteq Nodes(d)
      BY <1>1, WellFormedIs
    <3> QED
      BY <3>1, FS_Subset
  <2>2. IsFiniteSet(S \cup {b}) /\ Cardinality(S \cup {b}) = Cardinality(S) + 1
    BY <2>1, FS_AddElement
  <2> QED
    BY <1>1, <2>2
<1>6. ASSUME NEW i \in 1 .. n + 1
      PROVE  d.node[r[i]].parents \subseteq {r[j] : j \in 1 .. i - 1}
  <2>1. CASE i = n + 1
    <3>1. \A j \in 1 .. n : j \in 1 .. i - 1
      BY <1>10, <2>1
    <3>2. d.node[r[i]].parents \subseteq S
      BY <1>2, <2>1
    <3>3. \A x \in S : \E j \in 1 .. i - 1 : x = r[j]
      BY <1>1, <1>2, <3>1
    <3> QED
      BY <3>2, <3>3
  <2>2. CASE i # n + 1
    <3>1. i \in 1 .. n /\ \A j \in 1 .. i - 1 : j \in 1 .. n
      BY <1>10, <2>2
    <3>2. {r[j] : j \in 1 .. i - 1} = {q[j] : j \in 1 .. i - 1}
      BY <1>2, <3>1
    <3> QED
      BY <1>1, <1>2, <3>1, <3>2
  <2> QED
    BY <2>1, <2>2
<1>7. S \cup {b} \in SUBSET Nodes(d)
  BY <1>1
<1> QED
  BY <1>2, <1>4, <1>5, <1>6, <1>7 DEF Lists, r


\* Blocks sorted by their keys can be listed next, when their other parents
\* are listed.
LEMMA ListsSorted ==
  ASSUME NEW d, ByTheRule(d), NEW q, NEW S, Lists(d, q, S),
         NEW T \in SUBSET (Nodes(d) \ S),
         \A x \in T : d.node[x].parents \subseteq S \cup T
  PROVE  Lists(d, q \o SortTopo(d, T), S \cup T)
<1> DEFINE n == Len(q)
           t == SortTopo(d, T)
           m == Cardinality(T)
           r == q \o t
<1>0. WellFormed(d)
  BY DEF ByTheRule
<1>1. /\ q \in Seq(Nodes(d)) /\ S \in SUBSET Nodes(d) /\ n \in Nat
      /\ S = {q[i] : i \in 1 .. n} /\ n = Cardinality(S)
      /\ \A i \in 1 .. n : d.node[q[i]].parents \subseteq {q[j] : j \in 1 .. i - 1}
  BY DEF Lists, ToSet
<1>2. T \in SUBSET Nodes(d)
  OBVIOUS
<1>3. /\ m \in Nat /\ t \in Seq(T) /\ Len(t) = m /\ T = {t[i] : i \in 1 .. m}
      /\ \A i, j \in 1 .. m : TopoKeyLess(d, t[i], t[j]) <=> i < j
  <2>1. /\ m \in Nat /\ t \in Seq(T) /\ Len(t) = m /\ ToSet(t) = T
        /\ \A i, j \in 1 .. m : TopoKeyLess(d, t[i], t[j]) <=> i < j
    BY <1>0, <1>2, WellNumbered, SortTopoLists
  <2> HIDE DEF t, m
  <2>2. DOMAIN t = 1 .. m
    BY <2>1
  <2> QED
    BY <2>1, <2>2 DEF ToSet
<1> HIDE DEF t, m, n
<1>4. t \in Seq(Nodes(d))
  BY <1>2, <1>3
<1>5. /\ r \in Seq(Nodes(d)) /\ Len(r) = n + m
      /\ \A i \in 1 .. n : r[i] = q[i]
      /\ \A i \in 1 .. m : r[n + i] = t[i]
  <2>1. Len(t) = m /\ t \in Seq(Nodes(d)) /\ q \in Seq(Nodes(d)) /\ n = Len(q)
    BY <1>1, <1>3, <1>4 DEF n
  <2> QED
    BY <2>1, ConcatIs
<1> HIDE DEF r
<1>10. n \in Nat /\ m \in Nat
  BY <1>1, <1>3
<1>6. /\ \A i \in 1 .. n : i \in 1 .. n + m
      /\ \A i \in 1 .. m : n + i \in 1 .. n + m
      /\ \A i \in 1 .. n + m : i \in 1 .. n \/ \E k \in 1 .. m : i = n + k
  <2>1. \A i \in 1 .. n + m : i \in 1 .. n \/ (i - n \in 1 .. m /\ i = n + (i - n))
    BY <1>10
  <2>2. \A i \in 1 .. n + m : i \in 1 .. n \/ \E k \in 1 .. m : i = n + k
    BY <2>1
  <2> QED
    BY <1>10, <2>2
<1>7. ToSet(r) = S \cup T
  <2>1. DOMAIN r = 1 .. n + m
    BY <1>1, <1>3, <1>5
  <2>2. ToSet(r) = {r[i] : i \in 1 .. n + m}
    BY <2>1 DEF ToSet
  <2>3. \A x \in S : x \in ToSet(r)
    BY <1>1, <1>5, <1>6, <2>2
  <2>4. \A x \in T : x \in ToSet(r)
    BY <1>3, <1>5, <1>6, <2>2
  <2>5. \A x \in ToSet(r) : x \in S \cup T
    <3> TAKE x \in ToSet(r)
    <3>1. PICK i \in 1 .. n + m : x = r[i]
      BY <2>2
    <3>2. CASE i \in 1 .. n
      BY <1>1, <1>5, <3>1, <3>2
    <3>3. ASSUME NEW k \in 1 .. m, i = n + k PROVE x \in S \cup T
      BY <1>3, <1>5, <3>1, <3>3
    <3> QED
      BY <1>6, <3>2, <3>3
  <2> QED
    BY <2>3, <2>4, <2>5
<1>8. Cardinality(S \cup T) = n + m
  <2>1. IsFiniteSet(S) /\ IsFiniteSet(T)
    BY <1>0, <1>1, <1>2, WellFormedIs, FS_Subset
  <2>2. S \cap T = {}
    OBVIOUS
  <2>3. Cardinality(S \cap T) = 0
    BY <2>2, FS_EmptySet
  <2>4. Cardinality(S \cup T) = Cardinality(S) + Cardinality(T) - Cardinality(S \cap T)
    BY <2>1, FS_Union
  <2> QED
    BY <1>1, <1>3, <2>3, <2>4 DEF m
<1>9. ASSUME NEW i \in 1 .. n + m
      PROVE  d.node[r[i]].parents \subseteq {r[j] : j \in 1 .. i - 1}
  <2>1. CASE i \in 1 .. n
    <3>1. \A j \in 1 .. i - 1 : j \in 1 .. n
      BY <1>1, <2>1
    <3>2. {r[j] : j \in 1 .. i - 1} = {q[j] : j \in 1 .. i - 1}
      BY <1>5, <3>1
    <3> QED
      BY <1>1, <1>5, <2>1, <3>2
  <2>2. ASSUME NEW k \in 1 .. m, i = n + k
        PROVE  d.node[r[i]].parents \subseteq {r[j] : j \in 1 .. i - 1}
    <3>1. r[i] = t[k] /\ t[k] \in T
      BY <1>3, <1>5, <2>2
    <3> SUFFICES ASSUME NEW p \in d.node[t[k]].parents PROVE \E j \in 1 .. i - 1 : p = r[j]
      BY <3>1
    <3>2. CASE p \in S
      <4>1. PICK j \in 1 .. n : p = q[j]
        BY <1>1, <3>2
      <4>2. j \in 1 .. i - 1
        BY <1>10, <2>2
      <4>3. r[j] = p
        BY <1>5, <4>1
      <4> QED
        BY <4>2, <4>3
    <3>3. CASE p \in T
      <4>1. PICK j \in 1 .. m : p = t[j]
        BY <1>3, <3>3
      <4>2. t[k] \in Nodes(d)
        BY <1>2, <3>1
      <4>3. TopoKeyLess(d, t[j], t[k])
        BY <4>1, <4>2, ParentsBefore
      <4>4. j < k
        BY <1>3, <4>3
      <4>5. n + j \in 1 .. i - 1
        BY <1>10, <2>2, <4>4
      <4>6. r[n + j] = p
        BY <1>5, <4>1
      <4> QED
        BY <4>5, <4>6
    <3> QED
      BY <3>1, <3>2, <3>3
  <2> QED
    BY <1>6, <2>1, <2>2
<1> QED
  <2>1. S \cup T \in SUBSET Nodes(d)
    BY <1>1, <1>2
  <2> QED
    BY <1>5, <1>7, <1>8, <1>9, <2>1 DEF Lists, r, t


-----------------------------------------------------------------------------
(***************************************************************************)
(* The order of a block.                                                   *)
(***************************************************************************)
\* The recursion of FlattenSeq.
IsFlat(n, s, f) == f = [i \in 1 .. n |-> IF i = 1 THEN s[i] ELSE f[i - 1] \o s[i]]

\* FlattenSeq puts the sequences behind each other, one at a time.
LEMMA FlatIs ==
  ASSUME NEW X, NEW n \in Nat \ {0}, NEW s \in Seq(Seq(X)), Len(s) = n
  PROVE  \E f : /\ f \in [1 .. n -> Seq(X)] /\ IsFlat(n, s, f)
                /\ FlattenSeq(s) = f[n]
<1> DEFINE T == Seq(X)
           base == <<>>
           step == [p \in Nat \X T |-> IF p[1] \in 1 .. n THEN p[2] \o s[p[1]] ELSE p[2]]
<1>0. \A i \in 1 .. n : s[i] \in T
  OBVIOUS
<1>1. base \in T /\ IsStep(T, step)
  <2>1. ASSUME NEW p \in Nat \X T
        PROVE  (IF p[1] \in 1 .. n THEN p[2] \o s[p[1]] ELSE p[2]) \in T
    <3>1. p[2] \in T
      OBVIOUS
    <3>2. CASE p[1] \in 1 .. n
      <4>1. s[p[1]] \in T
        BY <1>0, <3>2
      <4>2. p[2] \o s[p[1]] \in T
        BY <3>1, <4>1, ConcatIs
      <4> QED
        BY <3>2, <4>2
    <3>3. CASE p[1] \notin 1 .. n
      BY <3>1, <3>3
    <3> QED
      BY <3>2, <3>3
  <2> QED
    BY <2>1 DEF IsStep
<1>2. PICK F : IsIteration(T, base, step, F)
  <2> HIDE DEF T, base, step
  <2> QED
    BY <1>1, Iterates
<1>3. F \in [Nat -> T] /\ F[0] = <<>>
  BY <1>2 DEF IsIteration
<1>4. ASSUME NEW i \in 1 .. n PROVE F[i] = F[i - 1] \o s[i]
  <2>1. i \in Nat /\ i # 0 /\ i - 1 \in Nat
    OBVIOUS
  <2>2. F[i] = step[<<i, F[i - 1]>>]
    <3> HIDE DEF T, base, step
    <3> QED
      BY <1>2, <2>1 DEF IsIteration
  <2>3. <<i, F[i - 1]>> \in Nat \X T
    BY <1>3, <2>1
  <2> QED
    BY <2>2, <2>3
<1> HIDE DEF T, base, step
<1> DEFINE f == [i \in 1 .. n |-> F[i]]
<1>5. f \in [1 .. n -> T] /\ \A i \in 1 .. n : f[i] = F[i]
  BY <1>3
<1>6. \A i \in 1 .. n : F[i] = IF i = 1 THEN s[i] ELSE F[i - 1] \o s[i]
  <2> TAKE i \in 1 .. n
  <2>1. CASE i = 1
    <3>1. F[1] = <<>> \o s[1] /\ s[1] \in Seq(X)
      <4>1. 1 \in 1 .. n /\ 1 - 1 = 0
        OBVIOUS
      <4>2. F[1] = F[0] \o s[1]
        BY <1>4, <4>1
      <4> QED
        BY <1>0, <1>3, <4>1, <4>2 DEF T
    <3>2. <<>> \o s[1] = s[1]
      BY <3>1
    <3> QED
      BY <2>1, <3>1, <3>2
  <2>2. CASE i # 1
    BY <1>4, <2>2
  <2> QED
    BY <2>1, <2>2
<1>7. IsFlat(n, s, f)
  <2>1. \A i \in 1 .. n : F[i] = IF i = 1 THEN s[i] ELSE f[i - 1] \o s[i]
    <3> TAKE i \in 1 .. n
    <3>1. i # 1 => i - 1 \in 1 .. n
      OBVIOUS
    <3> QED
      BY <1>5, <1>6, <3>1
  <2>2. f = [i \in 1 .. n |-> IF i = 1 THEN s[i] ELSE f[i - 1] \o s[i]]
    BY <2>1
  <2> HIDE DEF f
  <2> QED
    BY <2>2 DEF IsFlat
<1> HIDE DEF f
<1> DEFINE W == CHOOSE g : IsFlat(n, s, g)
<1>8. FlattenSeq(s) = W[n]
  <2>1. FlattenSeq(s) = LET flatten[i \in 1 .. Len(s)] ==
                              IF i = 1 THEN s[i] ELSE flatten[i - 1] \o s[i]
                        IN  flatten[Len(s)]
    <3>1. Len(s) # 0
      OBVIOUS
    <3> QED
      BY <3>1, Zenon DEF FlattenSeq
  <2> QED
    BY <2>1, Zenon DEF IsFlat
<1>9. IsFlat(n, s, W)
  BY <1>7, Zenon
<1> HIDE DEF W
<1>10. \A i \in 1 .. n : W[i] = f[i]
  <2> DEFINE Bad == {i \in 1 .. n : W[i] # f[i]}
  <2> SUFFICES ASSUME Bad # {} PROVE FALSE
    OBVIOUS
  <2>1. PICK i \in Bad : \A j \in Bad : i <= j
    <3>1. Bad \in SUBSET Nat
      OBVIOUS
    <3> HIDE DEF Bad
    <3> QED
      BY <3>1, NatLeast
  <2>2. i \in 1 .. n /\ W[i] # f[i]
    BY <2>1
  <2>3. i = 1 \/ i - 1 \in 1 .. n
    BY <2>2
  <2>4. i # 1 => W[i - 1] = f[i - 1]
    BY <2>1, <2>2, <2>3
  <2>5. W[i] = (IF i = 1 THEN s[i] ELSE W[i - 1] \o s[i])
    BY <1>9, <2>2 DEF IsFlat
  <2>6. f[i] = (IF i = 1 THEN s[i] ELSE f[i - 1] \o s[i])
    BY <1>7, <2>2 DEF IsFlat
  <2> QED
    BY <2>2, <2>4, <2>5, <2>6
<1>11. FlattenSeq(s) = f[n]
  BY <1>8, <1>10
<1> QED
  BY <1>5, <1>7, <1>11 DEF T

\* A sequence more at the end.
LEMMA FlatAppend ==
  ASSUME NEW X, NEW s \in Seq(Seq(X)), NEW q \in Seq(X)
  PROVE  /\ FlattenSeq(<<q>>) = q
         /\ s # <<>> => /\ FlattenSeq(Append(s, q)) = FlattenSeq(s) \o q
                        /\ FlattenSeq(s) \in Seq(X)
<1>1. FlattenSeq(<<q>>) = q
  <2> DEFINE one == <<q>>
  <2>1. one \in Seq(Seq(X)) /\ Len(one) = 1 /\ one[1] = q /\ 1 \in Nat \ {0}
    OBVIOUS
  <2> HIDE DEF one
  <2>2. PICK f : IsFlat(1, one, f) /\ FlattenSeq(one) = f[1]
    BY <2>1, FlatIs
  <2>3. 1 \in 1 .. 1
    OBVIOUS
  <2>4. f[1] = one[1]
    BY <2>2, <2>3 DEF IsFlat
  <2> QED
    BY <2>1, <2>2, <2>4 DEF one
<1>2. ASSUME s # <<>>
      PROVE  /\ FlattenSeq(Append(s, q)) = FlattenSeq(s) \o q
             /\ FlattenSeq(s) \in Seq(X)
  <2> DEFINE n == Len(s)
             r == Append(s, q)
  <2>1. /\ n \in Nat \ {0} /\ r \in Seq(Seq(X)) /\ Len(r) = n + 1
        /\ r[n + 1] = q /\ \A i \in 1 .. n : r[i] = s[i]
    BY <1>2, AppendIs
  <2> HIDE DEF r
  <2>2. n + 1 \in Nat \ {0} /\ n = Len(s)
    BY <2>1
  <2> HIDE DEF n
  <2>3. PICK f : f \in [1 .. n -> Seq(X)] /\ IsFlat(n, s, f) /\ FlattenSeq(s) = f[n]
    BY <2>1, <2>2, FlatIs
  <2>4. PICK g : IsFlat(n + 1, r, g) /\ FlattenSeq(r) = g[n + 1]
    BY <2>1, <2>2, FlatIs, SMTT(30)
  <2>5. \A i \in 1 .. n : f[i] = IF i = 1 THEN s[i] ELSE f[i - 1] \o s[i]
    BY <2>3 DEF IsFlat
  <2>6. \A i \in 1 .. n + 1 : g[i] = IF i = 1 THEN r[i] ELSE g[i - 1] \o r[i]
    BY <2>4 DEF IsFlat
  <2>7. \A i \in 1 .. n : g[i] = f[i]
    <3> DEFINE Bad == {i \in 1 .. n : g[i] # f[i]}
    <3> SUFFICES ASSUME Bad # {} PROVE FALSE
      OBVIOUS
    <3>1. PICK i \in Bad : \A j \in Bad : i <= j
      <4>1. Bad \in SUBSET Nat
        BY <2>1
      <4> HIDE DEF Bad
      <4> QED
        BY <4>1, NatLeast
    <3>2. i \in 1 .. n /\ g[i] # f[i] /\ i \in 1 .. n + 1 /\ r[i] = s[i]
      BY <2>1, <3>1
    <3>3. i = 1 \/ i - 1 \in 1 .. n
      BY <2>1, <3>2
    <3>4. i # 1 => g[i - 1] = f[i - 1]
      BY <2>1, <3>1, <3>2, <3>3
    <3> QED
      BY <2>5, <2>6, <3>2, <3>4
  <2>8. n \in 1 .. n /\ n + 1 \in 1 .. n + 1 /\ n + 1 # 1 /\ (n + 1) - 1 = n
    BY <2>1
  <2>9. g[n + 1] = g[n] \o q
    BY <2>1, <2>6, <2>8
  <2> QED
    BY <2>3, <2>4, <2>7, <2>8, <2>9 DEF r
<1> QED
  BY <1>1, <1>2

\* The order of a block is that of its selected parent, then the mergeset in
\* the order of the keys, then the block.
LEMMA OrderIs ==
  ASSUME NEW d, ByTheRule(d), NoBlock \notin Nodes(d), NEW b \in Nodes(d)
  PROVE  /\ OrderOf(d, b) \in Seq(Nodes(d))
         /\ b = Genesis => OrderOf(d, b) = <<b>>
         /\ b # Genesis =>
              LET s == d.node[b].sp
              IN  OrderOf(d, b) =
                    OrderOf(d, s) \o
                      Append(SortTopo(d, Rules!Merged(d, s, d.node[b].parents)), b)
<1> DEFINE N == Nodes(d)
           piece(x) == Append(mergeset_order(d, x), x)
           pieces(c) == [i \in DOMAIN c |-> piece(c[i])]
           merged(x) == SortTopo(d, Rules!Merged(d, d.node[x].sp, d.node[x].parents))
<1>1. WellFormed(d) /\ PastIsAncestry(d)
  BY RuledAncestry DEF ByTheRule
<1>2. /\ \A x \in N \ {Genesis} : mergeset_order(d, x) = merged(x) /\ merged(x) \in Seq(N)
      /\ mergeset_order(d, Genesis) = <<>>
  <2>1. ASSUME NEW x \in N \ {Genesis}
        PROVE  mergeset_order(d, x) = merged(x) /\ merged(x) \in Seq(N)
    <3> DEFINE s == d.node[x].sp
               ps == d.node[x].parents
               M == Rules!Merged(d, s, ps)
    <3>1. s \in N /\ ps \in SUBSET N
      BY <1>1, SelectedBelow, WellFormedIs
    <3>2. mergeset_order(d, x) = mergeset_ordered(d, s, ps)
      BY <3>1, Zenon DEF mergeset_order
    <3> HIDE DEF s, ps
    <3>3. mergeset_ordered(d, s, ps) = SortTopo(d, M) /\ M \in SUBSET N
      BY <1>1, <3>1, MergesetIs
    <3> HIDE DEF M
    <3>4. SortTopo(d, M) \in Seq(M)
      BY <1>1, <3>3, WellNumbered, SortTopoLists
    <3>5. SortTopo(d, M) \in Seq(N)
      BY <3>3, <3>4
    <3> QED
      BY <3>2, <3>3, <3>5 DEF M, s, ps
  <2>2. mergeset_order(d, Genesis) = <<>>
    BY SelectedBelow DEF mergeset_order
  <2> QED
    BY <2>1, <2>2
<1>3. \A x \in N : piece(x) \in Seq(N)
  <2> TAKE x \in N
  <2>1. mergeset_order(d, x) \in Seq(N)
    <3>1. <<>> \in Seq(N)
      OBVIOUS
    <3>2. x = Genesis \/ x \in N \ {Genesis}
      OBVIOUS
    <3> HIDE DEF merged
    <3> QED
      BY <1>2, <3>1, <3>2
  <2> QED
    BY <2>1, AppendIs
<1>4. \A x : OrderOf(d, x) = FlattenSeq(pieces(ChainTo(d, x)))
  BY Zenon DEF OrderOf
<1> HIDE DEF piece, merged
<1>5. \A c \in Seq(N) : pieces(c) \in Seq(Seq(N)) /\ (c # <<>> => pieces(c) # <<>>)
  <2> TAKE c \in Seq(N)
  <2>1. DOMAIN c = 1 .. Len(c) /\ Len(c) \in Nat /\ \A i \in 1 .. Len(c) : c[i] \in N
    OBVIOUS
  <2>2. pieces(c) \in [1 .. Len(c) -> Seq(N)]
    BY <1>3, <2>1
  <2>3. pieces(c) \in Seq(Seq(N)) /\ Len(pieces(c)) = Len(c)
    BY <2>1, <2>2
  <2>4. c # <<>> => Len(c) # 0
    OBVIOUS
  <2>5. Len(<<>>) = 0
    OBVIOUS
  <2> QED
    BY <2>3, <2>4, <2>5
<1>6. ASSUME b = Genesis PROVE OrderOf(d, b) = <<b>>
  <2>1. ChainTo(d, b) = <<b>>
    BY <1>6, RuleGrounded, ChainIs, SelectedBelow
  <2>2. pieces(<<b>>) = <<piece(b)>>
    OBVIOUS
  <2>3. piece(b) = <<b>>
    BY <1>2, <1>6 DEF piece
  <2>4. FlattenSeq(<<piece(b)>>) = piece(b)
    <3>1. piece(b) \in Seq(N) /\ <<>> \in Seq(Seq(N))
      BY <1>3
    <3> QED
      BY <3>1, FlatAppend
  <2> QED
    BY <1>4, <2>1, <2>2, <2>3, <2>4
<1>7. ASSUME b # Genesis
      PROVE  OrderOf(d, b) = OrderOf(d, d.node[b].sp) \o Append(merged(b), b)
  <2> DEFINE s == d.node[b].sp
             c == ChainTo(d, s)
  <2>1. s \in N
    BY <1>7, SelectedBelow
  <2>2. ChainTo(d, b) = Append(c, b) /\ c \in Seq(N) /\ c # <<>>
    BY <2>1, RuleGrounded, ChainIs
  <2> HIDE DEF c
  <2>3. pieces(Append(c, b)) = Append(pieces(c), piece(b))
    <3> DEFINE n == Len(c)
               e == Append(c, b)
               g == Append(pieces(c), piece(b))
    <3>1. /\ n \in Nat /\ e \in Seq(N) /\ Len(e) = n + 1 /\ e[n + 1] = b
          /\ \A i \in 1 .. n : e[i] = c[i]
      BY <2>2, AppendIs
    <3>2. pieces(c) \in Seq(Seq(N)) /\ Len(pieces(c)) = n
      <4>1. DOMAIN c = 1 .. n
        BY <2>2
      <4>2. pieces(c) \in Seq(Seq(N))
        BY <1>5, <2>2
      <4> QED
        BY <3>1, <4>1, <4>2
    <3>3. /\ g \in Seq(Seq(N)) /\ Len(g) = n + 1 /\ g[n + 1] = piece(b)
          /\ \A i \in 1 .. n : g[i] = pieces(c)[i]
      BY <1>3, <3>2, AppendIs
    <3>4. \A i \in 1 .. n : pieces(c)[i] = piece(c[i])
      BY <2>2
    <3>5. DOMAIN e = 1 .. n + 1 /\ DOMAIN g = 1 .. n + 1
      BY <3>1, <3>3
    <3> HIDE DEF e, g, n
    <3>6. pieces(e) \in Seq(Seq(N)) /\ DOMAIN pieces(e) = 1 .. n + 1
      BY <1>5, <3>1, <3>5
    <3>7. \A i \in 1 .. n + 1 : pieces(e)[i] = g[i]
      <4> TAKE i \in 1 .. n + 1
      <4>1. pieces(e)[i] = piece(e[i])
        BY <3>5
      <4>2. i = n + 1 \/ i \in 1 .. n
        BY <3>1
      <4> QED
        BY <3>1, <3>3, <3>4, <4>1, <4>2
    <3>8. pieces(e) = g
      BY <3>3, <3>5, <3>6, <3>7
    <3> QED
      BY <3>8 DEF e, g
  <2>4. FlattenSeq(Append(pieces(c), piece(b))) = FlattenSeq(pieces(c)) \o piece(b)
    BY <1>3, <1>5, <2>2, FlatAppend
  <2>5. piece(b) = Append(merged(b), b)
    BY <1>2, <1>7 DEF piece
  <2>6. OrderOf(d, s) = FlattenSeq(pieces(c))
    BY <1>4 DEF c
  <2>7. OrderOf(d, b) = FlattenSeq(pieces(Append(c, b)))
    BY <1>4, <2>2
  <2> QED
    BY <2>3, <2>4, <2>5, <2>6, <2>7
<1>8. OrderOf(d, b) \in Seq(N)
  <2> DEFINE c == ChainTo(d, b)
             q == pieces(c)
  <2>1. c \in Seq(N) /\ c # <<>>
    BY RuleGrounded, ChainIs
  <2>2. q \in Seq(Seq(N)) /\ q # <<>>
    BY <1>5, <2>1
  <2>3. OrderOf(d, b) = FlattenSeq(q)
    BY <1>4
  <2> HIDE DEF q
  <2>4. <<>> \in Seq(N)
    OBVIOUS
  <2>5. FlattenSeq(q) \in Seq(N)
    BY <2>2, <2>4, FlatAppend
  <2> QED
    BY <2>3, <2>5
<1> QED
  BY <1>6, <1>7, <1>8 DEF merged

\* Of three pieces in a row it does not matter which two are joined first.
LEMMA ConcatAppend ==
  ASSUME NEW X, NEW o \in Seq(X), NEW q \in Seq(X), NEW b \in X
  PROVE  o \o Append(q, b) = Append(o \o q, b)
OBVIOUS

(***************************************************************************)
(* The order of a block lists its past and the block.                      *)
(***************************************************************************)
LEMMA OrderLists ==
  ASSUME NEW d, ByTheRule(d), NoBlock \notin Nodes(d), NEW b \in Nodes(d)
  PROVE  Lists(d, OrderOf(d, b), d.node[b].past \cup {b})
<1> DEFINE N == Nodes(d)
           Fine(x) == Lists(d, OrderOf(d, x), d.node[x].past \cup {x})
           Bad == {x \in N : ~Fine(x)}
<1>0. WellFormed(d) /\ PastIsAncestry(d)
  BY RuledAncestry DEF ByTheRule
<1> SUFFICES ASSUME Bad # {} PROVE FALSE
  OBVIOUS
<1>1. PICK x \in Bad : \A y \in Bad : y \notin d.node[x].past
  <2>1. Bad \in SUBSET Nodes(d)
    OBVIOUS
  <2> HIDE DEF Bad
  <2> QED
    BY <1>0, <2>1, SameNodes, HasOldest
<1>2. x \in N /\ ~Fine(x) /\ \A y \in d.node[x].past \cap N : Fine(y)
  BY <1>1
<1> HIDE DEF Bad
<1>3. Lists(d, <<>>, {})
  BY FS_EmptySet DEF Lists, ToSet
<1>4. CASE x = Genesis
  <2>1. OrderOf(d, x) = <<x>> /\ d.node[x].past = {} /\ d.node[x].parents = {}
    BY <1>2, <1>4, OrderIs, SelectedBelow
  <2>2. Lists(d, Append(<<>>, x), {} \cup {x})
    BY <1>0, <1>2, <1>3, <2>1, ListsAppend
  <2>3. Append(<<>>, x) = <<x>>
    OBVIOUS
  <2>4. d.node[x].past \cup {x} = {} \cup {x}
    BY <2>1
  <2> QED
    BY <1>2, <2>1, <2>2, <2>3, <2>4
<1>5. CASE x # Genesis
  <2> DEFINE s == d.node[x].sp
             ps == d.node[x].parents
             P == d.node[x].past
             S == d.node[s].past \cup {s}
             M == Rules!Merged(d, s, ps)
             o == OrderOf(d, s)
             q == SortTopo(d, M)
  <2>1. s \in N /\ s \in P /\ s \in ps /\ ps \subseteq N
    BY <1>0, <1>2, <1>5, SelectedBelow, WellFormedIs
  <2>2. /\ P \subseteq N \ {x} /\ (\A y \in P : d.node[y].past \subseteq P)
        /\ d.node[s].past \subseteq N \ {s}
    BY <1>0, <1>2, <2>1, WellFormedIs
  <2>3. P = Rules!Ancestors(d, ps)
    BY <1>0, <1>2 DEF PastIsAncestry
  <2>4. M = P \ S
    BY <2>3 DEF Rules!Merged
  <2>5. S \subseteq P /\ M \in SUBSET (N \ S) /\ S \cup M = P
    BY <2>1, <2>2, <2>4
  <2>6. Fine(s)
    BY <1>2, <2>1
  <2>7. \A y \in M : d.node[y].parents \subseteq S \cup M
    <3> TAKE y \in M
    <3>1. y \in P /\ y \in N
      BY <2>2, <2>4
    <3>2. d.node[y].parents \subseteq d.node[y].past
      BY <3>1, ParentsBefore
    <3>3. d.node[y].past \subseteq P
      BY <2>2, <3>1
    <3> QED
      BY <2>5, <3>2, <3>3
  <2>8. Lists(d, o \o q, S \cup M)
    <3>1. Lists(d, o, S)
      BY <2>6
    <3> HIDE DEF o, S, M
    <3> QED
      BY <2>5, <2>7, <3>1, ListsSorted
  <2>9. Lists(d, Append(o \o q, x), P \cup {x})
    <3>1. x \in N \ P /\ ps \subseteq P
      <4>1. ps \subseteq P
        BY <1>2, ParentsBefore
      <4> QED
        BY <1>2, <2>2, <4>1
    <3>2. Lists(d, o \o q, P)
      BY <2>5, <2>8
    <3> HIDE DEF o, q, P
    <3> QED
      BY <1>0, <3>1, <3>2, ListsAppend
  <2>10. OrderOf(d, x) = o \o Append(q, x)
    BY <1>2, <1>5, OrderIs
  <2>11. o \o Append(q, x) = Append(o \o q, x)
    <3>1. o \in Seq(N)
      BY <2>1, OrderIs
    <3>2. q \in Seq(N)
      <4>1. M \in SUBSET N
        BY <2>5
      <4> HIDE DEF M
      <4>2. q \in Seq(M)
        BY <1>0, <4>1, WellNumbered, SortTopoLists
      <4> QED
        BY <4>1, <4>2
    <3> HIDE DEF o, q
    <3> QED
      BY <1>2, <3>1, <3>2, ConcatAppend
  <2> QED
    BY <1>2, <2>9, <2>10, <2>11
<1> QED
  BY <1>4, <1>5

\* Genesis is at the bottom of every past.
LEMMA GenesisBelow ==
  ASSUME NEW d, ByTheRule(d), NoBlock \notin Nodes(d), NEW b \in Nodes(d)
  PROVE  Genesis \in d.node[b].past \cup {b}
<1> DEFINE Bad == {x \in Nodes(d) : Genesis \notin d.node[x].past \cup {x}}
<1>0. WellFormed(d)
  BY DEF ByTheRule
<1> SUFFICES ASSUME Bad # {} PROVE FALSE
  OBVIOUS
<1>1. PICK x \in Bad : \A y \in Bad : y \notin d.node[x].past
  <2>1. Bad \in SUBSET Nodes(d)
    OBVIOUS
  <2> HIDE DEF Bad
  <2> QED
    BY <1>0, <2>1, SameNodes, HasOldest
<1>2. x \in Nodes(d) /\ x # Genesis /\ Genesis \notin d.node[x].past
  BY <1>1
<1>3. /\ d.node[x].sp \in Nodes(d) /\ d.node[x].sp \in d.node[x].past
      /\ d.node[d.node[x].sp].past \subseteq d.node[x].past
  BY <1>0, <1>2, SelectedBelow, WellFormedIs
<1>4. Genesis \in d.node[d.node[x].sp].past \cup {d.node[x].sp}
  BY <1>1, <1>3
<1> QED
  BY <1>2, <1>3, <1>4

\* The last block by the key has no children: there is a selected tip.
LEMMA TipIs ==
  ASSUME NEW d, Sound(d)
  PROVE  selected_tip(d) \in Nodes(d)
<1>1. ByTheRule(d) /\ WellFormed(d) /\ d.tips = Childless(d) /\ Genesis \in Nodes(d)
  BY GenesisFields DEF Sound, ByTheRule
<1>2. PICK c \in Nodes(d) : \A y \in Nodes(d) \ {c} : TopoKeyLess(d, y, c)
  BY <1>1, HasLast
<1>3. c \in Childless(d)
  <2> SUFFICES ASSUME NEW y \in Nodes(d), c \in d.node[y].parents PROVE FALSE
    BY DEF Childless
  <2>1. TopoKeyLess(d, c, y)
    BY <1>1, ParentsBefore
  <2>2. y # c /\ ~TopoKeyLess(d, y, c)
    BY <1>1, <2>1, WellNumbered, TopoOrder
  <2> QED
    BY <1>2, <2>2
<1>4. Childless(d) \in SUBSET Nodes(d) /\ Childless(d) # {}
  BY <1>3 DEF Childless
<1>5. Rules!IsHeaviest(d, Heaviest(d, d.tips), d.tips)
  BY <1>1, <1>4, WellNumbered, HeaviestIs
<1> QED
  BY <1>1, <1>4, <1>5 DEF selected_tip, Rules!IsHeaviest

\* linearize is the order of the selected tip and the other blocks by key.
LEMMA LinearizeIs ==
  ASSUME NEW d, Sound(d), NoBlock \notin Nodes(d)
  PROVE  LET t == selected_tip(d)
         IN  linearize(d) = OrderOf(d, t) \o
                              SortTopo(d, Nodes(d) \ (d.node[t].past \cup {t}))
<1> DEFINE t == selected_tip(d)
           o == OrderOf(d, t)
           rest == Nodes(d) \ ToSet(o)
<1>1. ByTheRule(d) /\ t \in Nodes(d)
  BY TipIs DEF Sound
<1>2. linearize(d) = IF Genesis \in rest
                     THEN <<Genesis>> \o o \o SortTopo(d, rest \ {Genesis})
                     ELSE o \o SortTopo(d, rest)
  BY Zenon DEF linearize, selected_chain, OrderOf
<1>3. Lists(d, o, d.node[t].past \cup {t})
  BY <1>1, OrderLists
<1>4. ToSet(o) = d.node[t].past \cup {t}
  BY <1>3 DEF Lists
<1>5. Genesis \notin rest
  BY <1>1, <1>4, GenesisBelow
<1> QED
  BY <1>2, <1>4, <1>5

(***************************************************************************)
(* linearize lists all blocks.                                             *)
(***************************************************************************)
LEMMA LinearizeLists ==
  ASSUME NEW d, Sound(d), NoBlock \notin Nodes(d)
  PROVE  Lists(d, linearize(d), Nodes(d))
<1> DEFINE t == selected_tip(d)
           o == OrderOf(d, t)
           S == d.node[t].past \cup {t}
           T == Nodes(d) \ S
<1>1. ByTheRule(d) /\ t \in Nodes(d)
  BY TipIs DEF Sound
<1>2. Lists(d, o, S)
  BY <1>1, OrderLists
<1>3. S \cup T = Nodes(d)
  BY <1>2 DEF Lists
<1>4. \A x \in T : d.node[x].parents \subseteq S \cup T
  BY <1>1, <1>3, ParentsBefore
<1>5. linearize(d) = o \o SortTopo(d, T)
  BY LinearizeIs
<1>6. T \in SUBSET (Nodes(d) \ S)
  OBVIOUS
<1> HIDE DEF o, S, T
<1>7. Lists(d, o \o SortTopo(d, T), S \cup T)
  BY <1>1, <1>2, <1>4, <1>6, ListsSorted
<1> QED
  BY <1>3, <1>5, <1>7

\* An insertion leaves the order of every earlier block as it was.
LEMMA SameOrders ==
  ASSUME NEW d, NEW e, ByTheRule(d), ByTheRule(e), NoBlock \notin Nodes(e),
         Nodes(d) \subseteq Nodes(e), \A b \in Nodes(d) : e.node[b] = d.node[b],
         NEW x \in Nodes(d)
  PROVE  OrderOf(e, x) = OrderOf(d, x)
<1> DEFINE Bad == {y \in Nodes(d) : OrderOf(e, y) # OrderOf(d, y)}
<1>0. WellFormed(d) /\ PastIsAncestry(d) /\ NoBlock \notin Nodes(d)
  BY RuledAncestry DEF ByTheRule
<1> SUFFICES ASSUME Bad # {} PROVE FALSE
  OBVIOUS
<1>1. PICK b \in Bad : \A y \in Bad : y \notin d.node[b].past
  <2>1. Bad \in SUBSET Nodes(d)
    OBVIOUS
  <2> HIDE DEF Bad
  <2> QED
    BY <1>0, <2>1, SameNodes, HasOldest
<1>2. /\ b \in Nodes(d) /\ b \in Nodes(e) /\ OrderOf(e, b) # OrderOf(d, b)
      /\ \A y \in d.node[b].past \cap Nodes(d) : OrderOf(e, y) = OrderOf(d, y)
  BY <1>1
<1>3. b # Genesis
  BY <1>0, <1>2, OrderIs
<1> DEFINE s == d.node[b].sp
           ps == d.node[b].parents
           M == Rules!Merged(d, s, ps)
<1>4. s \in Nodes(d) /\ s \in d.node[b].past /\ ps \in SUBSET Nodes(d)
  BY <1>0, <1>2, <1>3, SelectedBelow, WellFormedIs
<1>5. e.node[b] = d.node[b]
  BY <1>2
<1> HIDE DEF Bad
<1>6. OrderOf(d, b) = OrderOf(d, s) \o Append(SortTopo(d, M), b)
  BY <1>0, <1>2, <1>3, OrderIs
<1>7. OrderOf(e, b) = OrderOf(e, s) \o Append(SortTopo(e, Rules!Merged(e, s, ps)), b)
  BY <1>2, <1>3, <1>5, OrderIs
<1>8. OrderOf(e, s) = OrderOf(d, s)
  BY <1>2, <1>4
<1>9. Rules!Merged(e, s, ps) = M
  <2>1. /\ e.node[s].past = d.node[s].past
        /\ \A p \in ps : e.node[p].past = d.node[p].past
    BY <1>4
  <2>2. Rules!Ancestors(e, ps) = Rules!Ancestors(d, ps)
    <3>1. {e.node[p].past : p \in ps} = {d.node[p].past : p \in ps}
      BY <2>1
    <3> QED
      BY <3>1 DEF Rules!Ancestors
  <2> QED
    BY <2>1, <2>2 DEF Rules!Merged
<1>10. M \in SUBSET Nodes(d)
  BY <1>0, <1>4, MergesetIs
<1> HIDE DEF M
<1>11. SortTopo(e, M) = SortTopo(d, M)
  <2>1. \A y \in M : {a \in M : TopoKeyLess(e, a, y)} = {a \in M : TopoKeyLess(d, a, y)}
    <3> TAKE y \in M
    <3>1. \A a \in M : TopoKeyLess(e, a, y) <=> TopoKeyLess(d, a, y)
      <4> TAKE a \in M
      <4>1. e.node[a] = d.node[a] /\ e.node[y] = d.node[y]
        BY <1>10
      <4> QED
        BY <4>1, Zenon DEF TopoKeyLess
    <3> QED
      BY <3>1
  <2> DEFINE in(i, y) == Cardinality({a \in M : TopoKeyLess(e, a, y)}) = i - 1
             jn(i, y) == Cardinality({a \in M : TopoKeyLess(d, a, y)}) = i - 1
  <2>2. \A i \in 1 .. Cardinality(M) : \A y \in M : in(i, y) <=> jn(i, y)
    BY <2>1
  <2> HIDE DEF in, jn
  <2>3. \A i \in 1 .. Cardinality(M) : (CHOOSE y \in M : in(i, y)) = (CHOOSE y \in M : jn(i, y))
    BY <2>2
  <2>4. [i \in 1 .. Cardinality(M) |-> CHOOSE y \in M : in(i, y)] =
        [i \in 1 .. Cardinality(M) |-> CHOOSE y \in M : jn(i, y)]
    BY <2>3
  <2> QED
    BY <2>4, Zenon DEF SortTopo, in, jn
<1> QED
  BY <1>2, <1>6, <1>7, <1>8, <1>9, <1>11

-----------------------------------------------------------------------------
(***************************************************************************)
(* The selected tip and mergesets.                                         *)
(***************************************************************************)
\* The selected parent of a block has a lower score, and a lighter key.
LEMMA SelectedIsLess ==
  ASSUME K \in Nat, NEW d, ByTheRule(d), NoBlock \notin Nodes(d), NEW b \in Nodes(d),
         d.node[b].sp \in Nodes(d)
  PROVE  /\ d.node[d.node[b].sp].blue_score < d.node[b].blue_score
         /\ ChainKeyLess(d, d.node[b].sp, b)
         /\ Rules!IsHeaviest(d, d.node[b].sp, d.node[b].parents)
<1> DEFINE s == d.node[b].sp
           seed == Rules!Inherited(d, s)
           B == d.node[b].blues \ seed
<1>1. WellFormed(d) /\ K \in Nat /\ b # Genesis /\ s \in Nodes(d)
  BY SelectedBelow DEF ByTheRule
<1>2. /\ BlueOf(d, b) = seed \cup B
      /\ d.node[b].blue_score = Cardinality(BlueOf(d, b))
      /\ d.node[b].blue_work = Rules!WorkOf(d, BlueOf(d, b))
      /\ Rules!IsColouring(d, d.node[b].parents, s, d.node[b].blues)
  BY <1>1, RecordFields DEF BlueOf
<1>3. /\ Cardinality(seed) = d.node[s].blue_score + 1
      /\ Rules!WorkOf(d, seed) = d.node[s].blue_work + d.node[s].work
      /\ seed \in SUBSET Nodes(d)
  BY <1>1, InheritedIs
<1>4. /\ d.node[s].blue_score \in Nat /\ d.node[s].blue_work \in Nat /\ d.node[s].work \in Nat
      /\ IsFiniteSet(Nodes(d)) /\ d.node[b].parents \subseteq Nodes(d)
      /\ \A x \in Nodes(d) : d.node[x].past \subseteq Nodes(d)
  BY <1>1, WellFormedIs
<1>5. B \in SUBSET Nodes(d) /\ seed \cap B = {} /\ seed \cup B \in SUBSET Nodes(d)
  <2>1. d.node[b].blues \subseteq Rules!Merged(d, s, d.node[b].parents)
    BY <1>2 DEF Rules!IsColouring
  <2>2. Rules!Merged(d, s, d.node[b].parents) \subseteq Nodes(d)
    BY <1>4 DEF Rules!Merged, Rules!Ancestors
  <2> HIDE DEF seed
  <2> QED
    BY <1>3, <2>1, <2>2
<1> HIDE DEF s, seed, B
<1>6. Cardinality(seed) <= Cardinality(seed \cup B) /\ Cardinality(seed \cup B) \in Nat
      /\ Cardinality(seed) \in Nat
  <2>1. IsFiniteSet(seed \cup B) /\ IsFiniteSet(seed) /\ seed \subseteq seed \cup B
    BY <1>3, <1>4, <1>5, FS_Subset
  <2> QED
    BY <2>1, FS_Subset, FS_CardinalityType
<1>7. d.node[s].blue_score < d.node[b].blue_score
  BY <1>2, <1>3, <1>4, <1>6
<1>8. d.node[s].blue_work <= d.node[b].blue_work /\ d.node[b].blue_work \in Nat
  <2>1. Rules!WorkOf(d, seed \cup B) = Rules!WorkOf(d, seed) + SumOfWorks(d, B)
    BY <1>1, <1>3, <1>5, WorkSums
  <2>2. SumOfWorks(d, B) \in Nat
    BY <1>1, <1>5, WellNumbered, SumTyped
  <2> QED
    BY <1>2, <1>3, <1>4, <2>1, <2>2
<1>9. ChainKeyLess(d, s, b)
  BY <1>4, <1>7, <1>8 DEF ChainKeyLess
<1>10. Rules!IsHeaviest(d, s, d.node[b].parents)
  BY <1>2 DEF Rules!IsColouring
<1> QED
  BY <1>7, <1>9, <1>10 DEF s

\* The selected tip is a tip, and the heaviest.
LEMMA TipIsHeaviest ==
  ASSUME NEW d, Sound(d)
  PROVE  /\ selected_tip(d) \in Nodes(d) /\ selected_tip(d) \in d.tips
         /\ d.tips \in SUBSET Nodes(d)
         /\ \A c \in d.tips \ {selected_tip(d)} : ChainKeyLess(d, c, selected_tip(d))
<1>1. ByTheRule(d) /\ WellFormed(d) /\ d.tips = Childless(d) /\ Genesis \in Nodes(d)
  BY GenesisFields DEF Sound, ByTheRule
<1>2. PICK c \in Nodes(d) : \A y \in Nodes(d) \ {c} : TopoKeyLess(d, y, c)
  BY <1>1, HasLast
<1>3. c \in Childless(d)
  <2> SUFFICES ASSUME NEW y \in Nodes(d), c \in d.node[y].parents PROVE FALSE
    BY DEF Childless
  <2>1. TopoKeyLess(d, c, y)
    BY <1>1, ParentsBefore
  <2>2. y # c /\ ~TopoKeyLess(d, y, c)
    BY <1>1, <2>1, WellNumbered, TopoOrder
  <2> QED
    BY <1>2, <2>2
<1>4. Childless(d) \in SUBSET Nodes(d) /\ Childless(d) # {}
  BY <1>3 DEF Childless
<1>5. Rules!IsHeaviest(d, Heaviest(d, d.tips), d.tips)
  BY <1>1, <1>4, WellNumbered, HeaviestIs
<1> QED
  BY <1>1, <1>4, <1>5, SameChain DEF selected_tip, Rules!IsHeaviest

\* A block more becomes the selected tip, or leaves it as it is.
LEMMA TipMoves ==
  ASSUME K \in Nat, NEW d, Sound(d), NEW e, NEW id, NEW ps \in SUBSET Nodes(d), ps # {}, NEW w,
         Grown(d, e, id, ps, w), e.tips = (d.tips \ ps) \cup {id},
         id \notin Nodes(d), NoBlock \notin Nodes(e), e.node[id].sp \in Nodes(d)
  PROVE  selected_tip(e) \in {id, selected_tip(d)}
<1> DEFINE t == selected_tip(d)
           u == selected_tip(e)
           s == e.node[id].sp
<1>1. /\ Sound(e) /\ ByTheRule(e) /\ Nodes(e) = Nodes(d) \cup {id} /\ e.node[id].parents = ps
      /\ \A b \in Nodes(d) : e.node[b] = d.node[b]
  BY DEF Grown, Sound
<1>2. /\ t \in d.tips /\ d.tips \in SUBSET Nodes(d)
      /\ \A c \in d.tips \ {t} : ChainKeyLess(d, c, t)
  BY TipIsHeaviest
<1>3. /\ u \in e.tips /\ \A c \in e.tips \ {u} : ChainKeyLess(e, c, u)
  BY <1>1, TipIsHeaviest
<1>4. \A a, b \in Nodes(d) : ChainKeyLess(d, a, b) <=> ChainKeyLess(e, a, b)
  BY <1>1 DEF ChainKeyLess
<1>5. /\ \A a \in Nodes(e) : ~ChainKeyLess(e, a, a)
      /\ \A a, b, c \in Nodes(e) :
           ChainKeyLess(e, a, b) /\ ChainKeyLess(e, b, c) => ChainKeyLess(e, a, c)
  BY <1>1, WellNumbered, ChainOrder DEF ByTheRule
<1>6. ChainKeyLess(e, s, id) /\ Rules!IsHeaviest(e, s, ps) /\ s \in Nodes(e) /\ s \in ps
  <2>1. id \in Nodes(e) /\ s \in Nodes(e)
    BY <1>1
  <2>2. ChainKeyLess(e, s, id) /\ Rules!IsHeaviest(e, s, ps)
    BY <1>1, <2>1, SelectedIsLess
  <2> QED
    BY <2>1, <2>2 DEF Rules!IsHeaviest
<1> HIDE DEF t, u, s
<1>7. SUFFICES ASSUME u # id, u # t PROVE FALSE
  BY DEF t, u
<1>8. u \in d.tips /\ ChainKeyLess(e, u, t) /\ u \in Nodes(e) /\ t \in Nodes(e)
  BY <1>1, <1>2, <1>3, <1>4, <1>7
<1>9. CASE t \in ps
  <2>1. t = s \/ ChainKeyLess(e, t, s)
    BY <1>6, <1>9, SameChain DEF Rules!IsHeaviest
  <2>2. ChainKeyLess(e, t, id)
    BY <1>1, <1>5, <1>6, <1>8, <2>1
  <2>3. ChainKeyLess(e, id, u)
    BY <1>3, <1>7
  <2> QED
    BY <1>1, <1>5, <1>8, <2>2, <2>3
<1>10. CASE t \notin ps
  <2>1. ChainKeyLess(e, t, u)
    BY <1>2, <1>3, <1>7, <1>10
  <2> QED
    BY <1>5, <1>8, <2>1
<1> QED
  BY <1>9, <1>10

\* The mergeset, in its order: blocks outside the past of s, each once.
LEMMA MergesetOrdered ==
  ASSUME NEW d, ByTheRule(d), NEW s \in Nodes(d), NEW ps \in SUBSET Nodes(d)
  PROVE  LET q == mergeset_ordered(d, s, ps)
         IN  /\ q \in Seq(Nodes(d)) /\ DOMAIN q = 1 .. Len(q) /\ Len(q) \in Nat
             /\ \A i, j \in DOMAIN q : q[i] = q[j] => i = j
             /\ \A i \in DOMAIN q : q[i] \notin d.node[s].past \cup {s}
             /\ ToSet(q) \subseteq Nodes(d) \ (d.node[s].past \cup {s})
<1> DEFINE M == Rules!Merged(d, s, ps)
           q == SortTopo(d, M)
           n == Cardinality(M)
<1>1. mergeset_ordered(d, s, ps) = q /\ M \in SUBSET Nodes(d) /\ Numbered(d)
  BY RuledAncestry, MergesetIs, WellNumbered DEF ByTheRule
<1>2. M \cap (d.node[s].past \cup {s}) = {}
  BY DEF Rules!Merged
<1> HIDE DEF M
<1>3. /\ n \in Nat /\ q \in Seq(M) /\ Len(q) = n /\ ToSet(q) = M
      /\ \A i, j \in 1 .. n : TopoKeyLess(d, q[i], q[j]) <=> i < j
  BY <1>1, SortTopoLists
<1> HIDE DEF q, n
<1>4. DOMAIN q = 1 .. n /\ q \in Seq(Nodes(d)) /\ \A i \in 1 .. n : q[i] \in M
  BY <1>1, <1>3
<1>5. ASSUME NEW i \in 1 .. n, NEW j \in 1 .. n, q[i] = q[j] PROVE i = j
  <2>1. ~TopoKeyLess(d, q[i], q[j]) /\ ~TopoKeyLess(d, q[j], q[i])
    BY <1>1, <1>4, <1>5, TopoOrder
  <2>2. ~(i < j) /\ ~(j < i)
    BY <1>3, <2>1
  <2> QED
    BY <1>3, <2>2
<1> QED
  BY <1>1, <1>2, <1>3, <1>4, <1>5

=============================================================================
