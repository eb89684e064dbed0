--------------------------- MODULE GhostDagProofs ---------------------------
(***************************************************************************)
(* Proofs about GhostDag, for every set of ids, every k and all works: the *)
(* inductive invariant IInv, and from it the type invariant and the safety *)
(* properties of GhostDag.tla.                                             *)
(*                                                                         *)
(* The argument.  PastOrder says the oracle's answers form a strict        *)
(* partial order generated by the parent edges; MergesetIsPast derives     *)
(* from it that the walk of mergeset_ordered finds exactly the new block's *)
(* past outside the selected parent's.  InsInv is the loop invariant of    *)
(* the colouring: the map being built counts anticones exactly and stays   *)
(* within K, and the blocks already coloured red can never fit again.      *)
(* CommitInsert then turns the loop invariant into the DAG's invariant.    *)
(***************************************************************************)
EXTENDS GhostDagRefinement, FiniteSetTheorems, TLAPS

\* The oracle's answers are a strict partial order generated by the parents.
PastOrder ==
  /\ \A b \in nodes : b \notin past[b]
  /\ \A b \in nodes : \A x \in past[b] : past[x] \subseteq past[b]
  /\ \A b \in nodes : \A x \in past[b] :
        \E c \in past[b] \cup {b} : x \in parents[c]
  /\ OracleExact

ColourInv ==
  /\ \A b \in nodes : BlueSet(b) \subseteq past[b]
  /\ AnticoneSizesExact
  /\ KCluster
  /\ RedsJustified
  /\ BlueScoreExact
  /\ PastSizeExact

\* The loop invariant of the colouring.
InsInv ==
  ins # Idle =>
    /\ IsHeaviest(ins.sp, ins.parents)
    /\ ins.todo \cup ins.blues \cup ins.reds = MergesetOf(ins.sp, ins.parents)
    /\ ins.todo \cap ins.blues = {}
    /\ ins.todo \cap ins.reds = {}
    /\ ins.blues \cap ins.reds = {}
    /\ DOMAIN ins.sizes = BlueSet(ins.sp) \cup {ins.sp} \cup ins.blues
    /\ \A x \in DOMAIN ins.sizes :
          /\ ins.sizes[x] = Cardinality(BlueAnticoneIn(x, DOMAIN ins.sizes))
          /\ ins.sizes[x] <= K
    /\ \A r \in ins.reds : ~IsKCluster(DOMAIN ins.sizes \cup {r})
    /\ ins.blue_work >= blue_work[ins.sp]

IInv == TypeOK /\ PastOrder /\ ColourInv /\ WeightInv /\ InsInv

-----------------------------------------------------------------------------
(***************************************************************************)
(* Sets of blocks are finite, so their cardinalities are natural numbers.  *)
(***************************************************************************)
LEMMA NodesFinite ==
  ASSUME TypeOK, NEW S \in SUBSET nodes
  PROVE  IsFiniteSet(S) /\ Cardinality(S) \in Nat
<1>1. IsFiniteSet(nodes)
  BY IdAssumption, FS_Subset DEF TypeOK
<1>2. IsFiniteSet(S)
  BY <1>1, FS_Subset
<1>3. QED
  BY <1>2, FS_CardinalityType

(***************************************************************************)
(* in_anticone is symmetric.                                               *)
(***************************************************************************)
LEMMA AnticoneSymmetric ==
  \A a, b : in_anticone(a, b) <=> in_anticone(b, a)
BY DEF in_anticone, is_ancestor

(***************************************************************************)
(* chain_key is a strict total order on blocks.                            *)
(***************************************************************************)
LEMMA ChainKeyTransitive ==
  ASSUME TypeOK, NEW a \in nodes, NEW b \in nodes, NEW c \in nodes,
         ChainKeyLess(a, b), ChainKeyLess(b, c)
  PROVE  ChainKeyLess(a, c)
<1>1. /\ blue_work[a] \in Nat /\ blue_work[b] \in Nat /\ blue_work[c] \in Nat
      /\ blue_score[a] \in Nat /\ blue_score[b] \in Nat /\ blue_score[c] \in Nat
      /\ a \in Nat /\ b \in Nat /\ c \in Nat
  BY IdAssumption DEF TypeOK
<1>2. QED
  BY <1>1 DEF ChainKeyLess

\* Chain keys of different blocks differ: chain_key ends in the block id.
LEMMA ChainKeyTotal ==
  ASSUME TypeOK, NEW a \in nodes, NEW b \in nodes, a # b
  PROVE  ChainKeyLess(a, b) \/ ChainKeyLess(b, a)
<1>1. /\ blue_work[a] \in Nat /\ blue_work[b] \in Nat
      /\ blue_score[a] \in Nat /\ blue_score[b] \in Nat
      /\ a \in Nat /\ b \in Nat
  BY IdAssumption DEF TypeOK
<1>2. QED
  BY <1>1 DEF ChainKeyLess

(***************************************************************************)
(* A non-empty set of blocks has a member that no other member builds on.  *)
(* The blocks built on x form a set that shrinks strictly from x to any    *)
(* descendant of x, so a member with a minimal such set is the one.        *)
(***************************************************************************)
LEMMA HasLastBlock ==
  ASSUME TypeOK, PastOrder, NEW T \in SUBSET nodes, T # {}
  PROVE  \E x \in T : \A y \in T : x \notin past[y]
<1> DEFINE Future(x) == {y \in nodes : x \in past[y]}
           Futures   == {Future(x) : x \in T}
           R         == StrictSubsetOrdering(nodes)
<1>1. IsWellFoundedOn(R, SUBSET nodes)
  BY NodesFinite, FS_FiniteSubsetsOfFinite, FS_StrictSubsetOrderingWellFounded
<1>2. Futures \subseteq SUBSET nodes /\ Futures # {}
  OBVIOUS
<1>3. PICK F \in Futures : \A G \in Futures : <<G, F>> \notin R
  <2> HIDE DEF R, Futures
  <2>1. QED
    BY <1>1, <1>2, WFMin
<1>4. PICK x \in T : F = Future(x)
  BY <1>3
<1>5. ASSUME NEW y \in T, x \in past[y]
      PROVE  FALSE
  <2>1. Future(y) \subseteq Future(x)
    BY <1>5 DEF PastOrder
  <2>2. y \in Future(x) /\ y \notin Future(y)
    BY <1>5 DEF PastOrder
  <2>3. <<Future(y), Future(x)>> \in R
    BY <2>1, <2>2 DEF StrictSubsetOrdering
  <2>4. QED
    BY <2>3, <1>3, <1>4
<1>6. QED
  BY <1>5

(***************************************************************************)
(* The walk of mergeset_ordered finds exactly the blocks of the new        *)
(* block's past that are not in the selected parent's past.                *)
(***************************************************************************)
LEMMA MergesetIsPast ==
  ASSUME TypeOK, PastOrder, NEW ps \in SUBSET nodes, NEW s \in ps
  PROVE  MergesetOf(s, ps) =
           (UNION {past[p] \cup {p} : p \in ps}) \ (past[s] \cup {s})
<1> DEFINE New == UNION {past[p] \cup {p} : p \in ps}
           P   == New \ (past[s] \cup {s})
           V   == Visitable(s)
<1>1. P \subseteq V
  BY DEF Visitable, TypeOK
<1>2. WalkClosed(P, s, ps)
  <2>1. ps \cap V \subseteq P
    BY DEF Visitable
  <2>2. ASSUME NEW x \in P, NEW y \in parents[x] \cap V
        PROVE  y \in P
    <3>1. x \in nodes /\ y \in past[x]
      BY <1>1, <2>2 DEF PastOrder, OracleExact, Visitable
    <3>2. PICK p \in ps : x \in past[p] \cup {p}
      OBVIOUS
    <3>3. y \in past[p]
      BY <3>1, <3>2 DEF PastOrder
    <3>4. QED
      BY <3>3, <2>2 DEF Visitable
  <2>3. QED
    BY <2>1, <2>2 DEF WalkClosed
<1>3. MergesetOf(s, ps) \subseteq P
  BY <1>1, <1>2 DEF MergesetOf
<1>4. ASSUME NEW S \in SUBSET V, WalkClosed(S, s, ps)
      PROVE  P \subseteq S
  <2> SUFFICES ASSUME P \ S # {} PROVE FALSE
    OBVIOUS
  <2>1. PICK x \in P \ S : \A y \in P \ S : x \notin past[y]
    <3>1. P \ S \in SUBSET nodes
      BY <1>1 DEF Visitable
    <3> HIDE DEF P
    <3>2. QED
      BY <3>1, HasLastBlock
  <2>2. x \in V
    BY <1>1
  <2>3. x \notin ps
    BY <2>2, <1>4 DEF WalkClosed
  <2>4. PICK p \in ps : x \in past[p]
    BY <2>3
  <2>5. PICK c \in past[p] \cup {p} : x \in parents[c]
    BY <2>4 DEF PastOrder
  <2>6. c \in nodes /\ x \in past[c]
    BY <2>5 DEF PastOrder, OracleExact, TypeOK
  <2>7. c \notin past[s] \cup {s}
    BY <2>2, <2>6 DEF PastOrder, Visitable
  <2>8. c \in P
    BY <2>5, <2>7
  <2>9. c \in S
    BY <2>1, <2>6, <2>8
  <2>10. QED
    BY <2>9, <2>5, <2>2, <2>1, <1>4 DEF WalkClosed
<1>5. P \subseteq MergesetOf(s, ps)
  BY <1>1, <1>4 DEF MergesetOf
<1>6. QED
  BY <1>3, <1>5

-----------------------------------------------------------------------------
(***************************************************************************)
(* What one more block c does to the anticone counts over a set A.         *)
(***************************************************************************)
LEMMA AnticoneCount ==
  ASSUME TypeOK, NEW A \in SUBSET nodes, NEW c \in nodes \ A
  PROVE  /\ BlueAnticoneIn(c, A \cup {c}) = {b \in A : in_anticone(b, c)}
         /\ \A x \in A :
              Cardinality(BlueAnticoneIn(x, A \cup {c})) =
                IF in_anticone(x, c) THEN Cardinality(BlueAnticoneIn(x, A)) + 1
                                     ELSE Cardinality(BlueAnticoneIn(x, A))
<1>1. BlueAnticoneIn(c, A \cup {c}) = {b \in A : in_anticone(b, c)}
  BY AnticoneSymmetric DEF BlueAnticoneIn, in_anticone
<1>2. ASSUME NEW x \in A, in_anticone(x, c)
      PROVE  Cardinality(BlueAnticoneIn(x, A \cup {c})) =
               Cardinality(BlueAnticoneIn(x, A)) + 1
  <2>1. /\ BlueAnticoneIn(x, A \cup {c}) = BlueAnticoneIn(x, A) \cup {c}
        /\ c \notin BlueAnticoneIn(x, A)
        /\ BlueAnticoneIn(x, A) \in SUBSET nodes
    BY <1>2 DEF BlueAnticoneIn
  <2>2. QED
    BY <2>1, NodesFinite, FS_AddElement
<1>3. ASSUME NEW x \in A, ~in_anticone(x, c)
      PROVE  BlueAnticoneIn(x, A \cup {c}) = BlueAnticoneIn(x, A)
  BY <1>3 DEF BlueAnticoneIn
<1>4. QED
  BY <1>1, <1>2, <1>3

(***************************************************************************)
(* A subset of a k-cluster is a k-cluster.                                 *)
(***************************************************************************)
LEMMA KClusterSubset ==
  ASSUME TypeOK, NEW T \in SUBSET nodes, NEW S \in SUBSET T, IsKCluster(T)
  PROVE  IsKCluster(S)
<1> SUFFICES ASSUME NEW b \in S
             PROVE  Cardinality(BlueAnticoneIn(b, S)) <= K
  BY DEF IsKCluster
<1>1. /\ BlueAnticoneIn(b, S) \subseteq BlueAnticoneIn(b, T)
      /\ BlueAnticoneIn(b, T) \in SUBSET nodes
      /\ BlueAnticoneIn(b, S) \in SUBSET nodes
  BY DEF BlueAnticoneIn
<1>2. Cardinality(BlueAnticoneIn(b, S)) <= Cardinality(BlueAnticoneIn(b, T))
  BY <1>1, NodesFinite, FS_Subset
<1>3. Cardinality(BlueAnticoneIn(b, T)) <= K
  BY DEF IsKCluster
<1>4. QED
  BY <1>1, <1>2, <1>3, NodesFinite, KAssumption

(***************************************************************************)
(* A step that leaves the DAG alone preserves everything said about it.    *)
(***************************************************************************)
LEMMA DagUnchanged ==
  ASSUME PastOrder, ColourInv, WeightInv, UNCHANGED dagVars
  PROVE  PastOrder' /\ ColourInv' /\ WeightInv'
<1> USE DEF dagVars
<1>1. PastOrder'
  BY DEF PastOrder, OracleExact
<1>2. ColourInv'
  <2>1. \A b : (BlueSet(b))' = BlueSet(b)
    BY DEF BlueSet
  <2>2. \A x, S : BlueAnticoneIn(x, S)' = BlueAnticoneIn(x, S)
    BY DEF BlueAnticoneIn, in_anticone, is_ancestor
  <2>3. \A S : IsKCluster(S)' <=> IsKCluster(S)
    BY <2>2 DEF IsKCluster
  <2>4. AnticoneSizesExact'
    BY <2>1, <2>2 DEF ColourInv, AnticoneSizesExact
  <2>5. KCluster' /\ RedsJustified'
    BY <2>1, <2>3 DEF ColourInv, KCluster, RedsJustified
  <2>6. BlueScoreExact' /\ PastSizeExact'
    BY <2>1 DEF ColourInv, BlueScoreExact, PastSizeExact
  <2>7. QED
    BY <2>1, <2>4, <2>5, <2>6 DEF ColourInv
<1>3. WeightInv'
  BY DEF WeightInv, ChildIsHeavier, SelectedTipHeaviest, IsHeaviest, ChainKeyLess
<1>4. QED
  BY <1>1, <1>2, <1>3

-----------------------------------------------------------------------------
\* The DAG of Dag::new, genesis alone, satisfies the inductive invariant.
LEMMA InitIInv == Init => IInv
<1> SUFFICES ASSUME Init PROVE IInv
  OBVIOUS
<1> USE DEF Init
<1>1. TypeOK
  BY IdAssumption, WorkAssumption DEF TypeOK, IsSizeMap
<1>2. \A b \in nodes : BlueSet(b) = {}
  BY IdAssumption DEF BlueSet
<1>3. PastOrder
  BY IdAssumption DEF PastOrder, OracleExact
<1>4. ColourInv
  BY IdAssumption, <1>2, FS_EmptySet DEF ColourInv, AnticoneSizesExact, KCluster,
     IsKCluster, RedsJustified, BlueScoreExact, PastSizeExact
<1>5. WeightInv
  BY IdAssumption DEF WeightInv, ChildIsHeavier, SelectedTipHeaviest, IsHeaviest
<1>6. InsInv
  BY DEF InsInv
<1>7. QED
  BY <1>1, <1>3, <1>4, <1>5, <1>6 DEF IInv

(***************************************************************************)
(* While an insertion is in progress its record is typed.                  *)
(***************************************************************************)
LEMMA InsTyped ==
  ASSUME TypeOK, ins # Idle
  PROVE  /\ ins.id \in Id \ nodes /\ ins.parents \in SUBSET nodes
         /\ ins.work \in Work /\ ins.work \in Nat /\ ins.sp \in nodes
         /\ ins.todo \in SUBSET nodes /\ ins.blues \in SUBSET nodes
         /\ ins.reds \in SUBSET nodes /\ ins.blue_work \in Nat
         /\ IsSizeMap(ins.sizes)
         /\ ins = [id |-> ins.id, parents |-> ins.parents, work |-> ins.work,
                   sp |-> ins.sp, todo |-> ins.todo, blues |-> ins.blues,
                   reds |-> ins.reds, blue_work |-> ins.blue_work,
                   sizes |-> ins.sizes]
BY WorkAssumption DEF TypeOK, IsInsertion

(***************************************************************************)
(* The colouring starts from the selected parent's blue set, whose counts  *)
(* carry over, and the selected parent itself, which is in nobody's        *)
(* anticone.                                                               *)
(***************************************************************************)
LEMMA BeginInsertStep ==
  ASSUME IInv, NEW id \in Id, NEW ps \in SUBSET nodes, NEW w \in Work,
         BeginInsert(id, ps, w)
  PROVE  IInv'
<1> USE DEF IInv
<1>1. PICK s \in ps :
        /\ IsHeaviest(s, ps)
        /\ ins' = [id |-> id, parents |-> ps, work |-> w, sp |-> s,
                   todo |-> MergesetOf(s, ps), blues |-> {}, reds |-> {},
                   blue_work |-> blue_work[s] + work[s],
                   sizes |-> [x \in BlueSet(s) \cup {s} |->
                                IF x = s THEN 0
                                ELSE blue_anticone_sizes[s][x]]]
  BY DEF BeginInsert, SeedSizes, SeedWork
<1>2. UNCHANGED dagVars /\ id \notin nodes
  BY DEF BeginInsert
<1> DEFINE A == BlueSet(s)
<1>3. /\ s \in nodes /\ s \in Id
      /\ A \subseteq past[s] /\ A \in SUBSET nodes /\ s \notin A
      /\ MergesetOf(s, ps) \in SUBSET nodes
  BY DEF TypeOK, ColourInv, PastOrder, MergesetOf, Visitable
<1>4. \A x \in A : blue_anticone_sizes[s][x] \in Nat
  BY <1>3 DEF TypeOK, IsSizeMap, BlueSet
<1>5. TypeOK'
  <2>1. IsInsertion(ins)'
    BY <1>1, <1>2, <1>3, <1>4, WorkAssumption
       DEF IsInsertion, IsSizeMap, dagVars, TypeOK
  <2>2. QED
    BY <2>1, <1>2 DEF TypeOK, dagVars, IsSizeMap
<1>6. PastOrder' /\ ColourInv' /\ WeightInv'
  BY <1>2, DagUnchanged
<1>7. \A x \in A : ~in_anticone(x, s)
  BY <1>3 DEF in_anticone, is_ancestor
<1>8. ASSUME NEW x \in A \cup {s}
      PROVE  /\ ins'.sizes[x] = Cardinality(BlueAnticoneIn(x, A \cup {s}))
             /\ ins'.sizes[x] <= K
  <2>1. CASE x = s
    <3>1. \A c \in A \cup {s} : ~in_anticone(s, c)
      BY <1>7 DEF in_anticone
    <3>2. BlueAnticoneIn(s, A \cup {s}) = {}
      BY <3>1 DEF BlueAnticoneIn
    <3>3. QED
      BY <2>1, <3>2, <1>1, FS_EmptySet, KAssumption
  <2>2. CASE x \in A
    <3>1. Cardinality(BlueAnticoneIn(x, A \cup {s})) =
            Cardinality(BlueAnticoneIn(x, A))
      BY <2>2, <1>3, <1>7, AnticoneCount
    <3>2. ins'.sizes[x] = blue_anticone_sizes[s][x]
      BY <2>2, <1>1, <1>3
    <3>3. /\ blue_anticone_sizes[s][x] = Cardinality(BlueAnticoneIn(x, A))
          /\ Cardinality(BlueAnticoneIn(x, A)) <= K
      BY <2>2, <1>3 DEF ColourInv, AnticoneSizesExact, KCluster, IsKCluster
    <3>4. QED
      BY <3>1, <3>2, <3>3
  <2>3. QED
    BY <2>1, <2>2
<1>9. InsInv'
  <2>1. \A x, S : BlueAnticoneIn(x, S)' = BlueAnticoneIn(x, S)
    BY <1>2 DEF BlueAnticoneIn, in_anticone, is_ancestor, dagVars
  <2>2. IsHeaviest(s, ps)' /\ BlueSet(s)' = BlueSet(s)
        /\ MergesetOf(s, ps)' = MergesetOf(s, ps)
    BY <1>1, <1>2 DEF IsHeaviest, ChainKeyLess, BlueSet, MergesetOf, Visitable,
       WalkClosed, dagVars
  <2>3. blue_work[s] + work[s] >= blue_work[s]
    BY <1>3 DEF TypeOK
  <2>4. DOMAIN ins'.sizes = A \cup {s}
    BY <1>1
  <2>5. /\ ins'.sp = s /\ ins'.parents = ps /\ ins'.todo = MergesetOf(s, ps)
        /\ ins'.blues = {} /\ ins'.reds = {}
        /\ ins'.blue_work = blue_work[s] + work[s]
    BY <1>1
  <2>6. QED
    BY <2>1, <2>2, <2>3, <2>4, <2>5, <1>2, <1>8 DEF InsInv, dagVars
<1>10. QED
  BY <1>5, <1>6, <1>9

-----------------------------------------------------------------------------
(***************************************************************************)
(* A candidate of the colouring loop is not yet blue: the blue blocks so   *)
(* far are below the selected parent, or were taken out of `todo'.         *)
(***************************************************************************)
LEMMA CandidateIsNew ==
  ASSUME IInv, ins # Idle, NEW c \in ins.todo
  PROVE  /\ c \in nodes /\ c \in Visitable(ins.sp)
         /\ c \notin DOMAIN ins.sizes
         /\ DOMAIN ins.sizes \in SUBSET nodes
<1> USE DEF IInv
<1>1. ins.sp \in nodes /\ IsSizeMap(ins.sizes)
  BY InsTyped
<1>2. c \in Visitable(ins.sp)
  BY DEF InsInv, MergesetOf
<1>3. BlueSet(ins.sp) \subseteq past[ins.sp]
  BY <1>1 DEF ColourInv
<1>4. c \notin BlueSet(ins.sp) \cup {ins.sp} /\ c \notin ins.blues
  BY <1>2, <1>3 DEF Visitable, InsInv
<1>5. QED
  BY <1>1, <1>2, <1>4 DEF Visitable, IsSizeMap, InsInv

(***************************************************************************)
(* A block coloured blue keeps the recorded counts exact and within K, and *)
(* makes no red block fit again.                                           *)
(***************************************************************************)
LEMMA ColourBlueStep ==
  ASSUME IInv, ColourBlue
  PROVE  IInv'
<1> USE DEF IInv
<1> DEFINE A == DOMAIN ins.sizes
<1>1. UNCHANGED dagVars /\ ins # Idle
  BY DEF ColourBlue
<1>2. PICK c \in ins.todo :
        /\ try_colour_blue(c)
        /\ ins' = [ins EXCEPT
            !.todo = @ \ {c},
            !.blues = @ \cup {c},
            !.blue_work = @ + work[c],
            !.sizes = [b \in DOMAIN ins.sizes \cup {c} |->
                         CASE b = c -> Cardinality(AnticoneBlues(c))
                           [] b # c /\ b \in AnticoneBlues(c) -> ins.sizes[b] + 1
                           [] OTHER -> ins.sizes[b]]]
  BY DEF ColourBlue, SizesWith
<1> DEFINE newsizes == [b \in A \cup {c} |->
                         CASE b = c -> Cardinality(AnticoneBlues(c))
                           [] b # c /\ b \in AnticoneBlues(c) -> ins.sizes[b] + 1
                           [] OTHER -> ins.sizes[b]]
<1>3. /\ c \in nodes \ A /\ A \in SUBSET nodes
  BY <1>1, CandidateIsNew
<1>4. /\ ins'.id = ins.id /\ ins'.parents = ins.parents /\ ins'.work = ins.work
      /\ ins'.sp = ins.sp /\ ins'.reds = ins.reds
      /\ ins'.todo = ins.todo \ {c} /\ ins'.blues = ins.blues \cup {c}
      /\ ins'.blue_work = ins.blue_work + work[c]
      /\ ins'.sizes = newsizes
      /\ ins' = [id |-> ins.id, parents |-> ins.parents, work |-> ins.work,
                 sp |-> ins.sp, todo |-> ins.todo \ {c},
                 blues |-> ins.blues \cup {c}, reds |-> ins.reds,
                 blue_work |-> ins.blue_work + work[c], sizes |-> newsizes]
  <2> HIDE DEF newsizes
  <2>1. ins' = [ins EXCEPT !.todo = @ \ {c}, !.blues = @ \cup {c},
                           !.blue_work = @ + work[c], !.sizes = newsizes]
    BY <1>2 DEF newsizes
  <2>2. QED
    BY <2>1, <1>1, InsTyped
<1>5. /\ AnticoneBlues(c) = BlueAnticoneIn(c, A \cup {c})
      /\ \A x \in A : /\ ins.sizes[x] = Cardinality(BlueAnticoneIn(x, A))
                      /\ ins.sizes[x] <= K
      /\ \A x \in A : ins.sizes[x] \in Nat
      /\ Cardinality(AnticoneBlues(c)) \in Nat
  <2>1. AnticoneBlues(c) = BlueAnticoneIn(c, A \cup {c})
    BY <1>3, AnticoneCount DEF AnticoneBlues
  <2>2. AnticoneBlues(c) \in SUBSET nodes
    BY <1>3 DEF AnticoneBlues
  <2>3. QED
    BY <1>1, <2>1, <2>2, NodesFinite, InsTyped DEF InsInv, IsSizeMap
<1>6. ASSUME NEW x \in A \cup {c}
      PROVE  /\ newsizes[x] = Cardinality(BlueAnticoneIn(x, A \cup {c}))
             /\ newsizes[x] <= K
             /\ newsizes[x] \in Nat
  <2>1. CASE x = c
    BY <2>1, <1>5, <1>2 DEF try_colour_blue
  <2>2. CASE x \in A /\ in_anticone(x, c)
    <3>1. x \in AnticoneBlues(c) /\ x # c
      BY <2>2, <1>3 DEF AnticoneBlues
    <3>2. newsizes[x] = ins.sizes[x] + 1
      BY <3>1, <2>2
    <3>3. Cardinality(BlueAnticoneIn(x, A \cup {c})) =
            Cardinality(BlueAnticoneIn(x, A)) + 1
      BY <2>2, <1>3, AnticoneCount
    <3>4. ins.sizes[x] + 1 <= K
      BY <3>1, <1>2 DEF try_colour_blue
    <3>5. QED
      BY <3>2, <3>3, <3>4, <2>2, <1>5
  <2>3. CASE x \in A /\ ~in_anticone(x, c)
    <3>1. x \notin AnticoneBlues(c) /\ x # c
      BY <2>3, <1>3 DEF AnticoneBlues
    <3>2. newsizes[x] = ins.sizes[x]
      BY <3>1, <2>3
    <3>3. Cardinality(BlueAnticoneIn(x, A \cup {c})) =
            Cardinality(BlueAnticoneIn(x, A))
      BY <2>3, <1>3, AnticoneCount
    <3>4. QED
      BY <3>2, <3>3, <2>3, <1>5
  <2>4. QED
    BY <2>1, <2>2, <2>3
<1>7. TypeOK'
  <2>1. IsSizeMap(newsizes)
    <3>1. \A x \in A \cup {c} : newsizes[x] \in Nat
      BY <1>6
    <3>2. DOMAIN newsizes = A \cup {c}
      OBVIOUS
    <3>3. newsizes = [x \in A \cup {c} |-> newsizes[x]]
      OBVIOUS
    <3> HIDE DEF newsizes
    <3>4. QED
      BY <3>1, <3>2, <3>3, <1>3 DEF IsSizeMap
  <2>2. work[c] \in Nat
    BY <1>3 DEF TypeOK
  <2> HIDE DEF newsizes
  <2>3. IsInsertion(ins')
    BY <2>1, <2>2, <1>1, <1>3, <1>4, InsTyped DEF IsInsertion
  <2>4. IsInsertion(ins)'
    BY <2>3, <1>1 DEF IsInsertion, IsSizeMap, dagVars
  <2>5. QED
    BY <2>4, <1>1 DEF TypeOK, dagVars, IsSizeMap
<1>8. PastOrder' /\ ColourInv' /\ WeightInv'
  BY <1>1, DagUnchanged
<1>9. InsInv'
  <2>1. \A x, S : BlueAnticoneIn(x, S)' = BlueAnticoneIn(x, S)
    BY <1>1 DEF BlueAnticoneIn, in_anticone, is_ancestor, dagVars
  <2>2. \A S : IsKCluster(S)' <=> IsKCluster(S)
    BY <2>1 DEF IsKCluster
  <2>3. DOMAIN newsizes = A \cup {c}
    OBVIOUS
  <2>4. \A r \in ins.reds : ~IsKCluster(A \cup {c} \cup {r})
    <3> SUFFICES ASSUME NEW r \in ins.reds, IsKCluster(A \cup {c} \cup {r})
                 PROVE  FALSE
      OBVIOUS
    <3>1. A \cup {c} \cup {r} \in SUBSET nodes
      BY <1>1, <1>3, InsTyped
    <3>2. IsKCluster(A \cup {r})
      BY <3>1, KClusterSubset
    <3>3. QED
      BY <3>2, <1>1 DEF InsInv
  <2>5. ins.blue_work + work[c] >= blue_work[ins.sp]
    <3>1. /\ ins.blue_work \in Nat /\ work[c] \in Nat
          /\ blue_work[ins.sp] \in Nat
      BY <1>1, <1>3, InsTyped DEF TypeOK
    <3>2. QED
      BY <3>1, <1>1 DEF InsInv
  <2>6. /\ BlueSet(ins.sp)' = BlueSet(ins.sp)
        /\ MergesetOf(ins.sp, ins.parents)' = MergesetOf(ins.sp, ins.parents)
        /\ IsHeaviest(ins.sp, ins.parents)' <=> IsHeaviest(ins.sp, ins.parents)
    BY <1>1, <1>4 DEF BlueSet, MergesetOf, Visitable, WalkClosed, IsHeaviest,
       ChainKeyLess, dagVars
  <2> HIDE DEF newsizes
  <2>7. /\ IsHeaviest(ins.sp, ins.parents)'
        /\ (ins.todo \cup ins.blues \cup ins.reds =
              MergesetOf(ins.sp, ins.parents))'
        /\ (ins.todo \cap ins.blues = {})'
        /\ (ins.todo \cap ins.reds = {})'
        /\ (ins.blues \cap ins.reds = {})'
    BY <2>6, <1>1, <1>4 DEF InsInv
  <2>8. (DOMAIN ins.sizes = BlueSet(ins.sp) \cup {ins.sp} \cup ins.blues)'
    BY <2>3, <2>6, <1>1, <1>4 DEF InsInv
  <2>9. (\A x \in DOMAIN ins.sizes :
          /\ ins.sizes[x] = Cardinality(BlueAnticoneIn(x, DOMAIN ins.sizes))
          /\ ins.sizes[x] <= K)'
    BY <2>1, <2>3, <1>4, <1>6
  <2>10. (\A r \in ins.reds : ~IsKCluster(DOMAIN ins.sizes \cup {r}))'
    BY <2>2, <2>3, <2>4, <1>4
  <2>11. (ins.blue_work >= blue_work[ins.sp])'
    BY <2>5, <1>1, <1>4 DEF dagVars
  <2>12. QED
    BY <2>7, <2>8, <2>9, <2>10, <2>11 DEF InsInv
<1>10. QED
  BY <1>7, <1>8, <1>9

(***************************************************************************)
(* A candidate that try_colour_blue refuses does not fit: the two tests of *)
(* the code are together the k-cluster rule for the enlarged set.          *)
(***************************************************************************)
LEMMA RefusedDoesNotFit ==
  ASSUME IInv, ins # Idle, NEW c \in ins.todo, ~try_colour_blue(c)
  PROVE  ~IsKCluster(DOMAIN ins.sizes \cup {c})
<1> USE DEF IInv
<1> DEFINE A == DOMAIN ins.sizes
<1> SUFFICES ASSUME IsKCluster(A \cup {c}) PROVE try_colour_blue(c)
  OBVIOUS
<1>1. c \in nodes \ A /\ A \in SUBSET nodes
  BY CandidateIsNew
<1>2. AnticoneBlues(c) = BlueAnticoneIn(c, A \cup {c})
  BY <1>1, AnticoneCount DEF AnticoneBlues
<1>3. Cardinality(AnticoneBlues(c)) <= K
  BY <1>2 DEF IsKCluster
<1>4. ASSUME NEW b \in AnticoneBlues(c) PROVE ins.sizes[b] + 1 <= K
  <2>1. b \in A /\ in_anticone(b, c)
    BY DEF AnticoneBlues
  <2>2. Cardinality(BlueAnticoneIn(b, A \cup {c})) =
          Cardinality(BlueAnticoneIn(b, A)) + 1
    BY <2>1, <1>1, AnticoneCount
  <2>3. ins.sizes[b] = Cardinality(BlueAnticoneIn(b, A))
    BY <2>1 DEF InsInv
  <2>4. Cardinality(BlueAnticoneIn(b, A \cup {c})) <= K
    BY <2>1 DEF IsKCluster
  <2>5. QED
    BY <2>2, <2>3, <2>4
<1>5. QED
  BY <1>3, <1>4 DEF try_colour_blue

\* An iteration of the colouring loop that leaves its candidate red preserves
\* the inductive invariant: the candidate is recorded as one that does not fit.
LEMMA ColourRedStep ==
  ASSUME IInv, ColourRed
  PROVE  IInv'
<1> USE DEF IInv
<1>1. UNCHANGED dagVars /\ ins # Idle
  BY DEF ColourRed
<1>2. PICK c \in ins.todo :
        /\ ~try_colour_blue(c)
        /\ ins' = [ins EXCEPT !.todo = @ \ {c}, !.reds = @ \cup {c}]
  BY DEF ColourRed
<1>3. c \in nodes /\ ~IsKCluster(DOMAIN ins.sizes \cup {c})
  BY <1>1, <1>2, CandidateIsNew, RefusedDoesNotFit
<1>4. /\ ins'.id = ins.id /\ ins'.parents = ins.parents /\ ins'.work = ins.work
      /\ ins'.sp = ins.sp /\ ins'.blues = ins.blues
      /\ ins'.todo = ins.todo \ {c} /\ ins'.reds = ins.reds \cup {c}
      /\ ins'.blue_work = ins.blue_work /\ ins'.sizes = ins.sizes
      /\ ins' = [id |-> ins.id, parents |-> ins.parents, work |-> ins.work,
                 sp |-> ins.sp, todo |-> ins.todo \ {c},
                 blues |-> ins.blues, reds |-> ins.reds \cup {c},
                 blue_work |-> ins.blue_work, sizes |-> ins.sizes]
  BY <1>1, <1>2, InsTyped
<1>5. TypeOK'
  <2>1. IsInsertion(ins')
    BY <1>1, <1>3, <1>4, InsTyped DEF IsInsertion
  <2>2. IsInsertion(ins)'
    BY <2>1, <1>1 DEF IsInsertion, IsSizeMap, dagVars
  <2>3. QED
    BY <2>2, <1>1 DEF TypeOK, dagVars, IsSizeMap
<1>6. PastOrder' /\ ColourInv' /\ WeightInv'
  BY <1>1, DagUnchanged
<1>7. InsInv'
  <2>1. \A x, S : BlueAnticoneIn(x, S)' = BlueAnticoneIn(x, S)
    BY <1>1 DEF BlueAnticoneIn, in_anticone, is_ancestor, dagVars
  <2>2. \A S : IsKCluster(S)' <=> IsKCluster(S)
    BY <2>1 DEF IsKCluster
  <2>3. /\ BlueSet(ins.sp)' = BlueSet(ins.sp)
        /\ MergesetOf(ins.sp, ins.parents)' = MergesetOf(ins.sp, ins.parents)
        /\ IsHeaviest(ins.sp, ins.parents)' <=> IsHeaviest(ins.sp, ins.parents)
    BY <1>1, <1>4 DEF BlueSet, MergesetOf, Visitable, WalkClosed, IsHeaviest,
       ChainKeyLess, dagVars
  <2>4. /\ IsHeaviest(ins.sp, ins.parents)'
        /\ (ins.todo \cup ins.blues \cup ins.reds =
              MergesetOf(ins.sp, ins.parents))'
        /\ (ins.todo \cap ins.blues = {})'
        /\ (ins.todo \cap ins.reds = {})'
        /\ (ins.blues \cap ins.reds = {})'
        /\ (DOMAIN ins.sizes = BlueSet(ins.sp) \cup {ins.sp} \cup ins.blues)'
    BY <2>3, <1>1, <1>4 DEF InsInv
  <2>5. (\A x \in DOMAIN ins.sizes :
          /\ ins.sizes[x] = Cardinality(BlueAnticoneIn(x, DOMAIN ins.sizes))
          /\ ins.sizes[x] <= K)'
    BY <2>1, <1>1, <1>4 DEF InsInv
  <2>6. (\A r \in ins.reds : ~IsKCluster(DOMAIN ins.sizes \cup {r}))'
    BY <2>2, <1>1, <1>3, <1>4 DEF InsInv
  <2>7. (ins.blue_work >= blue_work[ins.sp])'
    BY <1>1, <1>4 DEF InsInv, dagVars
  <2>8. QED
    BY <2>4, <2>5, <2>6, <2>7 DEF InsInv
<1>8. QED
  BY <1>5, <1>6, <1>7

(***************************************************************************)
(* A refused block leaves no trace.                                        *)
(***************************************************************************)
LEMMA RejectInsertStep ==
  ASSUME IInv, RejectInsert
  PROVE  IInv'
<1>1. UNCHANGED dagVars /\ ins' = Idle
  BY DEF RejectInsert
<1>2. PastOrder' /\ ColourInv' /\ WeightInv'
  BY <1>1, DagUnchanged DEF IInv
<1>3. TypeOK'
  BY <1>1 DEF IInv, TypeOK, dagVars, IsSizeMap
<1>4. InsInv'
  BY <1>1 DEF InsInv
<1>5. QED
  BY <1>2, <1>3, <1>4 DEF IInv

\* A step that changes nothing preserves the inductive invariant.
LEMMA StutterStep ==
  ASSUME IInv, UNCHANGED vars
  PROVE  IInv'
<1>1. UNCHANGED dagVars /\ ins' = ins
  BY DEF vars
<1>2. PastOrder' /\ ColourInv' /\ WeightInv'
  BY <1>1, DagUnchanged DEF IInv
<1>3. TypeOK'
  BY <1>1 DEF IInv, TypeOK, dagVars, IsSizeMap, IsInsertion
<1>4. InsInv'
  BY <1>1 DEF IInv, InsInv, dagVars, IsHeaviest, ChainKeyLess, MergesetOf,
     Visitable, WalkClosed, BlueSet, BlueAnticoneIn, IsKCluster, in_anticone,
     is_ancestor
<1>5. QED
  BY <1>2, <1>3, <1>4 DEF IInv

-----------------------------------------------------------------------------
(***************************************************************************)
(* The block about to be committed: the blocks of its mergeset are new to  *)
(* its selected parent, and the past handed to the oracle is the union of  *)
(* its parents' pasts.                                                     *)
(***************************************************************************)
LEMMA CommittedBlock ==
  ASSUME IInv, CommitInsert
  PROVE  /\ ins.id \in Id /\ ins.id \notin nodes /\ ins.sp \in ins.parents
         /\ ins.sp \in nodes /\ ins.sp \in Id /\ ins.parents \subseteq nodes
         /\ ins.blues \cup ins.reds = MergesetOf(ins.sp, ins.parents)
         /\ ins.blues \cup ins.reds \subseteq nodes \ (past[ins.sp] \cup {ins.sp})
         /\ ins.blues \cap ins.reds = {}
         /\ BlueSet(ins.sp) \subseteq past[ins.sp]
         /\ past[ins.sp] \subseteq nodes
         /\ DOMAIN ins.sizes = BlueSet(ins.sp) \cup {ins.sp} \cup ins.blues
         /\ past[ins.sp] \cup {ins.sp} \cup ins.blues \cup ins.reds =
              UNION {past[p] \cup {p} : p \in ins.parents}
<1> USE DEF IInv
<1>1. ins # Idle /\ ins.todo = {}
  BY DEF CommitInsert
<1>2. /\ ins.id \in Id /\ ins.id \notin nodes /\ ins.parents \in SUBSET nodes
      /\ ins.sp \in nodes /\ ins.sp \in Id
  BY <1>1, InsTyped DEF TypeOK
<1>3. ins.sp \in ins.parents
  BY <1>1 DEF InsInv, IsHeaviest
<1>4. ins.blues \cup ins.reds = MergesetOf(ins.sp, ins.parents)
  BY <1>1 DEF InsInv
<1>5. MergesetOf(ins.sp, ins.parents) \subseteq nodes \ (past[ins.sp] \cup {ins.sp})
  BY DEF MergesetOf, Visitable
<1>6. BlueSet(ins.sp) \subseteq past[ins.sp] /\ past[ins.sp] \subseteq nodes
  BY <1>2 DEF ColourInv, TypeOK
<1>7. MergesetOf(ins.sp, ins.parents) =
        (UNION {past[p] \cup {p} : p \in ins.parents})
           \ (past[ins.sp] \cup {ins.sp})
  BY <1>2, <1>3, MergesetIsPast
<1>8. past[ins.sp] \cup {ins.sp} \subseteq
        UNION {past[p] \cup {p} : p \in ins.parents}
  BY <1>3
<1>9. past[ins.sp] \cup {ins.sp} \cup ins.blues \cup ins.reds =
        UNION {past[p] \cup {p} : p \in ins.parents}
  <2> DEFINE U == UNION {past[p] \cup {p} : p \in ins.parents}
  <2>1. ins.blues \cup ins.reds = U \ (past[ins.sp] \cup {ins.sp})
    BY <1>4, <1>7
  <2>2. past[ins.sp] \cup {ins.sp} \subseteq U
    BY <1>8
  <2> HIDE DEF U
  <2>3. past[ins.sp] \cup {ins.sp} \cup ins.blues \cup ins.reds = U
    BY <2>1, <2>2
  <2>4. QED
    BY <2>3 DEF U
<1>10. QED
  BY <1>1, <1>2, <1>3, <1>4, <1>5, <1>6, <1>9 DEF InsInv

(***************************************************************************)
(* What a commit leaves as it was: everything recorded for older blocks.   *)
(***************************************************************************)
LEMMA CommitFrame ==
  ASSUME IInv, CommitInsert
  PROVE  /\ nodes' = nodes \cup {ins.id}
         /\ \A b \in nodes : /\ b # ins.id
                             /\ past'[b] = past[b]
                             /\ past_size'[b] = past_size[b]
                             /\ parents'[b] = parents[b]
                             /\ mergeset_reds'[b] = mergeset_reds[b]
                             /\ blue_score'[b] = blue_score[b]
                             /\ blue_work'[b] = blue_work[b]
                             /\ blue_anticone_sizes'[b] = blue_anticone_sizes[b]
                             /\ BlueSet(b)' = BlueSet(b)
         /\ \A S \in SUBSET nodes : \A x \in S :
              BlueAnticoneIn(x, S)' = BlueAnticoneIn(x, S)
         /\ \A S \in SUBSET nodes : IsKCluster(S)' <=> IsKCluster(S)
<1>1. ins.id \notin nodes
  BY CommittedBlock
<1>2. nodes' = nodes \cup {ins.id}
  BY DEF CommitInsert
<1>3. \A b \in nodes : /\ b # ins.id
                       /\ past'[b] = past[b]
                       /\ past_size'[b] = past_size[b]
                       /\ parents'[b] = parents[b]
                       /\ mergeset_reds'[b] = mergeset_reds[b]
                       /\ blue_score'[b] = blue_score[b]
                       /\ blue_work'[b] = blue_work[b]
                       /\ blue_anticone_sizes'[b] = blue_anticone_sizes[b]
  BY <1>1 DEF CommitInsert, IInv, TypeOK
<1>4. \A b \in nodes : BlueSet(b)' = BlueSet(b)
  BY <1>3 DEF BlueSet
<1>5. \A S \in SUBSET nodes : \A x \in S :
        BlueAnticoneIn(x, S)' = BlueAnticoneIn(x, S)
  BY <1>3 DEF BlueAnticoneIn, in_anticone, is_ancestor
<1>6. \A S \in SUBSET nodes : IsKCluster(S)' <=> IsKCluster(S)
  BY <1>5 DEF IsKCluster
<1>7. QED
  BY <1>2, <1>3, <1>4, <1>5, <1>6

\* Wiring the new block in preserves the types.
LEMMA CommitTypeOK ==
  ASSUME IInv, CommitInsert
  PROVE  TypeOK'
<1> USE DEF IInv
<1>1. ins # Idle
  BY DEF CommitInsert
<1>2. /\ ins.id \in Id /\ ins.parents \in SUBSET nodes
      /\ ins.work \in Nat /\ ins.sp \in nodes /\ ins.sp \in Id
      /\ ins.blues \in SUBSET nodes /\ ins.reds \in SUBSET nodes
      /\ ins.blue_work \in Nat /\ IsSizeMap(ins.sizes)
      /\ Cardinality(ins.blues) \in Nat /\ Cardinality(ins.reds) \in Nat
      /\ past_size[ins.sp] \in Nat /\ blue_score[ins.sp] \in Nat
      /\ past[ins.sp] \in SUBSET nodes
  BY <1>1, InsTyped, NodesFinite DEF TypeOK
<1>3. nodes' \in SUBSET Id /\ tips' \in SUBSET nodes' /\ ins' = Idle
  BY <1>2 DEF CommitInsert, TipsWithNew, TypeOK
<1>4. /\ parents' \in [Id -> SUBSET nodes'] /\ work' \in [Id -> Nat]
      /\ past' \in [Id -> SUBSET nodes']
      /\ mergeset_blues' \in [Id -> SUBSET nodes']
      /\ mergeset_reds' \in [Id -> SUBSET nodes']
  BY <1>2 DEF CommitInsert, TypeOK
<1>5. /\ past_size' \in [Id -> Nat] /\ blue_score' \in [Id -> Nat]
      /\ blue_work' \in [Id -> Nat]
      /\ selected_parent' \in [Id -> nodes' \cup {NoBlock}]
  BY <1>2 DEF CommitInsert, TypeOK
<1>6. /\ DOMAIN blue_anticone_sizes' = Id
      /\ \A b \in Id : IsSizeMap(blue_anticone_sizes[b])'
  BY <1>2 DEF CommitInsert, TypeOK, IsSizeMap
<1>7. QED
  BY <1>3, <1>4, <1>5, <1>6 DEF TypeOK

(***************************************************************************)
(* The oracle stays exact: the past it is handed for the new block is the  *)
(* past the parent edges define.                                           *)
(***************************************************************************)
LEMMA CommitPastOrder ==
  ASSUME IInv, CommitInsert
  PROVE  PastOrder'
<1> USE DEF IInv
<1> DEFINE n == ins.id
           P == past[ins.sp] \cup {ins.sp} \cup ins.blues \cup ins.reds
<1>1. /\ n \in Id /\ n \notin nodes /\ ins.parents \subseteq nodes
      /\ P = UNION {past[p] \cup {p} : p \in ins.parents}
  BY CommittedBlock
<1>2. nodes' = nodes \cup {n}
  BY CommitFrame
<1>3. \A b \in nodes : b # n /\ past'[b] = past[b] /\ parents'[b] = parents[b]
  BY CommitFrame
<1>4. past'[n] = P /\ parents'[n] = ins.parents
  BY <1>1 DEF CommitInsert, TypeOK
<1> HIDE DEF P, n
<1>5. P \subseteq nodes
  <2>1. \A p \in ins.parents : past[p] \cup {p} \subseteq nodes
    BY <1>1 DEF TypeOK
  <2>2. QED
    BY <2>1, <1>1
<1>6. \A b \in nodes' : b \notin past'[b]
  BY <1>1, <1>2, <1>3, <1>4, <1>5 DEF PastOrder
<1>7. \A b \in nodes' : \A x \in past'[b] : past'[x] \subseteq past'[b]
  <2>1. ASSUME NEW x \in P PROVE past[x] \subseteq P
    <3>1. PICK p \in ins.parents : x \in past[p] \cup {p}
      BY <1>1
    <3>2. past[x] \subseteq past[p]
      BY <3>1, <1>1 DEF PastOrder
    <3>3. QED
      BY <3>2, <1>1
  <2>2. \A b \in nodes : past[b] \subseteq nodes
    BY DEF TypeOK
  <2>3. \A b \in nodes : \A x \in past[b] : past[x] \subseteq past[b]
    BY DEF PastOrder
  <2>4. QED
    BY <2>1, <2>2, <2>3, <1>2, <1>3, <1>4, <1>5
<1>8. \A b \in nodes' : \A x \in past'[b] :
        \E c \in past'[b] \cup {b} : x \in parents'[c]
  <2>1. ASSUME NEW b \in nodes, NEW x \in past[b]
        PROVE  \E c \in past'[b] \cup {b} : x \in parents'[c]
    <3>1. PICK c \in past[b] \cup {b} : x \in parents[c]
      BY DEF PastOrder
    <3>2. c \in nodes
      BY DEF TypeOK
    <3>3. QED
      BY <3>1, <3>2, <1>3
  <2>2. ASSUME NEW x \in P
        PROVE  \E c \in P \cup {n} : x \in parents'[c]
    <3>1. PICK p \in ins.parents : x \in past[p] \cup {p}
      BY <1>1
    <3>2. CASE x = p
      BY <3>2, <1>4
    <3>3. CASE x \in past[p]
      <4>1. PICK c \in past[p] \cup {p} : x \in parents[c]
        BY <3>3, <1>1 DEF PastOrder
      <4>2. c \in P
        BY <4>1, <1>1
      <4>3. parents'[c] = parents[c]
        BY <4>2, <1>3, <1>5
      <4>4. QED
        BY <4>1, <4>2, <4>3
    <3>4. QED
      BY <3>1, <3>2, <3>3
  <2>3. QED
    BY <2>1, <2>2, <1>2, <1>3, <1>4
<1>9. OracleExact'
  <2>1. ASSUME NEW b \in nodes
        PROVE  past'[b] = UNION {past'[p] \cup {p} : p \in parents'[b]}
    <3>1. parents[b] \subseteq nodes
      BY DEF TypeOK
    <3>2. past[b] = UNION {past[p] \cup {p} : p \in parents[b]}
      BY DEF PastOrder, OracleExact
    <3>3. \A p \in parents[b] : past'[p] = past[p]
      BY <3>1, <1>3
    <3>4. QED
      BY <3>2, <3>3, <1>3
  <2>2. P = UNION {past'[p] \cup {p} : p \in ins.parents}
    <3>1. \A p \in ins.parents : past'[p] = past[p]
      BY <1>1, <1>3
    <3>2. QED
      BY <3>1, <1>1
  <2>3. QED
    BY <2>1, <2>2, <1>2, <1>4 DEF OracleExact
<1>10. QED
  BY <1>6, <1>7, <1>8, <1>9 DEF PastOrder

(***************************************************************************)
(* The cardinality of a union of two disjoint sets of blocks.              *)
(***************************************************************************)
LEMMA DisjointUnion ==
  ASSUME TypeOK, NEW S \in SUBSET nodes, NEW T \in SUBSET nodes, S \cap T = {}
  PROVE  Cardinality(S \cup T) = Cardinality(S) + Cardinality(T)
<1>1. Cardinality(S \cup T) =
        Cardinality(S) + Cardinality(T) - Cardinality(S \cap T)
  BY NodesFinite, FS_Union
<1>2. Cardinality(S \cap T) = 0
  BY FS_EmptySet
<1>3. QED
  BY <1>1, <1>2, NodesFinite

\* Wiring the new block in preserves the colouring facts: the new block's come
\* from the finished loop, those of the other blocks do not change.
LEMMA CommitColourInv ==
  ASSUME IInv, CommitInsert
  PROVE  ColourInv'
<1> USE DEF IInv
\* Rigid names: the locals of the insertion as they are before the step.
<1> SUFFICES ASSUME NEW n, n = ins.id, NEW s, s = ins.sp,
                    NEW A, A = DOMAIN ins.sizes,
                    NEW P, P = past[s] \cup {s} \cup ins.blues \cup ins.reds
             PROVE  ColourInv'
  OBVIOUS
<1>1. /\ n \in Id /\ n \notin nodes /\ s \in nodes
      /\ ins.blues \cup ins.reds \subseteq nodes \ (past[s] \cup {s})
      /\ ins.blues \cap ins.reds = {}
      /\ BlueSet(s) \subseteq past[s] /\ past[s] \subseteq nodes
      /\ A = BlueSet(s) \cup {s} \cup ins.blues
      /\ ins # Idle
  BY CommittedBlock DEF CommitInsert
<1>2. /\ past'[n] = P
      /\ past_size'[n] = past_size[s] + 1 + Cardinality(ins.blues)
                                          + Cardinality(ins.reds)
      /\ mergeset_reds'[n] = ins.reds
      /\ blue_score'[n] = blue_score[s] + 1 + Cardinality(ins.blues)
      /\ blue_anticone_sizes'[n] = ins.sizes
      /\ BlueSet(n)' = A
  BY <1>1 DEF CommitInsert, TypeOK, BlueSet
<1>3. nodes' = nodes \cup {n}
  BY CommitFrame
<1>4. \A b \in nodes : /\ past'[b] = past[b]
                       /\ past_size'[b] = past_size[b]
                       /\ mergeset_reds'[b] = mergeset_reds[b]
                       /\ blue_score'[b] = blue_score[b]
                       /\ blue_anticone_sizes'[b] = blue_anticone_sizes[b]
                       /\ BlueSet(b)' = BlueSet(b)
                       /\ BlueSet(b) \subseteq nodes
                       /\ b \in Id
  BY CommitFrame DEF ColourInv, TypeOK
<1>5. \A S \in SUBSET nodes : \A x \in S :
        BlueAnticoneIn(x, S)' = BlueAnticoneIn(x, S)
  BY CommitFrame
<1>6. \A S \in SUBSET nodes : IsKCluster(S)' <=> IsKCluster(S)
  BY CommitFrame
<1>7. A \in SUBSET nodes /\ A \subseteq P /\ s \notin past[s]
  BY <1>1 DEF PastOrder
<1>8. \A r \in ins.reds : r \in nodes /\ ~IsKCluster(A \cup {r})
  BY <1>1 DEF InsInv
<1>9. \A x \in A : /\ ins.sizes[x] = Cardinality(BlueAnticoneIn(x, A))
                   /\ ins.sizes[x] <= K
  BY <1>1 DEF InsInv
<1>10. Cardinality(A) = blue_score[s] + 1 + Cardinality(ins.blues)
  <2>1. Cardinality(BlueSet(s)) = blue_score[s]
    BY <1>1 DEF ColourInv, BlueScoreExact
  <2>2. Cardinality(BlueSet(s) \cup {s}) = Cardinality(BlueSet(s)) + 1
    BY <1>1, <1>7, NodesFinite, FS_AddElement
  <2>3. Cardinality((BlueSet(s) \cup {s}) \cup ins.blues) =
          Cardinality(BlueSet(s) \cup {s}) + Cardinality(ins.blues)
    BY <1>1, DisjointUnion
  <2>4. QED
    BY <2>1, <2>2, <2>3, <1>1
<1>11. Cardinality(P) = past_size[s] + 1 + Cardinality(ins.blues)
                                         + Cardinality(ins.reds)
  <2>1. Cardinality(past[s]) = past_size[s]
    BY <1>1 DEF ColourInv, PastSizeExact
  <2>2. Cardinality(past[s] \cup {s}) = Cardinality(past[s]) + 1
    BY <1>1, <1>7, NodesFinite, FS_AddElement
  <2>3. Cardinality((past[s] \cup {s}) \cup ins.blues) =
          Cardinality(past[s] \cup {s}) + Cardinality(ins.blues)
    BY <1>1, DisjointUnion
  <2>4. Cardinality((past[s] \cup {s} \cup ins.blues) \cup ins.reds) =
          Cardinality(past[s] \cup {s} \cup ins.blues) + Cardinality(ins.reds)
    BY <1>1, DisjointUnion
  <2>5. QED
    BY <2>1, <2>2, <2>3, <2>4
<1>12. (\A b \in nodes : BlueSet(b) \subseteq past[b])'
  BY <1>2, <1>3, <1>4, <1>7 DEF ColourInv
<1>13. AnticoneSizesExact'
  <2>1. ASSUME NEW b \in nodes, NEW x \in BlueSet(b)
        PROVE  blue_anticone_sizes'[b][x] =
                 Cardinality(BlueAnticoneIn(x, BlueSet(b))')
    BY <1>4, <1>5 DEF ColourInv, AnticoneSizesExact
  <2>2. ASSUME NEW x \in A
        PROVE  blue_anticone_sizes'[n][x] = Cardinality(BlueAnticoneIn(x, A)')
    BY <1>2, <1>5, <1>7, <1>9
  <2>3. \A x : \A b \in nodes : BlueAnticoneIn(x, BlueSet(b))' =
          {c \in BlueSet(b) : in_anticone(x, c)'}
    BY <1>4 DEF BlueAnticoneIn
  <2>4. \A x : BlueAnticoneIn(x, BlueSet(n))' = {c \in A : in_anticone(x, c)'}
    BY <1>2 DEF BlueAnticoneIn
  <2>5. \A x : BlueAnticoneIn(x, A)' = {c \in A : in_anticone(x, c)'}
    BY DEF BlueAnticoneIn
  <2>6. QED
    BY <2>1, <2>2, <2>3, <2>4, <2>5, <1>2, <1>3, <1>4 DEF AnticoneSizesExact
<1>14. KCluster'
  BY <1>2, <1>3, <1>4, <1>6, <1>7, <1>9 DEF ColourInv, KCluster, IsKCluster
<1>15. RedsJustified'
  <2>1. ASSUME NEW b \in nodes, NEW r \in mergeset_reds[b]
        PROVE  ~IsKCluster(BlueSet(b) \cup {r})'
    <3>1. PICK S \in SUBSET nodes : S = BlueSet(b) \cup {r}
      BY <1>4 DEF TypeOK
    <3>2. ~IsKCluster(S)
      BY <3>1 DEF ColourInv, RedsJustified
    <3>3. (BlueSet(b) \cup {r})' = S
      BY <3>1, <1>4
    <3>4. QED
      BY <3>2, <3>3, <1>6
  <2>2. ASSUME NEW r \in ins.reds
        PROVE  ~IsKCluster(BlueSet(n) \cup {r})'
    <3>1. PICK S \in SUBSET nodes : S = A \cup {r}
      BY <1>7, <1>8
    <3>2. ~IsKCluster(S)
      BY <3>1, <1>8
    <3>3. (BlueSet(n) \cup {r})' = S
      BY <3>1, <1>2
    <3>4. QED
      BY <3>2, <3>3, <1>6
  <2>3. QED
    BY <2>1, <2>2, <1>2, <1>3, <1>4 DEF RedsJustified
<1>16. BlueScoreExact' /\ PastSizeExact'
  BY <1>2, <1>3, <1>4, <1>10, <1>11 DEF ColourInv, BlueScoreExact, PastSizeExact
<1>17. QED
  BY <1>12, <1>13, <1>14, <1>15, <1>16 DEF ColourInv

(***************************************************************************)
(* The new block is heavier than its selected parent, hence than all its   *)
(* parents; and either it or the old selected tip is the heaviest block.   *)
(***************************************************************************)
LEMMA CommitWeightInv ==
  ASSUME IInv, CommitInsert
  PROVE  WeightInv'
<1> USE DEF IInv
<1> SUFFICES ASSUME NEW n, n = ins.id, NEW s, s = ins.sp,
                    NEW ps, ps = ins.parents
             PROVE  WeightInv'
  OBVIOUS
<1>1. /\ n \in Id /\ n \notin nodes /\ s \in nodes /\ s \in ps
      /\ ps \in SUBSET nodes /\ ins # Idle
      /\ ins.blues \in SUBSET nodes
  BY CommittedBlock, InsTyped DEF CommitInsert
<1>2. /\ parents'[n] = ps
      /\ blue_score'[n] = blue_score[s] + 1 + Cardinality(ins.blues)
      /\ blue_work'[n] = ins.blue_work
      /\ tips' = (tips \ ps) \cup {n}
  BY <1>1 DEF CommitInsert, TipsWithNew, TypeOK
<1>3. nodes' = nodes \cup {n}
  BY CommitFrame
<1>4. \A b \in nodes : /\ b # n /\ b \in Nat
                       /\ parents'[b] = parents[b] /\ parents[b] \subseteq nodes
                       /\ blue_score'[b] = blue_score[b] /\ blue_score[b] \in Nat
                       /\ blue_work'[b] = blue_work[b] /\ blue_work[b] \in Nat
  BY CommitFrame, IdAssumption DEF TypeOK
<1>5. /\ n \in Nat /\ blue_score'[n] \in Nat /\ blue_work'[n] \in Nat
      /\ blue_work'[n] >= blue_work[s] /\ blue_score'[n] > blue_score[s]
  <2>1. Cardinality(ins.blues) \in Nat
    BY <1>1, NodesFinite
  <2>2. ins.blue_work \in Nat /\ ins.blue_work >= blue_work[s]
    BY <1>1, InsTyped DEF InsInv
  <2>3. QED
    BY <2>1, <2>2, <1>1, <1>2, <1>4, IdAssumption
<1>6. \A a, b \in nodes : ChainKeyLess(a, b)' <=> ChainKeyLess(a, b)
  BY <1>4 DEF ChainKeyLess
<1>7. ChainKeyLess(s, n)'
  BY <1>1, <1>4, <1>5 DEF ChainKeyLess
<1>8. \A a, b \in nodes :
        ChainKeyLess(a, b)' /\ ChainKeyLess(b, n)' => ChainKeyLess(a, n)'
  BY <1>4, <1>5 DEF ChainKeyLess
<1>9. \A b \in nodes : ChainKeyLess(b, n)' <=> ~ChainKeyLess(n, b)'
  BY <1>4, <1>5, <1>1 DEF ChainKeyLess
<1>10. \A p \in ps : ChainKeyLess(p, n)'
  <2> SUFFICES ASSUME NEW p \in ps, p # s PROVE ChainKeyLess(p, n)'
    BY <1>7
  <2>1. ChainKeyLess(p, s)
    BY <1>1 DEF InsInv, IsHeaviest
  <2>2. QED
    BY <2>1, <1>1, <1>6, <1>7, <1>8
<1>11. ChildIsHeavier'
  <2>1. ASSUME NEW b \in nodes, NEW p \in parents[b]
        PROVE  ChainKeyLess(p, b)'
    BY <1>4, <1>6 DEF WeightInv, ChildIsHeavier
  <2>2. QED
    BY <2>1, <1>2, <1>3, <1>4, <1>10 DEF ChildIsHeavier
<1>12. tips' = {b \in nodes' : \A c \in nodes' : b \notin parents'[c]}
  BY <1>1, <1>2, <1>3, <1>4 DEF WeightInv, SelectedTipHeaviest
<1>13. \E t \in tips' : IsHeaviest(t, nodes)'
  <2>1. PICK t \in tips : IsHeaviest(t, nodes)
    BY DEF WeightInv, SelectedTipHeaviest
  <2>2. t \in nodes /\ \A c \in nodes \ {t} : ChainKeyLess(c, t)'
    BY <2>1, <1>6 DEF IsHeaviest
  <2>3. CASE ChainKeyLess(t, n)'
    <3>1. \A c \in nodes : ChainKeyLess(c, n)'
      BY <2>2, <2>3, <1>8
    <3>2. IsHeaviest(n, nodes)'
      BY <3>1, <1>3 DEF IsHeaviest
    <3>3. n \in tips'
      BY <1>2
    <3>4. QED
      BY <3>2, <3>3
  <2>4. CASE ~ChainKeyLess(t, n)'
    <3>1. ChainKeyLess(n, t)'
      BY <2>4, <2>2, <1>9
    <3>2. t \in tips'
      BY <2>1, <2>4, <1>2, <1>10
    <3>3. QED
      BY <3>1, <3>2, <2>2, <1>3 DEF IsHeaviest
  <2>5. QED
    BY <2>3, <2>4
<1>14. QED
  BY <1>11, <1>12, <1>13 DEF WeightInv, SelectedTipHeaviest

\* Wiring the new block in preserves the inductive invariant.
LEMMA CommitInsertStep ==
  ASSUME IInv, CommitInsert
  PROVE  IInv'
<1>1. InsInv'
  BY DEF CommitInsert, InsInv
<1>2. QED
  BY <1>1, CommitTypeOK, CommitPastOrder, CommitColourInv, CommitWeightInv
     DEF IInv

(***************************************************************************)
(* IInv is inductive: one lemma per action of Next.                        *)
(***************************************************************************)
LEMMA NextIInv == IInv /\ [Next]_vars => IInv'
<1> SUFFICES ASSUME IInv, [Next]_vars PROVE IInv'
  OBVIOUS
<1>1. ASSUME NEW id \in Id, NEW ps \in SUBSET nodes, NEW w \in Work,
             BeginInsert(id, ps, w)
      PROVE  IInv'
  BY <1>1, BeginInsertStep
<1>2. CASE ColourBlue
  BY <1>2, ColourBlueStep
<1>3. CASE ColourRed
  BY <1>3, ColourRedStep
<1>4. CASE CommitInsert
  BY <1>4, CommitInsertStep
<1>5. CASE RejectInsert
  BY <1>5, RejectInsertStep
<1>6. CASE UNCHANGED vars
  BY <1>6, StutterStep
<1>7. QED
  BY <1>1, <1>2, <1>3, <1>4, <1>5, <1>6 DEF Next

(***************************************************************************)
(* The inductive invariant holds in every reachable state.                 *)
(***************************************************************************)
THEOREM Invariance == Spec => []IInv
BY InitIInv, NextIInv, PTL DEF Spec

(***************************************************************************)
(* Type correctness: every id in the DAG's maps is one that was inserted,  *)
(* every count is a natural number, and an insertion in progress refers    *)
(* only to blocks of the DAG.                                              *)
(***************************************************************************)
THEOREM TypeCorrect == Spec => []TypeOK
<1>1. IInv => TypeOK
  BY DEF IInv
<1>2. QED
  BY <1>1, Invariance, PTL

(***************************************************************************)
(* In the blue set of every block, no block has more than K blue blocks in *)
(* its anticone: compute_ghostdag builds k-clusters, whatever K, whatever  *)
(* the shape of the DAG and the order in which blocks arrive.              *)
(***************************************************************************)
THEOREM KClusterHolds == Spec => []KCluster
<1>1. IInv => KCluster
  BY DEF IInv, ColourInv
<1>2. QED
  BY <1>1, Invariance, PTL

(***************************************************************************)
(* The anticone counts inherited from the selected parent and bumped as    *)
(* candidates turn blue are the true counts over the final blue set, and   *)
(* blue_score counts that set, the debug_assert of compute_ghostdag.       *)
(***************************************************************************)
THEOREM ColouringIsExact == Spec => []ColouringExact
<1>1. IInv => ColouringExact
  BY DEF IInv, ColourInv, ColouringExact
<1>2. QED
  BY <1>1, Invariance, PTL

(***************************************************************************)
(* The greedy colouring is maximal: no block coloured red could have been  *)
(* added to the final blue set.                                            *)
(***************************************************************************)
THEOREM RedsAreJustified == Spec => []RedsJustified
<1>1. IInv => RedsJustified
  BY DEF IInv, ColourInv
<1>2. QED
  BY <1>1, Invariance, PTL

(***************************************************************************)
(* The colouring of every block is a maximal k-cluster with exact          *)
(* bookkeeping: the three facts above together.                            *)
(***************************************************************************)
THEOREM ColouringIsSound == Spec => []ColouringSound
<1>1. ColouringExact /\ KCluster /\ RedsJustified => ColouringSound
  BY DEF ColouringSound
<1>2. QED
  BY <1>1, ColouringIsExact, KClusterHolds, RedsAreJustified, PTL

(***************************************************************************)
(* Feeding the oracle only (selected parent, mergeset) keeps its answers   *)
(* equal to the ancestry the parent edges define, and the stored past_size *)
(* equal to its size.                                                      *)
(***************************************************************************)
THEOREM AncestryIsExact == Spec => []AncestryExact
<1>1. IInv => AncestryExact
  BY DEF IInv, PastOrder, ColourInv, AncestryExact
<1>2. QED
  BY <1>1, Invariance, PTL

(***************************************************************************)
(* A block is heavier, in chain_key order, than every block it builds on,  *)
(* although only its selected parent enters its blue_work directly; so     *)
(* selected_tip, a maximum over the tips only, is the heaviest block of    *)
(* the DAG.                                                                *)
(***************************************************************************)
THEOREM HeaviestWins == Spec => []WeightInv
<1>1. IInv => WeightInv
  BY DEF IInv
<1>2. QED
  BY <1>1, Invariance, PTL

-----------------------------------------------------------------------------
(***************************************************************************)
(* At most one block is the heaviest, so selected_tip is it.               *)
(***************************************************************************)
LEMMA SelectedTipIs ==
  \A t : TypeOK /\ t \in tips /\ IsHeaviest(t, nodes) => selected_tip = t
<1> SUFFICES ASSUME NEW t, TypeOK, t \in tips, IsHeaviest(t, nodes)
             PROVE  selected_tip = t
  OBVIOUS
<1>1. tips \subseteq nodes
  BY DEF TypeOK
<1>2. IsHeaviest(t, tips)
  BY <1>1 DEF IsHeaviest
<1>3. ASSUME NEW u \in tips, IsHeaviest(u, tips), u # t
      PROVE  FALSE
  <2>1. ChainKeyLess(t, u) /\ ChainKeyLess(u, t)
    BY <1>2, <1>3 DEF IsHeaviest
  <2>2. /\ blue_work[t] \in Nat /\ blue_score[t] \in Nat /\ t \in Nat
        /\ blue_work[u] \in Nat /\ blue_score[u] \in Nat /\ u \in Nat
    BY <1>1, <1>3, IdAssumption DEF TypeOK
  <2>3. QED
    BY <2>1, <2>2 DEF ChainKeyLess
<1>4. QED
  BY <1>2, <1>3 DEF selected_tip

\* SelectedTipIs in the state after a step.
LEMMA SelectedTipIsNext ==
  (\A t : TypeOK /\ t \in tips /\ IsHeaviest(t, nodes) => selected_tip = t)'
BY SelectedTipIs, PTL

(***************************************************************************)
(* Inserting a block either leaves the selected tip where it is or moves   *)
(* it to that block; no other step moves it.                               *)
(***************************************************************************)
LEMMA TipStep ==
  IInv /\ IInv' /\ [Next]_vars =>
    [selected_tip' # selected_tip => selected_tip' = ins.id]_vars
<1> SUFFICES ASSUME IInv, IInv', [Next]_vars, selected_tip' # selected_tip
             PROVE  selected_tip' = ins.id
  OBVIOUS
<1>1. ~ UNCHANGED <<tips, blue_work, blue_score>>
  <2>1. SUFFICES ASSUME UNCHANGED <<tips, blue_work, blue_score>>
                 PROVE  selected_tip' = selected_tip
    OBVIOUS
  <2>2. QED
    BY <2>1 DEF selected_tip, IsHeaviest, ChainKeyLess
<1>2. CommitInsert
  BY <1>1 DEF Next, BeginInsert, ColourBlue, ColourRed, RejectInsert, vars, dagVars
<1>3. PICK t \in tips : IsHeaviest(t, nodes)
  BY DEF IInv, WeightInv, SelectedTipHeaviest
<1>4. PICK u \in tips' : IsHeaviest(u, nodes)'
  BY DEF IInv, WeightInv, SelectedTipHeaviest
<1>5. selected_tip = t
  BY <1>3, SelectedTipIs DEF IInv
<1>6. (selected_tip = u)'
  BY <1>4, SelectedTipIsNext DEF IInv
<1>7. CASE u = ins.id
  BY <1>6, <1>7
<1>8. CASE u # ins.id
  <2>1. u \in tips
    BY <1>2, <1>8 DEF CommitInsert, TipsWithNew
  <2>2. u \in nodes /\ nodes' = nodes \cup {ins.id}
    BY <1>2, <2>1 DEF CommitInsert, IInv, TypeOK
  <2>3. \A c \in nodes \ {u} : ChainKeyLess(c, u)'
    BY <1>4, <2>2 DEF IsHeaviest
  <2>4. \A c \in nodes : blue_work'[c] = blue_work[c] /\ blue_score'[c] = blue_score[c]
    BY <1>2, CommitFrame
  <2>5. IsHeaviest(u, nodes)
    BY <2>2, <2>3, <2>4 DEF IsHeaviest, ChainKeyLess
  <2>6. selected_tip = u
    BY <2>1, <2>5, SelectedTipIs DEF IInv
  <2>7. QED
    BY <2>6, <1>6
<1>9. QED
  BY <1>7, <1>8

(***************************************************************************)
(* One insertion is at most one reorganisation: the selected tip moves to  *)
(* the block just inserted or stays.                                       *)
(***************************************************************************)
THEOREM TipMoves == Spec => TipMovesOnlyToNewBlock
BY Invariance, TipStep, PTL DEF Spec, TipMovesOnlyToNewBlock

-----------------------------------------------------------------------------
(***************************************************************************)
(* GhostDag implements AtomicDag, for any number of parents.               *)
(*                                                                         *)
(* The argument.  IInv, above, makes the copied and bumped                 *)
(* counts exact and the walk the ancestry.  Two facts about the loop are   *)
(* added: blue_work is the work of the blue set so far (WorkExact), and    *)
(* the candidates coloured so far are coloured as the greedy rule says     *)
(* (GreedySoFar), which holds when the loop takes them in the order of     *)
(* their keys.  CommitInsert then writes the record that AtomicDag asks    *)
(* for; all other steps leave the DAG as it is.                            *)
(***************************************************************************)

\* The work of a set of blocks, its units counted.
Units(S) == UNION {{b} \X (1 .. work[b]) : b \in S}
WorkIn(S) == Cardinality(Units(S))

WorkExact ==
  /\ \A b \in nodes : blue_work[b] = WorkIn(BlueSet(b))
  /\ ins # Idle => ins.blue_work = WorkIn(DOMAIN ins.sizes)

Coloured == ins.blues \cup ins.reds

\* The blues so far that come before c.
BluesBefore(c) == {b \in ins.blues : TopoKeyLess(b, c)}

GreedySoFar ==
  ins # Idle =>
    /\ ins.parents # {} /\ Cardinality(ins.parents) <= MaxParents
    /\ \A c \in Coloured, t \in ins.todo : TopoKeyLess(c, t)
    /\ \A c \in Coloured :
         c \in ins.blues <=>
           IsKCluster(BlueSet(ins.sp) \cup {ins.sp} \cup BluesBefore(c) \cup {c})

RInv == IInv /\ WorkExact /\ GreedySoFar

-----------------------------------------------------------------------------
(***************************************************************************)
(* Work adds up.                                                           *)
(***************************************************************************)
LEMMA UnitsOfOne ==
  ASSUME TypeOK, NEW b \in nodes
  PROVE  /\ IsFiniteSet({b} \X (1 .. work[b]))
         /\ Cardinality({b} \X (1 .. work[b])) = work[b]
<1>1. work[b] \in Nat
  BY DEF TypeOK
<1>2. \A k \in Nat : IsFiniteSet(1 .. k) /\ Cardinality(1 .. k) = k
  BY FS_Interval
<1>3. IsFiniteSet({b}) /\ Cardinality({b}) = 1
  BY FS_Singleton
<1> DEFINE I == 1 .. work[b]
<1>4. IsFiniteSet(I) /\ Cardinality(I) = work[b]
  BY <1>1, <1>2
<1> HIDE DEF I
<1>5. IsFiniteSet({b} \X I) /\ Cardinality({b} \X I) = 1 * work[b]
  BY <1>3, <1>4, FS_Product
<1> QED
  BY <1>1, <1>5 DEF I

LEMMA UnitsFinite ==
  ASSUME TypeOK, NEW S \in SUBSET nodes
  PROVE  IsFiniteSet(Units(S)) /\ WorkIn(S) \in Nat
<1> DEFINE units(b) == {b} \X (1 .. work[b])
           f == [b \in S |-> units(b)]
           R == {units(b) : b \in S}
<1>1. IsFiniteSet(S)
  BY NodesFinite
<1>2. \A b \in S : IsFiniteSet(units(b))
  BY UnitsOfOne
<1> HIDE DEF units
<1>3. f \in Surjection(S, R)
  BY DEF Surjection
<1>4. IsFiniteSet(R)
  BY <1>1, <1>3, FS_Surjection
<1>5. IsFiniteSet(UNION R)
  BY <1>2, <1>4, FS_UNION
<1> QED
  BY <1>5, FS_CardinalityType DEF WorkIn, Units, units

LEMMA WorkAdds ==
  ASSUME TypeOK, NEW S \in SUBSET nodes, NEW c \in nodes \ S
  PROVE  WorkIn(S \cup {c}) = WorkIn(S) + work[c]
<1> DEFINE one == {c} \X (1 .. work[c])
<1>1. /\ IsFiniteSet(Units(S)) /\ WorkIn(S) \in Nat /\ IsFiniteSet(one)
      /\ Cardinality(one) = work[c]
  BY UnitsFinite, UnitsOfOne
<1>2. Units(S \cup {c}) = Units(S) \cup one /\ Units(S) \cap one = {}
  BY DEF Units
<1>3. work[c] \in Nat
  BY DEF TypeOK
<1> HIDE DEF one
<1>4. Cardinality(Units(S) \cup one) =
        Cardinality(Units(S)) + Cardinality(one) - Cardinality(Units(S) \cap one)
  BY <1>1, FS_Union
<1>5. Cardinality(Units(S) \cap one) = 0
  BY <1>2, FS_EmptySet
<1>6. WorkIn(S \cup {c}) = Cardinality(Units(S) \cup one)
  BY <1>2, Zenon DEF WorkIn
<1>7. WorkIn(S) = Cardinality(Units(S))
  BY Zenon DEF WorkIn
<1> QED
  BY <1>1, <1>3, <1>4, <1>5, <1>6, <1>7

LEMMA WorkEmpty == WorkIn({}) = 0
<1>1. Units({}) = {}
  BY DEF Units
<1> QED
  BY <1>1, FS_EmptySet DEF WorkIn

-----------------------------------------------------------------------------
(***************************************************************************)
(* The two facts about the loop.                                           *)
(***************************************************************************)
LEMMA InitRInv == Init => RInv
<1> SUFFICES ASSUME Init PROVE RInv
  OBVIOUS
<1>1. IInv
  BY InitIInv
<1>2. nodes = {Genesis} /\ BlueSet(Genesis) = {} /\ blue_work[Genesis] = 0 /\ ins = Idle
  BY IdAssumption DEF Init, BlueSet
<1>3. WorkExact
  BY <1>2, WorkEmpty DEF WorkExact
<1>4. GreedySoFar
  BY <1>2 DEF GreedySoFar
<1> QED
  BY <1>1, <1>3, <1>4 DEF RInv

\* What a step of the loop leaves alone, and the operators that read it.
LEMMA LoopFrame ==
  ASSUME UNCHANGED dagVars
  PROVE  /\ \A S : WorkIn(S)' = WorkIn(S)
         /\ \A b : BlueSet(b)' = BlueSet(b)
         /\ \A S : IsKCluster(S)' <=> IsKCluster(S)
         /\ \A a, b : TopoKeyLess(a, b)' <=> TopoKeyLess(a, b)
         /\ (\A b \in nodes : blue_work[b] = WorkIn(BlueSet(b)))
              => (\A b \in nodes : blue_work[b] = WorkIn(BlueSet(b)))'
<1> USE DEF dagVars
<1>1. \A S : WorkIn(S)' = WorkIn(S)
  BY DEF WorkIn, Units
<1>2. \A b : BlueSet(b)' = BlueSet(b)
  BY DEF BlueSet
<1>3. \A S : IsKCluster(S)' <=> IsKCluster(S)
  BY DEF IsKCluster, BlueAnticoneIn, in_anticone, is_ancestor
<1>4. \A a, b : TopoKeyLess(a, b)' <=> TopoKeyLess(a, b)
  BY DEF TopoKeyLess
<1>5. ASSUME \A b \in nodes : blue_work[b] = WorkIn(BlueSet(b))
      PROVE  (\A b \in nodes : blue_work[b] = WorkIn(BlueSet(b)))'
  BY <1>1, <1>2, <1>5
<1> QED
  BY <1>1, <1>2, <1>3, <1>4, <1>5

\* The loop starts with the inherited blue set, its work, and no candidate
\* coloured.
LEMMA BeginRefined ==
  ASSUME RInv, NEW id \in Id, NEW ps \in SUBSET nodes, NEW w \in Work,
         Cardinality(ps) <= MaxParents, BeginInsert(id, ps, w)
  PROVE  WorkExact' /\ GreedySoFar'
<1> USE DEF RInv, IInv
<1>1. UNCHANGED dagVars /\ ps # {}
  BY DEF BeginInsert
<1>2. PICK s \in ps :
        /\ IsHeaviest(s, ps)
        /\ ins' = [id |-> id, parents |-> ps, work |-> w, sp |-> s,
                   todo |-> MergesetOf(s, ps), blues |-> {}, reds |-> {},
                   blue_work |-> SeedWork(s), sizes |-> SeedSizes(s)]
  BY DEF BeginInsert
<1>3. /\ ins'.parents = ps /\ ins'.blues = {} /\ ins'.reds = {}
      /\ ins'.blue_work = blue_work[s] + work[s]
      /\ DOMAIN ins'.sizes = BlueSet(s) \cup {s}
  BY <1>2 DEF SeedWork, SeedSizes
<1>4. BlueSet(s) \in SUBSET nodes /\ s \in nodes \ BlueSet(s)
  BY DEF ColourInv, PastOrder, TypeOK
<1>5. ins'.blue_work = WorkIn(DOMAIN ins'.sizes)
  BY <1>3, <1>4, WorkAdds DEF WorkExact
<1>6. WorkExact'
  BY <1>1, <1>5, LoopFrame DEF WorkExact
<1>7. GreedySoFar'
  BY <1>1, <1>3 DEF GreedySoFar, Coloured
<1> QED
  BY <1>6, <1>7

\* The next candidate comes after every block coloured so far, so that the blue
\* set it is tried with is that of the rule.
LEMMA CandidateIsNext ==
  ASSUME RInv, ins # Idle, NEW c \in ins.todo
  PROVE  /\ c \notin Coloured
         /\ BluesBefore(c) = ins.blues
         /\ \A x \in Coloured : ~TopoKeyLess(c, x)
         /\ BlueSet(ins.sp) \cup {ins.sp} \cup BluesBefore(c) = DOMAIN ins.sizes
<1> USE DEF RInv, IInv
<1>1. c \notin Coloured
  BY DEF InsInv, Coloured
<1>2. \A x \in Coloured : TopoKeyLess(x, c)
  BY DEF GreedySoFar
<1>3. BluesBefore(c) = ins.blues
  BY <1>2 DEF BluesBefore, Coloured
<1>4. ASSUME NEW x \in Coloured PROVE ~TopoKeyLess(c, x)
  <2>1. c \in nodes /\ x \in nodes
    BY InsTyped DEF Coloured
  <2>2. past_size[c] \in Nat /\ past_size[x] \in Nat /\ c \in Nat /\ x \in Nat
    BY <2>1, IdAssumption DEF TypeOK
  <2> QED
    BY <1>2, <1>4, <2>2 DEF TopoKeyLess
<1> QED
  BY <1>1, <1>3, <1>4 DEF InsInv

\* try_colour_blue is the k-cluster rule for the enlarged set.
LEMMA FitsIsCluster ==
  ASSUME RInv, ins # Idle, NEW c \in ins.todo
  PROVE  try_colour_blue(c) <=> IsKCluster(DOMAIN ins.sizes \cup {c})
<1> USE DEF RInv, IInv
<1> DEFINE A == DOMAIN ins.sizes
<1>1. c \in nodes \ A /\ A \in SUBSET nodes
  BY CandidateIsNew
<1>2. ASSUME try_colour_blue(c), NEW x \in A \cup {c}
      PROVE  Cardinality(BlueAnticoneIn(x, A \cup {c})) <= K
  <2>1. CASE x = c
    <3>1. AnticoneBlues(c) = BlueAnticoneIn(c, A \cup {c})
      BY <1>1, AnticoneCount DEF AnticoneBlues
    <3> QED
      BY <1>2, <2>1, <3>1 DEF try_colour_blue
  <2>2. CASE x \in A
    <3>1. ins.sizes[x] = Cardinality(BlueAnticoneIn(x, A)) /\ ins.sizes[x] <= K
      BY <2>2 DEF InsInv
    <3>2. CASE in_anticone(x, c)
      <4>1. Cardinality(BlueAnticoneIn(x, A \cup {c})) =
              Cardinality(BlueAnticoneIn(x, A)) + 1
        BY <1>1, <2>2, <3>2, AnticoneCount
      <4>2. ins.sizes[x] + 1 <= K
        BY <1>2, <2>2, <3>2 DEF try_colour_blue, AnticoneBlues
      <4> QED
        BY <3>1, <4>1, <4>2
    <3>3. CASE ~in_anticone(x, c)
      <4>1. Cardinality(BlueAnticoneIn(x, A \cup {c})) =
              Cardinality(BlueAnticoneIn(x, A))
        BY <1>1, <2>2, <3>3, AnticoneCount
      <4> QED
        BY <3>1, <4>1
    <3> QED
      BY <3>2, <3>3
  <2> QED
    BY <2>1, <2>2
<1>3. try_colour_blue(c) => IsKCluster(A \cup {c})
  BY <1>2 DEF IsKCluster
<1> QED
  BY <1>3, RefusedDoesNotFit

LEMMA ColourBlueRefined ==
  ASSUME RInv, ColourBlue
  PROVE  WorkExact' /\ GreedySoFar'
<1> USE DEF RInv, IInv
<1>1. UNCHANGED dagVars /\ ins # Idle
  BY DEF ColourBlue
<1>2. PICK c \in ins.todo :
        /\ IsNextCandidate(c) /\ try_colour_blue(c)
        /\ ins' = [ins EXCEPT !.todo = @ \ {c}, !.blues = @ \cup {c},
                              !.blue_work = @ + work[c], !.sizes = SizesWith(c)]
  BY DEF ColourBlue
<1>3. /\ ins'.parents = ins.parents /\ ins'.sp = ins.sp /\ ins'.reds = ins.reds
      /\ ins'.todo = ins.todo \ {c} /\ ins'.blues = ins.blues \cup {c}
      /\ ins'.blue_work = ins.blue_work + work[c]
      /\ DOMAIN ins'.sizes = DOMAIN ins.sizes \cup {c}
  <2>1. DOMAIN SizesWith(c) = DOMAIN ins.sizes \cup {c}
    BY DEF SizesWith
  <2> QED
    BY <1>1, <1>2, <2>1, InsTyped
<1>4. c \in nodes \ DOMAIN ins.sizes /\ DOMAIN ins.sizes \in SUBSET nodes
  BY <1>1, CandidateIsNew
<1>5. WorkExact'
  <2>1. ins.blue_work + work[c] = WorkIn(DOMAIN ins.sizes \cup {c})
    BY <1>1, <1>4, WorkAdds DEF WorkExact
  <2>2. ins'.blue_work = WorkIn(DOMAIN ins'.sizes)
    BY <1>3, <2>1
  <2> QED
    BY <1>1, <2>2, LoopFrame DEF WorkExact
<1>6. /\ c \notin Coloured /\ BluesBefore(c) = ins.blues
      /\ \A x \in Coloured : ~TopoKeyLess(c, x) /\ TopoKeyLess(x, c)
      /\ BlueSet(ins.sp) \cup {ins.sp} \cup BluesBefore(c) = DOMAIN ins.sizes
  BY <1>1, CandidateIsNext DEF GreedySoFar
<1>7. Coloured' = Coloured \cup {c}
  BY <1>3 DEF Coloured
<1>8. /\ BluesBefore(c)' = BluesBefore(c)
      /\ \A x \in Coloured : BluesBefore(x)' = BluesBefore(x)
  <2>1. ~TopoKeyLess(c, c)
    <3>1. past_size[c] \in Nat /\ c \in Nat
      BY <1>4, IdAssumption DEF TypeOK
    <3> QED
      BY <3>1 DEF TopoKeyLess
  <2>2. \A a, b : TopoKeyLess(a, b)' <=> TopoKeyLess(a, b)
    BY <1>1, LoopFrame
  <2>3. \A x : BluesBefore(x)' = {b \in ins.blues \cup {c} : TopoKeyLess(b, x)}
    BY <1>3, <2>2 DEF BluesBefore
  <2>4. \A x : ~TopoKeyLess(c, x) => BluesBefore(x)' = BluesBefore(x)
    BY <2>3 DEF BluesBefore
  <2> QED
    BY <1>6, <2>1, <2>4
<1>9. GreedySoFar'
  <2>1. \A x \in Coloured', t \in ins'.todo : TopoKeyLess(x, t)
    BY <1>1, <1>2, <1>3, <1>7 DEF GreedySoFar, IsNextCandidate
  <2>2. c \in ins'.blues /\ IsKCluster(BlueSet(ins.sp) \cup {ins.sp} \cup BluesBefore(c) \cup {c})
    BY <1>1, <1>2, <1>3, <1>6, FitsIsCluster
  <2>3. ASSUME NEW x \in Coloured
        PROVE  x \in ins'.blues <=>
                 IsKCluster(BlueSet(ins.sp) \cup {ins.sp} \cup BluesBefore(x) \cup {x})
    BY <1>1, <1>3, <1>6 DEF GreedySoFar
  <2>4. \A x \in Coloured' :
          x \in ins'.blues <=>
            IsKCluster(BlueSet(ins.sp) \cup {ins.sp} \cup BluesBefore(x)' \cup {x})
    BY <1>7, <1>8, <2>2, <2>3
  <2>5. ins'.parents # {} /\ Cardinality(ins'.parents) <= MaxParents
    BY <1>1, <1>3 DEF GreedySoFar
  <2>6. /\ \A S : IsKCluster(S)' <=> IsKCluster(S)
        /\ \A b : BlueSet(b)' = BlueSet(b)
        /\ \A a, b : TopoKeyLess(a, b)' <=> TopoKeyLess(a, b)
    BY <1>1, LoopFrame
  <2> QED
    BY <1>3, <2>1, <2>4, <2>5, <2>6 DEF GreedySoFar
<1> QED
  BY <1>5, <1>9

LEMMA ColourRedRefined ==
  ASSUME RInv, ColourRed
  PROVE  WorkExact' /\ GreedySoFar'
<1> USE DEF RInv, IInv
<1>1. UNCHANGED dagVars /\ ins # Idle
  BY DEF ColourRed
<1>2. PICK c \in ins.todo :
        /\ IsNextCandidate(c) /\ ~try_colour_blue(c)
        /\ ins' = [ins EXCEPT !.todo = @ \ {c}, !.reds = @ \cup {c}]
  BY DEF ColourRed
<1>3. /\ ins'.parents = ins.parents /\ ins'.sp = ins.sp /\ ins'.blues = ins.blues
      /\ ins'.todo = ins.todo \ {c} /\ ins'.reds = ins.reds \cup {c}
      /\ ins'.blue_work = ins.blue_work /\ ins'.sizes = ins.sizes
  BY <1>1, <1>2, InsTyped
<1>4. WorkExact'
  BY <1>1, <1>3, LoopFrame DEF WorkExact
<1>5. /\ c \notin Coloured /\ BluesBefore(c) = ins.blues
      /\ BlueSet(ins.sp) \cup {ins.sp} \cup BluesBefore(c) = DOMAIN ins.sizes
  BY <1>1, CandidateIsNext
<1>6. Coloured' = Coloured \cup {c} /\ c \notin ins'.blues
  BY <1>3, <1>5 DEF Coloured
<1>7. /\ \A S : IsKCluster(S)' <=> IsKCluster(S)
      /\ \A b : BlueSet(b)' = BlueSet(b)
      /\ \A a, b : TopoKeyLess(a, b)' <=> TopoKeyLess(a, b)
  BY <1>1, LoopFrame
<1>8. \A x : BluesBefore(x)' = BluesBefore(x)
  BY <1>3, <1>7 DEF BluesBefore
<1>9. GreedySoFar'
  <2>1. \A x \in Coloured', t \in ins'.todo : TopoKeyLess(x, t)
    BY <1>1, <1>2, <1>3, <1>6 DEF GreedySoFar, IsNextCandidate
  <2>2. ~IsKCluster(BlueSet(ins.sp) \cup {ins.sp} \cup BluesBefore(c) \cup {c})
    BY <1>1, <1>2, <1>5, FitsIsCluster
  <2>3. ASSUME NEW x \in Coloured
        PROVE  x \in ins'.blues <=>
                 IsKCluster(BlueSet(ins.sp) \cup {ins.sp} \cup BluesBefore(x) \cup {x})
    BY <1>1, <1>3 DEF GreedySoFar
  <2>4. \A x \in Coloured' :
          x \in ins'.blues <=>
            IsKCluster(BlueSet(ins.sp) \cup {ins.sp} \cup BluesBefore(x)' \cup {x})
    BY <1>6, <1>8, <2>2, <2>3
  <2>5. ins'.parents # {} /\ Cardinality(ins'.parents) <= MaxParents
    BY <1>1, <1>3 DEF GreedySoFar
  <2> QED
    BY <1>3, <1>7, <2>1, <2>4, <2>5 DEF GreedySoFar
<1> QED
  BY <1>4, <1>9

LEMMA CommitRefined ==
  ASSUME RInv, CommitInsert
  PROVE  WorkExact' /\ GreedySoFar'
<1> USE DEF RInv, IInv
<1>1. ins # Idle /\ ins' = Idle
  BY DEF CommitInsert
<1>2. /\ ins.id \in Id \ nodes /\ nodes' = nodes \cup {ins.id}
      /\ \A b \in nodes : b # ins.id /\ blue_work'[b] = blue_work[b]
                          /\ BlueSet(b)' = BlueSet(b)
  BY CommittedBlock, CommitFrame
<1>3. \A b \in nodes : work'[b] = work[b]
  BY <1>2 DEF CommitInsert, TypeOK
<1>4. \A S \in SUBSET nodes : WorkIn(S)' = WorkIn(S)
  <2> TAKE S \in SUBSET nodes
  <2>1. \A b \in S : work'[b] = work[b]
    BY <1>3
  <2>2. {{b} \X (1 .. work'[b]) : b \in S} = {{b} \X (1 .. work[b]) : b \in S}
    BY <2>1, Zenon
  <2> QED
    BY <2>2, Zenon DEF WorkIn, Units
<1>5. PICK i \in Id : i = ins.id
  BY <1>2
<1>6. PICK A \in SUBSET nodes : A = DOMAIN ins.sizes
  BY <1>1, InsTyped DEF IsSizeMap
<1>7. ASSUME NEW b \in nodes PROVE blue_work'[b] = WorkIn(BlueSet(b))'
  <2>1. BlueSet(b) \in SUBSET nodes
    BY DEF TypeOK, IsSizeMap, BlueSet
  <2>2. blue_work[b] = WorkIn(BlueSet(b))
    BY DEF WorkExact
  <2>3. WorkIn(BlueSet(b))' = WorkIn(BlueSet(b))
    <3>1. WorkIn(BlueSet(b)') = WorkIn(BlueSet(b))
      BY <1>2, Zenon
    <3> QED
      BY <1>2, <1>4, <2>1
  <2> QED
    BY <1>2, <2>2, <2>3
<1>8. blue_work'[i] = WorkIn(BlueSet(i))'
  <2>1. blue_work'[i] = ins.blue_work /\ blue_anticone_sizes'[i] = ins.sizes
    BY <1>5 DEF CommitInsert, TypeOK
  <2>2. BlueSet(i)' = A
    BY <1>6, <2>1 DEF BlueSet
  <2>3. ins.blue_work = WorkIn(A)
    BY <1>1, <1>6 DEF WorkExact
  <2>4. WorkIn(A)' = WorkIn(A)
    BY <1>4
  <2> QED
    BY <2>1, <2>2, <2>3, <2>4
<1>9. WorkExact'
  <2>1. nodes' = nodes \cup {i}
    BY <1>2, <1>5
  <2>2. (\A b \in nodes : blue_work[b] = WorkIn(BlueSet(b)))'
    BY <1>7, <1>8, <2>1
  <2> QED
    BY <1>1, <2>2 DEF WorkExact
<1>10. GreedySoFar'
  BY <1>1 DEF GreedySoFar
<1> QED
  BY <1>9, <1>10

(***************************************************************************)
(* The bookkeeping of the loop is exact and its colouring the greedy one,  *)
(* in every state.                                                         *)
(***************************************************************************)
LEMMA NextRInv == RInv /\ [Next]_vars => RInv'
<1> SUFFICES ASSUME RInv, [Next]_vars PROVE RInv'
  OBVIOUS
<1>1. IInv'
  BY NextIInv DEF RInv
<1> SUFFICES WorkExact' /\ GreedySoFar'
  BY <1>1 DEF RInv
<1>2. ASSUME NEW id \in Id, NEW ps \in SUBSET nodes, NEW w \in Work,
             Cardinality(ps) <= MaxParents, BeginInsert(id, ps, w)
      PROVE  WorkExact' /\ GreedySoFar'
  BY <1>2, BeginRefined
<1>3. CASE ColourBlue
  BY <1>3, ColourBlueRefined
<1>4. CASE ColourRed
  BY <1>4, ColourRedRefined
<1>5. CASE CommitInsert
  BY <1>5, CommitRefined
<1>6. CASE RejectInsert
  <2>1. UNCHANGED dagVars /\ ins' = Idle
    BY <1>6 DEF RejectInsert
  <2>2. WorkExact'
    BY <2>1, LoopFrame DEF RInv, WorkExact
  <2> QED
    BY <2>1, <2>2 DEF GreedySoFar
<1>7. CASE UNCHANGED vars
  <2>1. UNCHANGED dagVars /\ ins' = ins
    BY <1>7 DEF vars
  <2>2. WorkExact'
    BY <2>1, LoopFrame DEF RInv, WorkExact
  <2>3. GreedySoFar'
    <3>1. /\ \A S : IsKCluster(S)' <=> IsKCluster(S)
          /\ \A b : BlueSet(b)' = BlueSet(b)
          /\ \A a, b : TopoKeyLess(a, b)' <=> TopoKeyLess(a, b)
      BY <2>1, LoopFrame
    <3>2. Coloured' = Coloured /\ \A x : BluesBefore(x)' = BluesBefore(x)
      BY <2>1, <3>1 DEF Coloured, BluesBefore
    <3> QED
      BY <2>1, <3>1, <3>2 DEF RInv, GreedySoFar
  <2> QED
    BY <2>2, <2>3
<1> QED
  BY <1>2, <1>3, <1>4, <1>5, <1>6, <1>7 DEF Next

-----------------------------------------------------------------------------
(***************************************************************************)
(* The DAG as a value: what AtomicDag reads in it is what GhostDag has.    *)
(***************************************************************************)
LEMMA DagFields ==
  /\ DOMAIN dagValue.node = nodes /\ dagValue.tips = tips
  /\ \A b \in nodes :
       /\ dagValue.node[b].parents = parents[b]
       /\ dagValue.node[b].work = work[b]
       /\ dagValue.node[b].past = past[b]
       /\ dagValue.node[b].past_size = past_size[b]
       /\ dagValue.node[b].blue_score = blue_score[b]
       /\ dagValue.node[b].blue_work = blue_work[b]
       /\ dagValue.node[b].sizes = blue_anticone_sizes[b]
BY DEF dagValue

LEMMA SameCardinality == \A S : Atomic!Cardinality(S) = Cardinality(S)
BY Zenon DEF Atomic!Cardinality, Cardinality

LEMMA ValueCounts ==
  ASSUME NEW S \in SUBSET nodes
  PROVE  /\ \A x \in nodes : Atomic!AnticoneIn(dagValue, x, S) = BlueAnticoneIn(x, S)
         /\ Atomic!IsKCluster(dagValue, S) <=> IsKCluster(S)
         /\ Atomic!WorkOf(dagValue, S) = WorkIn(S)
<1>1. \A x \in nodes : Atomic!AnticoneIn(dagValue, x, S) = BlueAnticoneIn(x, S)
  <2> TAKE x \in nodes
  <2>1. \A y \in S : Atomic!in_anticone(dagValue, x, y) <=> in_anticone(x, y)
    BY DagFields DEF Atomic!in_anticone, in_anticone, is_ancestor
  <2> QED
    BY <2>1 DEF Atomic!AnticoneIn, BlueAnticoneIn
<1>2. Atomic!IsKCluster(dagValue, S) <=> IsKCluster(S)
  BY <1>1, SameCardinality DEF Atomic!IsKCluster, IsKCluster
<1>3. Atomic!WorkOf(dagValue, S) = WorkIn(S)
  <2>1. \A b \in S : dagValue.node[b].work = work[b]
    BY DagFields
  <2>2. {{b} \X (1 .. dagValue.node[b].work) : b \in S} = {{b} \X (1 .. work[b]) : b \in S}
    BY <2>1, Zenon
  <2> QED
    BY <2>2, SameCardinality, Zenon DEF Atomic!WorkOf, WorkIn, Units
<1> QED
  BY <1>1, <1>2, <1>3

LEMMA ValueKeys ==
  ASSUME NEW a \in nodes, NEW b \in nodes
  PROVE  /\ Atomic!TopoKeyLess(dagValue, a, b) <=> TopoKeyLess(a, b)
         /\ Atomic!ChainKeyLess(dagValue, a, b) <=> ChainKeyLess(a, b)
<1>1. Atomic!TopoKeyLess(dagValue, a, b) <=> TopoKeyLess(a, b)
  BY DagFields DEF Atomic!TopoKeyLess, TopoKeyLess
<1>2. Atomic!ChainKeyLess(dagValue, a, b) <=> ChainKeyLess(a, b)
  BY DagFields DEF Atomic!ChainKeyLess, ChainKeyLess
<1> QED
  BY <1>1, <1>2

LEMMA ValueAncestors ==
  ASSUME IInv, NEW ps \in SUBSET nodes, NEW s \in ps
  PROVE  /\ Atomic!Ancestors(dagValue, ps) = UNION {past[p] \cup {p} : p \in ps}
         /\ Atomic!Merged(dagValue, s, ps) = MergesetOf(s, ps)
         /\ Atomic!Inherited(dagValue, s) = BlueSet(s) \cup {s}
         /\ Atomic!IsHeaviest(dagValue, s, ps) <=> IsHeaviest(s, ps)
<1>1. \A p \in ps : dagValue.node[p].past = past[p]
  BY DagFields
<1>2. Atomic!Ancestors(dagValue, ps) = UNION {past[p] \cup {p} : p \in ps}
  BY <1>1 DEF Atomic!Ancestors
<1>3. MergesetOf(s, ps) = (UNION {past[p] \cup {p} : p \in ps}) \ (past[s] \cup {s})
  BY MergesetIsPast DEF IInv
<1>4. Atomic!Merged(dagValue, s, ps) = MergesetOf(s, ps)
  BY <1>1, <1>2, <1>3 DEF Atomic!Merged
<1>5. Atomic!Inherited(dagValue, s) = BlueSet(s) \cup {s}
  BY DagFields DEF Atomic!Inherited, BlueSet
<1>6. Atomic!IsHeaviest(dagValue, s, ps) <=> IsHeaviest(s, ps)
  BY ValueKeys DEF Atomic!IsHeaviest, IsHeaviest
<1> QED
  BY <1>2, <1>4, <1>5, <1>6

-----------------------------------------------------------------------------
(***************************************************************************)
(* When no candidate is left, the loop has found the colouring of the      *)
(* rule.                                                                   *)
(***************************************************************************)
LEMMA LoopFollowsRule ==
  ASSUME RInv, ins # Idle, ins.todo = {}
  PROVE  Atomic!IsColouring(dagValue, ins.parents, ins.sp, ins.blues)
<1> USE DEF RInv, IInv
<1>1. /\ ins.parents \in SUBSET nodes /\ ins.sp \in nodes /\ ins.blues \in SUBSET nodes
      /\ BlueSet(ins.sp) \in SUBSET nodes
  BY InsTyped DEF ColourInv, TypeOK
<1>2. IsHeaviest(ins.sp, ins.parents) /\ ins.sp \in ins.parents
  BY DEF InsInv, IsHeaviest
<1>3. ins.blues \cup ins.reds = MergesetOf(ins.sp, ins.parents)
  BY DEF InsInv
<1>4. /\ Atomic!Merged(dagValue, ins.sp, ins.parents) = Coloured
      /\ Atomic!Inherited(dagValue, ins.sp) = BlueSet(ins.sp) \cup {ins.sp}
      /\ Atomic!IsHeaviest(dagValue, ins.sp, ins.parents)
  BY <1>1, <1>2, <1>3, ValueAncestors DEF Coloured
<1>5. Coloured \subseteq nodes
  BY InsTyped DEF Coloured
<1>6. ASSUME NEW c \in Coloured
      PROVE  c \in ins.blues <=>
               Atomic!IsKCluster(dagValue,
                 (BlueSet(ins.sp) \cup {ins.sp})
                   \cup {b \in ins.blues : Atomic!TopoKeyLess(dagValue, b, c)} \cup {c})
  <2> DEFINE seed == BlueSet(ins.sp) \cup {ins.sp}
  <2>1. {b \in ins.blues : Atomic!TopoKeyLess(dagValue, b, c)} = BluesBefore(c)
    BY <1>1, <1>5, ValueKeys DEF BluesBefore
  <2>2. seed \cup BluesBefore(c) \cup {c} \in SUBSET nodes
    BY <1>1, <1>5 DEF BluesBefore
  <2>3. c \in ins.blues <=> IsKCluster(seed \cup BluesBefore(c) \cup {c})
    BY DEF GreedySoFar
  <2> HIDE DEF seed
  <2>4. c \in ins.blues <=> Atomic!IsKCluster(dagValue, seed \cup BluesBefore(c) \cup {c})
    BY <2>2, <2>3, ValueCounts
  <2> QED
    BY <2>1, <2>4 DEF seed
<1>7. Atomic!IsGreedy(dagValue, BlueSet(ins.sp) \cup {ins.sp}, Coloured, ins.blues)
  BY <1>6 DEF Atomic!IsGreedy
<1>8. ins.blues \subseteq Coloured
  BY DEF Coloured
<1> QED
  BY <1>4, <1>7, <1>8 DEF Atomic!IsColouring

(***************************************************************************)
(* What CommitInsert writes for the new block is the record of the rule.   *)
(***************************************************************************)
LEMMA CommitWritesRecord ==
  ASSUME RInv, CommitInsert,
         NEW i, NEW ps, NEW w, NEW s, NEW B,
         i = ins.id, ps = ins.parents, w = ins.work, s = ins.sp, B = ins.blues
  PROVE  [parents |-> parents'[i], work |-> work'[i], past |-> past'[i],
          past_size |-> past_size'[i], sp |-> selected_parent'[i],
          blues |-> mergeset_blues'[i], reds |-> mergeset_reds'[i],
          blue_score |-> blue_score'[i], blue_work |-> blue_work'[i],
          sizes |-> blue_anticone_sizes'[i]] = Atomic!NodeOf(dagValue, ps, w, s, B)
<1> USE DEF RInv, IInv
<1>1. ins # Idle /\ ins.todo = {} /\ i \in Id
  BY CommittedBlock DEF CommitInsert
<1>2. /\ ps \in SUBSET nodes /\ s \in ps /\ s \in nodes /\ i \in nodes'
  BY CommittedBlock DEF CommitInsert
<1>3. /\ Atomic!Ancestors(dagValue, ps) = UNION {past[p] \cup {p} : p \in ps}
      /\ Atomic!Merged(dagValue, s, ps) = MergesetOf(s, ps)
      /\ Atomic!Inherited(dagValue, s) = BlueSet(s) \cup {s}
  BY <1>2, ValueAncestors
<1> DEFINE A == BlueSet(s) \cup {s} \cup B
<1>4. A = DOMAIN ins.sizes /\ A \in SUBSET nodes
  BY <1>1, InsTyped DEF InsInv, IsSizeMap
<1>5. /\ parents'[i] = ps /\ work'[i] = w /\ selected_parent'[i] = s
      /\ mergeset_blues'[i] = B /\ mergeset_reds'[i] = ins.reds
      /\ blue_work'[i] = ins.blue_work /\ blue_anticone_sizes'[i] = ins.sizes
      /\ past'[i] = past[s] \cup {s} \cup B \cup ins.reds
  BY <1>1 DEF CommitInsert, TypeOK
<1>6. past'[i] = Atomic!Ancestors(dagValue, ps)
  BY <1>3, <1>5, CommittedBlock
<1>7. past_size'[i] = Cardinality(Atomic!Ancestors(dagValue, ps))
  <2>1. PastSizeExact' /\ BlueScoreExact'
    BY CommitInsertStep DEF ColourInv
  <2> QED
    BY <1>2, <1>6, <2>1 DEF PastSizeExact
<1>8. ins.reds = Atomic!Merged(dagValue, s, ps) \ B
  BY <1>1, <1>3 DEF InsInv
<1>9. blue_score'[i] = Cardinality(A)
  <2>1. BlueScoreExact'
    BY CommitInsertStep DEF ColourInv
  <2>2. BlueSet(i)' = A
    BY <1>4, <1>5 DEF BlueSet
  <2> QED
    BY <1>2, <2>1, <2>2 DEF BlueScoreExact
<1>10. ins.blue_work = Atomic!WorkOf(dagValue, A)
  <2>1. ins.blue_work = WorkIn(A)
    BY <1>1, <1>4 DEF WorkExact
  <2> QED
    BY <1>4, <2>1, ValueCounts
<1>11. ins.sizes = [x \in A |-> Atomic!Cardinality(Atomic!AnticoneIn(dagValue, x, A))]
  <2>1. \A x \in A : Atomic!AnticoneIn(dagValue, x, A) = BlueAnticoneIn(x, A)
    BY <1>4, ValueCounts
  <2>2. \A x \in A : ins.sizes[x] = Cardinality(BlueAnticoneIn(x, A))
    BY <1>1, <1>4 DEF InsInv
  <2>3. ins.sizes = [x \in A |-> ins.sizes[x]]
    BY <1>1, <1>4, InsTyped DEF IsSizeMap
  <2> HIDE DEF A
  <2>4. \A x \in A :
          ins.sizes[x] = Atomic!Cardinality(Atomic!AnticoneIn(dagValue, x, A))
    BY <2>1, <2>2, SameCardinality
  <2> QED
    BY <2>3, <2>4, Zenon
<1> HIDE DEF A
<1>12. Atomic!Inherited(dagValue, s) \cup B = A
  BY <1>3 DEF A
<1>13. Atomic!NodeOf(dagValue, ps, w, s, B) =
         [parents |-> ps, work |-> w, past |-> Atomic!Ancestors(dagValue, ps),
          past_size |-> Atomic!Cardinality(Atomic!Ancestors(dagValue, ps)), sp |-> s,
          blues |-> B, reds |-> Atomic!Merged(dagValue, s, ps) \ B,
          blue_score |-> Atomic!Cardinality(A), blue_work |-> Atomic!WorkOf(dagValue, A),
          sizes |-> [x \in A |-> Atomic!Cardinality(Atomic!AnticoneIn(dagValue, x, A))]]
  BY <1>12, Zenon DEF Atomic!NodeOf
<1> QED
  BY <1>5, <1>6, <1>7, <1>8, <1>9, <1>10, <1>11, <1>13, SameCardinality, Zenon

-----------------------------------------------------------------------------
(***************************************************************************)
(* CommitInsert is the atomic insertion.                                   *)
(***************************************************************************)
LEMMA CommitIsInsert ==
  ASSUME RInv, CommitInsert
  PROVE  Atomic!Next
<1> USE DEF RInv, IInv
<1>1. PICK i : i = ins.id
  OBVIOUS
<1>2. PICK ps : ps = ins.parents
  OBVIOUS
<1>3. PICK w : w = ins.work
  OBVIOUS
<1>4. PICK s : s = ins.sp
  OBVIOUS
<1>5. PICK B : B = ins.blues
  OBVIOUS
<1>6. /\ ins # Idle /\ ins.todo = {}
      /\ i \in Id \ nodes /\ ps \in SUBSET nodes /\ w \in Work /\ s \in ps
  BY <1>1, <1>2, <1>3, <1>4, InsTyped, CommittedBlock DEF CommitInsert
<1> DEFINE n == Atomic!NodeOf(dagValue, ps, w, s, B)
           old(b) == [parents |-> parents[b], work |-> work[b], past |-> past[b],
                      past_size |-> past_size[b], sp |-> selected_parent[b],
                      blues |-> mergeset_blues[b], reds |-> mergeset_reds[b],
                      blue_score |-> blue_score[b], blue_work |-> blue_work[b],
                      sizes |-> blue_anticone_sizes[b]]
           new(b) == [parents |-> parents'[b], work |-> work'[b], past |-> past'[b],
                      past_size |-> past_size'[b], sp |-> selected_parent'[b],
                      blues |-> mergeset_blues'[b], reds |-> mergeset_reds'[b],
                      blue_score |-> blue_score'[b], blue_work |-> blue_work'[b],
                      sizes |-> blue_anticone_sizes'[b]]
<1>7. new(i) = n
  BY <1>1, <1>2, <1>3, <1>4, <1>5, CommitWritesRecord
<1>8. n.parents = ps
  BY Zenon DEF Atomic!NodeOf
<1> HIDE DEF n
<1>9. \A b \in nodes : new(b) = old(b) /\ b # i
  <2> TAKE b \in nodes
  <2>1. b # i /\ b \in Id
    BY <1>6 DEF TypeOK
  <2>2. /\ parents'[b] = parents[b] /\ work'[b] = work[b] /\ past'[b] = past[b]
        /\ past_size'[b] = past_size[b] /\ selected_parent'[b] = selected_parent[b]
        /\ mergeset_blues'[b] = mergeset_blues[b] /\ mergeset_reds'[b] = mergeset_reds[b]
        /\ blue_score'[b] = blue_score[b] /\ blue_work'[b] = blue_work[b]
        /\ blue_anticone_sizes'[b] = blue_anticone_sizes[b]
    BY <1>1, <2>1 DEF CommitInsert, TypeOK
  <2> QED
    BY <2>1, <2>2
<1>10. dagValue = [tips |-> tips, node |-> [b \in nodes |-> old(b)]]
  BY Zenon DEF dagValue
<1>11. dagValue' = [tips |-> tips', node |-> [b \in nodes' |-> new(b)]]
  BY Zenon DEF dagValue
<1>12. nodes' = nodes \cup {i} /\ tips' = (tips \ ps) \cup {i}
  BY <1>1, <1>2 DEF CommitInsert, TipsWithNew
<1>13. \A b \in nodes : dagValue.node[b] = old(b)
  BY <1>10
<1> HIDE DEF new, old
<1>14. [b \in nodes' |-> new(b)] =
         [b \in nodes \cup {i} |-> IF b = i THEN n ELSE dagValue.node[b]]
  BY <1>7, <1>9, <1>12, <1>13
<1>15. Atomic!Nodes(dagValue) = nodes /\ dagValue.tips = tips
  BY DagFields DEF Atomic!Nodes
<1>16. dagValue' = Atomic!With(dagValue, i, n)
  BY <1>8, <1>11, <1>12, <1>14, <1>15 DEF Atomic!With
<1>17. Atomic!IsColouring(dagValue, ps, s, B)
  BY <1>2, <1>4, <1>5, <1>6, LoopFollowsRule
<1>18. B \in SUBSET Atomic!Merged(dagValue, s, ps)
  BY <1>17 DEF Atomic!IsColouring
<1>19. i \notin Atomic!Nodes(dagValue) /\ ps \in SUBSET Atomic!Nodes(dagValue)
  BY <1>6, <1>15
<1>20. ps # {} /\ Atomic!Cardinality(ps) <= MaxParents
  BY <1>2, <1>6, SameCardinality DEF GreedySoFar
<1>21. Atomic!Insert(i, ps, w)
  BY <1>6, <1>16, <1>17, <1>18, <1>19, <1>20 DEF Atomic!Insert, n
<1> QED
  BY <1>6, <1>19, <1>21 DEF Atomic!Next

LEMMA InitIsNewDag == Init => Atomic!Init
<1> SUFFICES ASSUME Init PROVE Atomic!Init
  OBVIOUS
<1>1. PICK w \in Work : work = [b \in Id |-> IF b = Genesis THEN w ELSE 0]
  BY DEF Init
<1> DEFINE rec(b) == [parents |-> parents[b], work |-> work[b], past |-> past[b],
                      past_size |-> past_size[b], sp |-> selected_parent[b],
                      blues |-> mergeset_blues[b], reds |-> mergeset_reds[b],
                      blue_score |-> blue_score[b], blue_work |-> blue_work[b],
                      sizes |-> blue_anticone_sizes[b]]
<1>2. rec(Genesis) = Atomic!GenesisNode(w)
  BY <1>1, IdAssumption DEF Init, Atomic!GenesisNode
<1>3. dagValue = [tips |-> tips, node |-> [b \in nodes |-> rec(b)]]
  BY Zenon DEF dagValue
<1> HIDE DEF rec
<1>4. [b \in {Genesis} |-> rec(b)] = [b \in {Genesis} |-> Atomic!GenesisNode(w)]
  BY <1>2
<1>5. tips = {Genesis} /\ nodes = {Genesis}
  BY DEF Init
<1>6. dagValue = Atomic!NewDag(w)
  BY <1>3, <1>4, <1>5, Zenon DEF Atomic!NewDag
<1> QED
  BY <1>1, <1>6 DEF Atomic!Init

\* Every step is an atomic insertion or leaves the DAG as it is.
LEMMA StepRefined == RInv /\ [Next]_vars => [Atomic!Next]_dagValue
<1> SUFFICES ASSUME RInv, [Next]_vars PROVE Atomic!Next \/ dagValue' = dagValue
  OBVIOUS
<1>1. ASSUME UNCHANGED dagVars PROVE dagValue' = dagValue
  BY <1>1, Zenon DEF dagVars, dagValue
<1>2. ASSUME NEW id \in Id, NEW ps \in SUBSET nodes, NEW w \in Work, BeginInsert(id, ps, w)
      PROVE  UNCHANGED dagVars
  BY <1>2 DEF BeginInsert
<1>3. ColourBlue \/ ColourRed \/ RejectInsert \/ UNCHANGED vars => UNCHANGED dagVars
  BY DEF ColourBlue, ColourRed, RejectInsert, vars
<1>4. CommitInsert => Atomic!Next
  BY CommitIsInsert
<1> QED
  BY <1>1, <1>2, <1>3, <1>4 DEF Next

(***************************************************************************)
(* GhostDag implements AtomicDag: what Dag::insert leaves behind for every *)
(* block, after its walk, its copied counts and its loop of candidates, is *)
(* the record that GHOSTDAG's rule asks for, whatever k, the works, the    *)
(* shape of the DAG and the blocks refused on the way.  With NodesAgree of *)
(* ReplicasProofs: nodes that accepted the same blocks, in any order,      *)
(* record the same.                                                        *)
(***************************************************************************)
THEOREM RefinesAtomicDag == Spec => ImplementsAtomicDag
<1>1. Spec => []RInv
  BY InitRInv, NextRInv, PTL DEF Spec
<1> QED
  BY <1>1, InitIsNewDag, StepRefined, PTL DEF Spec, ImplementsAtomicDag, Atomic!Spec

=============================================================================
