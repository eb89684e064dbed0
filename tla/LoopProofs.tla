----------------------------- MODULE LoopProofs -----------------------------
(***************************************************************************)
(* What the library's folds compute, for any loop body and any summand:    *)
(* FoldLeft runs the body over the places of a sequence, one after the     *)
(* other, and MapThenSumSet counts every member of a finite set once.      *)
(*                                                                         *)
(* The body `op' and the summand `val' are constants here, because the     *)
(* provers do not instantiate an operator a theorem is about: a module     *)
(* that needs the facts for its own loop makes an INSTANCE of this one.    *)
(***************************************************************************)
EXTENDS Integers, Sequences, FiniteSetsExt, FiniteSetTheorems, TLAPS

CONSTANTS op(_, _, _, _),  \* the body: two parameters, accumulator, element
          val(_, _)        \* the summand: a parameter, member

-----------------------------------------------------------------------------
(***************************************************************************)
(* A finite family of sets has a minimal member, a set of numbers a least. *)
(***************************************************************************)
LEMMA HasMinimal ==
  ASSUME NEW S, IsFiniteSet(S), NEW F \in SUBSET SUBSET S, F # {}
  PROVE  \E U \in F : \A V \in F : V \subseteq U => V = U
<1> DEFINE R == StrictSubsetOrdering(S)
<1>1. IsWellFoundedOn(R, SUBSET S)
  <2>1. \A X : IsFiniteSet(X) => IsWellFoundedOn(StrictSubsetOrdering(X), SUBSET X)
    BY FS_FiniteSubsetsOfFinite, FS_StrictSubsetOrderingWellFounded
  <2> QED
    BY <2>1
<1>2. PICK U \in F : \A V \in F : <<V, U>> \notin R
  <2> HIDE DEF R
  <2> QED
    BY <1>1, WFMin
<1> QED
  BY <1>2 DEF StrictSubsetOrdering

\* A set of numbers has a least one.
LEMMA NatLeast ==
  ASSUME NEW B \in SUBSET Nat, B # {}
  PROVE  \E n \in B : \A m \in B : n <= m
<1>1. PICK k \in B : TRUE
  OBVIOUS
<1> DEFINE F == {0 .. n : n \in {m \in B : m <= k}}
<1>2. IsFiniteSet(0 .. k)
  <2>1. \A n \in Int : IsFiniteSet(0 .. n)
    BY FS_Interval
  <2> QED
    BY <2>1
<1>3. F \in SUBSET SUBSET (0 .. k) /\ F # {}
  BY <1>1
<1>4. PICK U \in F : \A V \in F : V \subseteq U => V = U
  <2> DEFINE I == 0 .. k
  <2> HIDE DEF F
  <2>1. IsFiniteSet(I) /\ F \in SUBSET SUBSET I /\ F # {}
    BY <1>2, <1>3
  <2> HIDE DEF I
  <2>2. \A G \in SUBSET SUBSET I : G # {} => \E U \in G : \A V \in G : V \subseteq U => V = U
    BY <2>1, HasMinimal
  <2> QED
    BY <2>1, <2>2
<1>5. PICK n \in B : n <= k /\ U = 0 .. n
  BY <1>4
<1>6. ASSUME NEW m \in B, m < n PROVE FALSE
  <2>1. 0 .. m \in F
    BY <1>5, <1>6
  <2>2. 0 .. m \subseteq U /\ n \in U /\ n \notin 0 .. m
    BY <1>5, <1>6
  <2> QED
    BY <1>4, <2>1, <2>2
<1> QED
  BY <1>5, <1>6

\* Induction over the numbers up to n, from 0.
LEMMA NatUpTo ==
  ASSUME NEW n \in Nat, NEW Good, 0 \in Good,
         \A i \in 1 .. n : i - 1 \in Good => i \in Good
  PROVE  \A i \in 0 .. n : i \in Good
<1> DEFINE Bad == {i \in 0 .. n : i \notin Good}
<1> SUFFICES ASSUME Bad # {} PROVE FALSE
  OBVIOUS
<1>1. PICK i \in Bad : \A j \in Bad : i <= j
  <2>1. Bad \in SUBSET Nat
    OBVIOUS
  <2> HIDE DEF Bad
  <2> QED
    BY <2>1, NatLeast
<1>2. i \in 1 .. n /\ i - 1 \in 0 .. n /\ i - 1 < i
  BY <1>1
<1>3. i - 1 \in Good
  BY <1>1, <1>2
<1> QED
  BY <1>1, <1>2, <1>3

-----------------------------------------------------------------------------
(***************************************************************************)
(* The loop.                                                               *)
(***************************************************************************)
Run(c, d, base, q) ==
  MapThenFoldSet(LAMBDA x, acc : op(c, d, acc, x), base,
                 LAMBDA i : q[i], LAMBDA S : Max(S), DOMAIN q)

\* f has the accumulator after each iteration.
IsLoop(c, d, base, n, q, f) ==
  f = [i \in 0 .. n |-> IF i = 0 THEN base ELSE op(c, d, f[i - 1], q[i])]

\* What FoldLeft iterates: the recursion over the sets of places.
IsIter(c, d, base, n, q, it) ==
  it = [s \in SUBSET (1 .. n) |->
          IF s = {} THEN base ELSE op(c, d, it[s \ {Max(s)}], q[Max(s)])]

\* The greatest of a set of places.
LEMMA MaxIs ==
  ASSUME NEW k \in Nat, NEW s \in SUBSET (1 .. k), k \in s
  PROVE  Max(s) = k
<1>1. \A y \in s : k >= y
  OBVIOUS
<1>2. \A x \in s : (\A y \in s : x >= y) => x = k
  OBVIOUS
<1> QED
  BY <1>1, <1>2 DEF Max

\* The recursion over sets of places is defined.
LEMMA IterExists ==
  ASSUME NEW c, NEW d, NEW base, NEW n \in Nat, NEW q
  PROVE  \E it : IsIter(c, d, base, n, q, it)
<1> DEFINE S == SUBSET (1 .. n)
           Next(it, s) == IF s = {} THEN base ELSE op(c, d, it[s \ {Max(s)}], q[Max(s)])
           UpTo(k, it) == /\ it = [s \in S |-> it[s]]
                          /\ \A s \in S \cap SUBSET (1 .. k) : it[s] = Next(it, s)
           Good == {k \in Nat : \E it : UpTo(k, it)}
<1>1. 0 \in Good
  <2> DEFINE it == [s \in S |-> base]
  <2>1. UpTo(0, it)
    OBVIOUS
  <2> QED
    BY <2>1
<1>2. ASSUME NEW k \in 1 .. n, k - 1 \in Good PROVE k \in Good
  <2>1. PICK it : UpTo(k - 1, it)
    BY <1>2
  <2> DEFINE ju == [s \in S |-> IF s \in SUBSET (1 .. k - 1) THEN it[s] ELSE Next(it, s)]
  <2>2. ASSUME NEW s \in S \cap SUBSET (1 .. k) PROVE ju[s] = Next(ju, s)
    <3>1. CASE s \in SUBSET (1 .. k - 1)
      <4>1. s \ {Max(s)} \in S \cap SUBSET (1 .. k - 1)
        BY <3>1
      <4>2. ju[s] = it[s] /\ ju[s \ {Max(s)}] = it[s \ {Max(s)}]
        BY <3>1, <4>1
      <4> HIDE DEF ju
      <4> QED
        BY <2>1, <3>1, <4>2
    <3>2. CASE s \notin SUBSET (1 .. k - 1)
      <4>1. k \in s
        BY <3>2
      <4>2. Max(s) = k
        BY <4>1, MaxIs
      <4>3. s \ {Max(s)} \in S \cap SUBSET (1 .. k - 1)
        BY <4>2
      <4>4. ju[s] = Next(it, s) /\ ju[s \ {Max(s)}] = it[s \ {Max(s)}]
        BY <3>2, <4>3
      <4> HIDE DEF ju
      <4> QED
        BY <4>4
    <3> QED
      BY <3>1, <3>2
  <2>3. ju = [s \in S |-> ju[s]]
    OBVIOUS
  <2>4. UpTo(k, ju)
    <3> HIDE DEF ju
    <3> QED
      BY <2>2, <2>3
  <2>5. k \in Nat
    OBVIOUS
  <2> HIDE DEF ju, UpTo
  <2> QED
    BY <2>4, <2>5
<1>3. n \in Good
  <2>0. n \in 0 .. n
    OBVIOUS
  <2> HIDE DEF Good
  <2> QED
    BY <1>1, <1>2, <2>0, NatUpTo
<1>4. PICK it : UpTo(n, it)
  BY <1>3
<1>5. it = [s \in S |-> Next(it, s)]
  <2>1. \A s \in S : it[s] = Next(it, s)
    BY <1>4
  <2> HIDE DEF Next
  <2> QED
    BY <1>4, <2>1
<1> QED
  BY <1>5, Zenon DEF IsIter

\* FoldLeft is the loop: each iteration is the body on the one before.
LEMMA LoopRuns ==
  ASSUME NEW c, NEW d, NEW base, NEW n \in Nat, NEW q, DOMAIN q = 1 .. n
  PROVE  \E f : IsLoop(c, d, base, n, q, f) /\ Run(c, d, base, q) = f[n]
<1> DEFINE W == CHOOSE it : IsIter(c, d, base, n, q, it)
           f == [i \in 0 .. n |-> W[1 .. i]]
<1>1. Run(c, d, base, q) = W[1 .. n]
  BY Zenon DEF Run, MapThenFoldSet, IsIter
<1>2. IsIter(c, d, base, n, q, W)
  BY IterExists, Zenon
<1> HIDE DEF W
<1>3. \A s \in SUBSET (1 .. n) :
        W[s] = IF s = {} THEN base ELSE op(c, d, W[s \ {Max(s)}], q[Max(s)])
  BY <1>2 DEF IsIter
<1>4. W[1 .. 0] = base
  <2>1. 1 .. 0 = {}
    OBVIOUS
  <2> QED
    BY <1>3, <2>1
<1>5. ASSUME NEW i \in 1 .. n PROVE W[1 .. i] = op(c, d, W[1 .. i - 1], q[i])
  <2>1. Max(1 .. i) = i
    BY MaxIs
  <2>2. (1 .. i) \ {i} = 1 .. i - 1 /\ 1 .. i \in SUBSET (1 .. n) /\ 1 .. i # {}
    OBVIOUS
  <2> QED
    BY <1>3, <2>1, <2>2
<1>6. \A i \in 0 .. n : f[i] = IF i = 0 THEN base ELSE op(c, d, f[i - 1], q[i])
  <2> TAKE i \in 0 .. n
  <2>1. CASE i = 0
    BY <1>4, <2>1
  <2>2. CASE i # 0
    <3>1. i \in 1 .. n /\ i - 1 \in 0 .. n
      BY <2>2
    <3> QED
      BY <1>5, <2>2, <3>1
  <2> QED
    BY <2>1, <2>2
<1>7. f = [i \in 0 .. n |-> f[i]] /\ f[n] = W[1 .. n]
  OBVIOUS
<1> HIDE DEF f
<1>8. IsLoop(c, d, base, n, q, f)
  BY <1>6, <1>7 DEF IsLoop
<1> QED
  BY <1>1, <1>7, <1>8

\* A loop over nothing returns what it starts from.
LEMMA RunEmpty ==
  ASSUME NEW c, NEW d, NEW base
  PROVE  Run(c, d, base, <<>>) = base
<1>1. DOMAIN <<>> = 1 .. 0
  OBVIOUS
<1>2. PICK f : IsLoop(c, d, base, 0, <<>>, f) /\ Run(c, d, base, <<>>) = f[0]
  BY <1>1, LoopRuns
<1> QED
  BY <1>2 DEF IsLoop

\* Of two loops over the same places, each iteration agrees.
LEMMA LoopUnique ==
  ASSUME NEW c, NEW d, NEW base, NEW n \in Nat, NEW m \in n .. n + 1, NEW q, NEW r,
         \A i \in 1 .. n : r[i] = q[i],
         NEW f, IsLoop(c, d, base, n, q, f), NEW g, IsLoop(c, d, base, m, r, g)
  PROVE  \A i \in 0 .. n : g[i] = f[i]
<1> DEFINE Good == {i \in 0 .. n : g[i] = f[i]}
<1>1. 0 \in Good
  BY DEF IsLoop
<1>2. ASSUME NEW i \in 1 .. n, i - 1 \in Good PROVE i \in Good
  <2>1. i \in 0 .. n /\ i \in 0 .. m /\ i # 0
    OBVIOUS
  <2>2. f[i] = op(c, d, f[i - 1], q[i]) /\ g[i] = op(c, d, g[i - 1], r[i])
    BY <2>1 DEF IsLoop
  <2> QED
    BY <1>2, <2>1, <2>2
<1>3. \A i \in 0 .. n : i \in Good
  <2> HIDE DEF Good
  <2> QED
    BY <1>1, <1>2, NatUpTo
<1> QED
  BY <1>3

\* The first k of q.
FirstOf(r, k, q) == DOMAIN r = 1 .. k /\ \A i \in 1 .. k : r[i] = q[i]

\* A run over a prefix.
LEMMA PrefixRuns ==
  ASSUME NEW c, NEW d, NEW base, NEW n \in Nat, NEW q, NEW f, IsLoop(c, d, base, n, q, f),
         NEW k \in 0 .. n, NEW r, FirstOf(r, k, q)
  PROVE  Run(c, d, base, r) = f[k]
<1>1. k \in Nat /\ DOMAIN r = 1 .. k /\ \A i \in 1 .. k : r[i] = q[i]
  BY DEF FirstOf
<1>2. PICK g : IsLoop(c, d, base, k, r, g) /\ Run(c, d, base, r) = g[k]
  BY <1>1, LoopRuns
<1> DEFINE Good == {i \in 0 .. k : g[i] = f[i]}
<1>3. 0 \in Good
  BY <1>2 DEF IsLoop
<1>4. ASSUME NEW i \in 1 .. k, i - 1 \in Good PROVE i \in Good
  <2>1. i \in 0 .. n /\ i \in 0 .. k /\ i # 0
    OBVIOUS
  <2>2. f[i] = op(c, d, f[i - 1], q[i]) /\ g[i] = op(c, d, g[i - 1], r[i])
    BY <1>2, <2>1 DEF IsLoop
  <2> QED
    BY <1>1, <1>4, <2>1, <2>2
<1>5. \A i \in 0 .. k : i \in Good
  <2> HIDE DEF Good
  <2> QED
    BY <1>1, <1>3, <1>4, NatUpTo
<1> QED
  BY <1>1, <1>2, <1>5

\* One element more is one iteration more.
LEMMA RunAppend ==
  ASSUME NEW c, NEW d, NEW base, NEW X, NEW q \in Seq(X), NEW x \in X
  PROVE  Run(c, d, base, Append(q, x)) = op(c, d, Run(c, d, base, q), x)
<1> DEFINE n == Len(q)
           r == Append(q, x)
<1>1. n \in Nat /\ DOMAIN q = 1 .. n /\ DOMAIN r = 1 .. n + 1
      /\ r[n + 1] = x /\ \A i \in 1 .. n : r[i] = q[i]
  OBVIOUS
<1> HIDE DEF n, r
<1>2. PICK f : IsLoop(c, d, base, n, q, f) /\ Run(c, d, base, q) = f[n]
  BY <1>1, LoopRuns
<1> DEFINE m == n + 1
<1>3. m \in Nat /\ m \in n .. n + 1 /\ n \in 0 .. n /\ m \in 0 .. m /\ m # 0 /\ m - 1 = n
  BY <1>1
<1>4. DOMAIN r = 1 .. m /\ r[m] = x
  BY <1>1
<1> HIDE DEF m
<1>5. PICK g : IsLoop(c, d, base, m, r, g) /\ Run(c, d, base, r) = g[m]
  BY <1>3, <1>4, LoopRuns
<1>6. \A i \in 0 .. n : g[i] = f[i]
  <2>1. /\ n \in Nat /\ m \in n .. n + 1 /\ \A i \in 1 .. n : r[i] = q[i]
        /\ IsLoop(c, d, base, n, q, f) /\ IsLoop(c, d, base, m, r, g)
    BY <1>1, <1>2, <1>3, <1>5
  <2> QED
    BY <2>1, LoopUnique
<1>7. g[m] = op(c, d, g[m - 1], r[m])
  BY <1>3, <1>5 DEF IsLoop
<1> QED
  BY <1>2, <1>3, <1>4, <1>5, <1>6, <1>7 DEF r

\* Two loops whose iterations agree at every place return the same.
LEMMA RunSame ==
  ASSUME NEW c, NEW d, NEW c2, NEW d2, NEW base, NEW n \in Nat, NEW q, DOMAIN q = 1 .. n,
         \A i \in 1 .. n : \A acc : op(c2, d2, acc, q[i]) = op(c, d, acc, q[i])
  PROVE  Run(c2, d2, base, q) = Run(c, d, base, q)
<1>1. PICK f : IsLoop(c, d, base, n, q, f) /\ Run(c, d, base, q) = f[n]
  BY LoopRuns
<1>2. PICK g : IsLoop(c2, d2, base, n, q, g) /\ Run(c2, d2, base, q) = g[n]
  BY LoopRuns
<1> DEFINE Good == {i \in 0 .. n : g[i] = f[i]}
<1>3. 0 \in Good
  BY <1>1, <1>2 DEF IsLoop
<1>4. ASSUME NEW i \in 1 .. n, i - 1 \in Good PROVE i \in Good
  <2>1. i \in 0 .. n /\ i # 0
    OBVIOUS
  <2>2. f[i] = op(c, d, f[i - 1], q[i]) /\ g[i] = op(c2, d2, g[i - 1], q[i])
    BY <1>1, <1>2, <2>1 DEF IsLoop
  <2> QED
    BY <1>4, <2>1, <2>2
<1>5. \A i \in 0 .. n : i \in Good
  <2> HIDE DEF Good
  <2> QED
    BY <1>3, <1>4, NatUpTo
<1> QED
  BY <1>1, <1>2, <1>5

\* A run over two sequences is one run after the other.
LEMMA RunConcat ==
  ASSUME NEW c, NEW d, NEW base, NEW X, NEW q \in Seq(X), NEW r \in Seq(X)
  PROVE  Run(c, d, base, q \o r) = Run(c, d, Run(c, d, base, q), r)
<1> DEFINE n == Len(q)
           m == Len(r)
           t == q \o r
<1>1. /\ n \in Nat /\ m \in Nat /\ DOMAIN q = 1 .. n /\ DOMAIN r = 1 .. m
      /\ n + m \in Nat /\ DOMAIN t = 1 .. n + m
      /\ \A i \in 1 .. n : t[i] = q[i]
      /\ \A i \in 1 .. m : t[n + i] = r[i]
  OBVIOUS
<1> HIDE DEF n, m, t
<1> DEFINE k == n + m
<1>2. PICK f : IsLoop(c, d, base, k, t, f) /\ Run(c, d, base, t) = f[k]
  BY <1>1, LoopRuns
<1>3. Run(c, d, base, q) = f[n]
  <2>1. n \in 0 .. k /\ FirstOf(q, n, t)
    BY <1>1 DEF FirstOf
  <2> HIDE DEF k
  <2> QED
    BY <1>1, <1>2, <2>1, PrefixRuns DEF k
<1> DEFINE start == Run(c, d, base, q)
<1>4. PICK g : IsLoop(c, d, start, m, r, g) /\ Run(c, d, start, r) = g[m]
  <2> HIDE DEF start
  <2> QED
    BY <1>1, LoopRuns
<1> DEFINE Good == {i \in 0 .. m : g[i] = f[n + i]}
<1>5. 0 \in Good
  BY <1>1, <1>3, <1>4 DEF IsLoop
<1>6. ASSUME NEW i \in 1 .. m, i - 1 \in Good PROVE i \in Good
  <2>1. /\ i \in 0 .. m /\ i # 0 /\ n + i \in 0 .. k /\ n + i # 0
        /\ (n + i) - 1 = n + (i - 1) /\ t[n + i] = r[i]
    BY <1>1
  <2>2. f[n + i] = op(c, d, f[(n + i) - 1], t[n + i]) /\ g[i] = op(c, d, g[i - 1], r[i])
    BY <1>2, <1>4, <2>1 DEF IsLoop
  <2> QED
    BY <1>6, <2>1, <2>2
<1>7. \A i \in 0 .. m : i \in Good
  <2> HIDE DEF Good
  <2> QED
    BY <1>1, <1>5, <1>6, NatUpTo
<1> QED
  BY <1>1, <1>2, <1>4, <1>7 DEF t

-----------------------------------------------------------------------------
(***************************************************************************)
(* The sum.  f[x] units stand for a member x, and the sum counts the units *)
(* of all members, whatever order the fold takes them in.                  *)
(***************************************************************************)
Units(f, S) == UNION {{x} \X (1 .. f[x]) : x \in S}

Count(f, S) == Cardinality(Units(f, S))

Valued(f, S) == IsFiniteSet(S) /\ \A x \in S : f[x] \in Nat

\* Finitely many members have finitely many units.
LEMMA CountIs ==
  ASSUME NEW f, NEW S, Valued(f, S)
  PROVE  IsFiniteSet(Units(f, S)) /\ Count(f, S) \in Nat
<1> DEFINE units(b) == {b} \X (1 .. f[b])
           g == [b \in S |-> units(b)]
           R == {units(b) : b \in S}
<1>1. \A b \in S : IsFiniteSet(units(b))
  <2> TAKE b \in S
  <2>1. f[b] \in Nat
    BY DEF Valued
  <2>2. IsFiniteSet(1 .. f[b]) /\ IsFiniteSet({b})
    <3>1. \A k \in Nat : IsFiniteSet(1 .. k)
      BY FS_Interval
    <3> QED
      BY <2>1, <3>1, FS_Singleton
  <2> QED
    BY <2>2, FS_Product
<1>2. Units(f, S) = UNION R
  BY Zenon DEF Units, units
<1> HIDE DEF units
<1>3. g \in Surjection(S, R)
  BY DEF Surjection
<1>4. IsFiniteSet(R)
  BY <1>3, FS_Surjection DEF Valued
<1>5. IsFiniteSet(UNION R)
  BY <1>1, <1>4, FS_UNION
<1> QED
  BY <1>2, <1>5, FS_CardinalityType DEF Count

\* A subset has no more units.
LEMMA CountSubset ==
  ASSUME NEW f, NEW S, Valued(f, S), NEW R \in SUBSET S
  PROVE  Valued(f, R) /\ Count(f, R) <= Count(f, S)
<1>1. Valued(f, R)
  BY FS_Subset DEF Valued
<1>2. Units(f, R) \subseteq Units(f, S) /\ IsFiniteSet(Units(f, S))
  BY CountIs DEF Units
<1> QED
  BY <1>1, <1>2, FS_Subset DEF Count

\* Disjoint sets have the units of both.
LEMMA CountUnion ==
  ASSUME NEW f, NEW S, NEW T, Valued(f, S), Valued(f, T), S \cap T = {}
  PROVE  Valued(f, S \cup T) /\ Count(f, S \cup T) = Count(f, S) + Count(f, T)
<1> DEFINE U == Units(f, S)
           V == Units(f, T)
<1>1. IsFiniteSet(U) /\ IsFiniteSet(V) /\ Cardinality(U) \in Nat /\ Cardinality(V) \in Nat
  BY CountIs DEF Count
<1>2. Units(f, S \cup T) = U \cup V /\ U \cap V = {}
  BY DEF Units
<1>3. Valued(f, S \cup T)
  BY FS_Union DEF Valued
<1> HIDE DEF U, V
<1>4. Cardinality(U \cup V) = Cardinality(U) + Cardinality(V) - Cardinality(U \cap V)
  BY <1>1, FS_Union
<1>5. Cardinality(U \cap V) = 0
  BY <1>2, FS_EmptySet
<1> QED
  BY <1>1, <1>2, <1>3, <1>4, <1>5 DEF Count, U, V

\* One member more adds its value.
LEMMA CountAdds ==
  ASSUME NEW f, NEW S, Valued(f, S), NEW c, c \notin S, f[c] \in Nat
  PROVE  Valued(f, S \cup {c}) /\ Count(f, S \cup {c}) = Count(f, S) + f[c]
<1> DEFINE R == {c}
           k == f[c]
<1>1. Valued(f, R)
  BY FS_Singleton DEF Valued
<1>2. Count(f, R) = k
  <2>1. Units(f, R) = R \X (1 .. k)
    BY DEF Units
  <2>2. IsFiniteSet(R) /\ Cardinality(R) = 1
    BY FS_Singleton
  <2> HIDE DEF R
  <2>3. IsFiniteSet(1 .. k) /\ Cardinality(1 .. k) = k
    <3>1. \A n \in Nat : IsFiniteSet(1 .. n) /\ Cardinality(1 .. n) = n
      BY FS_Interval
    <3> QED
      BY <3>1
  <2>4. Cardinality(R \X (1 .. k)) = 1 * k
    <3> DEFINE I == 1 .. k
    <3>1. IsFiniteSet(I) /\ Cardinality(I) = k
      BY <2>3
    <3> HIDE DEF I, k
    <3>2. Cardinality(R \X I) = Cardinality(R) * Cardinality(I)
      BY <2>2, <3>1, FS_Product
    <3> QED
      BY <2>2, <3>1, <3>2 DEF I
  <2> QED
    BY <2>1, <2>4 DEF Count
<1>3. S \cap R = {}
  OBVIOUS
<1> HIDE DEF R
<1>4. Valued(f, S \cup R) /\ Count(f, S \cup R) = Count(f, S) + Count(f, R)
  BY <1>1, <1>3, CountUnion
<1> QED
  BY <1>2, <1>4 DEF R

\* Nothing counts nothing.
LEMMA CountEmpty ==
  ASSUME NEW f
  PROVE  Valued(f, {}) /\ Count(f, {}) = 0
<1>1. Units(f, {}) = {}
  BY DEF Units
<1> QED
  BY <1>1, FS_EmptySet DEF Count, Valued

\* Only the values of the members count.
LEMMA CountSame ==
  ASSUME NEW f, NEW g, NEW S, \A x \in S : f[x] = g[x]
  PROVE  (Valued(f, S) <=> Valued(g, S)) /\ Count(f, S) = Count(g, S)
<1>1. Units(f, S) = Units(g, S)
  BY DEF Units
<1> QED
  BY <1>1 DEF Count, Valued

\* Renaming the members changes nothing.
LEMMA CountMoves ==
  ASSUME NEW f, NEW S, Valued(f, S), NEW g, NEW T, NEW m \in Bijection(S, T),
         \A x \in S : g[m[x]] = f[x]
  PROVE  Valued(g, T) /\ Count(g, T) = Count(f, S)
<1> DEFINE U == Units(f, S)
           V == Units(g, T)
           move == [u \in U |-> <<m[u[1]], u[2]>>]
<1>1. /\ \A x \in S : m[x] \in T
      /\ \A x, y \in S : m[x] = m[y] => x = y
      /\ \A t \in T : \E x \in S : m[x] = t
  BY DEF Bijection, Injection, Surjection, IsInjective
<1>2. IsFiniteSet(U)
  BY CountIs
<1>3. /\ \A u \in U : u = <<u[1], u[2]>> /\ u[1] \in S /\ u[2] \in 1 .. f[u[1]]
      /\ \A x \in S : \A k \in 1 .. f[x] : <<x, k>> \in U
      /\ \A v \in V : v = <<v[1], v[2]>> /\ v[1] \in T /\ v[2] \in 1 .. g[v[1]]
      /\ \A t \in T : \A k \in 1 .. g[t] : <<t, k>> \in V
  BY DEF Units
<1> HIDE DEF U, V
<1>4. move \in [U -> V]
  BY <1>1, <1>3
<1>5. \A u, w \in U : move[u] = move[w] => u = w
  BY <1>1, <1>3
<1>6. \A v \in V : \E u \in U : move[u] = v
  <2> TAKE v \in V
  <2>1. PICK x \in S : m[x] = v[1]
    BY <1>1, <1>3
  <2>2. <<x, v[2]>> \in U
    BY <1>3, <2>1
  <2> QED
    BY <1>3, <2>1, <2>2
<1> HIDE DEF move
<1>7. ExistsBijection(U, V)
  <2>1. DOMAIN move = U
    BY <1>4
  <2>2. move \in Bijection(U, V)
    BY <1>4, <1>5, <1>6, <2>1 DEF Bijection, Injection, Surjection, IsInjective
  <2> QED
    BY <2>2 DEF ExistsBijection
<1>8. Cardinality(V) = Cardinality(U)
  BY <1>2, <1>7, FS_Bijection
<1>9. IsFiniteSet(T)
  <2>1. ExistsBijection(S, T)
    BY DEF ExistsBijection
  <2> QED
    BY <2>1, FS_Bijection DEF Valued
<1>10. \A t \in T : g[t] \in Nat
  BY <1>1 DEF Valued
<1> QED
  BY <1>8, <1>9, <1>10 DEF U, V, Count, Valued

Sum(c, S) == MapThenSumSet(LAMBDA x : val(c, x), S)

\* What MapThenSumSet iterates.
IsSum(c, S, it) ==
  it = [s \in SUBSET S |->
          IF s = {} THEN 0
          ELSE val(c, CHOOSE x \in s : TRUE) + it[s \ {CHOOSE x \in s : TRUE}]]

\* The sum counts the units.
LEMMA SumCounts ==
  ASSUME NEW c, NEW f, NEW S, Valued(f, S), \A x \in S : val(c, x) = f[x]
  PROVE  Sum(c, S) = Count(f, S)
<1> DEFINE W == CHOOSE it : IsSum(c, S, it)
           it == [s \in SUBSET S |-> Count(f, s)]
           Bad == {s \in SUBSET S : W[s] # Count(f, s)}
<1>1. Sum(c, S) = W[S]
  BY Zenon DEF Sum, MapThenSumSet, MapThenFoldSet, IsSum
<1>2. ASSUME NEW s \in SUBSET S, s # {}, NEW x \in s
      PROVE  s \ {x} \in SUBSET S /\ Count(f, s) = val(c, x) + Count(f, s \ {x})
  <2> DEFINE t == s \ {x}
  <2>1. t \in SUBSET S /\ x \notin t /\ s = t \cup {x} /\ f[x] \in Nat /\ val(c, x) = f[x]
    BY <1>2 DEF Valued
  <2> HIDE DEF t
  <2>2. Valued(f, t)
    BY <2>1, CountSubset
  <2>3. Count(f, t \cup {x}) = Count(f, t) + f[x] /\ Count(f, t) \in Nat
    BY <2>1, <2>2, CountAdds, CountIs
  <2>4. f[x] + Count(f, t) = Count(f, t) + f[x]
    BY <2>1, <2>3
  <2>5. t = s \ {x}
    BY DEF t
  <2> QED
    BY <2>1, <2>3, <2>4, <2>5
<1>3. IsSum(c, S, it)
  <2>1. \A s \in SUBSET S :
          it[s] = IF s = {} THEN 0
                  ELSE val(c, CHOOSE x \in s : TRUE) + it[s \ {CHOOSE x \in s : TRUE}]
    <3> TAKE s \in SUBSET S
    <3>1. CASE s = {}
      BY <3>1, CountEmpty
    <3>2. CASE s # {}
      <4> DEFINE x == CHOOSE x \in s : TRUE
      <4>1. x \in s
        BY <3>2
      <4> HIDE DEF x
      <4>2. s \ {x} \in SUBSET S /\ Count(f, s) = val(c, x) + Count(f, s \ {x})
        BY <1>2, <3>2, <4>1
      <4>3. it[s] = val(c, x) + it[s \ {x}]
        BY <4>2
      <4> QED
        BY <3>2, <4>3 DEF x
    <3> QED
      BY <3>1, <3>2
  <2>2. it = [s \in SUBSET S |-> it[s]]
    OBVIOUS
  <2> HIDE DEF it
  <2> QED
    BY <2>1, <2>2, Zenon DEF IsSum
<1>4. IsSum(c, S, W)
  BY <1>3, Zenon
<1> HIDE DEF W, it
<1>5. Bad = {}
  <2> SUFFICES ASSUME Bad # {} PROVE FALSE
    OBVIOUS
  <2>1. PICK s \in Bad : \A t \in Bad : t \subseteq s => t = s
    <3>1. Bad \in SUBSET SUBSET S /\ IsFiniteSet(S)
      BY DEF Valued
    <3> HIDE DEF Bad
    <3> QED
      BY <3>1, HasMinimal
  <2>2. s \in SUBSET S /\ W[s] # Count(f, s)
    BY <2>1
  <2>3. s # {}
    BY <1>4, <2>2, CountEmpty DEF IsSum
  <2> DEFINE x == CHOOSE x \in s : TRUE
             t == s \ {x}
  <2>4. x \in s
    BY <2>3
  <2>5. W[s] = val(c, x) + W[t]
    BY <1>4, <2>2, <2>3, Zenon DEF IsSum
  <2> HIDE DEF x
  <2>6. t \in SUBSET S /\ Count(f, s) = val(c, x) + Count(f, t)
    BY <1>2, <2>2, <2>3, <2>4
  <2>7. t \subseteq s /\ t # s
    BY <2>4
  <2>8. W[t] = Count(f, t)
    BY <2>1, <2>6, <2>7
  <2> QED
    BY <2>2, <2>5, <2>6, <2>8
<1> QED
  BY <1>1, <1>5

-----------------------------------------------------------------------------
(***************************************************************************)
(* A fold over a set of at most one member.                                *)
(***************************************************************************)
RunSet(c, d, base, S) == FoldSet(LAMBDA x, acc : op(c, d, acc, x), base, S)

\* What FoldSet iterates.
IsSetRun(c, d, base, S, it) ==
  it = [s \in SUBSET S |->
          IF s = {} THEN base
          ELSE op(c, d, it[s \ {CHOOSE x \in s : TRUE}], CHOOSE x \in s : TRUE)]

\* Over nothing it returns its base, over one member the body's value there.
LEMMA SetRuns ==
  ASSUME NEW c, NEW d, NEW base, NEW x
  PROVE  /\ RunSet(c, d, base, {}) = base
         /\ RunSet(c, d, base, {x}) = op(c, d, base, x)
<1>1. ASSUME NEW S, NEW it, IsSetRun(c, d, base, S, it)
      PROVE  RunSet(c, d, base, S) = (CHOOSE ju : IsSetRun(c, d, base, S, ju))[S]
             /\ IsSetRun(c, d, base, S, CHOOSE ju : IsSetRun(c, d, base, S, ju))
  <2>1. RunSet(c, d, base, S) = (CHOOSE ju : IsSetRun(c, d, base, S, ju))[S]
    BY Zenon DEF RunSet, FoldSet, MapThenFoldSet, IsSetRun
  <2>2. IsSetRun(c, d, base, S, CHOOSE ju : IsSetRun(c, d, base, S, ju))
    BY <1>1, Zenon
  <2> QED
    BY <2>1, <2>2
<1>2. RunSet(c, d, base, {}) = base
  <2> DEFINE it == [s \in SUBSET {} |-> base]
             W == CHOOSE ju : IsSetRun(c, d, base, {}, ju)
  <2>1. IsSetRun(c, d, base, {}, it)
    BY DEF IsSetRun
  <2>2. RunSet(c, d, base, {}) = W[{}] /\ IsSetRun(c, d, base, {}, W)
    BY <1>1, <2>1
  <2> HIDE DEF W
  <2> QED
    BY <2>2 DEF IsSetRun
<1>3. RunSet(c, d, base, {x}) = op(c, d, base, x)
  <2> DEFINE it == [s \in SUBSET {x} |-> IF s = {} THEN base ELSE op(c, d, base, x)]
             W == CHOOSE ju : IsSetRun(c, d, base, {x}, ju)
  <2>0. (CHOOSE y \in {x} : TRUE) = x /\ {x} \ {x} = {} /\ {x} # {}
    OBVIOUS
  <2>1. \A s \in SUBSET {x} :
          it[s] = IF s = {} THEN base
                  ELSE op(c, d, it[s \ {CHOOSE y \in s : TRUE}], CHOOSE y \in s : TRUE)
    <3> TAKE s \in SUBSET {x}
    <3>1. s = {} \/ s = {x}
      OBVIOUS
    <3>2. it[{}] = base /\ it[{x}] = op(c, d, base, x)
      BY <2>0
    <3> HIDE DEF it
    <3>3. CASE s = {}
      BY <3>2, <3>3
    <3>4. CASE s = {x}
      BY <2>0, <3>2, <3>4
    <3> QED
      BY <3>1, <3>3, <3>4
  <2>2. it = [s \in SUBSET {x} |-> it[s]]
    OBVIOUS
  <2>3. IsSetRun(c, d, base, {x}, it)
    <3> HIDE DEF it
    <3> QED
      BY <2>1, <2>2, Zenon DEF IsSetRun
  <2>4. RunSet(c, d, base, {x}) = W[{x}] /\ IsSetRun(c, d, base, {x}, W)
    BY <1>1, <2>3
  <2> HIDE DEF W
  <2>5. W[{}] = base
    BY <2>4 DEF IsSetRun
  <2>6. W[{x}] = op(c, d, W[{x} \ {CHOOSE y \in {x} : TRUE}], CHOOSE y \in {x} : TRUE)
    BY <2>0, <2>4, Zenon DEF IsSetRun
  <2> QED
    BY <2>0, <2>4, <2>5, <2>6
<1> QED
  BY <1>2, <1>3

-----------------------------------------------------------------------------
(***************************************************************************)
(* A fold over any finite set.                                             *)
(***************************************************************************)
\* g has the accumulator after the members of each subset, some order.
IsSetLoop(c, d, base, S, g) ==
  /\ g[{}] = base
  /\ \A s \in (SUBSET S) \ {{}} : \E x \in s : g[s] = op(c, d, g[s \ {x}], x)

\* The recursion over the subsets of a finite set is defined.
LEMMA SetIterExists ==
  ASSUME NEW c, NEW d, NEW base, NEW S, IsFiniteSet(S)
  PROVE  \E it : IsSetRun(c, d, base, S, it)
<1> DEFINE pick(s) == CHOOSE x \in s : TRUE
           Next(it, s) == IF s = {} THEN base ELSE op(c, d, it[s \ {pick(s)}], pick(s))
           UpTo(k, it) == /\ it = [s \in SUBSET S |-> it[s]]
                          /\ \A s \in SUBSET S : Cardinality(s) <= k => it[s] = Next(it, s)
           n == Cardinality(S)
           Good == {k \in Nat : \E it : UpTo(k, it)}
<1>0. n \in Nat /\ \A s \in SUBSET S : IsFiniteSet(s) /\ Cardinality(s) \in Nat
                                       /\ Cardinality(s) <= n
  BY FS_Subset, FS_CardinalityType
<1>1. 0 \in Good
  <2> DEFINE it == [s \in SUBSET S |-> base]
  <2>1. \A s \in SUBSET S : Cardinality(s) <= 0 => s = {}
    BY <1>0, FS_EmptySet
  <2>2. UpTo(0, it)
    BY <2>1
  <2> QED
    BY <2>2
<1>2. ASSUME NEW k \in 1 .. n, k - 1 \in Good PROVE k \in Good
  <2>1. PICK it : UpTo(k - 1, it)
    BY <1>2
  <2> DEFINE ju == [s \in SUBSET S |-> IF Cardinality(s) <= k - 1 THEN it[s] ELSE Next(it, s)]
  <2>2. ASSUME NEW s \in SUBSET S, Cardinality(s) <= k PROVE ju[s] = Next(ju, s)
    <3>1. CASE s = {}
      <4>1. Cardinality(s) = 0
        BY <3>1, FS_EmptySet
      <4>2. Cardinality(s) <= k - 1
        BY <1>0, <4>1
      <4>3. ju[s] = it[s] /\ it[s] = Next(it, s)
        BY <2>1, <4>2
      <4> QED
        BY <3>1, <4>3
    <3>2. CASE s # {}
      <4> DEFINE x == pick(s)
                 t == s \ {x}
      <4>1. x \in s
        BY <3>2
      <4> HIDE DEF x
      <4>2. t \in SUBSET S /\ Cardinality(t) = Cardinality(s) - 1
        BY <1>0, <4>1, FS_RemoveElement
      <4>3. Cardinality(t) <= k - 1 /\ ju[t] = it[t]
        BY <1>0, <2>2, <4>2
      <4>4. CASE Cardinality(s) <= k - 1
        <5>1. ju[s] = it[s] /\ it[s] = Next(it, s)
          BY <2>1, <4>4
        <5> HIDE DEF ju
        <5> QED
          BY <3>2, <4>3, <5>1 DEF x
      <4>5. CASE ~(Cardinality(s) <= k - 1)
        <5>1. ju[s] = Next(it, s)
          BY <4>5
        <5> HIDE DEF ju
        <5> QED
          BY <3>2, <4>3, <5>1 DEF x
      <4> QED
        BY <4>4, <4>5
    <3> QED
      BY <3>1, <3>2
  <2>3. ju = [s \in SUBSET S |-> ju[s]]
    OBVIOUS
  <2>4. UpTo(k, ju)
    <3> HIDE DEF ju
    <3> QED
      BY <2>2, <2>3
  <2>5. k \in Nat
    OBVIOUS
  <2> HIDE DEF ju, UpTo
  <2> QED
    BY <2>4, <2>5
<1>3. n \in Good
  <2>0. n \in 0 .. n
    BY <1>0
  <2> HIDE DEF Good, n
  <2> QED
    BY <1>0, <1>1, <1>2, <2>0, NatUpTo
<1>4. PICK it : UpTo(n, it)
  BY <1>3
<1>5. it = [s \in SUBSET S |-> Next(it, s)]
  <2>1. \A s \in SUBSET S : it[s] = Next(it, s)
    BY <1>0, <1>4
  <2>2. it = [s \in SUBSET S |-> it[s]]
    BY <1>4
  <2> HIDE DEF Next
  <2> QED
    BY <2>1, <2>2
<1> QED
  BY <1>5, Zenon DEF IsSetRun

\* FoldSet is the loop.
LEMMA SetLoopRuns ==
  ASSUME NEW c, NEW d, NEW base, NEW S, IsFiniteSet(S)
  PROVE  \E g : IsSetLoop(c, d, base, S, g) /\ RunSet(c, d, base, S) = g[S]
<1> DEFINE W == CHOOSE ju : IsSetRun(c, d, base, S, ju)
<1>1. RunSet(c, d, base, S) = W[S]
  BY Zenon DEF RunSet, FoldSet, MapThenFoldSet, IsSetRun
<1>2. IsSetRun(c, d, base, S, W)
  BY SetIterExists, Zenon
<1> HIDE DEF W
<1>3. W[{}] = base
  BY <1>2 DEF IsSetRun
<1>4. ASSUME NEW s \in (SUBSET S) \ {{}}
      PROVE  \E x \in s : W[s] = op(c, d, W[s \ {x}], x)
  <2> DEFINE x == CHOOSE y \in s : TRUE
  <2>1. x \in s
    BY <1>4
  <2>2. W[s] = op(c, d, W[s \ {x}], x)
    BY <1>2, <1>4 DEF IsSetRun
  <2> QED
    BY <2>1, <2>2
<1>5. IsSetLoop(c, d, base, S, W)
  BY <1>3, <1>4 DEF IsSetLoop
<1> QED
  BY <1>1, <1>5

\* What holds of the base and survives each turn holds of the end.
LEMMA SetUpTo ==
  ASSUME NEW S, IsFiniteSet(S), NEW Good, {} \in Good,
         \A s \in (SUBSET S) \ {{}} : (\A x \in s : s \ {x} \in Good) => s \in Good
  PROVE  S \in Good
<1> DEFINE Bad == {s \in SUBSET S : s \notin Good}
<1> SUFFICES ASSUME Bad # {} PROVE FALSE
  OBVIOUS
<1>1. PICK s \in Bad : \A t \in Bad : t \subseteq s => t = s
  <2>1. Bad \in SUBSET SUBSET S
    OBVIOUS
  <2> HIDE DEF Bad
  <2> QED
    BY <2>1, HasMinimal
<1>2. s \in (SUBSET S) \ {{}}
  BY <1>1
<1>3. \A x \in s : s \ {x} \in Good
  BY <1>1
<1> QED
  BY <1>1, <1>2, <1>3

=============================================================================
