--------------------------- MODULE MempoolProofs ---------------------------
(***************************************************************************)
(* Proofs about Mempool and NodeMempool, for any transactions with any     *)
(* inputs, outputs, sizes and fees, any limits, and whatever blocks come.  *)
(*                                                                         *)
(* The argument.  Every operation of the pool keeps it in order (Sound):   *)
(* the byte count and the index of the orphans are right.  The two need    *)
(* each other, for the bytes of promoted orphans may be added only because *)
(* no orphan is pending.  Each operation has a lemma that says this of it, *)
(* and what it does to the pending transactions; the properties of the     *)
(* node follow handler by handler.                                         *)
(***************************************************************************)
EXTENDS NodeMempool, FiniteSetTheorems, TLAPS

-----------------------------------------------------------------------------
(***************************************************************************)
(* Sizes add up.                                                           *)
(***************************************************************************)
BytesOf(S) == UNION {{t} \X (1 .. Size(t)) : t \in S}

LEMMA MaxOfTwo ==
    ASSUME NEW a \in Int, NEW b \in Int
    PROVE  Max({a, b}) = IF a >= b THEN a ELSE b
<1> DEFINE m == IF a >= b THEN a ELSE b
<1>1. m \in {a, b} /\ \A y \in {a, b} : m >= y
  OBVIOUS
<1>2. \A x \in {a, b} : (\A y \in {a, b} : x >= y) => x = m
  OBVIOUS
<1> QED
  BY <1>1, <1>2 DEF Max

LEMMA BytesOfOne ==
    ASSUME NEW t \in Tx
    PROVE  /\ IsFiniteSet({t} \X (1 .. Size(t)))
           /\ Cardinality({t} \X (1 .. Size(t))) = Size(t)
<1>1. Size(t) \in Nat /\ Size(t) > 0
  BY MempoolAssumption
<1>2. IsFiniteSet(1 .. Size(t)) /\ Cardinality(1 .. Size(t)) = Size(t)
  BY <1>1, FS_Interval
<1>3. IsFiniteSet({t}) /\ Cardinality({t}) = 1
  BY FS_Singleton
<1> QED
  BY <1>1, <1>2, <1>3, FS_Product

LEMMA BytesOfFinite ==
    ASSUME NEW S \in SUBSET Tx, IsFiniteSet(S)
    PROVE  IsFiniteSet(BytesOf(S))
<1> DEFINE f == [t \in S |-> {t} \X (1 .. Size(t))]
           R == {{t} \X (1 .. Size(t)) : t \in S}
<1>1. f \in Surjection(S, R)
  BY DEF Surjection
<1>2. IsFiniteSet(R)
  BY <1>1, FS_Surjection
<1>3. \A T \in R : IsFiniteSet(T)
  BY BytesOfOne
<1> QED
  BY <1>2, <1>3, FS_UNION DEF BytesOf

LEMMA BytesType ==
    ASSUME NEW S \in SUBSET Tx, IsFiniteSet(S)
    PROVE  Bytes(S) \in Nat
BY BytesOfFinite, FS_CardinalityType DEF Bytes, BytesOf

LEMMA BytesEmpty == Bytes({}) = 0
<1>1. BytesOf({}) = {}
  BY DEF BytesOf
<1> QED
  BY <1>1, FS_EmptySet DEF Bytes, BytesOf

LEMMA BytesSingle ==
    ASSUME NEW t \in Tx
    PROVE  Bytes({t}) = Size(t)
<1>1. BytesOf({t}) = {t} \X (1 .. Size(t))
  BY DEF BytesOf
<1> QED
  BY <1>1, BytesOfOne DEF Bytes, BytesOf

LEMMA BytesUnion ==
    ASSUME NEW S \in SUBSET Tx, NEW T \in SUBSET Tx,
           IsFiniteSet(S), IsFiniteSet(T), S \cap T = {}
    PROVE  Bytes(S \cup T) = Bytes(S) + Bytes(T)
<1>1. IsFiniteSet(BytesOf(S)) /\ IsFiniteSet(BytesOf(T))
  BY BytesOfFinite
<1>2. BytesOf(S \cup T) = BytesOf(S) \cup BytesOf(T)
  BY DEF BytesOf
<1>3. BytesOf(S) \cap BytesOf(T) = {}
  BY DEF BytesOf
<1>4. /\ Cardinality(BytesOf(S)) \in Nat
      /\ Cardinality(BytesOf(T)) \in Nat
  BY <1>1, FS_CardinalityType
<1>5. Cardinality(BytesOf(S) \cup BytesOf(T)) =
        Cardinality(BytesOf(S)) + Cardinality(BytesOf(T))
          - Cardinality(BytesOf(S) \cap BytesOf(T))
  BY <1>1, FS_Union
<1>6. Cardinality(BytesOf(S \cup T)) =
        Cardinality(BytesOf(S)) + Cardinality(BytesOf(T))
  <2>1. Cardinality({}) = 0
    BY FS_EmptySet
  <2>2. Cardinality(BytesOf(S) \cap BytesOf(T)) = 0
    BY <1>3, <2>1
  <2>3. Cardinality(BytesOf(S \cup T)) = Cardinality(BytesOf(S) \cup BytesOf(T))
    BY <1>2, Zenon
  <2> QED
    BY <1>4, <1>5, <2>2, <2>3
<1> QED
  BY <1>6 DEF Bytes, BytesOf

\* What is left of a set weighs no more, and what is taken out is the rest.
LEMMA BytesLeft ==
    ASSUME NEW S \in SUBSET Tx, IsFiniteSet(S), NEW T \in SUBSET S
    PROVE  /\ IsFiniteSet(T) /\ IsFiniteSet(S \ T)
           /\ Bytes(T) = Bytes(S) - Bytes(S \ T)
           /\ Bytes(T) <= Bytes(S)
<1>1. IsFiniteSet(T) /\ IsFiniteSet(S \ T)
  BY FS_Subset
<1>2. T \cup (S \ T) = S /\ T \cap (S \ T) = {}
  OBVIOUS
<1>3. Bytes(S) = Bytes(T) + Bytes(S \ T)
  BY <1>1, <1>2, BytesUnion
<1>4. Bytes(T) \in Nat /\ Bytes(S \ T) \in Nat
  BY <1>1, BytesType
<1> QED
  BY <1>1, <1>3, <1>4

-----------------------------------------------------------------------------
(***************************************************************************)
(* A pool in order, and the operations that keep it so.                    *)
(***************************************************************************)
PoolType == [pending : SUBSET Tx, orphans : SUBSET Tx,
             by_missing : [Outpoint -> SUBSET Tx], bytes : Int]

Finite(p) == IsFiniteSet(p.pending) /\ IsFiniteSet(p.orphans)

Indexed(p) ==
  /\ p.pending \cap p.orphans = {}
  /\ \A t \in p.orphans : \E op \in Ins(t) : t \in p.by_missing[op]
  /\ \A op \in Outpoint : \A t \in p.by_missing[op] : t \in p.orphans /\ op \in Ins(t)

Sound(p) ==
  /\ p \in PoolType /\ Finite(p)
  /\ p.bytes = Bytes(p.pending)
  /\ Indexed(p)

SameOrphans(p, q) == q.orphans = p.orphans /\ q.by_missing = p.by_missing

LEMMA EmptySound == Sound(EmptyPool)
<1>1. IsFiniteSet({})
  BY FS_EmptySet
<1> QED
  BY <1>1, BytesEmpty DEF Sound, EmptyPool, PoolType, Finite, Indexed

LEMMA PoolFields ==
    ASSUME NEW p, Sound(p)
    PROVE  /\ p \in PoolType
           /\ p.pending \in SUBSET Tx /\ IsFiniteSet(p.pending)
           /\ p.orphans \in SUBSET Tx /\ IsFiniteSet(p.orphans)
           /\ p.by_missing \in [Outpoint -> SUBSET Tx]
           /\ p.bytes \in Nat /\ p.bytes = Bytes(p.pending)
<1>1. /\ p \in PoolType
      /\ p.pending \in SUBSET Tx /\ p.orphans \in SUBSET Tx
      /\ p.by_missing \in [Outpoint -> SUBSET Tx]
  BY DEF Sound, PoolType
<1>2. IsFiniteSet(p.pending) /\ IsFiniteSet(p.orphans) /\ p.bytes = Bytes(p.pending)
  BY DEF Sound, Finite
<1> QED
  BY <1>1, <1>2, BytesType

LEMMA FewerBytes ==
    ASSUME NEW p, Sound(p), NEW q, Sound(q), q.pending \subseteq p.pending
    PROVE  q.bytes <= p.bytes
<1>1. q.pending \in SUBSET p.pending
  OBVIOUS
<1>2. Bytes(q.pending) <= Bytes(p.pending)
  BY <1>1, PoolFields, BytesLeft
<1> QED
  BY <1>2, PoolFields

LEMMA PendingAndBytes ==
    ASSUME NEW p \in PoolType, NEW S \in SUBSET Tx, NEW n \in Int
    PROVE  [p EXCEPT !.pending = S, !.bytes = n] \in PoolType
BY DEF PoolType

LEMMA RemovePendingSound ==
    ASSUME NEW p, Sound(p), NEW S \in SUBSET Tx
    PROVE  LET q == remove_pending(p, S)
           IN  Sound(q) /\ SameOrphans(p, q) /\ q.pending = p.pending \ S
<1> DEFINE q == remove_pending(p, S)
<1>1. /\ q.pending = p.pending \ S /\ q.orphans = p.orphans
      /\ q.by_missing = p.by_missing /\ q.bytes = p.bytes - Bytes(S \cap p.pending)
  BY PoolFields DEF remove_pending, PoolType
<1>2. /\ IsFiniteSet(p.pending \ S)
      /\ Bytes(p.pending \ S) = Bytes(p.pending) - Bytes(p.pending \ (p.pending \ S))
      /\ Bytes(p.pending \ S) \in Nat
  BY PoolFields, BytesLeft, BytesType
<1>3. p.pending \ (p.pending \ S) = S \cap p.pending
  OBVIOUS
<1>4. /\ q.pending = p.pending \ S /\ q.orphans = p.orphans
      /\ q.by_missing = p.by_missing /\ q.bytes = Bytes(p.pending \ S)
  BY <1>1, <1>2, <1>3, PoolFields
<1>7. q \in PoolType
  <2>1. Bytes(S \cap p.pending) \in Nat
    BY <1>2, <1>3, PoolFields, BytesLeft, BytesType
  <2>2. q = [p EXCEPT !.pending = p.pending \ S,
                    !.bytes = p.bytes - Bytes(S \cap p.pending)]
    BY PoolFields DEF remove_pending, PoolType
  <2>3. p.pending \ S \in SUBSET Tx /\ p.bytes - Bytes(S \cap p.pending) \in Int
    BY <2>1, PoolFields
  <2> HIDE DEF q
  <2> QED
    BY <2>2, <2>3, PoolFields, PendingAndBytes
<1> HIDE DEF q
<1>5. Finite(q) /\ q.bytes = Bytes(q.pending)
  BY <1>2, <1>4, PoolFields DEF Finite
<1>6. Indexed(q)
  BY <1>4 DEF Sound, Indexed
<1> QED
  BY <1>4, <1>5, <1>6, <1>7 DEF Sound, SameOrphans, q

\* What was an orphan may not be added before it is removed from there.
LEMMA AddPendingSound ==
    ASSUME NEW p, Sound(p), NEW S \in SUBSET Tx, IsFiniteSet(S),
           S \cap p.pending = {}, S \cap p.orphans = {}
    PROVE  LET q == AddPending(p, S)
           IN  /\ Sound(q) /\ SameOrphans(p, q) /\ q.pending = p.pending \cup S
               /\ q.bytes = p.bytes + Bytes(S)
<1> DEFINE q == AddPending(p, S)
<1>1. /\ q.pending = p.pending \cup S /\ q.orphans = p.orphans
      /\ q.by_missing = p.by_missing /\ q.bytes = p.bytes + Bytes(S)
  BY PoolFields DEF AddPending, PoolType
<1>2. /\ IsFiniteSet(p.pending \cup S)
      /\ Bytes(p.pending \cup S) = p.bytes + Bytes(S)
  <2>1. IsFiniteSet(p.pending \cup S)
    BY PoolFields, FS_Union
  <2>2. Bytes(p.pending \cup S) = Bytes(p.pending) + Bytes(S)
    BY PoolFields, BytesUnion
  <2> QED
    BY <2>1, <2>2, PoolFields
<1>3. Bytes(p.pending \cup S) \in Nat
  BY <1>2, PoolFields, BytesType
<1>7. q \in PoolType
  <2>1. Bytes(S) \in Nat
    BY BytesType
  <2>2. q = [p EXCEPT !.pending = p.pending \cup S, !.bytes = p.bytes + Bytes(S)]
    BY PoolFields DEF AddPending, PoolType
  <2>3. p.pending \cup S \in SUBSET Tx /\ p.bytes + Bytes(S) \in Int
    BY <2>1, PoolFields
  <2> HIDE DEF q
  <2> QED
    BY <2>2, <2>3, PoolFields, PendingAndBytes
<1> HIDE DEF q
<1>4. Finite(q) /\ q.bytes = Bytes(q.pending)
  BY <1>1, <1>2, PoolFields DEF Finite
<1>5. Indexed(q)
  BY <1>1 DEF Sound, Indexed
<1> QED
  BY <1>1, <1>4, <1>5, <1>7 DEF Sound, SameOrphans, q

LEMMA RemoveOrphanSound ==
    ASSUME NEW p, Sound(p), NEW S \in SUBSET Tx
    PROVE  LET q == remove_orphan(p, S)
           IN  /\ Sound(q) /\ q.orphans = p.orphans \ S
               /\ q.pending = p.pending /\ q.bytes = p.bytes
<1> DEFINE q == remove_orphan(p, S)
           ix == [op \in Outpoint |-> p.by_missing[op] \ S]
<1>1. /\ q.pending = p.pending /\ q.orphans = p.orphans \ S
      /\ q.by_missing = ix /\ q.bytes = p.bytes
  BY PoolFields DEF remove_orphan, PoolType
<1>2. IsFiniteSet(p.orphans \ S)
  BY PoolFields, FS_Difference
<1>3. ix \in [Outpoint -> SUBSET Tx]
  BY PoolFields
<1>4. \A t \in p.orphans \ S : \E op \in Ins(t) : t \in ix[op]
  BY PoolFields, MempoolAssumption DEF Sound, Indexed
<1>5. \A op \in Outpoint : \A t \in ix[op] : t \in p.orphans \ S /\ op \in Ins(t)
  BY DEF Sound, Indexed
<1>7. q \in PoolType
  BY <1>1, <1>3, PoolFields DEF remove_orphan, PoolType
<1> HIDE DEF q, ix
<1>6. Finite(q) /\ q.bytes = Bytes(q.pending)
  BY <1>1, <1>2, PoolFields DEF Finite
<1>8. Indexed(q)
  BY <1>1, <1>4, <1>5 DEF Sound, Indexed
<1> QED
  BY <1>1, <1>6, <1>7, <1>8 DEF Sound, q

LEMMA AddOrphansSound ==
    ASSUME NEW p, Sound(p), NEW S \in SUBSET Tx, IsFiniteSet(S), NEW utxo,
           S \cap p.pending = {}, \A t \in S : Missing(t, utxo) # {}
    PROVE  LET q == AddOrphans(p, S, utxo)
           IN  /\ Sound(q) /\ q.orphans = p.orphans \cup S
               /\ q.pending = p.pending /\ q.bytes = p.bytes
<1> DEFINE q == AddOrphans(p, S, utxo)
           ix == [op \in Outpoint |->
                    p.by_missing[op] \cup {t \in S : op \in Missing(t, utxo)}]
<1>1. /\ q.pending = p.pending /\ q.orphans = p.orphans \cup S
      /\ q.by_missing = ix /\ q.bytes = p.bytes
  BY PoolFields DEF AddOrphans, PoolType
<1>2. IsFiniteSet(p.orphans \cup S)
  BY PoolFields, FS_Union
<1>3. ix \in [Outpoint -> SUBSET Tx]
  BY PoolFields
<1>4. ASSUME NEW t \in p.orphans \cup S PROVE \E op \in Ins(t) : t \in ix[op]
  <2>1. Ins(t) \subseteq Outpoint
    BY PoolFields, MempoolAssumption
  <2> QED
    BY <2>1 DEF Sound, Indexed, Missing
<1>5. \A op \in Outpoint : \A t \in ix[op] : t \in p.orphans \cup S /\ op \in Ins(t)
  BY DEF Sound, Indexed, Missing
<1>7. q \in PoolType
  BY <1>1, <1>3, PoolFields DEF AddOrphans, PoolType
<1> HIDE DEF q, ix
<1>6. Finite(q) /\ q.bytes = Bytes(q.pending)
  BY <1>1, <1>2, PoolFields DEF Finite
<1>8. Indexed(q)
  BY <1>1, <1>4, <1>5 DEF Sound, Indexed
<1> QED
  BY <1>1, <1>6, <1>7, <1>8 DEF Sound, q

LEMMA PruneSound ==
    ASSUME NEW p, Sound(p), NEW limit \in Nat, NEW q \in PruneTo(p, limit)
    PROVE  /\ Sound(q) /\ q.orphans \subseteq p.orphans
           /\ Cardinality(q.orphans) \in Nat /\ Cardinality(q.orphans) <= limit
           /\ q.pending = p.pending /\ q.bytes = p.bytes
<1> DEFINE c == Cardinality(p.orphans)
<1>1. /\ p.orphans \in SUBSET Tx /\ IsFiniteSet(p.orphans)
      /\ c \in Nat
  BY FS_CardinalityType DEF Sound, Finite, PoolType
<1>2. PICK S \in SUBSET p.orphans :
        Cardinality(S) = Max({0, c - limit}) /\ q = remove_orphan(p, S)
  BY DEF PruneTo
<1>3. Cardinality(S) = IF 0 >= c - limit THEN 0 ELSE c - limit
  <2> HIDE DEF c
  <2> QED
    BY <1>1, <1>2, MaxOfTwo
<1>4. Sound(q) /\ q.orphans = p.orphans \ S /\ q.pending = p.pending /\ q.bytes = p.bytes
  BY <1>1, <1>2, RemoveOrphanSound
<1>5. Cardinality(p.orphans \ S) = c - Cardinality(p.orphans \cap S)
  BY <1>1, FS_Difference
<1>6. p.orphans \cap S = S
  OBVIOUS
<1>7. Cardinality(q.orphans) = c - Cardinality(S)
  BY <1>4, <1>5, <1>6
<1> QED
  <2> HIDE DEF c
  <2> QED
    BY <1>1, <1>3, <1>4, <1>7

-----------------------------------------------------------------------------
(***************************************************************************)
(* Entering the pool.  What Entered says of a transaction t that comes to  *)
(* a pool p and leaves q behind: either it stays out, after evictions that *)
(* were in vain, or it gets in, within the limits.  Only the cheapest go.  *)
(***************************************************************************)
Entered(p, q, t) ==
  /\ t \notin p.pending
  /\ \E kept \in SUBSET p.pending :
       /\ LowestFirst(kept, p.pending \ kept)
       /\ \/ q.pending = kept /\ q.bytes <= p.bytes
          \/ /\ q.pending = kept \cup {t}
             /\ Cardinality(q.pending) <= MaxTxs
             /\ q.bytes <= MaxBytes

LEMMA LimitsAreNumbers == MaxTxs \in Nat \ {0} /\ MaxBytes \in Nat \ {0}
                          /\ MaxOrphans \in Nat \ {0}
BY MempoolAssumption

\* Rates are compared with each other through the kept ones, never summed.
LEMMA EvictTwice ==
    ASSUME NEW S, NEW T \in SUBSET S, NEW U \in SUBSET T,
           LowestFirst(T, S \ T), LowestFirst(U, T \ U)
    PROVE  LowestFirst(U, S \ U)
BY DEF LowestFirst

LEMMA EnterSound ==
    ASSUME NEW p, Sound(p), NEW t \in Tx, t \notin p.pending, t \notin p.orphans,
           NEW q \in Enter(p, t)
    PROVE  Sound(q) /\ SameOrphans(p, q) /\ Entered(p, q, t)
<1> DEFINE Fits(S) == Bytes(S) + Size(t) <= MaxBytes
           Roomy1 == {V \in SUBSET p.pending : CountRoom(V)}
           Roomy2(c) == {V \in SUBSET c : Fits(V)}
           Left(kept) == remove_pending(p, p.pending \ kept)
<1>0. PICK counted \in EvictUntil(p.pending, Roomy1) :
        \E kept \in EvictUntil(counted, Roomy2(counted)) :
          q = IF Fits(counted) \/ kept # {} THEN AddPending(Left(kept), {t})
              ELSE Left(kept)
  BY DEF Enter
<1>1. PICK kept \in EvictUntil(counted, Roomy2(counted)) :
        q = IF Fits(counted) \/ kept # {} THEN AddPending(Left(kept), {t})
            ELSE Left(kept)
  BY <1>0
<1>2. /\ counted \in SUBSET p.pending
      /\ LowestFirst(counted, p.pending \ counted)
      /\ counted = {} \/ CountRoom(counted)
  BY DEF EvictUntil
<1>3. /\ kept \in SUBSET counted
      /\ LowestFirst(kept, counted \ kept)
      /\ kept = {} \/ Fits(kept)
  BY DEF EvictUntil
<1>4. LowestFirst(kept, p.pending \ kept)
  BY <1>2, <1>3, EvictTwice
<1>5. /\ kept \in SUBSET p.pending /\ p.pending \ kept \in SUBSET Tx
      /\ p.pending \ (p.pending \ kept) = kept
  BY <1>2, <1>3, PoolFields
<1>6. Sound(Left(kept)) /\ SameOrphans(p, Left(kept)) /\ Left(kept).pending = kept
  BY <1>5, RemovePendingSound
<1>7. /\ IsFiniteSet(kept) /\ IsFiniteSet(counted)
      /\ Bytes(kept) <= Bytes(p.pending) /\ Bytes(kept) <= Bytes(counted)
      /\ Bytes(kept) \in Nat /\ Bytes(counted) \in Nat
  <2>1. counted \in SUBSET Tx /\ IsFiniteSet(counted)
    BY <1>2, PoolFields, FS_Subset
  <2>2. Bytes(kept) <= Bytes(p.pending) /\ IsFiniteSet(kept)
    BY <1>5, PoolFields, BytesLeft
  <2>3. Bytes(kept) <= Bytes(counted)
    BY <1>3, <2>1, BytesLeft
  <2>4. kept \in SUBSET Tx
    BY <1>5, PoolFields
  <2> QED
    BY <2>1, <2>2, <2>3, <2>4, BytesType
<1>8. Left(kept).bytes = Bytes(kept)
  BY <1>6, PoolFields
<1> HIDE DEF Left, Roomy1, Roomy2
<1>9. CASE ~(Fits(counted) \/ kept # {})
  <2>1. q = Left(kept)
    BY <1>1, <1>9
  <2>2. q.bytes <= p.bytes
    BY <2>1, <1>7, <1>8, PoolFields
  <2> QED
    BY <2>1, <2>2, <1>4, <1>5, <1>6 DEF Entered
<1>10. CASE Fits(counted) \/ kept # {}
  <2>1. q = AddPending(Left(kept), {t})
    BY <1>1, <1>10
  <2>2. /\ {t} \in SUBSET Tx /\ IsFiniteSet({t}) /\ Cardinality({t}) = 1
        /\ {t} \cap Left(kept).pending = {} /\ {t} \cap Left(kept).orphans = {}
    BY <1>5, <1>6, FS_Singleton DEF SameOrphans
  <2>3. /\ Sound(q) /\ SameOrphans(Left(kept), q)
        /\ q.pending = kept \cup {t} /\ q.bytes = Bytes(kept) + Size(t)
    <3> DEFINE l == Left(kept)
    <3> HIDE DEF l
    <3>1. /\ Sound(l) /\ {t} \in SUBSET Tx /\ IsFiniteSet({t})
          /\ {t} \cap l.pending = {} /\ {t} \cap l.orphans = {}
      BY <1>6, <2>2 DEF l
    <3>2. /\ Sound(AddPending(l, {t})) /\ SameOrphans(l, AddPending(l, {t}))
          /\ AddPending(l, {t}).pending = l.pending \cup {t}
          /\ AddPending(l, {t}).bytes = l.bytes + Bytes({t})
      BY <3>1, AddPendingSound
    <3>3. Bytes({t}) = Size(t)
      BY BytesSingle
    <3> QED
      BY <2>1, <3>2, <3>3, <1>6, <1>8 DEF l
  <2>4. Size(t) \in Nat
    BY MempoolAssumption
  <2>5. q.bytes <= MaxBytes
    <3>1. CASE Fits(kept)
      BY <2>3, <3>1
    <3>2. CASE kept = {}
      BY <1>7, <1>10, <2>3, <2>4, <3>2, LimitsAreNumbers
    <3> QED
      BY <3>1, <3>2, <1>3
  <2>6. Cardinality(counted) < MaxTxs /\ Cardinality(counted) \in Nat
    <3>1. CASE counted = {}
      BY <3>1, FS_EmptySet, LimitsAreNumbers
    <3>2. CASE CountRoom(counted)
      BY <3>2, <1>7, FS_CardinalityType DEF CountRoom
    <3> QED
      BY <3>1, <3>2, <1>2
  <2>7. Cardinality(kept) <= Cardinality(counted) /\ Cardinality(kept) \in Nat
    BY <1>3, <1>7, FS_Subset, FS_CardinalityType
  <2>8. Cardinality(kept \cup {t}) = Cardinality(kept) + 1
    BY <1>5, <1>7, FS_AddElement
  <2>9. Cardinality(q.pending) <= MaxTxs
    BY <2>3, <2>6, <2>7, <2>8, LimitsAreNumbers
  <2> QED
    BY <2>3, <2>5, <2>9, <1>4, <1>5, <1>6 DEF Entered, SameOrphans
<1> QED
  BY <1>9, <1>10


\* add refuses a duplicate, files an orphan, or lets t in.
LEMMA AddSound ==
    ASSUME NEW p, Sound(p), Cardinality(p.orphans) <= MaxOrphans,
           NEW t \in Tx, NEW utxo, NEW q \in add(p, t, utxo)
    PROVE  /\ Sound(q) /\ Cardinality(q.orphans) <= MaxOrphans
           /\ (q.pending = p.pending /\ q.bytes = p.bytes) \/ Entered(p, q, t)
           /\ q.pending \subseteq p.pending \/ (Missing(t, utxo) = {} /\ t \notin p.pending)
<1> DEFINE r == remove_orphan(p, {t})
<1>1. /\ Sound(r) /\ r.orphans = p.orphans \ {t}
      /\ r.pending = p.pending /\ r.bytes = p.bytes
  BY RemoveOrphanSound
<1>2. /\ Cardinality(r.orphans) \in Nat /\ Cardinality(r.orphans) <= Cardinality(p.orphans)
      /\ Cardinality(p.orphans) \in Nat
  BY <1>1, PoolFields, FS_Subset, FS_CardinalityType
<1> HIDE DEF r
<1>3. CASE t \in p.pending
  BY <1>3 DEF add
<1>4. CASE t \notin p.pending /\ Missing(t, utxo) # {}
  <2>1. PICK s \in PruneTo(r, MaxOrphans - 1) : q = AddOrphans(s, {t}, utxo)
    BY <1>4 DEF add, r
  <2>2. MaxOrphans - 1 \in Nat
    BY LimitsAreNumbers
  <2>3. /\ Sound(s) /\ s.orphans \subseteq r.orphans
        /\ Cardinality(s.orphans) \in Nat /\ Cardinality(s.orphans) <= MaxOrphans - 1
        /\ s.pending = p.pending /\ s.bytes = p.bytes
    BY <1>1, <2>2, PruneSound
  <2>4. /\ {t} \in SUBSET Tx /\ IsFiniteSet({t}) /\ {t} \cap s.pending = {}
        /\ \A u \in {t} : Missing(u, utxo) # {}
    BY <1>4, <2>3, FS_Singleton
  <2>5. /\ Sound(AddOrphans(s, {t}, utxo))
        /\ AddOrphans(s, {t}, utxo).orphans = s.orphans \cup {t}
        /\ AddOrphans(s, {t}, utxo).pending = s.pending
        /\ AddOrphans(s, {t}, utxo).bytes = s.bytes
    <3> DEFINE S == {t}
    <3>1. /\ Sound(s) /\ S \in SUBSET Tx /\ IsFiniteSet(S) /\ S \cap s.pending = {}
          /\ \A u \in S : Missing(u, utxo) # {}
      BY <2>3, <2>4
    <3> HIDE DEF S
    <3>2. /\ Sound(AddOrphans(s, S, utxo))
          /\ AddOrphans(s, S, utxo).orphans = s.orphans \cup S
          /\ AddOrphans(s, S, utxo).pending = s.pending
          /\ AddOrphans(s, S, utxo).bytes = s.bytes
      BY <3>1, AddOrphansSound
    <3> QED
      BY <3>2 DEF S
  <2>6. Cardinality(s.orphans \cup {t}) \in {Cardinality(s.orphans), Cardinality(s.orphans) + 1}
    <3>1. IsFiniteSet(s.orphans)
      BY <2>3, PoolFields
    <3> QED
      BY <3>1, FS_AddElement
  <2>7. Cardinality(s.orphans \cup {t}) <= MaxOrphans
    BY <2>3, <2>6, LimitsAreNumbers
  <2>8. /\ Sound(q) /\ q.orphans = s.orphans \cup {t}
        /\ q.pending = p.pending /\ q.bytes = p.bytes
    BY <2>1, <2>3, <2>5
  <2> QED
    BY <2>7, <2>8
<1>5. CASE t \notin p.pending /\ Missing(t, utxo) = {}
  <2>1. q = r \/ q \in Enter(r, t)
    BY <1>5 DEF add, r
  <2>2. CASE q = r
    BY <1>1, <1>2, <2>2, LimitsAreNumbers
  <2>3. CASE q \in Enter(r, t)
    <3>1. Sound(q) /\ SameOrphans(r, q) /\ Entered(r, q, t)
      BY <1>1, <1>5, <2>3, EnterSound
    <3>2. Entered(p, q, t)
      BY <1>1, <3>1 DEF Entered
    <3> QED
      BY <1>2, <1>5, <3>1, <3>2, LimitsAreNumbers DEF SameOrphans
  <2> QED
    BY <2>1, <2>2, <2>3
<1> QED
  BY <1>3, <1>4, <1>5

\* A replacement: what conflicts with it goes first, then it comes like any
\* other, if it pays enough.
LEMMA ReplaceSound ==
    ASSUME NEW p, Sound(p), Cardinality(p.orphans) <= MaxOrphans,
           NEW t \in Tx, NEW utxo, NEW bump, NEW q \in replace_by_fee(p, t, utxo, bump)
    PROVE  /\ Sound(q) /\ Cardinality(q.orphans) <= MaxOrphans
           /\ \/ q.pending = p.pending /\ q.bytes = p.bytes
              \/ \E s : /\ Sound(s) /\ s.bytes <= p.bytes
                        /\ s.pending = {u \in p.pending : ~Conflict(u, t)}
                        /\ (q.pending = s.pending /\ q.bytes = s.bytes) \/ Entered(s, q, t)
                        /\ \E c \in p.pending : Conflict(c, t) /\ ~(Rate(t) < Rate(c) + bump)
           /\ q.pending \subseteq p.pending \/ (Missing(t, utxo) = {} /\ t \notin p.pending)
<1> DEFINE r == remove_orphan(p, {t})
           Same == {u \in p.pending : Conflict(u, t)}
           s == remove_pending(r, Same)
<1>1. /\ Sound(r) /\ r.orphans = p.orphans \ {t}
      /\ r.pending = p.pending /\ r.bytes = p.bytes
  BY RemoveOrphanSound
<1>2. /\ Cardinality(r.orphans) \in Nat /\ Cardinality(r.orphans) <= Cardinality(p.orphans)
      /\ Cardinality(p.orphans) \in Nat
  BY <1>1, PoolFields, FS_Subset, FS_CardinalityType
<1>3. Cardinality(r.orphans) <= MaxOrphans
  BY <1>2, LimitsAreNumbers
<1>4. Same \in SUBSET Tx
  BY PoolFields
<1> HIDE DEF r
<1>5. Sound(s) /\ SameOrphans(r, s) /\ s.pending = p.pending \ Same
  BY <1>1, <1>4, RemovePendingSound
<1>6. CASE q = p \/ q = r
  BY <1>1, <1>3, <1>6
<1>7. CASE \E c \in p.pending : /\ Conflict(c, t) /\ ~(Rate(t) < Rate(c) + bump)
                                /\ t \notin p.pending /\ Missing(t, utxo) = {}
                                /\ q \in Replace(r, t, c, utxo)
  <2>1. q \in add(s, t, utxo)
    BY <1>1, <1>7 DEF Replace
  <2>2. s.pending = {u \in p.pending : ~Conflict(u, t)} /\ s.pending \subseteq p.pending
    BY <1>5
  <2>3. s.bytes <= p.bytes
    BY <1>5, <2>2, PoolFields, BytesLeft
  <2> HIDE DEF s
  <2>4. Cardinality(s.orphans) <= MaxOrphans
    BY <1>3, <1>5 DEF SameOrphans
  <2>5. /\ Sound(q) /\ Cardinality(q.orphans) <= MaxOrphans
        /\ (q.pending = s.pending /\ q.bytes = s.bytes) \/ Entered(s, q, t)
    BY <1>5, <2>1, <2>4, AddSound
  <2> QED
    BY <1>5, <1>7, <2>2, <2>3, <2>5
<1>8. q = p \/ q = r \/ \E c \in p.pending : /\ Conflict(c, t) /\ ~(Rate(t) < Rate(c) + bump)
                                             /\ t \notin p.pending /\ Missing(t, utxo) = {}
                                             /\ q \in Replace(r, t, c, utxo)
  BY DEF replace_by_fee, r
<1> QED
  BY <1>6, <1>7, <1>8


\* After a block: what cannot be spent any more is filed with the orphans.
LEMMA RevalidateSound ==
    ASSUME NEW p, Sound(p), NEW utxo, NEW q \in revalidate_with_utxo(p, utxo)
    PROVE  /\ Sound(q) /\ Cardinality(q.orphans) <= MaxOrphans
           /\ q.pending = {t \in p.pending : Missing(t, utxo) = {}}
           /\ q.bytes <= p.bytes
<1> DEFINE gone == {t \in p.pending : Missing(t, utxo) # {}}
           r == remove_pending(p, gone)
           s == AddOrphans(r, gone, utxo)
<1>1. gone \in SUBSET Tx /\ gone \in SUBSET p.pending /\ IsFiniteSet(gone)
  BY PoolFields, FS_Subset
<1>2. Sound(r) /\ r.pending = p.pending \ gone
  BY <1>1, RemovePendingSound
<1>3. gone \cap r.pending = {} /\ \A t \in gone : Missing(t, utxo) # {}
  BY <1>2
<1>4. r.bytes <= p.bytes
  BY <1>2, FewerBytes
<1>5. q \in PruneTo(s, MaxOrphans) /\ p.pending \ gone = {t \in p.pending : Missing(t, utxo) = {}}
  BY DEF revalidate_with_utxo
<1> HIDE DEF gone, r
<1>6. Sound(s) /\ s.pending = r.pending /\ s.bytes = r.bytes
  BY <1>1, <1>2, <1>3, AddOrphansSound
<1> HIDE DEF s
<1>7. MaxOrphans \in Nat
  BY LimitsAreNumbers
<1>8. Sound(q) /\ Cardinality(q.orphans) <= MaxOrphans /\ q.pending = s.pending /\ q.bytes = s.bytes
  BY <1>5, <1>6, <1>7, PruneSound
<1> QED
  BY <1>2, <1>4, <1>5, <1>6, <1>8

LEMMA RemoveAllSound ==
    ASSUME NEW p, Sound(p), NEW S \in SUBSET Tx
    PROVE  LET q == remove_all(p, S)
           IN  /\ Sound(q) /\ q.pending = p.pending \ S /\ q.orphans = p.orphans \ S
               /\ q.bytes <= p.bytes
<1> DEFINE r == remove_pending(p, S)
<1>1. Sound(r) /\ SameOrphans(p, r) /\ r.pending = p.pending \ S
  BY RemovePendingSound
<1>2. r.bytes <= p.bytes
  BY <1>1, FewerBytes
<1>3. remove_all(p, S) = remove_orphan(r, S)
  BY DEF remove_all
<1> HIDE DEF r
<1>4. LET q == remove_orphan(r, S)
      IN  Sound(q) /\ q.orphans = r.orphans \ S /\ q.pending = r.pending /\ q.bytes = r.bytes
  BY <1>1, RemoveOrphanSound
<1> QED
  BY <1>1, <1>2, <1>3, <1>4 DEF SameOrphans

\* Orphans that wait for nothing any more are promoted, or dropped.
LEMMA PromoteSound ==
    ASSUME NEW p, Sound(p), NEW utxo, NEW q \in on_new_block(p, utxo)
    PROVE  /\ Sound(q) /\ Cardinality(q.orphans) <= MaxOrphans
           /\ \A t \in q.pending : t \in p.pending \/ Missing(t, utxo) = {}
<1> DEFINE ready == {t \in p.orphans : Missing(t, utxo) = {}}
           paying == {t \in ready : Rate(t) >= MinFeeRate}
           r == remove_orphan(p, ready)
           s == AddPending(r, paying)
<1>1. ready \in SUBSET Tx /\ paying \in SUBSET ready /\ ready \cap p.pending = {}
  BY PoolFields DEF Sound, Indexed
<1>2. IsFiniteSet(paying) /\ paying \in SUBSET Tx
  BY <1>1, PoolFields, FS_Subset
<1>3. Sound(r) /\ r.orphans = p.orphans \ ready /\ r.pending = p.pending
  BY <1>1, RemoveOrphanSound
<1>4. paying \cap r.pending = {} /\ paying \cap r.orphans = {}
  BY <1>1, <1>3
<1>5. q \in PruneTo(s, MaxOrphans) /\ \A t \in paying : Missing(t, utxo) = {}
  BY DEF on_new_block
<1> HIDE DEF ready, paying, r
<1>6. Sound(s) /\ s.pending = r.pending \cup paying
  BY <1>2, <1>3, <1>4, AddPendingSound
<1> HIDE DEF s
<1>7. MaxOrphans \in Nat
  BY LimitsAreNumbers
<1>8. Sound(q) /\ Cardinality(q.orphans) <= MaxOrphans /\ q.pending = s.pending
  BY <1>5, <1>6, <1>7, PruneSound
<1> QED
  BY <1>3, <1>5, <1>6, <1>8

-----------------------------------------------------------------------------
(***************************************************************************)
(* The node's handlers.                                                    *)
(***************************************************************************)
PoolInv == Sound(pool) /\ Cardinality(pool.orphans) <= MaxOrphans /\ PendingSpendable

LEMMA PoolInvInit == Init => PoolInv
<1> SUFFICES ASSUME Init PROVE PoolInv
  OBVIOUS
<1>1. pool = EmptyPool
  BY DEF Init
<1>2. pool.pending = {} /\ pool.orphans = {}
  BY <1>1 DEF EmptyPool
<1>3. Cardinality(pool.orphans) <= MaxOrphans
  BY <1>2, FS_EmptySet, LimitsAreNumbers
<1> QED
  BY <1>1, <1>2, <1>3, EmptySound DEF PoolInv, PendingSpendable

\* A block may take outputs away from what is pending, and only then.
LEMMA SpendableKept ==
    ASSUME PendingSpendable, UNCHANGED applied,
           \A t \in pool'.pending : t \in pool.pending \/ Missing(t, Utxo(applied)) = {}
    PROVE  PendingSpendable'
BY DEF PendingSpendable, Missing

LEMMA PoolInvStep == PoolInv /\ [Next]_vars => PoolInv'
<1> SUFFICES ASSUME PoolInv, [Next]_vars PROVE PoolInv'
  OBVIOUS
<1>0. Sound(pool) /\ Cardinality(pool.orphans) <= MaxOrphans /\ PendingSpendable
  BY DEF PoolInv
<1>1. ASSUME NEW t \in Tx, Submit(t) PROVE PoolInv'
  <2>1. pool' \in add(pool, t, Utxo(applied)) /\ UNCHANGED applied
    BY <1>1 DEF Submit
  <2>2. /\ Sound(pool') /\ Cardinality(pool'.orphans) <= MaxOrphans
        /\ (pool'.pending = pool.pending /\ pool'.bytes = pool.bytes) \/ Entered(pool, pool', t)
        /\ pool'.pending \subseteq pool.pending
             \/ (Missing(t, Utxo(applied)) = {} /\ t \notin pool.pending)
    BY <1>0, <2>1, AddSound
  <2>3. \A u \in pool'.pending : u \in pool.pending \/ Missing(u, Utxo(applied)) = {}
    BY <2>2 DEF Entered
  <2> QED
    BY <1>0, <2>1, <2>2, <2>3, SpendableKept DEF PoolInv
<1>2. ASSUME NEW t \in Tx, ReplaceByFee(t) PROVE PoolInv'
  <2>1. pool' \in replace_by_fee(pool, t, Utxo(applied), FeeBump) /\ UNCHANGED applied
    BY <1>2 DEF ReplaceByFee
  <2>2. /\ Sound(pool') /\ Cardinality(pool'.orphans) <= MaxOrphans
        /\ \/ pool'.pending = pool.pending
           \/ \E s : /\ s.pending \subseteq pool.pending
                     /\ pool'.pending = s.pending \/ Entered(s, pool', t)
        /\ pool'.pending \subseteq pool.pending \/ Missing(t, Utxo(applied)) = {}
    BY <1>0, <2>1, ReplaceSound
  <2>3. \A u \in pool'.pending : u \in pool.pending \/ Missing(u, Utxo(applied)) = {}
    BY <2>2 DEF Entered
  <2> QED
    BY <1>0, <2>1, <2>2, <2>3, SpendableKept DEF PoolInv
<1>3. ASSUME NEW A \in Ledgers, ReceiveBlock(A) PROVE PoolInv'
  <2>1. applied' = A /\ pool' \in revalidate_with_utxo(pool, Utxo(applied'))
    BY <1>3 DEF ReceiveBlock
  <2>2. /\ Sound(pool') /\ Cardinality(pool'.orphans) <= MaxOrphans
        /\ pool'.pending = {t \in pool.pending : Missing(t, Utxo(applied')) = {}}
    BY <1>0, <2>1, RevalidateSound
  <2> QED
    BY <2>2 DEF PoolInv, PendingSpendable, Missing
<1>4. ASSUME ProduceBlock PROVE PoolInv'
  <2>0. PICK C \in SUBSET pool.pending :
          /\ applied' = applied \cup C
          /\ \E p \in revalidate_with_utxo(pool, Utxo(applied')) : pool' = remove_all(p, C)
    BY <1>4 DEF ProduceBlock
  <2>1. PICK p \in revalidate_with_utxo(pool, Utxo(applied')) :
          pool' = remove_all(p, C)
    BY <2>0
  <2>2. /\ Sound(p) /\ Cardinality(p.orphans) <= MaxOrphans
        /\ p.pending = {t \in pool.pending : Missing(t, Utxo(applied')) = {}}
    BY <1>0, RevalidateSound
  <2>3. /\ Sound(pool') /\ pool'.pending = p.pending \ C
        /\ pool'.orphans = p.orphans \ C
    <3>1. C \in SUBSET Tx
      BY <1>0, PoolFields
    <3> QED
      BY <2>1, <2>2, <3>1, RemoveAllSound
  <2>4. Cardinality(pool'.orphans) <= MaxOrphans
    <3>1. pool'.orphans \in SUBSET p.orphans /\ IsFiniteSet(p.orphans)
      BY <2>2, <2>3, PoolFields
    <3>2. /\ Cardinality(pool'.orphans) <= Cardinality(p.orphans)
          /\ Cardinality(pool'.orphans) \in Nat /\ Cardinality(p.orphans) \in Nat
      BY <3>1, FS_Subset, FS_CardinalityType
    <3> QED
      BY <2>2, <3>2, LimitsAreNumbers
  <2> QED
    BY <2>2, <2>3, <2>4 DEF PoolInv, PendingSpendable, Missing
<1>5. ASSUME PromoteOrphans PROVE PoolInv'
  <2>1. pool' \in on_new_block(pool, Utxo(applied)) /\ UNCHANGED applied
    BY <1>5 DEF PromoteOrphans
  <2>2. /\ Sound(pool') /\ Cardinality(pool'.orphans) <= MaxOrphans
        /\ \A t \in pool'.pending : t \in pool.pending \/ Missing(t, Utxo(applied)) = {}
    BY <1>0, <2>1, PromoteSound
  <2> QED
    BY <1>0, <2>1, <2>2, SpendableKept DEF PoolInv
<1>6. ASSUME UNCHANGED vars PROVE PoolInv'
  BY <1>6 DEF vars, PoolInv, PendingSpendable
<1> QED
  BY <1>1, <1>2, <1>3, <1>4, <1>5, <1>6 DEF Next


LEMMA PoolInvariance == Spec => []PoolInv
BY PoolInvInit, PoolInvStep, PTL DEF Spec

(***************************************************************************)
(* What is pending can be spent in every reachable state, whatever blocks  *)
(* came and whatever they reorganised (revalidate_with_utxo).              *)
(***************************************************************************)
THEOREM PendingIsSpendable == Spec => []PendingSpendable
<1>1. PoolInv => PendingSpendable
  BY DEF PoolInv
<1> QED
  BY <1>1, PoolInvariance, PTL

-----------------------------------------------------------------------------
(***************************************************************************)
(* The limits of the pool.                                                 *)
(***************************************************************************)
\* q has no more in it than p, or no more than the limits allow.
NoFuller(p, q) ==
  /\ Cardinality(q.pending) <= MaxTxs \/ Cardinality(q.pending) <= Cardinality(p.pending)
  /\ q.bytes <= MaxBytes \/ q.bytes <= p.bytes

LEMMA FewerIsNoFuller ==
    ASSUME NEW p, Sound(p), NEW q, Sound(q), q.pending \subseteq p.pending
    PROVE  NoFuller(p, q)
<1>1. Cardinality(q.pending) <= Cardinality(p.pending)
  <2>1. q.pending \in SUBSET p.pending /\ IsFiniteSet(p.pending)
    BY PoolFields
  <2> QED
    BY <2>1, FS_Subset
<1> QED
  BY <1>1, FewerBytes DEF NoFuller

LEMMA EnteredIsNoFuller ==
    ASSUME NEW p, Sound(p), NEW s, Sound(s), s.pending \subseteq p.pending,
           NEW q, Sound(q), NEW t, Entered(s, q, t)
    PROVE  NoFuller(p, q)
<1>1. CASE q.pending \subseteq s.pending
  BY <1>1, FewerIsNoFuller
<1>2. CASE Cardinality(q.pending) <= MaxTxs /\ q.bytes <= MaxBytes
  BY <1>2 DEF NoFuller
<1> QED
  BY <1>1, <1>2 DEF Entered

LEMMA NoFullerMeans ==
    ASSUME Sound(pool), Sound(pool'), NoFuller(pool, pool')
    PROVE  ~(\/ Cardinality(pool'.pending) > Max({MaxTxs, Cardinality(pool.pending)})
             \/ pool'.bytes > Max({MaxBytes, pool.bytes}))
<1> DEFINE c == Cardinality(pool.pending)
           d == Cardinality(pool'.pending)
<1>1. c \in Nat /\ d \in Nat
  BY PoolFields, FS_CardinalityType
<1>2. pool.bytes \in Nat /\ pool'.bytes \in Nat
  BY PoolFields
<1>3. /\ d <= MaxTxs \/ d <= c
      /\ pool'.bytes <= MaxBytes \/ pool'.bytes <= pool.bytes
  BY DEF NoFuller
<1> HIDE DEF c, d
<1>4. Max({MaxTxs, c}) = IF MaxTxs >= c THEN MaxTxs ELSE c
  BY <1>1, MaxOfTwo, LimitsAreNumbers
<1>5. Max({MaxBytes, pool.bytes}) = IF MaxBytes >= pool.bytes THEN MaxBytes ELSE pool.bytes
  BY <1>2, MaxOfTwo, LimitsAreNumbers
<1>6. ~(d > Max({MaxTxs, c}))
  BY <1>1, <1>3, <1>4, LimitsAreNumbers
<1>7. ~(pool'.bytes > Max({MaxBytes, pool.bytes}))
  BY <1>2, <1>3, <1>5, LimitsAreNumbers
<1> QED
  BY <1>6, <1>7 DEF c, d

LEMMA OverfullStep ==
    PoolInv /\ PoolInv' /\ [Next]_vars =>
      [\/ Cardinality(pool'.pending) > Max({MaxTxs, Cardinality(pool.pending)})
       \/ pool'.bytes > Max({MaxBytes, pool.bytes})
       => PromoteOrphans]_vars
<1> SUFFICES ASSUME PoolInv, PoolInv', [Next]_vars, ~PromoteOrphans
             PROVE  NoFuller(pool, pool')
  BY NoFullerMeans DEF PoolInv
<1>0. Sound(pool) /\ Sound(pool') /\ Cardinality(pool.orphans) <= MaxOrphans
  BY DEF PoolInv
<1>1. ASSUME NEW t \in Tx, Submit(t) PROVE NoFuller(pool, pool')
  <2>1. (pool'.pending = pool.pending /\ pool'.bytes = pool.bytes) \/ Entered(pool, pool', t)
    BY <1>0, <1>1, AddSound DEF Submit
  <2> QED
    BY <1>0, <2>1, FewerIsNoFuller, EnteredIsNoFuller
<1>2. ASSUME NEW t \in Tx, ReplaceByFee(t) PROVE NoFuller(pool, pool')
  <2>1. \/ pool'.pending = pool.pending /\ pool'.bytes = pool.bytes
        \/ \E s : /\ Sound(s) /\ s.pending \subseteq pool.pending
                  /\ (pool'.pending = s.pending /\ pool'.bytes = s.bytes)
                     \/ Entered(s, pool', t)
    <3>1. pool' \in replace_by_fee(pool, t, Utxo(applied), FeeBump)
      BY <1>2 DEF ReplaceByFee
    <3> QED
      BY <1>0, <3>1, ReplaceSound
  <2> QED
    BY <1>0, <2>1, FewerIsNoFuller, EnteredIsNoFuller
<1>3. ASSUME NEW A \in Ledgers, ReceiveBlock(A) PROVE NoFuller(pool, pool')
  <2>1. pool'.pending \subseteq pool.pending
    BY <1>0, <1>3, RevalidateSound DEF ReceiveBlock
  <2> QED
    BY <1>0, <2>1, FewerIsNoFuller
<1>4. ASSUME ProduceBlock PROVE NoFuller(pool, pool')
  <2>1. PICK C \in SUBSET pool.pending :
          \E p \in revalidate_with_utxo(pool, Utxo(applied \cup C)) : pool' = remove_all(p, C)
    BY <1>4 DEF ProduceBlock
  <2>2. PICK p \in revalidate_with_utxo(pool, Utxo(applied \cup C)) : pool' = remove_all(p, C)
    BY <2>1
  <2>3. Sound(p) /\ p.pending \subseteq pool.pending
    BY <1>0, RevalidateSound
  <2>4. C \in SUBSET Tx
    BY <1>0, PoolFields
  <2>5. pool'.pending \subseteq p.pending
    BY <2>2, <2>3, <2>4, RemoveAllSound
  <2> QED
    BY <1>0, <2>3, <2>5, FewerIsNoFuller
<1>5. ASSUME UNCHANGED vars PROVE NoFuller(pool, pool')
  BY <1>0, <1>5, FewerIsNoFuller DEF vars
<1> QED
  BY <1>1, <1>2, <1>3, <1>4, <1>5 DEF Next

(***************************************************************************)
(* The byte count and the index of the orphans tell the truth, the orphan  *)
(* pool keeps its limit, and nothing but the promotion of orphans takes    *)
(* the pool above its limits (ensure_capacity, prune_orphans).             *)
(***************************************************************************)
THEOREM PoolLimitsHold == Spec => LimitsHold
<1>1. PoolInv => BytesExact /\ IndexExact /\ OrphansBounded
  BY DEF PoolInv, Sound, Indexed, BytesExact, IndexExact, OrphansBounded
<1>2. Spec => []BytesExact /\ []IndexExact /\ []OrphansBounded
  BY <1>1, PoolInvariance, PTL
<1>3. Spec => OverfullByPromotionOnly
  BY OverfullStep, PoolInvariance, PTL DEF Spec, OverfullByPromotionOnly
<1> QED
  BY <1>2, <1>3, PTL DEF LimitsHold


-----------------------------------------------------------------------------
(***************************************************************************)
(* What is displaced.                                                      *)
(***************************************************************************)
LEMMA RateType == ASSUME NEW t \in Tx PROVE Rate(t) \in Int
<1>1. Fee(t) \in Nat /\ Size(t) \in Nat /\ Size(t) > 0
  BY MempoolAssumption
<1> QED
  BY <1>1 DEF Rate

LEMMA CheapestStep ==
    ASSUME PoolInv, NEW t \in Tx, Submit(t),
           NEW g \in pool.pending \ pool'.pending, NEW k \in pool.pending \cap pool'.pending
    PROVE  Rate(g) <= Rate(k)
<1>1. Sound(pool) /\ Cardinality(pool.orphans) <= MaxOrphans
  BY DEF PoolInv
<1>2. pool'.pending = pool.pending \/ Entered(pool, pool', t)
  BY <1>1, AddSound DEF Submit
<1> QED
  BY <1>2 DEF Entered, LowestFirst

LEMMA ReplacementStep ==
    ASSUME PoolInv, NEW t \in Tx \ pool.pending, ReplaceByFee(t)
    PROVE  \/ pool'.pending \subseteq pool.pending
           \/ /\ pool'.pending \ pool.pending = {t}
              /\ \E c \in pool.pending \ pool'.pending :
                   Conflict(c, t) /\ Rate(t) >= Rate(c) + FeeBump
              /\ \A u \in pool'.pending \ {t} : ~Conflict(u, t)
<1>1. Sound(pool) /\ Cardinality(pool.orphans) <= MaxOrphans
  BY DEF PoolInv
<1>2. pool' \in replace_by_fee(pool, t, Utxo(applied), FeeBump)
  BY DEF ReplaceByFee
<1>3. \/ pool'.pending = pool.pending
      \/ \E s : /\ s.pending = {u \in pool.pending : ~Conflict(u, t)}
                /\ pool'.pending = s.pending \/ Entered(s, pool', t)
                /\ \E c \in pool.pending : Conflict(c, t) /\ ~(Rate(t) < Rate(c) + FeeBump)
  BY <1>1, <1>2, ReplaceSound
<1>4. CASE pool'.pending \subseteq pool.pending
  BY <1>4
<1>5. CASE ~(pool'.pending \subseteq pool.pending)
  <2>1. PICK s : /\ s.pending = {u \in pool.pending : ~Conflict(u, t)}
                 /\ Entered(s, pool', t)
                 /\ \E c \in pool.pending : Conflict(c, t) /\ ~(Rate(t) < Rate(c) + FeeBump)
    BY <1>3, <1>5
  <2>2. PICK kept \in SUBSET s.pending : pool'.pending = kept \cup {t}
    BY <1>5, <2>1 DEF Entered
  <2>3. PICK c \in pool.pending : Conflict(c, t) /\ ~(Rate(t) < Rate(c) + FeeBump)
    BY <2>1
  <2>4. pool'.pending \ pool.pending = {t}
    BY <2>1, <2>2
  <2>5. c \in pool.pending \ pool'.pending
    BY <2>1, <2>2, <2>3
  <2>6. Rate(t) >= Rate(c) + FeeBump
    <3>1. c \in Tx
      BY <1>1, PoolFields
    <3>2. Rate(c) \in Int /\ Rate(t) \in Int /\ FeeBump \in Int
      BY <3>1, RateType, NodeMempoolAssumption
    <3> QED
      BY <2>3, <3>2
  <2>7. \A u \in pool'.pending \ {t} : ~Conflict(u, t)
    BY <2>1, <2>2
  <2> QED
    BY <2>3, <2>4, <2>5, <2>6, <2>7
<1> QED
  BY <1>4, <1>5

(***************************************************************************)
(* A submission displaces only the lowest fee rates, a replacement only    *)
(* what it conflicts with and outbids, or nothing at all                   *)
(* (evict_lowest_fee_rate, replace_by_fee).                                *)
(***************************************************************************)
THEOREM DisplacedFairly == Spec => FairlyDisplaced
<1>1. PoolInv /\ [Next]_vars =>
        [UNCHANGED applied =>
           \A t \in Tx : Submit(t) =>
             \A g \in pool.pending \ pool'.pending, k \in pool.pending \cap pool'.pending :
               Rate(g) <= Rate(k)]_vars
  BY CheapestStep
<1>2. PoolInv /\ [Next]_vars =>
        [\A t \in Tx \ pool.pending : UNCHANGED applied /\ ReplaceByFee(t) =>
           \/ pool'.pending \subseteq pool.pending
           \/ /\ pool'.pending \ pool.pending = {t}
              /\ \E c \in pool.pending \ pool'.pending :
                   Conflict(c, t) /\ Rate(t) >= Rate(c) + FeeBump
              /\ \A u \in pool'.pending \ {t} : ~Conflict(u, t)]_vars
  BY ReplacementStep
<1>3. Spec => CheapestEvicted
  BY <1>1, PoolInvariance, PTL DEF Spec, CheapestEvicted
<1>4. Spec => ReplacementClears
  BY <1>2, PoolInvariance, PTL DEF Spec, ReplacementClears
<1> QED
  BY <1>3, <1>4, PTL DEF FairlyDisplaced


-----------------------------------------------------------------------------
(***************************************************************************)
(* A produced block applies.  Its transactions take their turns after the  *)
(* ones that are applied already, in the order of their ids: each finds    *)
(* the outputs it found when it was tried.                                 *)
(***************************************************************************)
\* The turn of t among the transactions D, which are numbers.
TurnIn(D, t) == Cardinality({u \in D : u <= t})

LEMMA TurnsInOrder ==
    ASSUME NEW D \in SUBSET Int, IsFiniteSet(D)
    PROVE  /\ \A t \in D : TurnIn(D, t) \in 1 .. Cardinality(D)
           /\ \A t, u \in D : u < t <=> TurnIn(D, u) < TurnIn(D, t)
<1> DEFINE Upto(t) == {u \in D : u <= t}
<1>1. \A t \in D : /\ Upto(t) \in SUBSET D /\ t \in Upto(t)
                   /\ IsFiniteSet(Upto(t)) /\ Cardinality(Upto(t)) \in Nat
                   /\ Cardinality(Upto(t)) <= Cardinality(D)
  <2> SUFFICES ASSUME NEW t \in D
               PROVE  /\ Upto(t) \in SUBSET D /\ t \in Upto(t)
                      /\ IsFiniteSet(Upto(t)) /\ Cardinality(Upto(t)) \in Nat
                      /\ Cardinality(Upto(t)) <= Cardinality(D)
    OBVIOUS
  <2>1. Upto(t) \in SUBSET D /\ t \in Upto(t)
    OBVIOUS
  <2> HIDE DEF Upto
  <2> QED
    BY <2>1, FS_Subset, FS_CardinalityType
<1>2. \A t \in D : Cardinality(Upto(t)) # 0
  BY <1>1, FS_EmptySet
<1>3. \A t \in D : TurnIn(D, t) = Cardinality(Upto(t))
  BY DEF TurnIn
<1>4. Cardinality(D) \in Nat
  BY FS_CardinalityType
<1>5. \A t \in D : TurnIn(D, t) \in 1 .. Cardinality(D)
  <2> HIDE DEF Upto
  <2> QED
    BY <1>1, <1>2, <1>3, <1>4
<1>6. ASSUME NEW t \in D, NEW u \in D, u < t PROVE TurnIn(D, u) < TurnIn(D, t)
  <2>1. Upto(u) \in SUBSET Upto(t) /\ Upto(u) # Upto(t)
    <3>1. t \in Int /\ u \in Int /\ \A v \in D : v \in Int
      OBVIOUS
    <3>2. \A v \in D : v <= u => v <= t
      BY <3>1, <1>6
    <3>3. t \in Upto(t) /\ t \notin Upto(u)
      BY <3>1, <1>6
    <3> QED
      BY <3>2, <3>3
  <2>2. /\ Cardinality(Upto(u)) <= Cardinality(Upto(t))
        /\ Cardinality(Upto(u)) # Cardinality(Upto(t))
    <3> HIDE DEF Upto
    <3> QED
      BY <1>1, <2>1, FS_Subset
  <2> HIDE DEF Upto
  <2> QED
    BY <1>1, <1>3, <2>2
<1>7. ASSUME NEW t \in D, NEW u \in D, TurnIn(D, u) < TurnIn(D, t) PROVE u < t
  <2>1. CASE u = t
    BY <1>5, <1>7, <2>1
  <2>2. CASE t < u
    <3>1. TurnIn(D, t) < TurnIn(D, u)
      BY <1>6, <2>2
    <3> QED
      BY <1>5, <1>7, <3>1
  <2> QED
    BY <2>1, <2>2
<1> QED
  BY <1>5, <1>6, <1>7

LEMMA BlockApplies ==
    ASSUME applied \in Ledgers, pool.pending \in SUBSET Tx,
           NEW C \in SUBSET pool.pending, Taken(C)
    PROVE  applied \cup C \in Ledgers
<1> DEFINE D == C \ applied
           All == applied \cup C
           n == Cardinality(applied)
<1>1. /\ C \in SUBSET Minable /\ applied \in SUBSET Minable
      /\ \A t \in C : Ins(t) \subseteq Utxo(applied \cup {u \in C : u < t})
  BY DEF Taken, Ledgers
<1>2. /\ IsFiniteSet(applied) /\ IsFiniteSet(D) /\ D \in SUBSET Int
      /\ n \in Nat /\ Cardinality(D) \in Nat /\ Cardinality(All) = n + Cardinality(D)
  <2>1. IsFiniteSet(applied) /\ IsFiniteSet(D)
    BY <1>1, NodeMempoolAssumption, FS_Subset
  <2>2. applied \cup D = All /\ applied \cap D = {}
    OBVIOUS
  <2>3. D \in SUBSET Int
    BY NodeMempoolAssumption
  <2> HIDE DEF D, All
  <2>4. n \in Nat /\ Cardinality(D) \in Nat
    BY <2>1, FS_CardinalityType
  <2>5. Cardinality(applied \cup D) = n + Cardinality(D) - Cardinality(applied \cap D)
    BY <2>1, FS_Union
  <2>6. Cardinality(applied \cap D) = 0
    BY <2>2, FS_EmptySet
  <2>7. Cardinality(All) = n + Cardinality(D)
    BY <2>2, <2>4, <2>5, <2>6
  <2> QED
    BY <2>1, <2>3, <2>4, <2>7
<1>3. PICK turn \in Injection(applied, 1 .. n) :
        \A t \in applied : Ins(t) \subseteq Utxo({u \in applied : turn[u] < turn[t]})
  BY DEF Ledgers
<1>4. /\ \A t \in applied : turn[t] \in 1 .. n
      /\ \A t, u \in applied : turn[t] = turn[u] => t = u
  BY <1>3 DEF Injection, IsInjective
<1> DEFINE m == Cardinality(D)
           turnD == [t \in D |-> TurnIn(D, t)]
           next == [t \in All |-> IF t \in applied THEN turn[t] ELSE n + turnD[t]]
<1>5. /\ \A t \in D : turnD[t] \in 1 .. m
      /\ \A t, u \in D : u < t <=> turnD[u] < turnD[t]
  <2>1. \A t \in D : turnD[t] = TurnIn(D, t)
    OBVIOUS
  <2> HIDE DEF D, turnD
  <2> QED
    BY <1>2, <2>1, TurnsInOrder
<1>6. /\ All = applied \cup D /\ applied \cap D = {} /\ D = C \ applied
      /\ n \in Nat /\ m \in Nat /\ Cardinality(All) = n + m
  BY <1>2
<1> HIDE DEF n, m, turnD
<1>7. /\ next \in [All -> Int]
      /\ \A t \in applied : next[t] = turn[t]
      /\ \A t \in D : next[t] = n + turnD[t]
  BY <1>4, <1>5, <1>6
<1> HIDE DEF next, All, D
<1>8. next \in Injection(All, 1 .. Cardinality(All))
  <2>1. \A t \in All : next[t] \in 1 .. Cardinality(All)
    BY <1>4, <1>5, <1>6, <1>7
  <2>2. ASSUME NEW t \in All, NEW u \in All, next[t] = next[u] PROVE t = u
    <3>1. CASE t \in applied /\ u \in applied
      BY <1>4, <1>7, <2>2, <3>1
    <3>2. CASE t \in D /\ u \in D
      <4>1. turnD[t] = turnD[u]
        BY <1>5, <1>6, <1>7, <2>2, <3>2
      <4>2. ~(turnD[u] < turnD[t]) /\ ~(turnD[t] < turnD[u])
        <5>1. turnD[t] \in Int
          BY <1>5, <1>6, <3>2
        <5> QED
          BY <4>1, <5>1
      <4>3. ~(u < t) /\ ~(t < u)
        BY <1>5, <3>2, <4>2
      <4>4. t \in Int /\ u \in Int
        BY <1>2, <3>2
      <4> QED
        BY <4>3, <4>4
    <3>3. CASE (t \in applied /\ u \in D) \/ (t \in D /\ u \in applied)
      BY <1>4, <1>5, <1>6, <1>7, <2>2, <3>3
    <3> QED
      BY <3>1, <3>2, <3>3, <1>6
  <2>3. next \in [All -> 1 .. Cardinality(All)]
    BY <1>7, <2>1
  <2> QED
    BY <2>2, <2>3 DEF Injection, IsInjective
<1>9. ASSUME NEW t \in All PROVE Ins(t) \subseteq Utxo({u \in All : next[u] < next[t]})
  <2>1. CASE t \in applied
    <3>1. \A u \in All : next[u] < next[t] <=> u \in applied /\ turn[u] < turn[t]
      <4>1. ASSUME NEW u \in applied PROVE next[u] < next[t] <=> turn[u] < turn[t]
        BY <1>7, <2>1
      <4>2. ASSUME NEW u \in D PROVE ~(next[u] < next[t])
        <5>1. next[u] = n + turnD[u] /\ next[t] = turn[t]
          BY <1>7, <2>1
        <5>2. turnD[u] \in 1 .. m /\ turn[t] \in 1 .. n
          BY <1>4, <1>5, <2>1
        <5> QED
          BY <1>6, <5>1, <5>2
      <4> QED
        BY <1>6, <4>1, <4>2
    <3>2. {u \in All : next[u] < next[t]} = {u \in applied : turn[u] < turn[t]}
      BY <1>6, <3>1
    <3> QED
      BY <1>3, <2>1, <3>2
  <2>2. CASE t \in D
    <3>1. \A u \in All : next[u] < next[t] <=> u \in applied \/ (u \in C /\ u < t)
      <4>1. ASSUME NEW u \in applied PROVE next[u] < next[t]
        <5>1. next[t] = n + turnD[t] /\ next[u] = turn[u]
          BY <1>7, <2>2
        <5>2. turnD[t] \in 1 .. m /\ turn[u] \in 1 .. n
          BY <1>4, <1>5, <2>2
        <5> QED
          BY <1>6, <5>1, <5>2
      <4>2. ASSUME NEW u \in D PROVE next[u] < next[t] <=> u < t
        <5>1. next[t] = n + turnD[t] /\ next[u] = n + turnD[u]
          BY <1>7, <2>2
        <5>2. turnD[t] \in 1 .. m /\ turnD[u] \in 1 .. m
          BY <1>5, <2>2
        <5>3. next[u] < next[t] <=> turnD[u] < turnD[t]
          BY <1>6, <5>1, <5>2
        <5> QED
          BY <1>5, <2>2, <5>3
      <4> QED
        BY <1>6, <4>1, <4>2
    <3>2. {u \in All : next[u] < next[t]} = applied \cup {u \in C : u < t}
      BY <1>6, <3>1
    <3> QED
      BY <1>1, <1>6, <2>2, <3>2
  <2> QED
    BY <1>6, <2>1, <2>2
<1>10. All \in SUBSET Minable
  BY <1>1, <1>6
<1>11. All \in Ledgers
  BY <1>8, <1>9, <1>10 DEF Ledgers
<1> QED
  BY <1>11 DEF All

LEMMA NothingApplied == {} \in Ledgers
<1> DEFINE none == [t \in {} |-> 1]
<1>1. none \in Injection({}, 1 .. Cardinality({}))
  BY DEF Injection, IsInjective
<1> QED
  BY <1>1 DEF Ledgers

LedgerInv == PoolInv /\ applied \in Ledgers

LEMMA LedgerInvStep == LedgerInv /\ [Next]_vars => LedgerInv'
<1> SUFFICES ASSUME LedgerInv, [Next]_vars PROVE applied' \in Ledgers
  BY PoolInvStep DEF LedgerInv
<1>1. CASE UNCHANGED applied
  BY <1>1 DEF LedgerInv
<1>2. ASSUME NEW A \in Ledgers, ReceiveBlock(A) PROVE applied' \in Ledgers
  BY <1>2 DEF ReceiveBlock
<1>3. CASE ProduceBlock
  <2>1. PICK C \in SUBSET pool.pending : Taken(C) /\ applied' = applied \cup C
    BY <1>3 DEF ProduceBlock
  <2>2. pool.pending \in SUBSET Tx
    BY PoolFields DEF LedgerInv, PoolInv
  <2> QED
    BY <2>1, <2>2, BlockApplies DEF LedgerInv
<1> QED
  BY <1>1, <1>2, <1>3 DEF Next, Submit, ReplaceByFee, PromoteOrphans, vars

LEMMA LedgerInvariance == Spec => []LedgerInv
<1>1. Init => LedgerInv
  BY PoolInvInit, NothingApplied DEF LedgerInv, Init
<1> QED
  BY <1>1, LedgerInvStep, PTL DEF Spec

(***************************************************************************)
(* Whatever conflicts are pending, a produced block is one the ledger can  *)
(* apply, and nothing of it stays in the pool (produce_block, remove_all). *)
(***************************************************************************)
THEOREM ProducedApplies == Spec => ProducedBlockApplies
<1>1. LedgerInv /\ LedgerInv' /\ [Next]_vars =>
        [ProduceBlock =>
           /\ applied' \in Ledgers
           /\ (pool'.pending \cup pool'.orphans) \cap (applied' \ applied) = {}]_vars
  <2> SUFFICES ASSUME LedgerInv, LedgerInv', ProduceBlock
               PROVE  /\ applied' \in Ledgers
                      /\ (pool'.pending \cup pool'.orphans) \cap (applied' \ applied) = {}
    OBVIOUS
  <2>1. PICK C \in SUBSET pool.pending :
          /\ applied' = applied \cup C
          /\ \E p \in revalidate_with_utxo(pool, Utxo(applied \cup C)) : pool' = remove_all(p, C)
    BY DEF ProduceBlock
  <2>2. PICK p \in revalidate_with_utxo(pool, Utxo(applied \cup C)) : pool' = remove_all(p, C)
    BY <2>1
  <2>3. Sound(pool) /\ applied' \in Ledgers
    BY DEF LedgerInv, PoolInv
  <2>4. Sound(p) /\ C \in SUBSET Tx
    BY <2>3, RevalidateSound, PoolFields
  <2>5. pool'.pending = p.pending \ C /\ pool'.orphans = p.orphans \ C
    BY <2>2, <2>4, RemoveAllSound
  <2> QED
    BY <2>1, <2>3, <2>5
<1> QED
  BY <1>1, LedgerInvariance, PTL DEF Spec, ProducedBlockApplies

=============================================================================
