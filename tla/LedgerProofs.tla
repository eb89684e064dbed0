---------------------------- MODULE LedgerProofs ----------------------------
(***************************************************************************)
(* All properties of the ledger: no view holds coins that were not minted, *)
(* nor more than MAX_SUPPLY, nor more of an asset than coinbases made;     *)
(* what is rebuilt from the undo log is what applying the order of the     *)
(* past gives, and was spent in time: for every DAG, finality depth,       *)
(* schedule, cap and payload.                                              *)
(*                                                                         *)
(* The argument.  A block leaves unspent what there was and what its       *)
(* coinbase mints, less its fees, and mints within the cap                 *)
(* (BlockBalances); merging blocks adds up (MergedViewGains).  The undo    *)
(* log keeps differences, and what is rebuilt from them need not be what   *)
(* was computed: an entry that is spent and created again is lost.  But    *)
(* each rebuilt view stays below a bound (Below) that holds no more than   *)
(* was minted for its block (Backed), and neither a new delta              *)
(* (PutKeepsBounds), nor folding (FoldKeepsBounds), nor pruning            *)
(* (PruneKeepsBounds) takes it above.  Sums over outputs are counted in    *)
(* units (LoopProofs), for which no induction over data is needed.         *)
(*                                                                         *)
(* Where nothing is lost, views are exact (ViewsAreExact): when ids are    *)
(* not used twice, an outpoint that a block of a view's past spent is made *)
(* by no later block (Follows), which is what apply and compose need, of   *)
(* outputs and of bonds alike.  A registry is its bonds (Reg): the totals  *)
(* are their sums by key, through every bond, unbond, delta and fold.      *)
(*                                                                         *)
(* What is computed is the replay (ReplaysAreExact): the order of a new    *)
(* block is its selected parent's, the mergeset and the block, and so is   *)
(* the way its view is built (ReplayInv).  Of a replay more can be said    *)
(* than of a view: every entry leads to the transaction and the block that *)
(* made it (Traced), hence time locks hold (SpendsObeyTheRules).           *)
(***************************************************************************)
EXTENDS LedgerProps, DagProofs

-----------------------------------------------------------------------------
(***************************************************************************)
(* What the undo log may rely on, for every UTXO set and every delta.      *)
(***************************************************************************)

\* A UTXO set: any function at all.
IsUtxo(s) == s = [op \in DOMAIN s |-> s[op]]

\* A delta: a set of outpoints and a function.
IsDelta(d) == /\ d = [spent |-> d.spent, created |-> d.created]
              /\ IsUtxo(d.created)

(***************************************************************************)
(* Applying the recorded difference to the state before a block gives the  *)
(* state after it, provided no outpoint of the state before is present     *)
(* with another entry in the state after: apply_delta removes last, so an  *)
(* outpoint that is spent and created again would be lost.                 *)
(***************************************************************************)
THEOREM ApplyDiff ==
  ASSUME NEW pre, NEW post, IsUtxo(pre), IsUtxo(post),
         \A op \in DOMAIN pre \cap DOMAIN post : post[op] = pre[op]
  PROVE  apply_delta(diff_utxo(pre, post), pre) = post
<1> DEFINE d == diff_utxo(pre, post)
           r == apply_delta(d, pre)
<1>1. /\ d.spent = DOMAIN pre \ DOMAIN post
      /\ DOMAIN d.created = DOMAIN post \ DOMAIN pre
      /\ \A op \in DOMAIN d.created : d.created[op] = post[op]
  BY DEF diff_utxo, ChangedFrom
<1>2. DOMAIN r = DOMAIN post
  BY <1>1 DEF apply_delta, InsertAll, RemoveAll
<1>3. \A op \in DOMAIN post : r[op] = post[op]
  BY <1>1 DEF apply_delta, InsertAll, RemoveAll
<1>4. r = [op \in DOMAIN r |-> r[op]]
  BY DEF apply_delta, RemoveAll
<1>5. QED
  BY <1>2, <1>3, <1>4 DEF IsUtxo

(***************************************************************************)
(* When it is present with another entry, the difference does lose it.     *)
(***************************************************************************)
THEOREM ApplyDiffLoses ==
  ASSUME NEW pre, NEW post, IsUtxo(pre), IsUtxo(post),
         NEW op \in DOMAIN pre \cap DOMAIN post, post[op] # pre[op]
  PROVE  op \notin DOMAIN apply_delta(diff_utxo(pre, post), pre)
BY DEF apply_delta, diff_utxo, ChangedFrom, InsertAll, RemoveAll

(***************************************************************************)
(* The fold of a final block's delta into a child's (Ledger::prune) leaves *)
(* the child's state as it was, exactly when the child creates nothing     *)
(* that the final block spends: compose_delta's comment says it cannot.    *)
(***************************************************************************)
THEOREM ApplyCompose ==
  ASSUME NEW s, NEW a, NEW b, IsUtxo(s), IsDelta(a), IsDelta(b),
         a.spent \cap DOMAIN b.created = {}
  PROVE  apply_delta(compose_delta(a, b), s) = apply_delta(b, apply_delta(a, s))
<1> DEFINE c == compose_delta(a, b)
           l == apply_delta(c, s)
           r == apply_delta(b, apply_delta(a, s))
<1>1. /\ c.spent = a.spent \cup b.spent
      /\ DOMAIN c.created = DOMAIN a.created \cup DOMAIN b.created
      /\ \A op \in DOMAIN c.created :
           c.created[op] = IF op \in DOMAIN b.created THEN b.created[op]
                                                      ELSE a.created[op]
  BY DEF compose_delta, InsertAll
<1>2. DOMAIN l = (DOMAIN s \cup DOMAIN a.created \cup DOMAIN b.created)
                 \ (a.spent \cup b.spent)
  BY <1>1 DEF apply_delta, InsertAll, RemoveAll
<1>3. DOMAIN r = (((DOMAIN s \cup DOMAIN a.created) \ a.spent)
                   \cup DOMAIN b.created) \ b.spent
  BY DEF apply_delta, InsertAll, RemoveAll
<1>4. DOMAIN l = DOMAIN r
  BY <1>2, <1>3
<1>5. \A op \in DOMAIN l : l[op] = r[op]
  BY <1>1, <1>2, <1>3 DEF apply_delta, InsertAll, RemoveAll
<1>6. l = [op \in DOMAIN l |-> l[op]] /\ r = [op \in DOMAIN r |-> r[op]]
  BY DEF apply_delta, RemoveAll
<1>7. QED
  BY <1>4, <1>5, <1>6

-----------------------------------------------------------------------------
(***************************************************************************)
(* The loops of the ledger.                                                *)
(***************************************************************************)
\* The loop over a block's regular transactions, and sums over UTXO entries.
Spends == INSTANCE LoopProofs WITH
  op <- LAMBDA c, d, acc, x : apply_regular(acc, x, c, d),
  val <- LAMBDA c, x : c[x].output.value

\* The rebuilding of a view, and sums over the outputs of a transaction.
Applies == INSTANCE LoopProofs WITH
  op <- LAMBDA c, d, acc, x : apply_delta(c[x], acc),
  val <- LAMBDA c, x : c.outs[x].value

\* The coinbase of a block, and sums over coinbases.
MintOne(h, d, utxo, cb) == InsertAll(utxo, Created(cb, h, TRUE))
Mints == INSTANCE LoopProofs WITH
  op <- MintOne,
  val <- LAMBDA c, x : AssetOut(x, Native)

-----------------------------------------------------------------------------
(***************************************************************************)
(* Sums of values.                                                         *)
(***************************************************************************)
Count(f, S) == Spends!Count(f, S)
Valued(f, S) == Spends!Valued(f, S)

\* The lemmas on counts, of either loop.
LEMMA SameCount ==
  /\ \A f, S : Applies!Count(f, S) = Count(f, S) /\ (Applies!Valued(f, S) <=> Valued(f, S))
  /\ \A f, S : Mints!Count(f, S) = Count(f, S) /\ (Mints!Valued(f, S) <=> Valued(f, S))
  /\ \A f, S : Valued(f, S) <=> IsFiniteSet(S) /\ \A x \in S : f[x] \in Nat
BY DEF Count, Valued, Spends!Count, Applies!Count, Mints!Count, Spends!Units, Applies!Units,
       Mints!Units, Spends!Valued, Applies!Valued, Mints!Valued, Spends!Cardinality,
       Applies!Cardinality, Mints!Cardinality, Cardinality, Spends!IsFiniteSet,
       Applies!IsFiniteSet, Mints!IsFiniteSet, IsFiniteSet

\* The sums of the models are those the lemmas on loops are about.
LEMMA SameSum ==
  ASSUME NEW utxo, NEW S, NEW tx, NEW cb
  PROVE  /\ MapThenSumSet(LAMBDA op : utxo[op].output.value, S) = Spends!Sum(utxo, S)
         /\ MapThenSumSet(LAMBDA i : tx.outs[i].value, S) = Applies!Sum(tx, S)
         /\ MapThenSumSet(LAMBDA c : AssetOut(c, Native), cb) = Mints!Sum(0, cb)
BY DEF Spends!Sum, Applies!Sum, Mints!Sum, Spends!MapThenSumSet, Applies!MapThenSumSet,
       Mints!MapThenSumSet, MapThenSumSet, Spends!MapThenFoldSet, Applies!MapThenFoldSet,
       Mints!MapThenFoldSet, MapThenFoldSet

\* The facts about counts that the following need.
LEMMA CountFacts ==
  /\ \A f, S : Valued(f, S) => Count(f, S) \in Nat
  /\ \A f, S : Valued(f, S) => \A R \in SUBSET S : Valued(f, R) /\ Count(f, R) <= Count(f, S)
  /\ \A f, S, T : Valued(f, S) /\ Valued(f, T) /\ S \cap T = {}
       => Valued(f, S \cup T) /\ Count(f, S \cup T) = Count(f, S) + Count(f, T)
  /\ \A f, g, S : (\A x \in S : f[x] = g[x])
       => (Valued(f, S) <=> Valued(g, S)) /\ Count(f, S) = Count(g, S)
  /\ \A f : Valued(f, {}) /\ Count(f, {}) = 0
<1>1. \A f, S : Valued(f, S) => Count(f, S) \in Nat
  BY Spends!CountIs DEF Count, Valued
<1>2. \A f, S : Valued(f, S) => \A R \in SUBSET S : Valued(f, R) /\ Count(f, R) <= Count(f, S)
  BY Spends!CountSubset DEF Count, Valued
<1>3. \A f, S, T : Valued(f, S) /\ Valued(f, T) /\ S \cap T = {}
        => Valued(f, S \cup T) /\ Count(f, S \cup T) = Count(f, S) + Count(f, T)
  BY Spends!CountUnion DEF Count, Valued
<1>4. \A f, g, S : (\A x \in S : f[x] = g[x])
        => (Valued(f, S) <=> Valued(g, S)) /\ Count(f, S) = Count(g, S)
  BY Spends!CountSame DEF Count, Valued
<1>5. \A f : Valued(f, {}) /\ Count(f, {}) = 0
  BY Spends!CountEmpty DEF Count, Valued
<1> QED
  BY <1>1, <1>2, <1>3, <1>4, <1>5

-----------------------------------------------------------------------------
(***************************************************************************)
(* What a UTXO set holds of an asset.                                      *)
(***************************************************************************)
Values(utxo) == [op \in DOMAIN utxo |-> utxo[op].output.value]

Held(utxo, a) == {op \in DOMAIN utxo : utxo[op].output.asset = a}

Total(utxo, a) == Count(Values(utxo), Held(utxo, a))

\* A UTXO set the ledger can have: finite, with natural values.
IsView(utxo) == IsUtxo(utxo) /\ Valued(Values(utxo), DOMAIN utxo)

\* The sum the properties speak of is the total.
LEMMA TotalIs ==
  ASSUME NEW utxo, IsView(utxo)
  PROVE  /\ NativeTotal(utxo) = Total(utxo, Native)
         /\ \A a : Total(utxo, a) \in Nat
         /\ \A R \in SUBSET DOMAIN utxo :
              MapThenSumSet(LAMBDA op : utxo[op].output.value, R) = Count(Values(utxo), R)
<1> DEFINE f == Values(utxo)
<1>1. Valued(f, DOMAIN utxo) /\ \A R \in SUBSET DOMAIN utxo : Valued(f, R)
  BY CountFacts DEF IsView
<1>2. ASSUME NEW R \in SUBSET DOMAIN utxo
      PROVE  MapThenSumSet(LAMBDA op : utxo[op].output.value, R) = Count(f, R)
  <2>1. Spends!Valued(f, R)
    BY <1>1 DEF Valued
  <2>2. \A x \in R : utxo[x].output.value = f[x]
    BY DEF Values
  <2> HIDE DEF f
  <2>3. Spends!Sum(utxo, R) = Spends!Count(f, R)
    BY <2>1, <2>2, Spends!SumCounts
  <2> QED
    BY <2>3, SameSum DEF Count
<1>3. \A a : Held(utxo, a) \in SUBSET DOMAIN utxo
  BY DEF Held
<1>4. NativeTotal(utxo) = Total(utxo, Native)
  BY <1>2, <1>3 DEF NativeTotal, Total, Held
<1>5. \A a : Total(utxo, a) \in Nat
  BY <1>1, <1>3, CountFacts DEF Total
<1> QED
  BY <1>2, <1>4, <1>5

\* A transaction has finitely many inputs and outputs.
LEMMA TxIs ==
  ASSUME NEW tx, IsTx(tx)
  PROVE  /\ IsFiniteSet(DOMAIN tx.outs) /\ DOMAIN tx.outs = 1 .. Len(tx.outs)
         /\ (tx.ins # <<>> => DOMAIN tx.ins # {})
<1> DEFINE n == Len(tx.outs)
<1>1. n \in Nat /\ DOMAIN tx.outs = 1 .. n
  BY DEF IsTx
<1>2. IsFiniteSet(1 .. n)
  BY <1>1, FS_Interval
<1>3. tx.ins # <<>> => 1 \in DOMAIN tx.ins
  BY DEF IsTx
<1> QED
  BY <1>1, <1>2, <1>3

\* So is what a transaction pays.
LEMMA OutIs ==
  ASSUME NEW tx, IsTx(tx), NEW a
  PROVE  LET f == [i \in DOMAIN tx.outs |-> tx.outs[i].value]
             S == {i \in DOMAIN tx.outs : tx.outs[i].asset = a}
         IN  /\ Valued(f, S) /\ AssetOut(tx, a) = Count(f, S) /\ AssetOut(tx, a) \in Nat
<1> DEFINE f == [i \in DOMAIN tx.outs |-> tx.outs[i].value]
           S == {i \in DOMAIN tx.outs : tx.outs[i].asset = a}
<1>1. Valued(f, DOMAIN tx.outs)
  BY SameCount, TxIs DEF IsTx
<1>2. Valued(f, S) /\ Count(f, S) \in Nat
  <2>1. S \in SUBSET DOMAIN tx.outs
    OBVIOUS
  <2> HIDE DEF f, S
  <2> QED
    BY <1>1, <2>1, CountFacts
<1>3. Applies!Valued(f, S) /\ Applies!Count(f, S) = Count(f, S)
  BY <1>2, SameCount
<1>4. \A i \in S : tx.outs[i].value = f[i]
  OBVIOUS
<1>5. AssetOut(tx, a) = Applies!Sum(tx, S)
  BY SameSum DEF AssetOut
<1> HIDE DEF f, S
<1>6. Applies!Sum(tx, S) = Applies!Count(f, S)
  BY <1>3, <1>4, Applies!SumCounts
<1> QED
  BY <1>2, <1>3, <1>5, <1>6 DEF f, S

-----------------------------------------------------------------------------
(***************************************************************************)
(* What inserting and removing entries does to the total.                  *)
(***************************************************************************)
LEMMA TotalRemoves ==
  ASSUME NEW utxo, IsView(utxo), NEW S, NEW a
  PROVE  /\ IsView(RemoveAll(utxo, S))
         /\ Total(utxo, a) = Total(RemoveAll(utxo, S), a)
                               + Count(Values(utxo), S \cap Held(utxo, a))
<1> DEFINE left == RemoveAll(utxo, S)
           f == Values(utxo)
           g == Values(left)
           H == Held(utxo, a)
           I == Held(left, a)
<1>1. /\ DOMAIN left = DOMAIN utxo \ S /\ \A op \in DOMAIN left : g[op] = f[op]
      /\ I = H \ S /\ IsUtxo(left)
  BY DEF RemoveAll, Values, Held, IsUtxo
<1>2. Valued(f, DOMAIN utxo) /\ H \subseteq DOMAIN utxo
  BY DEF IsView, Held
<1> HIDE DEF f, g, H, I, left
<1>3. Valued(f, DOMAIN left) /\ Valued(f, I) /\ Valued(f, S \cap H)
  BY <1>1, <1>2, CountFacts
<1>4. Valued(g, DOMAIN left)
  BY <1>1, <1>3, CountFacts
<1>5. Count(g, I) = Count(f, I)
  <2>1. \A x \in I : g[x] = f[x]
    BY <1>1, <1>2
  <2> QED
    BY <2>1, CountFacts
<1>6. Count(f, I \cup (S \cap H)) = Count(f, I) + Count(f, S \cap H)
  <2>1. I \cap (S \cap H) = {}
    BY <1>1
  <2> QED
    BY <1>3, <2>1, CountFacts
<1>7. I \cup (S \cap H) = H
  BY <1>1
<1> QED
  BY <1>1, <1>4, <1>5, <1>6, <1>7 DEF IsView, Total, f, g, H, I, left

\* New outputs add their value.
LEMMA TotalInserts ==
  ASSUME NEW utxo, IsView(utxo), NEW new, IsView(new), DOMAIN utxo \cap DOMAIN new = {}, NEW a
  PROVE  /\ IsView(InsertAll(utxo, new))
         /\ Total(InsertAll(utxo, new), a) = Total(utxo, a) + Total(new, a)
<1> DEFINE all == InsertAll(utxo, new)
           f == Values(all)
           U == DOMAIN utxo
           N == DOMAIN new
           Hu == Held(utxo, a)
           Hn == Held(new, a)
<1>1. /\ DOMAIN all = U \cup N /\ IsUtxo(all)
      /\ \A op \in U : f[op] = Values(utxo)[op]
      /\ \A op \in N : f[op] = Values(new)[op]
      /\ Held(all, a) = Hu \cup Hn /\ Hu \subseteq U /\ Hn \subseteq N
  BY DEF InsertAll, Values, Held, IsUtxo
<1>2. Valued(Values(utxo), U) /\ Valued(Values(new), N)
  BY DEF IsView
<1> HIDE DEF all, f, U, N, Hu, Hn
<1>3. Valued(f, U) /\ Valued(f, N)
  BY <1>1, <1>2, CountFacts
<1>4. Valued(f, U \cup N)
  BY <1>3, CountFacts DEF U, N
<1>5. Count(f, Hu) = Count(Values(utxo), Hu) /\ Count(f, Hn) = Count(Values(new), Hn)
  <2>1. (\A x \in Hu : f[x] = Values(utxo)[x]) /\ (\A x \in Hn : f[x] = Values(new)[x])
    BY <1>1
  <2> QED
    BY <2>1, CountFacts
<1>6. Count(f, Hu \cup Hn) = Count(f, Hu) + Count(f, Hn)
  <2>1. Hu \cap Hn = {} /\ Valued(f, Hu) /\ Valued(f, Hn)
    BY <1>1, <1>3, CountFacts DEF U, N
  <2> QED
    BY <2>1, CountFacts
<1> QED
  BY <1>1, <1>4, <1>5, <1>6 DEF IsView, Total, all, f, Hu, Hn

\* The entries of a transaction's outputs hold what it pays.
LEMMA CreatedTotal ==
  ASSUME NEW tx, IsTx(tx), NEW h, NEW c, NEW a
  PROVE  /\ IsView(Created(tx, h, c)) /\ Total(Created(tx, h, c), a) = AssetOut(tx, a)
<1> DEFINE new == Created(tx, h, c)
           I == DOMAIN tx.outs
           f == [i \in I |-> tx.outs[i].value]
           g == Values(new)
           m == [i \in I |-> <<tx.id, i>>]
           T == DOMAIN new
           S == {i \in I : tx.outs[i].asset = a}
           H == Held(new, a)
           k == [i \in S |-> <<tx.id, i>>]
<1>1. /\ T = {<<tx.id, i>> : i \in I} /\ IsUtxo(new)
      /\ \A i \in I : g[<<tx.id, i>>] = f[i]
      /\ H = {<<tx.id, i>> : i \in S}
  BY DEF Created, IsUtxo, Values, Held
<1>2. Valued(f, I) /\ Valued(f, S) /\ AssetOut(tx, a) = Count(f, S)
  <2>1. Valued(f, I)
    BY SameCount, TxIs DEF IsTx
  <2>2. Valued(f, S) /\ AssetOut(tx, a) = Count(f, S)
    BY OutIs
  <2> QED
    BY <2>1, <2>2
<1>3. m \in Bijection(I, T) /\ \A x \in I : g[m[x]] = f[x]
  BY <1>1 DEF Bijection, Injection, Surjection, IsInjective
<1>4. k \in Bijection(S, H) /\ \A x \in S : g[k[x]] = f[x]
  BY <1>1 DEF Bijection, Injection, Surjection, IsInjective
<1>5. m \in Spends!Bijection(I, T) /\ k \in Spends!Bijection(S, H)
  BY <1>3, <1>4 DEF Spends!Bijection, Spends!Injection, Spends!Surjection, Spends!IsInjective,
                    Bijection, Injection, Surjection, IsInjective
<1> HIDE DEF f, g, m, T, S, H, k, I
<1>6. Valued(g, T)
  BY <1>2, <1>3, <1>5, Spends!CountMoves DEF Valued
<1>7. Count(g, H) = Count(f, S)
  BY <1>2, <1>4, <1>5, Spends!CountMoves DEF Valued, Count
<1> QED
  BY <1>1, <1>2, <1>6, <1>7 DEF IsView, Total, g, T, H


-----------------------------------------------------------------------------
(***************************************************************************)
(* One transaction.                                                        *)
(***************************************************************************)
\* A valid regular transaction is paid for in every asset, and what it leaves
\* of the native one is its fee.
LEMMA RegularBalances ==
  ASSUME NEW utxo, IsView(utxo), NEW tx, IsTx(tx), NEW stake, NEW h, NEW score,
         regular_valid(utxo, stake, tx, h, score)
  PROVE  LET after == InsertAll(RemoveAll(utxo, Spent(tx)), Created(tx, h, FALSE))
         IN  /\ IsView(after)
             /\ \A a : /\ AssetIn(utxo, tx, a) \in Nat /\ AssetOut(tx, a) \in Nat
                       /\ AssetOut(tx, a) <= AssetIn(utxo, tx, a)
                       /\ Total(after, a) + AssetIn(utxo, tx, a)
                            = Total(utxo, a) + AssetOut(tx, a)
<1> DEFINE S == Spent(tx)
           left == RemoveAll(utxo, S)
           new == Created(tx, h, FALSE)
           after == InsertAll(left, new)
<1>1. /\ S \subseteq DOMAIN utxo
      /\ Conserved(utxo, tx) /\ AllNew(left, tx)
  BY DEF regular_valid, InputValid, Spent
<1>2. DOMAIN left \cap DOMAIN new = {}
  BY <1>1 DEF AllNew, Created
<1>3. IsView(left) /\ IsView(new)
  BY TotalRemoves, CreatedTotal
<1>4. IsView(after)
  <2> HIDE DEF left, new
  <2> QED
    BY <1>2, <1>3, TotalInserts
<1>5. ASSUME NEW a
      PROVE  /\ AssetIn(utxo, tx, a) \in Nat /\ AssetOut(tx, a) \in Nat
             /\ AssetOut(tx, a) <= AssetIn(utxo, tx, a)
             /\ Total(after, a) + AssetIn(utxo, tx, a) = Total(utxo, a) + AssetOut(tx, a)
  <2> DEFINE R == {op \in S : utxo[op].output.asset = a}
             H == S \cap Held(utxo, a)
  <2>1. R = H /\ R \in SUBSET DOMAIN utxo
    BY <1>1 DEF Held
  <2>2. AssetIn(utxo, tx, a) = Count(Values(utxo), R)
    <3>1. MapThenSumSet(LAMBDA op : utxo[op].output.value, R) = Count(Values(utxo), R)
      BY <2>1, TotalIs
    <3> QED
      BY <3>1 DEF AssetIn
  <2>3. Count(Values(utxo), R) \in Nat
    BY <2>1, CountFacts DEF IsView
  <2>4. AssetOut(tx, a) \in Nat
    BY OutIs
  <2>5. AssetOut(tx, a) <= AssetIn(utxo, tx, a)
    <3>1. CASE a \in {tx.outs[i].asset : i \in DOMAIN tx.outs}
      BY <1>1, <3>1 DEF Conserved
    <3>2. CASE a \notin {tx.outs[i].asset : i \in DOMAIN tx.outs}
      <4>1. {i \in DOMAIN tx.outs : tx.outs[i].asset = a} = {}
        BY <3>2
      <4>2. AssetOut(tx, a) = Count([i \in DOMAIN tx.outs |-> tx.outs[i].value], {})
        BY <4>1, OutIs
      <4>3. AssetOut(tx, a) = 0
        BY <4>2, CountFacts
      <4> QED
        BY <2>2, <2>3, <4>3
    <3> QED
      BY <3>1, <3>2
  <2>6. Total(utxo, a) = Total(left, a) + Count(Values(utxo), H)
    BY TotalRemoves
  <2>7. Total(new, a) = AssetOut(tx, a)
    BY CreatedTotal
  <2>8. Total(left, a) \in Nat
    BY <1>3, TotalIs
  <2> HIDE DEF left, new, R, H, S
  <2>9. Total(after, a) = Total(left, a) + Total(new, a)
    BY <1>2, <1>3, TotalInserts
  <2> HIDE DEF after
  <2> QED
    BY <2>1, <2>2, <2>3, <2>4, <2>5, <2>6, <2>7, <2>8, <2>9
<1> QED
  BY <1>4, <1>5

\* How far a run of regular transactions has come from a UTXO set: while it is
\* fine it holds what it started from, less the fees.
RunsFrom(utxo, acc) ==
  /\ acc = [ok |-> acc.ok, utxo |-> acc.utxo, stake |-> acc.stake, fees |-> acc.fees]
  /\ acc.ok \in BOOLEAN
  /\ acc.ok => /\ IsView(acc.utxo) /\ acc.fees \in Nat
               /\ Total(acc.utxo, Native) + acc.fees = Total(utxo, Native)

\* One transaction of a block keeps what there was as outputs and fees.
LEMMA RegularRuns ==
  ASSUME NEW utxo, IsView(utxo), NEW acc, RunsFrom(utxo, acc), NEW tx, IsTx(tx),
         NEW h, NEW score
  PROVE  RunsFrom(utxo, apply_regular(acc, tx, h, score))
<1> DEFINE r == apply_regular(acc, tx, h, score)
           valid == regular_valid(acc.utxo, acc.stake, tx, h, score)
<1>1. CASE ~acc.ok \/ ~valid
  <2>1. r = [acc EXCEPT !.ok = FALSE]
    BY <1>1 DEF apply_regular
  <2>2. /\ acc = [ok |-> acc.ok, utxo |-> acc.utxo, stake |-> acc.stake, fees |-> acc.fees]
        /\ r = [ok |-> FALSE, utxo |-> acc.utxo, stake |-> acc.stake, fees |-> acc.fees]
    BY <2>1 DEF RunsFrom
  <2>3. r = [ok |-> r.ok, utxo |-> r.utxo, stake |-> r.stake, fees |-> r.fees] /\ r.ok = FALSE
    BY <2>2
  <2> HIDE DEF r
  <2>4. RunsFrom(utxo, r)
    BY <2>3 DEF RunsFrom
  <2> QED
    BY <2>4 DEF r
<1>2. CASE acc.ok /\ valid
  <2> DEFINE after == InsertAll(RemoveAll(acc.utxo, Spent(tx)), Created(tx, h, FALSE))
             in == AssetIn(acc.utxo, tx, Native)
             out == AssetOut(tx, Native)
             bonds == StakeAfter(acc.stake, tx, h)
  <2>1. /\ IsView(acc.utxo) /\ acc.fees \in Nat
        /\ Total(acc.utxo, Native) + acc.fees = Total(utxo, Native)
        /\ Total(acc.utxo, Native) \in Nat
    BY <1>2, TotalIs DEF RunsFrom
  <2>2. r = [ok |-> TRUE, utxo |-> after, stake |-> bonds, fees |-> acc.fees + in - out]
    BY <1>2 DEF apply_regular
  <2>3. /\ IsView(after) /\ in \in Nat /\ out \in Nat /\ out <= in
        /\ Total(after, Native) + in = Total(acc.utxo, Native) + out
        /\ Total(after, Native) \in Nat
    <3>1. /\ IsView(after)
          /\ \A a : /\ AssetIn(acc.utxo, tx, a) \in Nat /\ AssetOut(tx, a) \in Nat
                    /\ AssetOut(tx, a) <= AssetIn(acc.utxo, tx, a)
                    /\ Total(after, a) + AssetIn(acc.utxo, tx, a)
                         = Total(acc.utxo, a) + AssetOut(tx, a)
      BY <1>2, <2>1, RegularBalances
    <3> QED
      BY <3>1, TotalIs
  <2> HIDE DEF after, in, out, bonds, r
  <2>4. r = [ok |-> r.ok, utxo |-> r.utxo, stake |-> r.stake, fees |-> r.fees] /\ r.ok = TRUE
        /\ r.utxo = after /\ r.fees = acc.fees + in - out
    BY <2>2
  <2>5. r.fees \in Nat /\ Total(r.utxo, Native) + r.fees = Total(utxo, Native)
    BY <2>1, <2>3, <2>4
  <2>6. RunsFrom(utxo, r)
    BY <2>3, <2>4, <2>5 DEF RunsFrom
  <2> QED
    BY <2>6 DEF r
<1> QED
  BY <1>1, <1>2

-----------------------------------------------------------------------------
(***************************************************************************)
(* One block.                                                              *)
(***************************************************************************)
\* The loop of apply_regulars.
LEMMA RegularsAre ==
  ASSUME NEW utxo, NEW stake, NEW q, NEW h, NEW score
  PROVE  apply_regulars(utxo, stake, q, h, score) =
           Spends!Run(h, score, [ok |-> TRUE, utxo |-> utxo, stake |-> stake, fees |-> 0], q)
BY DEF apply_regulars, Spends!Run, FoldLeft, Spends!MapThenFoldSet,
       MapThenFoldSet, Spends!Max, Max

\* So do all of them.
LEMMA RegularsRun ==
  ASSUME NEW utxo, IsView(utxo), NEW stake, NEW q, IsTxList(q), NEW h, NEW score
  PROVE  RunsFrom(utxo, apply_regulars(utxo, stake, q, h, score))
<1> DEFINE base == [ok |-> TRUE, utxo |-> utxo, stake |-> stake, fees |-> 0]
           n == Len(q)
<1>1. n \in Nat /\ DOMAIN q = 1 .. n /\ \A i \in 1 .. n : IsTx(q[i])
  BY DEF IsTxList, ToSet
<1>2. RunsFrom(utxo, base)
  <2>1. Total(utxo, Native) \in Nat
    BY TotalIs
  <2>2. Total(base.utxo, Native) + base.fees = Total(utxo, Native)
    BY <2>1
  <2> QED
    BY <2>2 DEF RunsFrom
<1> HIDE DEF base, n
<1>3. PICK f : Spends!IsLoop(h, score, base, n, q, f) /\ Spends!Run(h, score, base, q) = f[n]
  BY <1>1, Spends!LoopRuns
<1>4. f[0] = base /\ \A i \in 1 .. n : f[i] = apply_regular(f[i - 1], q[i], h, score)
  <2>1. 0 \in 0 .. n /\ \A i \in 1 .. n : i \in 0 .. n /\ i # 0
    BY <1>1
  <2> QED
    BY <1>3, <2>1 DEF Spends!IsLoop
<1> DEFINE Good == {i \in 0 .. n : RunsFrom(utxo, f[i])}
<1>5. 0 \in Good
  BY <1>1, <1>2, <1>4
<1>6. ASSUME NEW i \in 1 .. n, i - 1 \in Good PROVE i \in Good
  <2>1. RunsFrom(utxo, f[i - 1])
    BY <1>6
  <2>2. RunsFrom(utxo, apply_regular(f[i - 1], q[i], h, score))
    BY <1>1, <2>1, RegularRuns
  <2>3. i \in 0 .. n
    BY <1>1
  <2> QED
    BY <1>4, <2>2, <2>3
<1>7. n \in Good
  <2> HIDE DEF Good
  <2>1. \A i \in 0 .. n : i \in Good
    BY <1>1, <1>5, <1>6, Spends!NatUpTo
  <2> QED
    BY <1>1, <2>1
<1> QED
  BY <1>3, <1>7, RegularsAre DEF base

\* What a block makes of a UTXO set in whose view `minted' was minted before.
Balances(utxo, minted, r) ==
  /\ IsView(r.utxo) /\ r.fees \in Nat /\ r.minted \in Nat
  /\ Total(r.utxo, Native) + r.fees = Total(utxo, Native) + r.minted
  /\ minted + r.minted <= MaxSupply

\* The entries and the native value that the coinbases of cb add.
WithCoinbase(utxo, h, cb) ==
  FoldSet(LAMBDA c, u : InsertAll(u, Created(c, h, TRUE)), utxo, cb)

Minted(cb) == MapThenSumSet(LAMBDA c : AssetOut(c, Native), cb)

\* A block with a valid coinbase, and one without.
LEMMA CoinbaseIs ==
  ASSUME NEW utxo, NEW h, NEW cb, NEW c
  PROVE  /\ cb = {} => WithCoinbase(utxo, h, cb) = utxo /\ Minted(cb) = 0
         /\ cb = {c} => WithCoinbase(utxo, h, cb) = MintOne(h, 0, utxo, c)
         /\ cb = {c} /\ AssetOut(c, Native) \in Nat => Minted(cb) = AssetOut(c, Native)
<1>1. WithCoinbase(utxo, h, cb) = Mints!RunSet(h, 0, utxo, cb)
  BY DEF WithCoinbase, MintOne, Mints!RunSet, Mints!FoldSet, FoldSet, Mints!MapThenFoldSet, MapThenFoldSet
<1>2. Minted(cb) = Mints!Sum(0, cb)
  BY SameSum DEF Minted
<1>3. Mints!RunSet(h, 0, utxo, {}) = utxo
  BY Mints!SetRuns
<1>4. Mints!RunSet(h, 0, utxo, {c}) = MintOne(h, 0, utxo, c)
  BY Mints!SetRuns
<1>5. cb = {} => Mints!Sum(0, cb) = 0
  <2> DEFINE f == [x \in {} |-> 0]
  <2>1. Mints!Valued(f, {}) /\ Mints!Count(f, {}) = 0
    BY CountFacts, SameCount
  <2>2. \A x \in {} : AssetOut(x, Native) = f[x]
    OBVIOUS
  <2> HIDE DEF f
  <2>3. Mints!Sum(0, {}) = Mints!Count(f, {})
    BY <2>1, <2>2, Mints!SumCounts
  <2> QED
    BY <2>1, <2>3
<1>6. ASSUME AssetOut(c, Native) \in Nat PROVE Mints!Sum(0, {c}) = AssetOut(c, Native)
  <2> DEFINE f == [x \in {c} |-> AssetOut(x, Native)]
             S == {c}
  <2>1. f[c] = AssetOut(c, Native) /\ \A x \in S : AssetOut(x, Native) = f[x]
    OBVIOUS
  <2>2. Mints!Valued(f, {} \cup {c}) /\ Mints!Count(f, {} \cup {c}) = Mints!Count(f, {}) + f[c]
    <3>1. Mints!Valued(f, {}) /\ c \notin {} /\ f[c] \in Nat
      BY <1>6, CountFacts, SameCount
    <3> HIDE DEF f
    <3> QED
      BY <3>1, Mints!CountAdds
  <2>3. Mints!Count(f, {}) = 0 /\ {} \cup {c} = S
    BY CountFacts, SameCount
  <2>4. Mints!Valued(f, S) /\ Mints!Count(f, S) = AssetOut(c, Native)
    BY <1>6, <2>1, <2>2, <2>3
  <2> HIDE DEF f, S
  <2>5. Mints!Sum(0, S) = Mints!Count(f, S)
    BY <2>1, <2>4, Mints!SumCounts
  <2> QED
    BY <2>4, <2>5 DEF S
<1> QED
  BY <1>1, <1>2, <1>3, <1>4, <1>5, <1>6

\* With the coinbase, whose share of the fees is part of what it mints.
LEMMA SettleBalances ==
  ASSUME NEW utxo, IsView(utxo), NEW run, RunsFrom(utxo, run),
         NEW cb, NEW c, cb = {} \/ (cb = {c} /\ IsTx(c)),
         NEW subsidy, NEW minted \in Nat, minted <= MaxSupply, MaxSupply \in Nat,
         NEW h, NEW score
  PROVE  Balances(utxo, minted, Settle(run, cb, utxo, subsidy, minted, h, score))
<1> DEFINE r == Settle(run, cb, utxo, subsidy, minted, h, score)
           fine == run.ok /\ \A x \in cb : coinbase_valid(run.utxo, x,
                                      subsidy + fee_share(run.fees), minted, score)
           sum == Minted(cb)
           after == WithCoinbase(run.utxo, h, cb)
<1>1. Total(utxo, Native) \in Nat
  BY TotalIs
<1>2. CASE ~fine
  <2>1. r = [ok |-> FALSE, utxo |-> utxo, stake |-> run.stake, fees |-> 0, minted |-> 0]
    BY <1>2 DEF Settle
  <2>2. r.utxo = utxo /\ r.fees = 0 /\ r.minted = 0
    BY <2>1
  <2> HIDE DEF r
  <2>3. Balances(utxo, minted, r)
    BY <1>1, <2>2 DEF Balances
  <2> QED
    BY <2>3 DEF r
<1>3. CASE fine
  <2>1. r = [ok |-> TRUE, utxo |-> after, stake |-> run.stake, fees |-> run.fees,
             minted |-> sum]
    BY <1>3 DEF Settle, Minted, WithCoinbase
  <2>2. r.utxo = after /\ r.fees = run.fees /\ r.minted = sum
    BY <2>1
  <2>3. /\ IsView(run.utxo) /\ run.fees \in Nat /\ Total(run.utxo, Native) \in Nat
        /\ Total(run.utxo, Native) + run.fees = Total(utxo, Native)
    BY <1>3, TotalIs DEF RunsFrom
  <2>4. CASE cb = {}
    <3>1. after = run.utxo /\ sum = 0
      BY <2>4, CoinbaseIs
    <3> HIDE DEF r, after, sum
    <3>2. Balances(utxo, minted, r)
      BY <1>1, <2>2, <2>3, <3>1 DEF Balances
    <3> QED
      BY <3>2 DEF r
  <2>5. CASE cb = {c} /\ IsTx(c)
    <3> DEFINE new == Created(c, h, TRUE)
               out == AssetOut(c, Native)
    <3>1. out \in Nat
      BY <2>5, OutIs
    <3>2. after = InsertAll(run.utxo, new) /\ sum = out
      <4>1. after = InsertAll(run.utxo, new)
        <5> DEFINE u == run.utxo
        <5> HIDE DEF u
        <5>1. WithCoinbase(u, h, cb) = MintOne(h, 0, u, c)
          BY <2>5, CoinbaseIs
        <5> QED
          BY <5>1, Zenon DEF u, MintOne
      <4>2. sum = out
        BY <2>5, <3>1, CoinbaseIs, Zenon
      <4> QED
        BY <4>1, <4>2, Zenon
    <3>3. minted + out <= MaxSupply /\ AllNew(run.utxo, c)
      BY <1>3, <2>5 DEF coinbase_valid
    <3>4. DOMAIN run.utxo \cap DOMAIN new = {}
      BY <3>3 DEF AllNew, Created
    <3>5. IsView(new) /\ Total(new, Native) = out
      BY <2>5, CreatedTotal
    <3> HIDE DEF r, after, sum, new, out
    <3>6. IsView(after) /\ Total(after, Native) = Total(run.utxo, Native) + out
      BY <2>3, <3>2, <3>4, <3>5, TotalInserts
    <3>7. Balances(utxo, minted, r)
      BY <1>1, <2>2, <2>3, <3>1, <3>2, <3>3, <3>6 DEF Balances
    <3> QED
      BY <3>7 DEF r
  <2> QED
    BY <2>4, <2>5
<1> QED
  BY <1>2, <1>3

(***************************************************************************)
(* A block never makes native value that its coinbase has not minted:      *)
(* what it leaves unspent is what there was and what was minted, less the  *)
(* fees; and it mints within the cap (apply_block_inner).                  *)
(***************************************************************************)
THEOREM BlockBalances ==
  ASSUME MaxSupply \in Nat, NEW utxo, IsView(utxo), NEW stake, NEW body, IsTxList(body),
         NEW subsidy, NEW minted \in Nat, minted <= MaxSupply, NEW h, NEW score
  PROVE  Balances(utxo, minted,
                  apply_block_inner(utxo, stake, body, subsidy, minted, h, score))
<1> DEFINE cb == {body[i] : i \in {j \in DOMAIN body : j = 1 /\ is_coinbase(body[j])}}
           rest == IF cb = {} THEN body ELSE Tail(body)
           run == apply_regulars(utxo, stake, rest, h, score)
<1>1. DOMAIN body = 1 .. Len(body) /\ Len(body) \in Nat /\ \A i \in DOMAIN body : IsTx(body[i])
  BY DEF IsTxList, ToSet
<1>2. cb = {} \/ (cb = {body[1]} /\ IsTx(body[1]))
  BY <1>1
<1>3. IsTxList(rest)
  <2>1. CASE cb = {}
    BY <2>1
  <2>2. CASE cb # {}
    <3> DEFINE T == Tail(body)
    <3>1. 1 \in DOMAIN body
      BY <2>2
    <3>2. body # <<>>
      BY <3>1
    <3>3. /\ Len(T) = Len(body) - 1 /\ T \in Seq(ToSet(body))
          /\ DOMAIN T = 1 .. Len(T)
          /\ \A i \in 1 .. Len(T) : T[i] = body[i + 1]
      BY <3>2 DEF IsTxList
    <3>4. ToSet(T) \subseteq ToSet(body)
      BY <3>3 DEF ToSet
    <3>5. T \in Seq(ToSet(T))
      <4> HIDE DEF T
      <4>1. \A i \in 1 .. Len(T) : T[i] \in ToSet(T)
        BY <3>3 DEF ToSet
      <4>2. T = [i \in 1 .. Len(T) |-> T[i]] /\ Len(T) \in Nat
        BY <3>3
      <4> QED
        BY <4>1, <4>2
    <3>6. IsTxList(T)
      BY <3>4, <3>5 DEF IsTxList
    <3> QED
      BY <2>2, <3>6
  <2> QED
    BY <2>1, <2>2
<1> HIDE DEF cb
<1>4. RunsFrom(utxo, run)
  <2> HIDE DEF rest
  <2> QED
    BY <1>3, RegularsRun
<1>5. apply_block_inner(utxo, stake, body, subsidy, minted, h, score)
        = Settle(run, cb, utxo, subsidy, minted, h, score)
  BY DEF apply_block_inner, cb
<1> HIDE DEF run, rest
<1>6. Balances(utxo, minted, Settle(run, cb, utxo, subsidy, minted, h, score))
  BY <1>2, <1>4, SettleBalances
<1> QED
  BY <1>5, <1>6


-----------------------------------------------------------------------------
(***************************************************************************)
(* The blocks a block merges.                                              *)
(***************************************************************************)
MergeOne(c, d, view, b) == ApplyMerged(view, b)

\* The loop over the mergeset.
Merges == INSTANCE LoopProofs WITH op <- MergeOne, val <- LAMBDA c, x : 0

\* What a view gained since it had minted and burned this much, it has minted,
\* and it burned the rest.
Gains(utxo, minted, fees, view) ==
  /\ IsView(view.utxo) /\ view.minted \in Nat /\ view.minted <= MaxSupply
  /\ view.fees \in Nat
  /\ Total(view.utxo, Native) + view.fees + minted <= Total(utxo, Native) + view.minted + fees

\* What is burned of the fees is a part of them.
LEMMA BurnedIs ==
  ASSUME NEW fees \in Nat
  PROVE  burned(fees) \in Nat /\ burned(fees) <= fees
BY DEF burned, FeeDen

\* A merged block adds to a view no more than it mints.
LEMMA MergedGains ==
  ASSUME MaxSupply \in Nat, NEW utxo, IsView(utxo), NEW minted \in Nat,
         NEW fees \in Nat, NEW view, Gains(utxo, minted, fees, view), NEW b, IsTxList(txs[b])
  PROVE  Gains(utxo, minted, fees, ApplyMerged(view, b))
<1> DEFINE h == chain_height_of(b)
           r == MergedOutcome(view, b, h)
           v == ApplyMerged(view, b)
<1>1. /\ v.utxo = r.utxo /\ v.minted = view.minted + r.minted
      /\ v.fees = view.fees + burned(r.fees)
  BY DEF ApplyMerged, CountedIn
<1>2. Balances(view.utxo, view.minted, r)
  <2>1. IsView(view.utxo) /\ view.minted \in Nat /\ view.minted <= MaxSupply
    BY DEF Gains
  <2> DEFINE u == view.utxo
             k == view.minted
             q == txs[b]
             subsidy == subsidy_at(h)
             score == dag.node[b].blue_score
  <2>2. r = apply_block_inner(u, view.stake, q, subsidy, k, h, score)
    BY DEF MergedOutcome
  <2> HIDE DEF u, k, q, h, r, subsidy, score
  <2>3. Balances(u, k, r)
    BY <2>1, <2>2, BlockBalances DEF u, k, q
  <2> QED
    BY <2>3 DEF u, k
<1> HIDE DEF r, v
<1>3. Total(utxo, Native) \in Nat /\ Total(view.utxo, Native) \in Nat
      /\ (IsView(r.utxo) => Total(r.utxo, Native) \in Nat)
  BY TotalIs DEF Gains
<1>4. Gains(utxo, minted, fees, v)
  <2>1. burned(r.fees) \in Nat /\ burned(r.fees) <= r.fees
    BY <1>2, BurnedIs DEF Balances
  <2> DEFINE lost == burned(r.fees)
  <2> HIDE DEF lost
  <2>2. lost \in Nat /\ lost <= r.fees /\ v.fees = view.fees + lost
    BY <1>1, <2>1 DEF lost
  <2> QED
    BY <1>1, <1>2, <1>3, <2>2 DEF Gains, Balances
<1> QED
  BY <1>4 DEF v

\* So do all blocks of a mergeset.
LEMMA MergedViewGains ==
  ASSUME MaxSupply \in Nat, NEW s, IsView(reconstruct_state(s)),
         block_minted[s] \in Nat, block_minted[s] <= MaxSupply, block_fees[s] \in Nat,
         NEW S, NEW q \in Seq(S), \A b \in S : IsTxList(txs[b])
  PROVE  Gains(reconstruct_state(s), block_minted[s], block_fees[s], MergedView(s, q))
<1> DEFINE utxo == reconstruct_state(s)
           minted == block_minted[s]
           fees == block_fees[s]
           base == [utxo |-> utxo, stake |-> reconstruct_stake(s), minted |-> minted,
                    fees |-> fees]
           n == Len(q)
<1>1. n \in Nat /\ DOMAIN q = 1 .. n /\ \A i \in 1 .. n : IsTxList(txs[q[i]])
  OBVIOUS
<1>2. Gains(utxo, minted, fees, base)
  <2>1. Total(utxo, Native) \in Nat
    BY TotalIs
  <2>2. base.utxo = utxo /\ base.minted = minted /\ base.fees = fees
    OBVIOUS
  <2> HIDE DEF utxo, minted, fees, base
  <2> QED
    BY <2>1, <2>2 DEF Gains, utxo, minted, fees
<1>3. MergedView(s, q) = Merges!Run(0, 0, base, q)
  BY DEF MergedView, MergeOne, Merges!Run, FoldLeft, Merges!MapThenFoldSet,
         MapThenFoldSet, Merges!Max, Max
<1> HIDE DEF base, n
<1>4. PICK f : Merges!IsLoop(0, 0, base, n, q, f) /\ Merges!Run(0, 0, base, q) = f[n]
  BY <1>1, Merges!LoopRuns
<1>5. f[0] = base /\ \A i \in 1 .. n : f[i] = ApplyMerged(f[i - 1], q[i])
  <2>1. 0 \in 0 .. n /\ \A i \in 1 .. n : i \in 0 .. n /\ i # 0
    BY <1>1
  <2> QED
    BY <1>4, <2>1 DEF Merges!IsLoop, MergeOne
<1> HIDE DEF utxo, minted, fees
<1> DEFINE Good == {i \in 0 .. n : Gains(utxo, minted, fees, f[i])}
<1>6. 0 \in Good
  BY <1>1, <1>2, <1>5
<1>7. ASSUME NEW i \in 1 .. n, i - 1 \in Good PROVE i \in Good
  <2>1. Gains(utxo, minted, fees, f[i - 1])
    BY <1>7
  <2>2. Gains(utxo, minted, fees, ApplyMerged(f[i - 1], q[i]))
    <3>1. IsTxList(txs[q[i]]) /\ IsView(utxo) /\ minted \in Nat /\ fees \in Nat
      BY <1>1 DEF utxo, minted, fees
    <3> QED
      BY <2>1, <3>1, MergedGains
  <2>3. i \in 0 .. n
    BY <1>1
  <2> QED
    BY <1>5, <2>2, <2>3
<1>8. n \in Good
  <2> HIDE DEF Good
  <2>1. \A i \in 0 .. n : i \in Good
    BY <1>1, <1>6, <1>7, Merges!NatUpTo
  <2> QED
    BY <1>1, <2>1
<1> QED
  BY <1>3, <1>4, <1>8 DEF utxo, minted, fees

-----------------------------------------------------------------------------
(***************************************************************************)
(* Deltas.                                                                 *)
(***************************************************************************)
\* Every entry of u is one of v.
Below(u, v) == /\ IsUtxo(u) /\ DOMAIN u \subseteq DOMAIN v
               /\ \A op \in DOMAIN u : u[op] = v[op]

NoEntries == [op \in {} |-> 0]

\* What is below a view is a view that holds no more of anything.
LEMMA BelowHolds ==
  ASSUME NEW u, NEW v, Below(u, v), IsView(v), NEW a
  PROVE  IsView(u) /\ Total(u, a) <= Total(v, a)
<1> DEFINE f == Values(u)
           g == Values(v)
           H == Held(u, a)
           I == Held(v, a)
<1>1. /\ IsUtxo(u) /\ \A op \in DOMAIN u : f[op] = g[op]
      /\ H \subseteq I /\ I \subseteq DOMAIN v /\ H \subseteq DOMAIN u
      /\ DOMAIN u \subseteq DOMAIN v
  BY DEF Below, Values, Held
<1>2. Valued(g, DOMAIN v)
  BY DEF IsView
<1> HIDE DEF f, g, H, I
<1>3. Valued(g, DOMAIN u) /\ Valued(g, I)
  BY <1>1, <1>2, CountFacts
<1>4. Valued(f, DOMAIN u)
  BY <1>1, <1>3, CountFacts
<1>5. Count(f, H) = Count(g, H)
  <2>1. \A x \in H : f[x] = g[x]
    BY <1>1
  <2> QED
    BY <2>1, CountFacts
<1>6. Count(g, H) <= Count(g, I)
  BY <1>1, <1>3, CountFacts
<1> QED
  BY <1>1, <1>4, <1>5, <1>6 DEF IsView, Total, f, g, H, I

\* Applying a delta keeps the order, and what it gives is a UTXO set.
LEMMA ApplyBelow ==
  ASSUME NEW u, NEW v, Below(u, v), NEW delta
  PROVE  /\ Below(apply_delta(delta, u), apply_delta(delta, v))
         /\ Below(NoEntries, u)
BY DEF Below, IsUtxo, apply_delta, InsertAll, RemoveAll, NoEntries

\* One set below another, the other below a third.
LEMMA BelowTrans ==
  ASSUME NEW u, NEW v, NEW w, Below(u, v), Below(v, w)
  PROVE  Below(u, w)
BY DEF Below

\* Composing two deltas adds nothing to applying both.
LEMMA ComposeBelow ==
  ASSUME NEW u, NEW first, NEW second
  PROVE  Below(apply_delta(compose_delta(first, second), u),
               apply_delta(second, apply_delta(first, u)))
<1> DEFINE l == apply_delta(compose_delta(first, second), u)
           r == apply_delta(second, apply_delta(first, u))
           A == DOMAIN first.created
           B == DOMAIN second.created
<1>1. /\ DOMAIN l = (DOMAIN u \cup A \cup B) \ (first.spent \cup second.spent)
      /\ \A op \in DOMAIN l : l[op] = IF op \in B THEN second.created[op]
                                      ELSE IF op \in A THEN first.created[op] ELSE u[op]
      /\ IsUtxo(l)
  BY DEF apply_delta, compose_delta, InsertAll, RemoveAll, IsUtxo
<1>2. /\ DOMAIN r = (((DOMAIN u \cup A) \ first.spent) \cup B) \ second.spent
      /\ \A op \in DOMAIN r : r[op] = IF op \in B THEN second.created[op]
                                      ELSE IF op \in A THEN first.created[op] ELSE u[op]
  BY DEF apply_delta, InsertAll, RemoveAll
<1> HIDE DEF l, r
<1>3. Below(l, r)
  BY <1>1, <1>2 DEF Below
<1> QED
  BY <1>3 DEF l, r

\* A block's delta on anything that its selected parent's view is below adds
\* at most what the block has added to that view.
LEMMA DiffBound ==
  ASSUME NEW pre, NEW post, IsView(pre), IsView(post), NEW v, IsView(v), Below(pre, v), NEW a
  PROVE  /\ IsView(apply_delta(diff_utxo(pre, post), v))
         /\ Total(apply_delta(diff_utxo(pre, post), v), a) + Total(pre, a)
              <= Total(v, a) + Total(post, a)
<1> DEFINE w == apply_delta(diff_utxo(pre, post), v)
           rest == RemoveAll(v, DOMAIN pre \cup DOMAIN post)
           old == RemoveAll(v, DOMAIN pre)
           all == InsertAll(rest, post)
<1>1. Below(w, all)
  BY DEF Below, IsUtxo, apply_delta, diff_utxo, ChangedFrom, InsertAll, RemoveAll
<1>2. IsView(rest) /\ IsView(old) /\ DOMAIN rest \cap DOMAIN post = {}
  BY TotalRemoves DEF RemoveAll
<1>3. Below(rest, old)
  BY DEF Below, IsUtxo, RemoveAll
<1>4. Total(v, a) = Total(old, a) + Total(pre, a)
  <2>1. Total(v, a) = Total(old, a) + Count(Values(v), DOMAIN pre \cap Held(v, a))
    BY TotalRemoves
  <2>2. DOMAIN pre \cap Held(v, a) = Held(pre, a)
    BY DEF Below, Held
  <2>3. Count(Values(v), Held(pre, a)) = Count(Values(pre), Held(pre, a))
    <3>1. \A x \in Held(pre, a) : Values(v)[x] = Values(pre)[x]
      BY DEF Below, Held, Values
    <3> QED
      BY <3>1, CountFacts
  <2> QED
    BY <2>1, <2>2, <2>3 DEF Total
<1> HIDE DEF w, rest, old, all
<1>5. IsView(all) /\ Total(all, a) = Total(rest, a) + Total(post, a)
  BY <1>2, TotalInserts DEF all
<1>6. Total(rest, a) <= Total(old, a)
  BY <1>2, <1>3, BelowHolds
<1>7. IsView(w) /\ Total(w, a) <= Total(all, a)
  BY <1>1, <1>5, BelowHolds
<1>8. /\ Total(w, a) \in Nat /\ Total(rest, a) \in Nat /\ Total(old, a) \in Nat
      /\ Total(pre, a) \in Nat /\ Total(post, a) \in Nat
  BY <1>2, <1>7, TotalIs
<1>9. Total(w, a) + Total(pre, a) <= Total(v, a) + Total(post, a)
  BY <1>4, <1>5, <1>6, <1>7, <1>8
<1> QED
  BY <1>7, <1>9 DEF w


-----------------------------------------------------------------------------
(***************************************************************************)
(* The undo log.  V bounds it when V has a view for every block with a     *)
(* delta, and the delta applied to the view of the selected parent, or to  *)
(* nothing when that has no delta any more, is below the block's.          *)
(***************************************************************************)
Base(d, log, V, b) == IF d.node[b].sp \in DOMAIN log THEN V[d.node[b].sp] ELSE NoEntries

Bounds(d, log, V) ==
  \A b \in DOMAIN log : IsView(V[b]) /\ Below(apply_delta(log[b], Base(d, log, V, b)), V[b])

\* A base is a set of entries.
LEMMA BaseIs ==
  ASSUME NEW d, NEW log, NEW V, Bounds(d, log, V), NEW b
  PROVE  /\ IsUtxo(Base(d, log, V, b)) /\ Below(NoEntries, Base(d, log, V, b))
         /\ Below(Base(d, log, V, b), Base(d, log, V, b))
<1> DEFINE u == Base(d, log, V, b)
<1>1. IsUtxo(u)
  BY DEF Bounds, Base, IsView, NoEntries, IsUtxo
<1> HIDE DEF u
<1>2. Below(u, u)
  BY <1>1 DEF Below
<1>3. Below(NoEntries, u)
  BY <1>2, ApplyBelow
<1> QED
  BY <1>1, <1>2, <1>3 DEF u

\* One iteration of the loop of prune.
LEMMA FoldKeepsBounds ==
  ASSUME NEW d, NEW log, NEW V, Bounds(d, log.deltas, V), NEW b \in DOMAIN log.deltas,
         d.node[b].sp # b
  PROVE  LET after == FoldDelta(d, log, b).deltas
         IN  DOMAIN after = DOMAIN log.deltas \ {b} /\ Bounds(d, after, V)
<1> DEFINE old == log.deltas
           new == FoldDelta(d, log, b).deltas
<1>1. /\ DOMAIN new = DOMAIN old \ {b}
      /\ \A c \in DOMAIN new : new[c] = IF d.node[c].sp = b
                                         THEN compose_delta(old[b], old[c]) ELSE old[c]
  BY DEF FoldDelta
<1> HIDE DEF new, old
<1>2. Bounds(d, old, V) /\ b \in DOMAIN old
  BY DEF old
<1>3. ASSUME NEW c \in DOMAIN new
      PROVE  IsView(V[c]) /\ Below(apply_delta(new[c], Base(d, new, V, c)), V[c])
  <2>1. c \in DOMAIN old /\ IsView(V[c]) /\ Below(apply_delta(old[c], Base(d, old, V, c)), V[c])
    BY <1>1, <1>2 DEF Bounds
  <2>2. CASE d.node[c].sp # b
    <3>1. Base(d, new, V, c) = Base(d, old, V, c) /\ new[c] = old[c]
      BY <1>1, <2>2 DEF Base
    <3> QED
      BY <2>1, <3>1
  <2>3. CASE d.node[c].sp = b
    <3> DEFINE u == Base(d, old, V, b)
               x == apply_delta(compose_delta(old[b], old[c]), NoEntries)
               y == apply_delta(old[c], apply_delta(old[b], NoEntries))
               z == apply_delta(old[c], apply_delta(old[b], u))
    <3>1. Base(d, new, V, c) = NoEntries /\ new[c] = compose_delta(old[b], old[c])
      BY <1>1, <2>3 DEF Base
    <3>2. Base(d, old, V, c) = V[b]
      BY <1>2, <2>3 DEF Base
    <3>3. Below(NoEntries, u)
      BY <1>2, BaseIs
    <3>4. Below(apply_delta(old[b], u), V[b])
      BY <1>2 DEF Bounds
    <3> HIDE DEF u
    <3>5. Below(x, y)
      BY ComposeBelow
    <3>6. Below(y, z)
      BY <3>3, ApplyBelow
    <3>7. Below(z, apply_delta(old[c], V[b]))
      BY <3>4, ApplyBelow
    <3> HIDE DEF x, y, z
    <3>8. Below(apply_delta(old[c], V[b]), V[c])
      BY <2>1, <3>2
    <3>9. Below(x, V[c])
      BY <3>5, <3>6, <3>7, <3>8, BelowTrans
    <3> QED
      BY <2>1, <3>1, <3>9 DEF x
  <2> QED
    BY <2>2, <2>3
<1> QED
  BY <1>1, <1>3 DEF Bounds, new, old


-----------------------------------------------------------------------------
(***************************************************************************)
(* prune: as often as there are final blocks with a delta, the deepest one *)
(* is folded; so there is one each time.                                   *)
(***************************************************************************)
FoldOne(d, p, log, i) == FoldDelta(d, log, Deepest(d, log))

\* The loop of prune.
Folds == INSTANCE LoopProofs WITH op <- FoldOne, val <- LAMBDA c, x : 0

\* A set of blocks has one with the least score.
LEMMA DeepestIs ==
  ASSUME NEW d, ByTheRule(d), NEW log, Stale(d, log) \in SUBSET Nodes(d),
         Stale(d, log) # {}
  PROVE  /\ Deepest(d, log) \in Stale(d, log)
         /\ \A a \in Stale(d, log) :
              d.node[Deepest(d, log)].blue_score <= d.node[a].blue_score
<1> DEFINE S == Stale(d, log)
           score(b) == d.node[b].blue_score
           H == {score(b) : b \in S}
<1>1. \A b \in S : score(b) \in Nat
  BY WellFormedIs DEF ByTheRule
<1>2. H \in SUBSET Nat /\ H # {}
  BY <1>1
<1>3. PICK k \in H : \A l \in H : k <= l
  <2> HIDE DEF H
  <2> QED
    BY <1>2, NatLeast
<1>4. \E b \in S : \A a \in S : score(b) <= score(a)
  BY <1>3
<1>5. Deepest(d, log) = CHOOSE b \in S : \A a \in S : score(b) <= score(a)
  BY Zenon DEF Deepest
<1> HIDE DEF S, score, H
<1>6. /\ Deepest(d, log) \in S
      /\ \A a \in S : score(Deepest(d, log)) <= score(a)
  BY <1>4, <1>5, Zenon
<1> QED
  BY <1>6 DEF S, score

\* The state of the loop when n final blocks are left.
Folded(d, old, V, log, n) ==
  /\ DOMAIN log.deltas \subseteq DOMAIN old /\ Bounds(d, log.deltas, V)
  /\ IsFiniteSet(Stale(d, log)) /\ Cardinality(Stale(d, log)) = n

\* Folding the deepest final block leaves one fewer, below the same bounds.
LEMMA FoldOneKeeps ==
  ASSUME NEW d, ByTheRule(d), NoBlock \notin Nodes(d), NEW old, DOMAIN old \subseteq Nodes(d),
         NEW V, NEW log, NEW n \in Nat, n # 0, Folded(d, old, V, log, n)
  PROVE  Folded(d, old, V, FoldDelta(d, log, Deepest(d, log)), n - 1)
<1> DEFINE S == Stale(d, log)
           b == Deepest(d, log)
           new == FoldDelta(d, log, b)
           T == Stale(d, new)
<1>1. S \in SUBSET Nodes(d) /\ S # {} /\ IsFiniteSet(S) /\ S \subseteq DOMAIN log.deltas
  <2>1. S \subseteq DOMAIN log.deltas
    BY DEF Stale
  <2>2. IsFiniteSet(S) /\ Cardinality(S) = n /\ DOMAIN log.deltas \subseteq Nodes(d)
    BY DEF Folded
  <2>3. S # {}
    BY <2>2, FS_EmptySet
  <2> QED
    BY <2>1, <2>2, <2>3
<1>2. b \in S
  BY <1>1, DeepestIs
<1>3. d.node[b].sp # b
  <2>1. b \in Nodes(d)
    BY <1>1, <1>2
  <2> HIDE DEF b
  <2>2. d.node[b].past \subseteq Nodes(d) \ {b}
    BY <2>1, WellFormedIs DEF ByTheRule
  <2> QED
    BY <2>1, <2>2, SelectedBelow
<1>4. DOMAIN new.deltas = DOMAIN log.deltas \ {b} /\ Bounds(d, new.deltas, V)
  <2>1. b \in DOMAIN log.deltas /\ Bounds(d, log.deltas, V)
    BY <1>1, <1>2 DEF Folded
  <2> HIDE DEF b
  <2> QED
    BY <1>3, <2>1, FoldKeepsBounds
<1>5. T = S \ {b}
  BY <1>4 DEF Stale
<1> HIDE DEF S, T, b, new
<1>6. IsFiniteSet(T) /\ Cardinality(T) = n - 1
  <2>1. Cardinality(S) = n
    BY DEF Folded, S
  <2>2. IsFiniteSet(S \ {b}) /\ Cardinality(S \ {b}) = Cardinality(S) - 1
    BY <1>1, <1>2, FS_RemoveElement
  <2> QED
    BY <1>5, <2>1, <2>2
<1>7. DOMAIN new.deltas \subseteq DOMAIN old
  BY <1>4 DEF Folded
<1>8. Folded(d, old, V, new, n - 1)
  BY <1>4, <1>6, <1>7 DEF Folded, T
<1> QED
  BY <1>8 DEF new, b

(***************************************************************************)
(* Pruning the undo log keeps what bounds it (prune).                      *)
(***************************************************************************)
LEMMA PruneKeepsBounds ==
  ASSUME NEW d, ByTheRule(d), NoBlock \notin Nodes(d), NEW log,
         DOMAIN log.deltas \subseteq Nodes(d), NEW V, Bounds(d, log.deltas, V)
  PROVE  /\ DOMAIN prune(d, log).deltas \subseteq DOMAIN log.deltas
         /\ Bounds(d, prune(d, log).deltas, V)
<1> DEFINE n == Cardinality(Stale(d, log))
           q == [i \in 1 .. n |-> i]
           old == log.deltas
<1>1. IsFiniteSet(Stale(d, log)) /\ n \in Nat
  <2>1. IsFiniteSet(Nodes(d)) /\ Stale(d, log) \in SUBSET Nodes(d)
    BY WellFormedIs DEF ByTheRule, Stale
  <2> QED
    BY <2>1, FS_Subset, FS_CardinalityType
<1>2. prune(d, log) = Folds!Run(d, 0, log, q)
  BY DEF prune, FoldOne, Folds!Run, FoldLeft, Folds!MapThenFoldSet,
         MapThenFoldSet, Folds!Max, Max
<1>3. DOMAIN q = 1 .. n
  OBVIOUS
<1>4. Folded(d, old, V, log, n)
  BY <1>1 DEF Folded
<1> HIDE DEF n, q
<1>5. PICK f : Folds!IsLoop(d, 0, log, n, q, f) /\ Folds!Run(d, 0, log, q) = f[n]
  BY <1>1, <1>3, Folds!LoopRuns
<1>6. f[0] = log /\ \A i \in 1 .. n : f[i] = FoldDelta(d, f[i - 1], Deepest(d, f[i - 1]))
  <2>1. 0 \in 0 .. n /\ \A i \in 1 .. n : i \in 0 .. n /\ i # 0
    BY <1>1
  <2> QED
    BY <1>5, <2>1 DEF Folds!IsLoop, FoldOne
<1> DEFINE Good == {i \in 0 .. n : Folded(d, old, V, f[i], n - i)}
<1>7. 0 \in Good
  <2>1. n - 0 = n /\ 0 \in 0 .. n
    BY <1>1
  <2> QED
    BY <1>4, <1>6, <2>1
<1>8. ASSUME NEW i \in 1 .. n, i - 1 \in Good PROVE i \in Good
  <2> DEFINE k == n - (i - 1)
             log1 == f[i - 1]
  <2>1. k \in Nat /\ k # 0 /\ k - 1 = n - i /\ i \in 0 .. n
    BY <1>1
  <2>2. Folded(d, old, V, log1, k)
    BY <1>8
  <2> HIDE DEF k, log1, old
  <2>3. Folded(d, old, V, FoldDelta(d, log1, Deepest(d, log1)), k - 1)
    BY <2>1, <2>2, FoldOneKeeps DEF old
  <2>4. Folded(d, old, V, f[i], n - i)
    BY <1>6, <2>1, <2>3 DEF log1
  <2> QED
    BY <2>1, <2>4
<1>9. n \in Good
  <2> HIDE DEF Good
  <2>1. \A i \in 0 .. n : i \in Good
    BY <1>1, <1>7, <1>8, Folds!NatUpTo
  <2> QED
    BY <1>1, <2>1
<1> QED
  BY <1>2, <1>5, <1>9 DEF Folded


-----------------------------------------------------------------------------
(***************************************************************************)
(* Views rebuilt from the undo log.                                        *)
(***************************************************************************)
\* What the deltas on the path to b make.
ViewOf(b) == Applies!Run(deltas, 0, NoEntries, ViewPath(dag, b))

\* The path to b: that to its selected parent, unless that is final.
LEMMA ViewPathIs ==
  ASSUME ByTheRule(dag), NoBlock \notin Nodes(dag), NEW b \in Nodes(dag)
  PROVE  LET s == dag.node[b].sp
         IN  /\ ViewPath(dag, b) \in Seq(Nodes(dag))
             /\ \/ ViewPath(dag, b) = <<b>>
                \/ /\ s \in Nodes(dag) /\ s \in dag.node[b].past
                   /\ ViewPath(dag, b) = Append(ViewPath(dag, s), b)
<1> DEFINE E == {x \in Nodes(dag) : ~is_final(dag, x)}
<1>1. \A x : ViewPath(dag, x) = PathTo(dag, E, x)
  BY Zenon DEF ViewPath, PathTo
<1>2. E \in SUBSET Nodes(dag)
  OBVIOUS
<1> HIDE DEF E
<1>3. /\ PathTo(dag, E, b) \in Seq(Nodes(dag))
      /\ PathTo(dag, E, b) = IF dag.node[b].sp \in E
                             THEN Append(PathTo(dag, E, dag.node[b].sp), b) ELSE <<b>>
  BY <1>2, RuleGrounded, PathIs
<1>4. dag.node[b].sp \in E => dag.node[b].sp \in Nodes(dag) /\ dag.node[b].sp \in dag.node[b].past
  BY <1>2, SelectedBelow
<1> DEFINE s == dag.node[b].sp
<1> HIDE DEF s
<1>5. CASE s \in E
  <2>1. PathTo(dag, E, b) = Append(PathTo(dag, E, s), b) /\ s \in Nodes(dag)
        /\ s \in dag.node[b].past /\ PathTo(dag, E, b) \in Seq(Nodes(dag))
    BY <1>3, <1>4, <1>5 DEF s
  <2>2. ViewPath(dag, b) = PathTo(dag, E, b) /\ ViewPath(dag, s) = PathTo(dag, E, s)
    BY <1>1
  <2> QED
    BY <2>1, <2>2 DEF s
<1>6. CASE s \notin E
  <2>1. PathTo(dag, E, b) = <<b>> /\ PathTo(dag, E, b) \in Seq(Nodes(dag))
    BY <1>3, <1>6 DEF s
  <2>2. ViewPath(dag, b) = PathTo(dag, E, b)
    BY <1>1
  <2> QED
    BY <2>1, <2>2
<1> QED
  BY <1>5, <1>6

\* A view that can be rebuilt is below what bounds the undo log.
LEMMA ViewBelow ==
  ASSUME ByTheRule(dag), NoBlock \notin Nodes(dag),
         NEW V, Bounds(dag, deltas, V), NEW b \in Nodes(dag), reconstruct_state(b) # NoView
  PROVE  b \in DOMAIN deltas /\ Below(reconstruct_state(b), V[b])
<1> DEFINE Known(x) == ToSet(ViewPath(dag, x)) \subseteq DOMAIN deltas
           Fine(x) == x \in DOMAIN deltas /\ Below(ViewOf(x), V[x])
           Bad == {x \in Nodes(dag) : Known(x) /\ ~Fine(x)}
<1>1. Bad = {}
  <2> SUFFICES ASSUME Bad # {} PROVE FALSE
    OBVIOUS
  <2>1. PICK x \in Bad : \A y \in Bad : y \notin dag.node[x].past
    <3>1. Bad \in SUBSET Nodes(dag)
      OBVIOUS
    <3> HIDE DEF Bad
    <3> QED
      BY <3>1, SameNodes, HasOldest DEF ByTheRule
  <2> DEFINE s == dag.node[x].sp
             path == ViewPath(dag, x)
             u == Base(dag, deltas, V, x)
  <2>2. x \in Nodes(dag) /\ Known(x) /\ ~Fine(x)
    BY <2>1
  <2>3. Below(NoEntries, u)
    BY BaseIs
  <2>4. CASE path = <<x>>
    <3>1. <<>> \in Seq(Nodes(dag))
      OBVIOUS
    <3>2. <<x>> = Append(<<>>, x)
      OBVIOUS
    <3>3. Applies!Run(deltas, 0, NoEntries, Append(<<>>, x))
            = apply_delta(deltas[x], Applies!Run(deltas, 0, NoEntries, <<>>))
      BY <2>2, <3>1, Applies!RunAppend
    <3>4. ViewOf(x) = apply_delta(deltas[x], NoEntries)
      BY <2>4, <3>2, <3>3, Applies!RunEmpty DEF ViewOf
    <3>5. x \in DOMAIN deltas
      <4>1. x \in ToSet(<<x>>)
        BY DEF ToSet
      <4> QED
        BY <2>2, <2>4, <4>1
    <3>6. Below(apply_delta(deltas[x], u), V[x])
      BY <3>5 DEF Bounds
    <3> HIDE DEF u
    <3>7. Below(apply_delta(deltas[x], NoEntries), apply_delta(deltas[x], u))
      BY <2>3, ApplyBelow
    <3>8. Below(ViewOf(x), V[x])
      BY <3>4, <3>6, <3>7, BelowTrans
    <3> QED
      BY <2>2, <3>5, <3>8
  <2>5. CASE s \in Nodes(dag) /\ s \in dag.node[x].past
             /\ path = Append(ViewPath(dag, s), x)
    <3> DEFINE rest == ViewPath(dag, s)
    <3>1. rest \in Seq(Nodes(dag))
      BY <2>5, ViewPathIs
    <3>2. ToSet(rest) \subseteq ToSet(path) /\ x \in ToSet(path)
      <4> DEFINE n == Len(rest)
      <4> HIDE DEF rest
      <4>1. /\ n \in Nat /\ Append(rest, x) \in Seq(Nodes(dag)) /\ Len(Append(rest, x)) = n + 1
            /\ Append(rest, x)[n + 1] = x
            /\ \A i \in 1 .. n : Append(rest, x)[i] = rest[i]
        BY <2>2, <3>1, AppendIs
      <4> DEFINE r == Append(rest, x)
      <4> HIDE DEF r
      <4>2. DOMAIN rest = 1 .. n /\ DOMAIN r = 1 .. n + 1 /\ path = r
        BY <2>5, <3>1, <4>1 DEF r, rest
      <4> HIDE DEF n
      <4> QED
        BY <4>1, <4>2 DEF ToSet, r
    <3>3. x \in DOMAIN deltas /\ Known(s)
      BY <2>2, <3>2
    <3>4. Fine(s)
      BY <2>1, <2>5, <3>3
    <3> HIDE DEF rest
    <3>5. Applies!Run(deltas, 0, NoEntries, Append(rest, x))
            = apply_delta(deltas[x], Applies!Run(deltas, 0, NoEntries, rest))
      BY <2>2, <3>1, Applies!RunAppend
    <3>6. ViewOf(x) = apply_delta(deltas[x], ViewOf(s))
      BY <2>5, <3>5 DEF ViewOf, rest
    <3>7. Below(apply_delta(deltas[x], V[s]), V[x])
      BY <3>3, <3>4 DEF Bounds, Base
    <3>8. Below(apply_delta(deltas[x], ViewOf(s)), apply_delta(deltas[x], V[s]))
      BY <3>4, ApplyBelow
    <3>9. Below(ViewOf(x), V[x])
      BY <3>6, <3>7, <3>8, BelowTrans
    <3> QED
      BY <2>2, <3>3, <3>9
  <2> QED
    BY <2>2, <2>4, <2>5, ViewPathIs
<1>2. \A x : reconstruct_state(x) = IF Known(x) THEN ViewOf(x) ELSE NoView
  BY DEF reconstruct_state, ViewOf, NoEntries, Applies!Run, FoldLeft,
         Applies!MapThenFoldSet, MapThenFoldSet, Applies!Max, Max
<1> HIDE DEF Known
<1>3. Known(b)
  BY <1>2
<1>4. Fine(b)
  BY <1>1, <1>3
<1> QED
  BY <1>2, <1>3, <1>4


-----------------------------------------------------------------------------
(***************************************************************************)
(* One block more.                                                         *)
(***************************************************************************)
\* What utxo holds, and what was burned, was minted, and within the cap.
Backed(utxo, minted, fees) ==
  /\ IsView(utxo) /\ minted \in Nat /\ fees \in Nat /\ minted <= MaxSupply
  /\ Total(utxo, Native) + fees <= minted

\* A block on a view that is below a backed one: both what it makes of the
\* view and its delta on the backed one are backed by what it has minted.
LEMMA OwnBacked ==
  ASSUME MaxSupply \in Nat, NEW v, NEW m, NEW f, Backed(v, m, f), NEW pre, Below(pre, v),
         NEW mv, Gains(pre, m, f, mv), NEW own, Balances(mv.utxo, mv.minted, own)
  PROVE  /\ Backed(own.utxo, mv.minted + own.minted, mv.fees + burned(own.fees))
         /\ Backed(apply_delta(diff_utxo(pre, own.utxo), v),
                   mv.minted + own.minted, mv.fees + burned(own.fees))
<1> DEFINE x == apply_delta(diff_utxo(pre, own.utxo), v)
           lost == burned(own.fees)
           a == Total(v, Native)
           b == Total(pre, Native)
           c == Total(mv.utxo, Native)
           e == Total(own.utxo, Native)
           g == Total(x, Native)
<1>1. /\ IsView(v) /\ m \in Nat /\ f \in Nat /\ a + f <= m
  BY DEF Backed
<1>2. IsView(pre) /\ b <= a
  BY <1>1, BelowHolds
<1>3. /\ IsView(mv.utxo) /\ mv.minted \in Nat /\ mv.fees \in Nat
      /\ c + mv.fees + m <= b + mv.minted + f
  BY DEF Gains
<1>4. /\ IsView(own.utxo) /\ own.fees \in Nat /\ own.minted \in Nat
      /\ e + own.fees = c + own.minted /\ mv.minted + own.minted <= MaxSupply
  BY DEF Balances
<1>5. lost \in Nat /\ lost <= own.fees
  BY <1>4, BurnedIs
<1>6. IsView(x) /\ g + b <= a + e
  BY <1>1, <1>2, <1>4, DiffBound
<1>7. a \in Nat /\ b \in Nat /\ c \in Nat /\ e \in Nat /\ g \in Nat
  BY <1>1, <1>2, <1>3, <1>4, <1>6, TotalIs
<1> HIDE DEF x, lost, a, b, c, e, g
<1>8. e + (mv.fees + lost) <= mv.minted + own.minted
  BY <1>1, <1>2, <1>3, <1>4, <1>5, <1>7
<1>9. g + (mv.fees + lost) <= mv.minted + own.minted
  BY <1>1, <1>2, <1>3, <1>4, <1>5, <1>6, <1>7
<1>10. Backed(own.utxo, mv.minted + own.minted, mv.fees + lost)
  BY <1>3, <1>4, <1>5, <1>8 DEF Backed, e
<1>11. Backed(x, mv.minted + own.minted, mv.fees + lost)
  BY <1>3, <1>4, <1>5, <1>6, <1>9 DEF Backed, g
<1> QED
  BY <1>10, <1>11 DEF x, lost

(***************************************************************************)
(* The inductive invariant.  The views of the undo log have bounds of      *)
(* their own, one for each block, that are backed by what was minted: a    *)
(* delta that loses an entry (ApplyDiffLoses), or that is composed out of  *)
(* order, leaves a view below its bound, never above.                      *)
(***************************************************************************)
BlocksInv ==
  /\ Sound(dag) /\ Nodes(dag) \subseteq Id \cup {Genesis}
  /\ DOMAIN txs = Nodes(dag) /\ \A b \in Nodes(dag) : IsTxList(txs[b])

TotalsInv ==
  /\ DOMAIN block_minted = Nodes(dag) /\ DOMAIN block_fees = Nodes(dag)
  /\ \A b \in Nodes(dag) :
       block_minted[b] \in Nat /\ block_minted[b] <= MaxSupply /\ block_fees[b] \in Nat

\* V bounds the undo log, with views that are backed.
BoundsBacked(d, log, V, minted, fees) ==
  Bounds(d, log, V) /\ \A b \in DOMAIN log : Backed(V[b], minted[b], fees[b])

UndoInv ==
  /\ DOMAIN deltas \subseteq Nodes(dag)
  /\ \E V : BoundsBacked(dag, deltas, V, block_minted, block_fees)

TipInv == Backed(tip_state, supply.native_minted, supply.fees_burned)

LedgerInv == BlocksInv /\ TotalsInv /\ UndoInv /\ TipInv

\* The invariant says that the supply is capped.
LEMMA LedgerInvSuffices ==
  ASSUME LedgerInv
  PROVE  SupplyCapped
<1>1. PICK V : BoundsBacked(dag, deltas, V, block_minted, block_fees)
  BY DEF LedgerInv, UndoInv
<1>2. ByTheRule(dag) /\ NoBlock \notin Nodes(dag)
  BY NoBlockAssumption DEF LedgerInv, BlocksInv, Sound
<1>3. ASSUME NEW b \in NonFinal, reconstruct_state(b) # NoView
      PROVE  NativeTotal(reconstruct_state(b)) + block_fees[b] <= block_minted[b]
  <2> DEFINE u == reconstruct_state(b)
  <2>1. b \in Nodes(dag)
    BY DEF NonFinal
  <2>2. b \in DOMAIN deltas /\ Below(u, V[b])
    BY <1>1, <1>2, <1>3, <2>1, ViewBelow DEF BoundsBacked
  <2>3. /\ IsView(V[b]) /\ block_fees[b] \in Nat /\ block_minted[b] \in Nat
        /\ Total(V[b], Native) + block_fees[b] <= block_minted[b]
    BY <1>1, <2>2 DEF BoundsBacked, Backed
  <2> HIDE DEF u
  <2>4. IsView(u) /\ Total(u, Native) <= Total(V[b], Native)
    BY <2>2, <2>3, BelowHolds
  <2>5. NativeTotal(u) = Total(u, Native) /\ Total(u, Native) \in Nat /\ Total(V[b], Native) \in Nat
    BY <2>3, <2>4, TotalIs
  <2>6. NativeTotal(u) + block_fees[b] <= block_minted[b]
    BY <2>3, <2>4, <2>5
  <2> QED
    BY <2>6 DEF u
<1>4. NativeTotal(tip_state) + supply.fees_burned <= supply.native_minted
      /\ supply.native_minted <= MaxSupply
  BY TotalIs DEF LedgerInv, TipInv, Backed
<1> QED
  BY <1>3, <1>4 DEF LedgerInv, TotalsInv, SupplyCapped


\* An empty set of entries, and the entries of a transaction.
LEMMA NoEntriesIs ==
  /\ IsView(NoEntries) /\ Below(NoEntries, NoEntries)
  /\ \A a : Total(NoEntries, a) = 0
<1> DEFINE f == Values(NoEntries)
<1>1. DOMAIN NoEntries = {} /\ \A a : Held(NoEntries, a) = {}
  BY DEF NoEntries, Held
<1>2. IsUtxo(NoEntries)
  BY DEF NoEntries, IsUtxo
<1> HIDE DEF f
<1>3. Valued(f, {}) /\ Count(f, {}) = 0
  BY CountFacts
<1> QED
  BY <1>1, <1>2, <1>3 DEF IsView, Below, Total, f

\* Genesis is backed.
LEMMA GenesisBacked ==
  ASSUME NEW state, state = Created(GenesisTxs[1], 0, TRUE),
         AssetOut(GenesisTxs[1], Native) <= MaxSupply
  PROVE  /\ Backed(state, AssetOut(GenesisTxs[1], Native), 0)
         /\ Backed(apply_delta(diff_utxo(NoEntries, state), NoEntries),
                   AssetOut(GenesisTxs[1], Native), 0)
<1> DEFINE cb == GenesisTxs[1]
           x == apply_delta(diff_utxo(NoEntries, state), NoEntries)
           m == AssetOut(cb, Native)
<1>1. IsTx(cb)
  BY GenesisAssumption DEF IsTxList, ToSet
<1>2. m \in Nat /\ m <= MaxSupply
  BY <1>1, OutIs
<1>3. IsView(state) /\ Total(state, Native) = m
  BY <1>1, CreatedTotal
<1>4. IsView(x) /\ Total(x, Native) + Total(NoEntries, Native)
                     <= Total(NoEntries, Native) + Total(state, Native)
  BY <1>3, NoEntriesIs, DiffBound
<1>5. Total(NoEntries, Native) = 0 /\ Total(x, Native) \in Nat
  BY <1>4, NoEntriesIs, TotalIs
<1> HIDE DEF x, m, cb
<1>8. 0 \in Nat /\ Total(state, Native) + 0 <= m /\ Total(x, Native) + 0 <= m
  <2> DEFINE a == Total(state, Native)
             e == Total(x, Native)
             z == Total(NoEntries, Native)
  <2>1. a = m /\ m \in Nat /\ e \in Nat /\ z = 0 /\ e + z <= z + a
    BY <1>2, <1>3, <1>4, <1>5
  <2> HIDE DEF a, e, z
  <2>2. a + 0 <= m /\ e + 0 <= m
    BY <2>1
  <2> QED
    BY <2>2 DEF a, e
<1>6. Backed(state, m, 0)
  BY <1>2, <1>3, <1>8 DEF Backed
<1>7. Backed(x, m, 0)
  BY <1>2, <1>4, <1>8 DEF Backed
<1> QED
  BY <1>6, <1>7 DEF x, m, cb

\* Genesis alone.
LEMMA LedgerInvInit ==
  ASSUME Init
  PROVE  LedgerInv
<1> DEFINE cb == GenesisTxs[1]
           state == Created(cb, 0, TRUE)
           m == AssetOut(cb, Native)
           delta == diff_utxo(NoEntries, state)
           x == apply_delta(delta, NoEntries)
           V == [b \in {Genesis} |-> x]
<1>1. /\ dag = NewDag(1) /\ txs = [b \in {Genesis} |-> GenesisTxs]
      /\ tip_state = state /\ deltas = [b \in {Genesis} |-> delta]
      /\ block_minted = [b \in {Genesis} |-> m] /\ block_fees = [b \in {Genesis} |-> 0]
      /\ supply = [native_minted |-> m, fees_burned |-> 0]
      /\ m <= MaxSupply
  BY DEF Init, NoEntries, coinbase_valid, AtGenesis
<1>2. Sound(dag) /\ Nodes(dag) = {Genesis}
  BY <1>1, NewSound, NumbersAssumption
<1>3. dag.node[Genesis].sp = NoBlock
  BY <1>1 DEF NewDag
<1>4. Backed(state, m, 0) /\ Backed(x, m, 0)
  BY <1>1, GenesisBacked
<1> HIDE DEF cb, state, m, delta
<1>5. BlocksInv
  BY <1>1, <1>2, GenesisAssumption DEF BlocksInv
<1>6. TotalsInv
  BY <1>1, <1>2, <1>4 DEF TotalsInv, Backed
<1>7. UndoInv
  <2>1. Base(dag, deltas, V, Genesis) = NoEntries
    BY <1>1, <1>3, NoBlockAssumption DEF Base
  <2> HIDE DEF x
  <2>2. V[Genesis] = x /\ IsView(x) /\ IsUtxo(x)
    BY <1>4 DEF Backed, IsView
  <2>3. Below(x, x)
    BY <2>2 DEF Below
  <2>4. deltas[Genesis] = delta /\ DOMAIN deltas = {Genesis}
        /\ block_minted[Genesis] = m /\ block_fees[Genesis] = 0
    BY <1>1
  <2> HIDE DEF V
  <2>5. Bounds(dag, deltas, V)
    BY <2>1, <2>2, <2>3, <2>4 DEF Bounds, x
  <2>6. BoundsBacked(dag, deltas, V, block_minted, block_fees)
    BY <1>4, <2>2, <2>4, <2>5 DEF BoundsBacked
  <2> QED
    BY <1>2, <2>4, <2>6 DEF UndoInv
<1>8. TipInv
  BY <1>1, <1>4 DEF TipInv
<1> QED
  BY <1>5, <1>6, <1>7, <1>8 DEF LedgerInv


\* The undo log with the delta of a new block.
LEMMA PutKeepsBounds ==
  ASSUME BlocksInv, DOMAIN deltas \subseteq Nodes(dag), NEW V, Bounds(dag, deltas, V),
         NEW d, NEW id, NEW ps, NEW w, Grown(dag, d, id, ps, w), id \notin Nodes(dag) \cup {NoBlock},
         NEW s \in DOMAIN deltas, d.node[id].sp = s, NEW delta, IsView(apply_delta(delta, V[s]))
  PROVE  LET new == [b \in Nodes(d) |-> IF b = id THEN apply_delta(delta, V[s]) ELSE V[b]]
         IN  Bounds(d, Put(deltas, id, delta), new)
<1> DEFINE x == apply_delta(delta, V[s])
           new == [b \in Nodes(d) |-> IF b = id THEN x ELSE V[b]]
           log == Put(deltas, id, delta)
<1>1. /\ Nodes(d) = Nodes(dag) \cup {id} /\ \A b \in Nodes(dag) : d.node[b] = dag.node[b]
      /\ ByTheRule(dag) /\ NoBlock \notin Nodes(dag)
  BY NoBlockAssumption DEF Grown, BlocksInv, Sound
<1>2. /\ DOMAIN log = DOMAIN deltas \cup {id} /\ log[id] = delta
      /\ \A b \in DOMAIN deltas : log[b] = deltas[b]
  BY DEF Put
<1>3. new[id] = x /\ \A b \in DOMAIN deltas : new[b] = V[b]
  BY <1>1
<1> HIDE DEF new, log
<1>4. IsView(new[id]) /\ Below(apply_delta(log[id], Base(d, log, new, id)), new[id])
  <2>1. Base(d, log, new, id) = V[s]
    BY <1>2, <1>3 DEF Base
  <2>2. IsUtxo(x)
    BY DEF IsView
  <2> HIDE DEF x
  <2>3. Below(x, x)
    BY <2>2 DEF Below
  <2> QED
    BY <1>2, <1>3, <2>1, <2>3 DEF x
<1>5. ASSUME NEW b \in DOMAIN deltas
      PROVE  IsView(new[b]) /\ Below(apply_delta(log[b], Base(d, log, new, b)), new[b])
  <2>1. d.node[b].sp = dag.node[b].sp /\ d.node[b].sp # id
    <3>1. b \in Nodes(dag)
      OBVIOUS
    <3>2. dag.node[b].sp \in Nodes(dag) \/ (b = Genesis /\ dag.node[b].sp = NoBlock)
      <4>1. CASE b = Genesis
        <5> DEFINE g == Rules!GenesisNode(dag.node[Genesis].work)
        <5>1. g.sp = NoBlock
          BY DEF Rules!GenesisNode
        <5>2. dag.node[Genesis] = g
          BY <1>1, GenesisFields
        <5> HIDE DEF g
        <5> QED
          BY <4>1, <5>1, <5>2
      <4>2. CASE b # Genesis
        BY <1>1, <3>1, <4>2, SelectedBelow
      <4> QED
        BY <4>1, <4>2
    <3> QED
      BY <1>1, <3>1, <3>2
  <2>2. Base(d, log, new, b) = Base(dag, deltas, V, b)
    BY <1>2, <1>3, <2>1 DEF Base
  <2>3. new[b] = V[b] /\ log[b] = deltas[b]
    BY <1>2, <1>3
  <2> QED
    BY <2>2, <2>3 DEF Bounds
<1>6. Bounds(d, log, new)
  BY <1>2, <1>4, <1>5 DEF Bounds
<1> QED
  BY <1>6 DEF new, log

\* apply_new_block keeps the invariant.
LEMMA InsertKeeps ==
  ASSUME LedgerInv, NEW id \in Id, NEW ps \in SUBSET Nodes(dag), NEW w \in Work,
         NEW body, IsTxList(body), Insert(id, ps, w, body)
  PROVE  LedgerInv'
<1> DEFINE d == insert(dag, id, ps, w, NoPruning)
<1>1. id \notin Nodes(dag) /\ ps # {}
  BY DEF Insert, Admissible
<1>2. PICK s \in ps : /\ s = Heaviest(dag, ps)
                      /\ reconstruct_state(s) # NoView
                      /\ Connect(id, s, body, d, MergedView(s, mergeset_ordered(dag, s, ps)))
  BY DEF Insert
<1> DEFINE pre    == reconstruct_state(s)
           q      == mergeset_ordered(dag, s, ps)
           mv     == MergedView(s, q)
           own    == OwnOutcome(s, body, mv)
           minted == mv.minted + own.minted
           fees   == mv.fees + burned(own.fees)
           delta  == diff_utxo(pre, own.utxo)
           log    == [deltas  |-> Put(deltas, id, delta),
                      stake   |-> Put(stake_deltas, id,
                                      diff_stake(reconstruct_stake(s), own.stake)),
                      heights |-> Put(heights, id, HeightOr0(s) + 1)]
<1>3. /\ dag' = d /\ txs' = Put(txs, id, body)
      /\ tip_state' = TipView(d, id, own.utxo, tip_state)
      /\ supply' = TipView(d, id, [native_minted |-> minted, fees_burned |-> fees], supply)
      /\ deltas' = prune(d, log).deltas
      /\ block_minted' = Put(block_minted, id, minted)
      /\ block_fees' = Put(block_fees, id, fees)
  BY <1>2 DEF Connect, Record
<1>4. log.deltas = Put(deltas, id, delta)
  OBVIOUS
<1>5. d = Wired(dag, id, ps, w)
  BY InsertIs
<1> HIDE DEF d, log
<1>6. /\ Sound(dag) /\ ByTheRule(dag) /\ NoBlock \notin Nodes(dag)
      /\ \A b \in Nodes(dag) : IsTxList(txs[b])
      /\ BlocksInv /\ TotalsInv /\ UndoInv /\ TipInv
  BY NoBlockAssumption DEF LedgerInv, BlocksInv, Sound
<1>7. Grown(dag, d, id, ps, w) /\ id \notin Nodes(dag) \cup {NoBlock}
  BY <1>1, <1>5, <1>6, WiredSound, NumbersAssumption, NoBlockAssumption
<1>8. d.node[id].sp = s
  <2> DEFINE n == NewNode(dag, ps, w)
  <2>1. n.sp = s
    BY <1>2 DEF NewNode
  <2> HIDE DEF n
  <2>2. d.node = [b \in Nodes(dag) \cup {id} |-> IF b = id THEN n ELSE dag.node[b]]
    BY <1>5 DEF Wired, n
  <2> QED
    BY <2>1, <2>2
<1>9. s \in Nodes(dag)
  OBVIOUS
<1>10. PICK V : BoundsBacked(dag, deltas, V, block_minted, block_fees)
  BY <1>6 DEF UndoInv
<1>11. s \in DOMAIN deltas /\ Below(pre, V[s])
  BY <1>2, <1>6, <1>9, <1>10, ViewBelow DEF BoundsBacked
<1>12. Backed(V[s], block_minted[s], block_fees[s])
  BY <1>10, <1>11 DEF BoundsBacked
<1>13. Gains(pre, block_minted[s], block_fees[s], mv)
  <2>1. IsView(pre)
    <3> HIDE DEF pre
    <3>1. IsView(V[s])
      BY <1>12 DEF Backed
    <3> QED
      BY <1>11, <3>1, BelowHolds
  <2>2. q \in Seq(Nodes(dag))
    BY <1>6, <1>9, MergesetLists
  <2>3. block_minted[s] \in Nat /\ block_minted[s] <= MaxSupply /\ block_fees[s] \in Nat
    BY <1>12 DEF Backed
  <2> HIDE DEF q
  <2> QED
    BY <1>6, <2>1, <2>2, <2>3, MergedViewGains, NumbersAssumption
<1> HIDE DEF mv, pre
<1>14. Balances(mv.utxo, mv.minted, own)
  <2> DEFINE u == mv.utxo
             k == mv.minted
             subsidy == subsidy_at(HeightOr0(s) + 1)
             h == HeightOr0(s) + 1
             score == dag.node[s].blue_score + 1
  <2>1. IsView(u) /\ k \in Nat /\ k <= MaxSupply
    BY <1>13 DEF Gains
  <2>2. own = apply_block_inner(u, mv.stake, body, subsidy, k, h, score)
    BY DEF OwnOutcome
  <2> HIDE DEF u, k, subsidy, h, score, own
  <2>3. Balances(u, k, own)
    BY <2>1, <2>2, BlockBalances, NumbersAssumption
  <2> QED
    BY <2>3 DEF u, k
<1> HIDE DEF own
<1>15. /\ Backed(own.utxo, minted, fees)
       /\ Backed(apply_delta(delta, V[s]), minted, fees)
  BY <1>11, <1>12, <1>13, <1>14, OwnBacked, NumbersAssumption
<1> HIDE DEF minted, fees, delta
<1> DEFINE x == apply_delta(delta, V[s])
           new == [b \in Nodes(d) |-> IF b = id THEN x ELSE V[b]]
<1>16. Bounds(d, log.deltas, new)
  <2>1. IsView(x)
    BY <1>15 DEF Backed
  <2> QED
    BY <1>4, <1>6, <1>7, <1>8, <1>10, <1>11, <2>1, PutKeepsBounds DEF BoundsBacked, UndoInv
<1>17. DOMAIN log.deltas = DOMAIN deltas \cup {id} /\ DOMAIN deltas \subseteq Nodes(dag)
  BY <1>4, <1>6 DEF Put, UndoInv
<1>18. Sound(d) /\ ByTheRule(d) /\ Nodes(d) = Nodes(dag) \cup {id}
  BY <1>7 DEF Grown, Sound
<1>19. /\ new[id] = x /\ \A b \in DOMAIN deltas : new[b] = V[b]
  BY <1>1, <1>17, <1>18
<1> HIDE DEF new, x
<1>20. DOMAIN deltas' \subseteq DOMAIN log.deltas /\ Bounds(d, deltas', new)
  BY <1>3, <1>6, <1>7, <1>16, <1>17, <1>18, PruneKeepsBounds
<1>21. BlocksInv'
  <2>1. DOMAIN txs' = Nodes(dag') /\ \A b \in Nodes(dag') : IsTxList(txs'[b])
    BY <1>3, <1>6, <1>18 DEF Put, BlocksInv
  <2> QED
    BY <1>3, <1>6, <1>18, <2>1 DEF BlocksInv
<1>22. minted \in Nat /\ minted <= MaxSupply /\ fees \in Nat
  BY <1>15 DEF Backed
<1>23. TotalsInv'
  <2>1. ASSUME NEW b \in Nodes(dag')
        PROVE  /\ block_minted'[b] \in Nat /\ block_minted'[b] <= MaxSupply
               /\ block_fees'[b] \in Nat
    BY <1>3, <1>6, <1>18, <1>22 DEF TotalsInv, Put
  <2>2. DOMAIN block_minted' = Nodes(dag') /\ DOMAIN block_fees' = Nodes(dag')
    BY <1>3, <1>6, <1>18 DEF TotalsInv, Put
  <2> QED
    BY <2>1, <2>2 DEF TotalsInv
<1>24. UndoInv'
  <2>1. ASSUME NEW b \in DOMAIN deltas'
        PROVE  Backed(new[b], block_minted'[b], block_fees'[b])
    <3>1. CASE b = id
      BY <1>3, <1>15, <1>19, <3>1 DEF Put, x
    <3>2. CASE b # id
      <4>1. b \in DOMAIN deltas
        BY <1>17, <1>20, <3>2
      <4>2. b \in DOMAIN block_minted /\ b \in DOMAIN block_fees
        BY <1>6, <1>17, <4>1 DEF TotalsInv
      <4>3. new[b] = V[b] /\ block_minted'[b] = block_minted[b] /\ block_fees'[b] = block_fees[b]
        BY <1>3, <1>19, <3>2, <4>1, <4>2 DEF Put
      <4> QED
        BY <1>10, <4>1, <4>3 DEF BoundsBacked
    <3> QED
      BY <3>1, <3>2
  <2>2. BoundsBacked(dag', deltas', new, block_minted', block_fees')
    BY <1>3, <1>20, <2>1 DEF BoundsBacked
  <2>3. DOMAIN deltas' \subseteq Nodes(dag')
    BY <1>3, <1>17, <1>18, <1>20
  <2> QED
    BY <2>2, <2>3 DEF UndoInv
<1>25. TipInv'
  <2>1. CASE selected_tip(d) = id
    BY <1>3, <1>15, <2>1 DEF TipInv, TipView
  <2>2. CASE selected_tip(d) # id
    BY <1>3, <1>6, <2>2 DEF TipInv, TipView
  <2> QED
    BY <2>1, <2>2
<1> QED
  BY <1>21, <1>23, <1>24, <1>25 DEF LedgerInv

\* The amounts of the blocks that may be mined are unsigned, if those of the
\* blocks there are are.
PayloadIsTyped ==
  \A id \in Id : \A made :
    (\A b \in DOMAIN made : IsTxList(made[b]))
      => \A body \in Payload(id, made) : IsTxList(body)

(***************************************************************************)
(* No coins from nowhere: in every view that can be rebuilt, and in the    *)
(* materialised one, the native value that is unspent and the fees that    *)
(* were burned were minted, within MAX_SUPPLY; for every DAG, finality     *)
(* depth, schedule and payload, and whether or not transaction ids repeat  *)
(* (apply_new_block, prune).                                               *)
(***************************************************************************)
THEOREM SupplyIsCapped ==
  ASSUME PayloadIsTyped
  PROVE  Spec => []SupplyCapped
<1>1. Init => LedgerInv
  BY LedgerInvInit
<1>2. LedgerInv /\ [Next]_vars => LedgerInv'
  <2> SUFFICES ASSUME LedgerInv, [Next]_vars PROVE LedgerInv'
    OBVIOUS
  <2>1. ASSUME NEW id \in Id, NEW ps \in SUBSET Nodes(dag), NEW w \in Work,
               NEW body \in Payload(id, txs), Insert(id, ps, w, body)
        PROVE  LedgerInv'
    <3>1. IsTxList(body)
      BY PayloadIsTyped DEF PayloadIsTyped, LedgerInv, BlocksInv
    <3> QED
      BY <2>1, <3>1, InsertKeeps
  <2>2. CASE UNCHANGED vars
    BY <2>2 DEF vars, LedgerInv, BlocksInv, TotalsInv, UndoInv, TipInv
  <2> QED
    BY <2>1, <2>2 DEF Next
<1>3. LedgerInv => SupplyCapped
  BY LedgerInvSuffices
<1> QED
  BY <1>1, <1>2, <1>3, PTL DEF Spec

-----------------------------------------------------------------------------
(***************************************************************************)
(* The stake registry.                                                     *)
(***************************************************************************)
Amounts(frozen) == [op \in DOMAIN frozen |-> frozen[op].value]

Bonds(frozen, k) == {op \in DOMAIN frozen : frozen[op].key = k}

\* The registry in which each key has locked what its bonds are worth.
Reg(frozen) ==
  [frozen |-> frozen,
   locked |-> [k \in {frozen[op].key : op \in DOMAIN frozen} |->
                 Count(Amounts(frozen), Bonds(frozen, k))]]

\* Bonds a registry can have: finitely many, none of them worth nothing.
Bonded(frozen) ==
  /\ IsUtxo(frozen) /\ IsFiniteSet(DOMAIN frozen)
  /\ \A op \in DOMAIN frozen : frozen[op].value \in Nat \ {0} /\ frozen[op].height \in Nat

\* One member more.
LEMMA CountOneMore ==
  ASSUME NEW f, NEW S, Valued(f, S), NEW c, c \notin S, f[c] \in Nat
  PROVE  Count(f, S \cup {c}) = Count(f, S) + f[c]
BY Spends!CountAdds DEF Count, Valued

\* The bonds of a key have a sum.
LEMMA BondsCount ==
  ASSUME NEW fr, Bonded(fr)
  PROVE  \A k : Valued(Amounts(fr), Bonds(fr, k)) /\ Count(Amounts(fr), Bonds(fr, k)) \in Nat
<1>1. Valued(Amounts(fr), DOMAIN fr)
  BY SameCount DEF Bonded, Amounts
<1>2. \A k : Bonds(fr, k) \in SUBSET DOMAIN fr
  BY DEF Bonds
<1> QED
  BY <1>1, <1>2, CountFacts

\* What is locked for a key.
LEMMA StakeOfIs ==
  ASSUME NEW fr, Bonded(fr), NEW k
  PROVE  stake_of(Reg(fr), k) = Count(Amounts(fr), Bonds(fr, k))
<1> DEFINE keys == {fr[op].key : op \in DOMAIN fr}
           n == Count(Amounts(fr), Bonds(fr, k))
<1>1. CASE k \in keys
  BY <1>1 DEF stake_of, Reg
<1>2. CASE k \notin keys
  <2>1. Bonds(fr, k) = {}
    BY <1>2 DEF Bonds
  <2>2. n = 0
    BY <2>1, CountFacts
  <2> HIDE DEF n
  <2>3. stake_of(Reg(fr), k) = 0
    BY <1>2 DEF stake_of, Reg
  <2> QED
    BY <2>2, <2>3 DEF n
<1> QED
  BY <1>1, <1>2

\* One bond more.
Plus(fr, op, f) == InsertAll(fr, [o \in {op} |-> f])

\* Freezing an outpoint that is not frozen.
LEMMA FreezeIs ==
  ASSUME NEW fr, Bonded(fr), NEW op, op \notin DOMAIN fr, NEW f,
         f.value \in Nat \ {0}, f.height \in Nat
  PROVE  Bonded(Plus(fr, op, f)) /\ freeze(Reg(fr), op, f) = Reg(Plus(fr, op, f))
<1> DEFINE new == Plus(fr, op, f)
           keys == {fr[o].key : o \in DOMAIN fr}
           locked == InsertAll(Reg(fr).locked,
                               [k \in {f.key} |-> stake_of(Reg(fr), k) + f.value])
<1>1. /\ DOMAIN new = DOMAIN fr \cup {op} /\ new[op] = f /\ IsUtxo(new)
      /\ \A o \in DOMAIN fr : new[o] = fr[o]
  BY DEF InsertAll, IsUtxo, Plus
<1> HIDE DEF new
<1>2. Bonded(new)
  <2>1. IsFiniteSet(DOMAIN new)
    BY <1>1, FS_AddElement DEF Bonded
  <2> QED
    BY <1>1, <2>1 DEF Bonded
<1>3. {new[o].key : o \in DOMAIN new} = keys \cup {f.key}
  BY <1>1
<1>4. /\ DOMAIN locked = keys \cup {f.key}
      /\ \A k \in keys \cup {f.key} :
           locked[k] = IF k = f.key THEN stake_of(Reg(fr), k) + f.value ELSE Reg(fr).locked[k]
      /\ locked = [k \in keys \cup {f.key} |-> locked[k]]
  BY DEF InsertAll, Reg
<1> HIDE DEF locked
<1>5. ASSUME NEW k
      PROVE  Count(Amounts(new), Bonds(fr, k)) = Count(Amounts(fr), Bonds(fr, k))
  <2>1. \A x \in Bonds(fr, k) : Amounts(new)[x] = Amounts(fr)[x]
    BY <1>1 DEF Bonds, Amounts
  <2> QED
    BY <2>1, CountFacts
<1>6. ASSUME NEW k \in keys \cup {f.key}
      PROVE  locked[k] = Count(Amounts(new), Bonds(new, k))
  <2>1. CASE k = f.key
    <3>1. Bonds(new, k) = Bonds(fr, k) \cup {op} /\ op \notin Bonds(fr, k)
      BY <1>1, <2>1 DEF Bonds
    <3>2. Valued(Amounts(new), Bonds(new, k)) /\ Bonds(fr, k) \in SUBSET Bonds(new, k)
      BY <1>2, <3>1, BondsCount
    <3>3. Valued(Amounts(new), Bonds(fr, k)) /\ Amounts(new)[op] = f.value
      BY <1>1, <3>2, CountFacts DEF Amounts
    <3>4. Count(Amounts(new), Bonds(new, k)) = Count(Amounts(new), Bonds(fr, k)) + f.value
      BY <3>1, <3>3, CountOneMore
    <3> QED
      BY <1>4, <1>5, <2>1, <3>4, StakeOfIs
  <2>2. CASE k # f.key
    <3>1. Bonds(new, k) = Bonds(fr, k) /\ k \in keys
      BY <1>1, <2>2 DEF Bonds
    <3>2. Reg(fr).locked[k] = Count(Amounts(fr), Bonds(fr, k))
      BY <3>1 DEF Reg
    <3> QED
      BY <1>4, <1>5, <2>2, <3>1, <3>2
  <2> QED
    BY <2>1, <2>2
<1>7. freeze(Reg(fr), op, f) = [frozen |-> new, locked |-> locked]
  BY DEF freeze, Reg, new, locked, Plus
<1>8. locked = [k \in {new[o].key : o \in DOMAIN new} |-> Count(Amounts(new), Bonds(new, k))]
  BY <1>3, <1>4, <1>6
<1>9. Reg(new) = [frozen |-> new, locked |-> locked]
  BY <1>8 DEF Reg
<1> QED
  BY <1>2, <1>7, <1>9 DEF new

\* Releasing one that is.
LEMMA UnfreezeIs ==
  ASSUME NEW fr, Bonded(fr), NEW op \in DOMAIN fr
  PROVE  LET new == RemoveAll(fr, {op})
         IN  Bonded(new) /\ unfreeze(Reg(fr), op) = Reg(new)
<1> DEFINE new == RemoveAll(fr, {op})
           keys == {fr[o].key : o \in DOMAIN fr}
           key == fr[op].key
           amount == fr[op].value
           rest == Bonds(new, key)
           n == Count(Amounts(new), rest)
<1>1. /\ DOMAIN new = DOMAIN fr \ {op} /\ IsUtxo(new)
      /\ \A o \in DOMAIN new : new[o] = fr[o]
  BY DEF RemoveAll, IsUtxo
<1> HIDE DEF new
<1>2. Bonded(new)
  <2>1. IsFiniteSet(DOMAIN new)
    BY <1>1, FS_Subset DEF Bonded
  <2> QED
    BY <1>1, <2>1 DEF Bonded
<1>3. ASSUME NEW k
      PROVE  Count(Amounts(new), Bonds(new, k)) = Count(Amounts(fr), Bonds(new, k))
  <2>1. \A x \in Bonds(new, k) : Amounts(new)[x] = Amounts(fr)[x]
    BY <1>1 DEF Bonds, Amounts
  <2> QED
    BY <2>1, CountFacts
<1>4. n \in Nat /\ amount \in Nat \ {0} /\ stake_of(Reg(fr), key) = n + amount
  <2>1. Bonds(fr, key) = rest \cup {op} /\ op \notin rest
    BY <1>1 DEF Bonds
  <2>2. Valued(Amounts(fr), Bonds(fr, key)) /\ rest \in SUBSET Bonds(fr, key)
    BY <2>1, BondsCount
  <2>3. Valued(Amounts(fr), rest) /\ Amounts(fr)[op] = amount /\ amount \in Nat \ {0}
    <3>1. Valued(Amounts(fr), rest)
      BY <2>2, CountFacts
    <3> QED
      BY <3>1 DEF Amounts, Bonded
  <2> HIDE DEF rest, amount
  <2>4. Count(Amounts(fr), Bonds(fr, key)) = Count(Amounts(fr), rest) + amount
    BY <2>1, <2>3, CountOneMore
  <2>5. n = Count(Amounts(fr), rest) /\ n \in Nat
    BY <1>2, <1>3, BondsCount DEF rest
  <2> QED
    BY <2>3, <2>4, <2>5, StakeOfIs
<1>5. Max({0, stake_of(Reg(fr), key) - amount}) = n
  <2> DEFINE m == stake_of(Reg(fr), key)
  <2> HIDE DEF m, n, amount
  <2>1. {0, m - amount} = {0, n} /\ n \in Nat
    BY <1>4 DEF m
  <2>2. Max({0, n}) = n
    <3>1. n \in {0, n} /\ \A y \in {0, n} : n >= y
      BY <2>1
    <3>2. \A x \in {0, n} : (\A y \in {0, n} : x >= y) => x = n
      BY <2>1
    <3> QED
      BY <3>1, <3>2 DEF Max
  <2> QED
    BY <2>1, <2>2 DEF m
<1>6. n = 0 <=> rest = {}
  <2>1. rest = {} => n = 0
    BY CountFacts
  <2>2. ASSUME NEW o \in rest PROVE n # 0
    <3> DEFINE f == Amounts(new)
    <3>1. Valued(f, rest)
      BY <1>2, BondsCount
    <3>2. o \in DOMAIN new
      BY DEF Bonds
    <3>3. f[o] \in Nat \ {0}
      BY <1>2, <3>2 DEF Bonded, Amounts
    <3> HIDE DEF f, rest
    <3>4. Valued(f, rest \ {o}) /\ Count(f, rest \ {o}) \in Nat
      BY <3>1, CountFacts
    <3>5. Count(f, (rest \ {o}) \cup {o}) = Count(f, rest \ {o}) + f[o]
      BY <3>3, <3>4, CountOneMore
    <3>6. (rest \ {o}) \cup {o} = rest
      OBVIOUS
    <3>7. Count(f, rest) # 0
      BY <3>3, <3>4, <3>5, <3>6
    <3> QED
      BY <3>7 DEF f
  <2> QED
    BY <2>1, <2>2
<1> DEFINE locked == IF n = 0 THEN RemoveAll(Reg(fr).locked, {key})
                     ELSE [Reg(fr).locked EXCEPT ![key] = n]
<1>7. unfreeze(Reg(fr), op) = [frozen |-> new, locked |-> locked]
  <2>1. unfreeze(Reg(fr), op) =
          [frozen |-> new,
           locked |-> IF Max({0, stake_of(Reg(fr), key) - amount}) = 0
                      THEN RemoveAll(Reg(fr).locked, {key})
                      ELSE [Reg(fr).locked EXCEPT ![key]
                              = Max({0, stake_of(Reg(fr), key) - amount})]]
    BY DEF unfreeze, Reg, new
  <2> QED
    BY <1>5, <2>1
<1>8. Reg(fr).locked = [k \in keys |-> Count(Amounts(fr), Bonds(fr, k))] /\ key \in keys
  BY DEF Reg
<1>9. ASSUME NEW k, k # key
      PROVE  /\ Count(Amounts(fr), Bonds(fr, k)) = Count(Amounts(new), Bonds(new, k))
             /\ k \in keys <=> k \in {new[o].key : o \in DOMAIN new}
  <2>1. Bonds(new, k) = Bonds(fr, k)
    BY <1>1, <1>9 DEF Bonds
  <2> QED
    BY <1>1, <1>3, <1>9, <2>1
<1>10. key \in {new[o].key : o \in DOMAIN new} <=> rest # {}
  BY DEF Bonds
<1> DEFINE L == Reg(fr).locked
           left == {new[o].key : o \in DOMAIN new}
<1>11. locked = [k \in left |-> Count(Amounts(new), Bonds(new, k))]
  <2> DEFINE N(k) == Count(Amounts(new), Bonds(new, k))
  <2>1. DOMAIN L = keys /\ (\A k \in keys : k # key => L[k] = N(k)) /\ n = N(key)
    BY <1>8, <1>9
  <2>2. \A k : k # key => (k \in keys <=> k \in left)
    BY <1>9
  <2> HIDE DEF L, N, keys, left, key, n, rest
  <2>3. CASE n = 0
    <3>1. left = keys \ {key}
      BY <1>6, <1>10, <2>2, <2>3 DEF left
    <3>2. locked = [k \in keys \ {key} |-> L[k]]
      BY <2>1, <2>3 DEF RemoveAll, L
    <3> QED
      BY <2>1, <3>1, <3>2 DEF N
  <2>4. CASE n # 0
    <3>1. left = keys
      BY <1>6, <1>8, <1>10, <2>2, <2>4 DEF left
    <3>2. locked = [L EXCEPT ![key] = n]
      BY <2>4 DEF L
    <3>3. L = [k \in keys |-> L[k]]
      BY <1>8 DEF L
    <3>4. locked = [k \in keys |-> IF k = key THEN n ELSE L[k]]
      BY <3>2, <3>3
    <3> QED
      BY <2>1, <3>1, <3>4 DEF N
  <2> QED
    BY <2>3, <2>4
<1> HIDE DEF locked
<1>12. Reg(new) = [frozen |-> new, locked |-> locked]
  BY <1>11 DEF Reg
<1> QED
  BY <1>2, <1>7, <1>12 DEF new

\* The loops of FreezeAll and UnfreezeAll, and sums over bonds.
FreezeOne(fs, d, stake, op) == freeze(stake, op, fs[op])
UnfreezeOne(c, d, stake, op) == unfreeze(stake, op)
Freezes == INSTANCE LoopProofs WITH op <- FreezeOne, val <- LAMBDA c, x : c[x].value
Unfreezes == INSTANCE LoopProofs WITH op <- UnfreezeOne, val <- LAMBDA c, x : 0

\* The bonds of a key, summed up.
LEMMA BondsSum ==
  ASSUME NEW fr, Bonded(fr), NEW k
  PROVE  MapThenSumSet(LAMBDA op : fr[op].value, Bonds(fr, k)) = Count(Amounts(fr), Bonds(fr, k))
<1> DEFINE S == Bonds(fr, k)
           f == Amounts(fr)
<1>1. MapThenSumSet(LAMBDA op : fr[op].value, S) = Freezes!Sum(fr, S)
  BY DEF Freezes!Sum, Freezes!MapThenSumSet, MapThenSumSet, Freezes!MapThenFoldSet,
         MapThenFoldSet
<1>2. \A x \in S : fr[x].value = f[x]
  BY DEF Bonds, Amounts
<1>3. Valued(f, S)
  BY BondsCount
<1> HIDE DEF S, f
<1>4. Freezes!Valued(f, S) /\ Freezes!Count(f, S) = Count(f, S)
  BY <1>3 DEF Count, Valued, Spends!Count, Spends!Valued, Spends!Units, Freezes!Count,
              Freezes!Valued, Freezes!Units, Spends!Cardinality, Freezes!Cardinality,
              Spends!IsFiniteSet, Freezes!IsFiniteSet
<1>5. Freezes!Sum(fr, S) = Freezes!Count(f, S)
  BY <1>2, <1>4, Freezes!SumCounts
<1> QED
  BY <1>1, <1>4, <1>5 DEF S, f

\* Freezing outpoints none of which is frozen.
LEMMA FreezeAllIs ==
  ASSUME NEW fr, Bonded(fr), NEW fs, Bonded(fs), DOMAIN fr \cap DOMAIN fs = {}
  PROVE  Bonded(InsertAll(fr, fs)) /\ FreezeAll(Reg(fr), fs) = Reg(InsertAll(fr, fs))
<1> DEFINE S == DOMAIN fs
           part(s) == InsertAll(fr, [op \in s |-> fs[op]])
<1>1. IsFiniteSet(S) /\ Freezes!IsFiniteSet(S)
  BY DEF Bonded, Freezes!IsFiniteSet, IsFiniteSet
<1>2. FreezeAll(Reg(fr), fs) = Freezes!RunSet(fs, 0, Reg(fr), S)
  BY DEF FreezeAll, FreezeOne, Freezes!RunSet, Freezes!FoldSet, FoldSet, Freezes!MapThenFoldSet,
         MapThenFoldSet
<1> HIDE DEF S
<1>3. PICK g : Freezes!IsSetLoop(fs, 0, Reg(fr), S, g)
               /\ Freezes!RunSet(fs, 0, Reg(fr), S) = g[S]
  BY <1>1, Freezes!SetLoopRuns
<1> DEFINE Good == {s \in SUBSET S : Bonded(part(s)) /\ g[s] = Reg(part(s))}
<1>4. {} \in Good
  <2>1. part({}) = fr
    BY DEF InsertAll, Bonded, IsUtxo
  <2>2. g[{}] = Reg(fr)
    BY <1>3 DEF Freezes!IsSetLoop
  <2> QED
    BY <2>1, <2>2
<1>5. ASSUME NEW s \in (SUBSET S) \ {{}}, \A x \in s : s \ {x} \in Good PROVE s \in Good
  <2>1. PICK x \in s : g[s] = freeze(g[s \ {x}], x, fs[x])
    BY <1>3 DEF Freezes!IsSetLoop, FreezeOne
  <2> DEFINE old == part(s \ {x})
  <2>2. Bonded(old) /\ g[s \ {x}] = Reg(old)
    BY <1>5
  <2>3. x \notin DOMAIN old
    BY DEF InsertAll, S
  <2>4. fs[x].value \in Nat \ {0} /\ fs[x].height \in Nat
    BY DEF Bonded, S
  <2>5. Plus(old, x, fs[x]) = part(s)
    BY DEF InsertAll, Plus
  <2> DEFINE f == fs[x]
  <2>7. f.value \in Nat \ {0} /\ f.height \in Nat
    BY <2>4
  <2> HIDE DEF old, part, f
  <2>6. Bonded(Plus(old, x, f)) /\ freeze(Reg(old), x, f) = Reg(Plus(old, x, f))
    BY <2>2, <2>3, <2>7, FreezeIs
  <2> QED
    BY <2>1, <2>2, <2>5, <2>6 DEF f
<1>6. S \in Good
  <2> HIDE DEF Good
  <2> QED
    BY <1>1, <1>4, <1>5, Freezes!SetUpTo
<1>7. part(S) = InsertAll(fr, fs)
  BY DEF InsertAll, S
<1> QED
  BY <1>2, <1>3, <1>6, <1>7

\* Releasing outpoints all of which are frozen.
LEMMA UnfreezeAllIs ==
  ASSUME NEW fr, Bonded(fr), NEW ops \in SUBSET DOMAIN fr
  PROVE  Bonded(RemoveAll(fr, ops)) /\ UnfreezeAll(Reg(fr), ops) = Reg(RemoveAll(fr, ops))
<1> DEFINE part(s) == RemoveAll(fr, s)
<1>1. IsFiniteSet(ops) /\ Unfreezes!IsFiniteSet(ops)
  <2>1. IsFiniteSet(ops)
    BY FS_Subset DEF Bonded
  <2> QED
    BY <2>1 DEF Unfreezes!IsFiniteSet, IsFiniteSet
<1>2. UnfreezeAll(Reg(fr), ops) = Unfreezes!RunSet(0, 0, Reg(fr), ops)
  BY DEF UnfreezeAll, UnfreezeOne, Unfreezes!RunSet, Unfreezes!FoldSet, FoldSet,
         Unfreezes!MapThenFoldSet, MapThenFoldSet
<1>3. PICK g : Unfreezes!IsSetLoop(0, 0, Reg(fr), ops, g)
               /\ Unfreezes!RunSet(0, 0, Reg(fr), ops) = g[ops]
  BY <1>1, Unfreezes!SetLoopRuns
<1> DEFINE Good == {s \in SUBSET ops : Bonded(part(s)) /\ g[s] = Reg(part(s))}
<1>4. {} \in Good
  <2>1. part({}) = fr
    BY DEF RemoveAll, Bonded, IsUtxo
  <2>2. g[{}] = Reg(fr)
    BY <1>3 DEF Unfreezes!IsSetLoop
  <2> QED
    BY <2>1, <2>2
<1>5. ASSUME NEW s \in (SUBSET ops) \ {{}}, \A x \in s : s \ {x} \in Good PROVE s \in Good
  <2>1. PICK x \in s : g[s] = unfreeze(g[s \ {x}], x)
    BY <1>3 DEF Unfreezes!IsSetLoop, UnfreezeOne
  <2> DEFINE old == part(s \ {x})
  <2>2. Bonded(old) /\ g[s \ {x}] = Reg(old)
    BY <1>5
  <2>3. x \in DOMAIN old
    BY DEF RemoveAll
  <2>5. RemoveAll(old, {x}) = part(s)
    BY DEF RemoveAll
  <2> HIDE DEF old, part
  <2>6. Bonded(RemoveAll(old, {x})) /\ unfreeze(Reg(old), x) = Reg(RemoveAll(old, {x}))
    BY <2>2, <2>3, UnfreezeIs
  <2> QED
    BY <2>1, <2>2, <2>5, <2>6
<1>6. ops \in Good
  <2> HIDE DEF Good
  <2> QED
    BY <1>1, <1>4, <1>5, Unfreezes!SetUpTo
<1> QED
  BY <1>2, <1>3, <1>6

\* The empty registry.
LEMMA NoStakeIs == NoStake = Reg(NoEntries) /\ Bonded(NoEntries)
<1>1. DOMAIN NoEntries = {} /\ IsUtxo(NoEntries)
  BY DEF NoEntries, IsUtxo
<1>2. Bonded(NoEntries)
  BY <1>1, FS_EmptySet DEF Bonded
<1>3. NoStake.frozen = NoEntries /\ Reg(NoEntries).frozen = NoEntries
      /\ NoStake.locked = [k \in {} |-> 0]
  BY DEF NoStake, NoEntries, Reg
<1>4. Reg(NoEntries).locked = [k \in {} |-> 0]
  BY <1>1 DEF Reg
<1> QED
  BY <1>2, <1>3, <1>4 DEF NoStake, Reg

\* Two registries that agree on the bonds they share.
Agree(a, b) == \A op \in DOMAIN a \cap DOMAIN b : a[op] = b[op]

(***************************************************************************)
(* The recorded difference of two registries applies to the first, without *)
(* the panic of apply_stake_delta, and gives the second, totals included,  *)
(* if no outpoint is bonded anew (diff_stake, apply_stake_delta).          *)
(***************************************************************************)
THEOREM ApplyStakeDiff ==
  ASSUME NEW a, Bonded(a), NEW b, Bonded(b), Agree(a, b), UnbondMaturity \in Nat
  PROVE  LET d == diff_stake(Reg(a), Reg(b))
         IN  /\ stake_delta_applies(d, Reg(a))
             /\ apply_stake_delta(d, Reg(a)) = Reg(b)
<1> DEFINE new == RemoveAll(b, DOMAIN a)
           gone == RemoveAll(a, DOMAIN b)
           both == InsertAll(a, new)
           d == [frozen |-> new, unfrozen |-> gone]
<1>1. diff_stake(Reg(a), Reg(b)) = d
  BY DEF diff_stake, Reg
<1>2. /\ DOMAIN new = DOMAIN b \ DOMAIN a /\ \A op \in DOMAIN new : new[op] = b[op]
      /\ DOMAIN gone = DOMAIN a \ DOMAIN b /\ \A op \in DOMAIN gone : gone[op] = a[op]
      /\ IsUtxo(new)
  BY DEF RemoveAll, IsUtxo
<1>3. /\ DOMAIN both = DOMAIN a \cup DOMAIN b
      /\ \A op \in DOMAIN both : both[op] = IF op \in DOMAIN new THEN new[op] ELSE a[op]
  BY <1>2 DEF InsertAll
<1> HIDE DEF new, gone, both
<1>4. Bonded(new)
  <2>1. IsFiniteSet(DOMAIN new)
    BY <1>2, FS_Subset DEF Bonded
  <2> QED
    BY <1>2, <2>1 DEF Bonded
<1>5. Bonded(both) /\ FreezeAll(Reg(a), new) = Reg(both)
  BY <1>2, <1>4, FreezeAllIs DEF both
<1>6. DOMAIN gone \subseteq DOMAIN both
  BY <1>2, <1>3
<1>7. /\ Bonded(RemoveAll(both, DOMAIN gone))
      /\ UnfreezeAll(Reg(both), DOMAIN gone) = Reg(RemoveAll(both, DOMAIN gone))
  BY <1>5, <1>6, UnfreezeAllIs
<1>8. RemoveAll(both, DOMAIN gone) = b
  <2> DEFINE r == RemoveAll(both, DOMAIN gone)
  <2>1. DOMAIN r = DOMAIN b /\ r = [op \in DOMAIN b |-> r[op]]
    BY <1>2, <1>3 DEF RemoveAll
  <2>2. \A op \in DOMAIN b : r[op] = b[op]
    BY <1>2, <1>3 DEF RemoveAll, Agree
  <2>3. b = [op \in DOMAIN b |-> b[op]]
    BY DEF Bonded, IsUtxo
  <2> HIDE DEF r
  <2> QED
    BY <2>1, <2>2, <2>3 DEF r
<1>9. apply_stake_delta(d, Reg(a)) = Reg(b)
  BY <1>5, <1>7, <1>8 DEF apply_stake_delta
<1>10. stake_delta_applies(d, Reg(a))
  <2>1. ASSUME NEW op \in DOMAIN gone
        PROVE  check_unbond(Reg(both), op, gone[op].height + UnbondMaturity)
    <3>1. op \in DOMAIN both /\ both[op] = gone[op]
      BY <1>2, <1>3
    <3>2. Reg(both).frozen = both
      BY DEF Reg
    <3>3. gone[op].height + UnbondMaturity >= both[op].height + UnbondMaturity
      <4> DEFINE h == both[op].height
      <4>1. h \in Nat
        BY <1>5, <3>1 DEF Bonded
      <4> HIDE DEF h
      <4>2. h + UnbondMaturity >= h + UnbondMaturity
        BY <4>1
      <4> QED
        BY <3>1, <4>2 DEF h
    <3> QED
      BY <3>1, <3>2, <3>3 DEF check_unbond, is_frozen
  <2>2. d.frozen = new /\ d.unfrozen = gone
    OBVIOUS
  <2> HIDE DEF d
  <2> QED
    BY <1>5, <2>1, <2>2 DEF stake_delta_applies
<1> QED
  BY <1>1, <1>9, <1>10

(***************************************************************************)
(* Folding the registry delta of a block with no predecessor in the undo   *)
(* log into a child's gives the child's from nothing (compose_stake_delta).*)
(***************************************************************************)
THEOREM ComposeStakeDiff ==
  ASSUME NEW a, Bonded(a), NEW b, Bonded(b), Agree(a, b)
  PROVE  compose_stake_delta(diff_stake(NoStake, Reg(a)), diff_stake(Reg(a), Reg(b)))
           = diff_stake(NoStake, Reg(b))
<1> DEFINE x == diff_stake(NoStake, Reg(a))
           y == diff_stake(Reg(a), Reg(b))
           z == diff_stake(NoStake, Reg(b))
           c == compose_stake_delta(x, y)
<1>1. /\ IsUtxo(a) /\ IsUtxo(b)
      /\ DOMAIN NoStake.frozen = {} /\ Reg(a).frozen = a /\ Reg(b).frozen = b
  BY DEF Bonded, NoStake, Reg
<1>2. /\ x.frozen = a /\ DOMAIN x.unfrozen = {} /\ z.frozen = b /\ DOMAIN z.unfrozen = {}
      /\ x.unfrozen = [op \in {} |-> 0] /\ z.unfrozen = [op \in {} |-> 0]
  BY <1>1 DEF diff_stake, RemoveAll, IsUtxo
<1>3. /\ DOMAIN y.frozen = DOMAIN b \ DOMAIN a /\ DOMAIN y.unfrozen = DOMAIN a \ DOMAIN b
      /\ \A op \in DOMAIN y.frozen : y.frozen[op] = b[op]
  BY <1>1 DEF diff_stake, RemoveAll
<1>4. /\ c = [frozen |-> c.frozen, unfrozen |-> c.unfrozen]
      /\ z = [frozen |-> z.frozen, unfrozen |-> z.unfrozen]
  BY DEF compose_stake_delta, diff_stake
<1>5. /\ c.frozen = InsertAll(RemoveAll(x.frozen, DOMAIN y.unfrozen),
                              RemoveAll(y.frozen, DOMAIN x.unfrozen))
      /\ c.unfrozen = InsertAll(RemoveAll(x.unfrozen, DOMAIN y.frozen),
                                RemoveAll(y.unfrozen, DOMAIN x.frozen))
  BY DEF compose_stake_delta
<1> HIDE DEF x, y, z, c
<1>6. c.frozen = b
  <2>1. c.frozen = [op \in DOMAIN b |-> c.frozen[op]]
    BY <1>2, <1>3, <1>5 DEF InsertAll, RemoveAll
  <2>2. \A op \in DOMAIN b : c.frozen[op] = b[op]
    BY <1>2, <1>3, <1>5 DEF InsertAll, RemoveAll, Agree
  <2>3. b = [op \in DOMAIN b |-> b[op]]
    BY <1>1 DEF IsUtxo
  <2> QED
    BY <2>1, <2>2, <2>3
<1>7. c.unfrozen = [op \in {} |-> 0]
  <2>1. DOMAIN y.unfrozen \subseteq DOMAIN x.frozen
    BY <1>2, <1>3
  <2> QED
    BY <1>2, <1>5, <2>1 DEF InsertAll, RemoveAll
<1> QED
  BY <1>2, <1>4, <1>6, <1>7 DEF c, x, y, z

-----------------------------------------------------------------------------
(***************************************************************************)
(* What has been applied.  An outpoint does not come back: a view knows    *)
(* the transactions T that made it, none of whose inputs it holds, and a   *)
(* regular transaction that applies once more would need them.             *)
(***************************************************************************)
IdsOf(T) == {tx.id : tx \in T}

Tracks(T, utxo) ==
  /\ \A op \in DOMAIN utxo : op[1] \in IdsOf(T)
  /\ \A tx \in T : \A op \in Spent(tx) : op[1] \in IdsOf(T) /\ op \notin DOMAIN utxo

\* A registry whose bonds are unspent, and worth what they are worth there.
BackedBy(stake, utxo) ==
  /\ Bonded(stake.frozen) /\ stake = Reg(stake.frozen)
  /\ \A op \in DOMAIN stake.frozen :
       op \in DOMAIN utxo /\ utxo[op].output.value = stake.frozen[op].value

\* A view made by the transactions of T.
Made(T, utxo, stake) == IsView(utxo) /\ Tracks(T, utxo) /\ BackedBy(stake, utxo)

\* An entry of n is one of m, or was made by none of T.
Newer(T, m, n) ==
  \A op \in DOMAIN n : (op \in DOMAIN m /\ n[op] = m[op]) \/ op[1] \notin IdsOf(T)

\* The view of T and the one that R, of which T are the first, make of it.
Follows(T, utxo, stake, R, utxo2, stake2) ==
  /\ T \subseteq R
  /\ Newer(T, utxo, utxo2) /\ Newer(T, stake.frozen, stake2.frozen)

\* An id stands for one transaction.
Distinct(U) == \A x, y \in U : x.id = y.id => x = y

LEMMA FollowsTrans ==
  ASSUME NEW T, NEW u, NEW s, NEW R, NEW u2, NEW s2, NEW Q, NEW u3, NEW s3,
         Follows(T, u, s, R, u2, s2), Follows(R, u2, s2, Q, u3, s3)
  PROVE  Follows(T, u, s, Q, u3, s3)
<1>1. IdsOf(T) \subseteq IdsOf(R)
  BY DEF Follows, IdsOf
<1>2. Newer(T, u, u3)
  BY <1>1 DEF Follows, Newer
<1>3. Newer(T, s.frozen, s3.frozen)
  BY <1>1 DEF Follows, Newer
<1> QED
  BY <1>2, <1>3 DEF Follows

LEMMA FollowsSelf ==
  ASSUME NEW T, NEW u, NEW s
  PROVE  Follows(T, u, s, T, u, s)
BY DEF Follows, Newer

\* A transaction that applies has not been applied, and spends what there is.
LEMMA AppliesOnce ==
  ASSUME NEW T, NEW utxo, Tracks(T, utxo), NEW U, Distinct(U), T \subseteq U, NEW tx \in U,
         IsTx(tx), NEW stake, NEW h, NEW score, regular_valid(utxo, stake, tx, h, score)
  PROVE  /\ tx.id \notin IdsOf(T) /\ Spent(tx) \subseteq DOMAIN utxo
         /\ Spent(tx) # {} /\ tx.ins # <<>>
<1>1. Spent(tx) \subseteq DOMAIN utxo
  BY DEF regular_valid, InputValid, Spent
<1>2. tx.ins # <<>> /\ DOMAIN tx.ins # {}
  BY TxIs DEF regular_valid
<1>3. PICK i \in DOMAIN tx.ins : TRUE
  BY <1>2
<1>4. tx.ins[i].op \in Spent(tx)
  BY DEF Spent
<1>5. ASSUME NEW y \in T, y.id = tx.id PROVE FALSE
  <2>1. y = tx
    BY <1>5 DEF Distinct
  <2> QED
    BY <1>1, <1>4, <2>1 DEF Tracks
<1> QED
  BY <1>1, <1>2, <1>4, <1>5 DEF IdsOf

\* One transaction more.
With(T, tx) == T \cup {tx}

AfterTx(utxo, tx, h, c) == InsertAll(RemoveAll(utxo, Spent(tx)), Created(tx, h, c))

\* The UTXO set after a transaction that spends what there is.
LEMMA TracksMore ==
  ASSUME NEW T, NEW utxo, Tracks(T, utxo), NEW tx, tx.id \notin IdsOf(T),
         Spent(tx) \subseteq DOMAIN utxo, NEW h, NEW c
  PROVE  /\ Tracks(With(T, tx), AfterTx(utxo, tx, h, c))
         /\ Newer(T, utxo, AfterTx(utxo, tx, h, c))
         /\ \A op \in DOMAIN utxo \ Spent(tx) :
              /\ op \in DOMAIN AfterTx(utxo, tx, h, c)
              /\ AfterTx(utxo, tx, h, c)[op] = utxo[op]
         /\ \A i \in DOMAIN tx.outs :
              /\ <<tx.id, i>> \in DOMAIN AfterTx(utxo, tx, h, c)
              /\ AfterTx(utxo, tx, h, c)[<<tx.id, i>>].output = tx.outs[i]
<1> DEFINE new == Created(tx, h, c)
           after == InsertAll(RemoveAll(utxo, Spent(tx)), new)
           R == T \cup {tx}
<1>1. /\ \A op \in DOMAIN new : op[1] = tx.id
      /\ \A i \in DOMAIN tx.outs : <<tx.id, i>> \in DOMAIN new
                                   /\ new[<<tx.id, i>>].output = tx.outs[i]
  BY DEF Created
<1>2. /\ DOMAIN after = (DOMAIN utxo \ Spent(tx)) \cup DOMAIN new
      /\ \A op \in DOMAIN after : after[op] = IF op \in DOMAIN new THEN new[op] ELSE utxo[op]
  BY DEF InsertAll, RemoveAll
<1> HIDE DEF new, after
<1>3. /\ \A op \in DOMAIN utxo : op[1] \in IdsOf(T)
      /\ \A y \in T : \A op \in Spent(y) : op[1] \in IdsOf(T) /\ op \notin DOMAIN utxo
  BY DEF Tracks
<1>4. IdsOf(R) = IdsOf(T) \cup {tx.id}
  BY DEF IdsOf
<1>5. \A op \in DOMAIN new : op[1] \notin IdsOf(T)
  BY <1>1
<1>6. Tracks(R, after)
  <2>1. \A op \in DOMAIN after : op[1] \in IdsOf(R)
    BY <1>1, <1>2, <1>3, <1>4
  <2>2. ASSUME NEW y \in R, NEW op \in Spent(y)
        PROVE  op[1] \in IdsOf(R) /\ op \notin DOMAIN after
    <3>1. CASE y \in T
      BY <1>2, <1>3, <1>4, <1>5, <3>1
    <3>2. CASE y = tx
      BY <1>2, <1>3, <1>4, <1>5, <3>2
    <3> QED
      BY <3>1, <3>2
  <2> HIDE DEF R
  <2> QED
    BY <2>1, <2>2 DEF Tracks
<1>7. Newer(T, utxo, after)
  BY <1>2, <1>5 DEF Newer
<1>8. \A op \in DOMAIN utxo \ Spent(tx) : op \in DOMAIN after /\ after[op] = utxo[op]
  BY <1>2, <1>3, <1>5
<1>9. \A i \in DOMAIN tx.outs : /\ <<tx.id, i>> \in DOMAIN after
                                /\ after[<<tx.id, i>>].output = tx.outs[i]
  BY <1>1, <1>2
<1> QED
  BY <1>6, <1>7, <1>8, <1>9 DEF after, new, AfterTx, With

-----------------------------------------------------------------------------
(***************************************************************************)
(* One transaction, and its registry.                                      *)
(***************************************************************************)
\* A valid transaction makes the view of one transaction more.
LEMMA RegularMakes ==
  ASSUME NEW T, NEW utxo, NEW stake, Made(T, utxo, stake), NEW U, Distinct(U), T \subseteq U,
         NEW tx \in U, IsTx(tx), NEW h \in Nat, NEW score,
         regular_valid(utxo, stake, tx, h, score)
  PROVE  /\ Made(With(T, tx), AfterTx(utxo, tx, h, FALSE), StakeAfter(stake, tx, h))
         /\ Follows(T, utxo, stake, With(T, tx), AfterTx(utxo, tx, h, FALSE),
                    StakeAfter(stake, tx, h))
<1> DEFINE after == AfterTx(utxo, tx, h, FALSE)
           bonds == StakeAfter(stake, tx, h)
           fr == stake.frozen
           S == Spent(tx)
           R == With(T, tx)
<1>1. IsView(utxo) /\ Tracks(T, utxo) /\ BackedBy(stake, utxo)
  BY DEF Made
<1>2. tx.id \notin IdsOf(T) /\ S \subseteq DOMAIN utxo
  BY <1>1, AppliesOnce
<1>3. /\ Tracks(R, after) /\ Newer(T, utxo, after)
      /\ \A op \in DOMAIN utxo \ S : op \in DOMAIN after /\ after[op] = utxo[op]
      /\ \A i \in DOMAIN tx.outs : /\ <<tx.id, i>> \in DOMAIN after
                                   /\ after[<<tx.id, i>>].output = tx.outs[i]
  <2> DEFINE made == FALSE
             there == AfterTx(utxo, tx, h, made)
  <2> HIDE DEF made
  <2>1. Tracks(R, there) /\ Newer(T, utxo, there)
    BY <1>1, <1>2, TracksMore
  <2>2. \A op \in DOMAIN utxo \ S : op \in DOMAIN there /\ there[op] = utxo[op]
    BY <1>1, <1>2, TracksMore
  <2>3. \A i \in DOMAIN tx.outs : /\ <<tx.id, i>> \in DOMAIN there
                                  /\ there[<<tx.id, i>>].output = tx.outs[i]
    BY <1>1, <1>2, TracksMore
  <2> QED
    BY <2>1, <2>2, <2>3 DEF made
<1>4. IsView(after)
  BY <1>1, RegularBalances DEF AfterTx
<1>5. /\ Bonded(fr) /\ stake = Reg(fr)
      /\ \A op \in DOMAIN fr : op \in DOMAIN utxo /\ utxo[op].output.value = fr[op].value
  BY <1>1 DEF BackedBy
<1>6. /\ (tx.role = "unbond" => \A op \in S : op \in DOMAIN fr)
      /\ (tx.role # "unbond" => \A op \in S : op \notin DOMAIN fr)
      /\ (tx.role = "bond" => Len(tx.outs) = 1)
      /\ \A i \in DOMAIN tx.outs : tx.outs[i].value \in Nat \ {0}
  BY DEF regular_valid, StakeRules, check_unbond, is_frozen, IsTx
<1> HIDE DEF after, S
<1>7. BackedBy(bonds, after) /\ Newer(T, fr, bonds.frozen)
  <2>1. CASE tx.role = "bond"
    <3> DEFINE op == <<tx.id, 1>>
               f == [key |-> tx.key, height |-> h, value |-> tx.outs[1].value]
               new == Plus(fr, op, f)
    <3>1. 1 \in DOMAIN tx.outs
      <4>1. DOMAIN tx.outs = 1 .. 1
        BY <1>6, <2>1, TxIs
      <4> QED
        BY <4>1
    <3>2. op \notin DOMAIN fr /\ op[1] \notin IdsOf(T)
      <4>1. op[1] = tx.id
        OBVIOUS
      <4> QED
        BY <1>1, <1>2, <1>5, <4>1 DEF Tracks
    <3>3. f.value \in Nat \ {0} /\ f.height \in Nat
      BY <1>6, <3>1
    <3>4. bonds = freeze(Reg(fr), op, f)
      BY <1>5, <2>1 DEF StakeAfter
    <3>5. op \in DOMAIN after /\ after[op].output.value = f.value
      BY <1>3, <3>1
    <3> HIDE DEF op, f, new, bonds
    <3>6. Bonded(new) /\ bonds = Reg(new)
      BY <1>5, <3>2, <3>3, <3>4, FreezeIs DEF new
    <3>7. /\ bonds.frozen = new /\ DOMAIN new = DOMAIN fr \cup {op} /\ new[op] = f
          /\ \A o \in DOMAIN fr : new[o] = fr[o]
      BY <3>2, <3>6 DEF Reg, new, Plus, InsertAll
    <3>8. ASSUME NEW o \in DOMAIN new
          PROVE  o \in DOMAIN after /\ after[o].output.value = new[o].value
      <4>1. CASE o = op
        BY <3>5, <3>7, <4>1
      <4>2. CASE o # op
        <5>1. o \in DOMAIN fr /\ o \notin S
          BY <1>6, <2>1, <3>7, <4>2
        <5> QED
          BY <1>3, <1>5, <3>7, <5>1
      <4> QED
        BY <4>1, <4>2
    <3>9. BackedBy(bonds, after)
      BY <3>6, <3>7, <3>8 DEF BackedBy
    <3>10. Newer(T, fr, new)
      BY <3>2, <3>7 DEF Newer
    <3> QED
      BY <3>7, <3>9, <3>10
  <2>2. CASE tx.role = "unbond"
    <3> DEFINE new == RemoveAll(fr, S)
    <3>1. S \in SUBSET DOMAIN fr
      BY <1>6, <2>2
    <3>2. Bonded(new) /\ bonds = Reg(new)
      <4>1. bonds = UnfreezeAll(Reg(fr), S)
        BY <1>5, <2>2 DEF StakeAfter, S
      <4> HIDE DEF bonds
      <4> QED
        BY <1>5, <3>1, <4>1, UnfreezeAllIs
    <3> HIDE DEF bonds
    <3>3. /\ bonds.frozen = new /\ DOMAIN new = DOMAIN fr \ S
          /\ \A o \in DOMAIN new : new[o] = fr[o]
      BY <3>2 DEF Reg, RemoveAll
    <3> HIDE DEF new
    <3>4. BackedBy(bonds, after)
      BY <1>3, <1>5, <3>2, <3>3 DEF BackedBy
    <3>5. Newer(T, fr, new)
      BY <3>3 DEF Newer
    <3> QED
      BY <3>3, <3>4, <3>5
  <2>3. CASE tx.role \notin {"bond", "unbond"}
    <3>1. bonds = stake
      BY <2>3 DEF StakeAfter
    <3> HIDE DEF bonds
    <3>2. BackedBy(stake, after)
      BY <1>3, <1>5, <1>6, <2>3 DEF BackedBy
    <3>3. Newer(T, fr, fr)
      BY DEF Newer
    <3> QED
      BY <3>1, <3>2, <3>3
  <2> QED
    BY <2>1, <2>2, <2>3
<1> HIDE DEF bonds
<1>8. Made(R, after, bonds)
  BY <1>3, <1>4, <1>7 DEF Made
<1>9. Follows(T, utxo, stake, R, after, bonds)
  BY <1>3, <1>7 DEF Follows, With
<1> QED
  BY <1>8, <1>9 DEF after, bonds

\* A coinbase that is new makes the view of one transaction more.
LEMMA CoinbaseMakes ==
  ASSUME NEW T, NEW utxo, NEW stake, Made(T, utxo, stake), NEW c, IsTx(c), is_coinbase(c),
         c.id \notin IdsOf(T), NEW h
  PROVE  /\ Made(With(T, c), MintOne(h, 0, utxo, c), stake)
         /\ Follows(T, utxo, stake, With(T, c), MintOne(h, 0, utxo, c), stake)
<1> DEFINE made == TRUE
           new == Created(c, h, made)
           after == AfterTx(utxo, c, h, made)
           R == With(T, c)
<1> HIDE DEF made
<1>1. IsView(utxo) /\ Tracks(T, utxo) /\ BackedBy(stake, utxo)
  BY DEF Made
<1>2. Spent(c) = {}
  BY DEF is_coinbase, Spent
<1>3. MintOne(h, 0, utxo, c) = after
  <2>1. RemoveAll(utxo, {}) = utxo
    BY <1>1 DEF IsView, IsUtxo, RemoveAll
  <2> QED
    BY <1>2, <2>1 DEF MintOne, AfterTx, made
<1>4. after = InsertAll(utxo, new)
  BY <1>3 DEF MintOne, made
<1>5. Tracks(R, after) /\ Newer(T, utxo, after)
  BY <1>1, <1>2, TracksMore
<1>6. \A op \in DOMAIN utxo \ Spent(c) : op \in DOMAIN after /\ after[op] = utxo[op]
  BY <1>1, <1>2, TracksMore
<1>7. IsView(after)
  <2>1. DOMAIN utxo \cap DOMAIN new = {}
    BY <1>1 DEF Tracks, Created
  <2>2. IsView(new)
    BY CreatedTotal
  <2> HIDE DEF new, after
  <2> QED
    BY <1>1, <1>4, <2>1, <2>2, TotalInserts
<1> HIDE DEF after, new
<1>8. BackedBy(stake, after)
  BY <1>1, <1>2, <1>6 DEF BackedBy
<1>9. Newer(T, stake.frozen, stake.frozen) /\ T \subseteq R
  BY DEF Newer, With
<1> QED
  BY <1>3, <1>5, <1>7, <1>8, <1>9 DEF Made, Follows

-----------------------------------------------------------------------------
(***************************************************************************)
(* One block, and its registry.                                            *)
(***************************************************************************)
Plain(U) == {x \in U : ~is_coinbase(x)}

\* The regular ones of U, and those of Y.
PlainAnd(U, Y) == Plain(U) \cup Y

\* Transactions of X may be applied to the view of T to make this one.
Reaches(T, utxo, stake, X, utxo2, stake2) ==
  \E R : R \subseteq T \cup X /\ Made(R, utxo2, stake2)
         /\ Follows(T, utxo, stake, R, utxo2, stake2)

\* The loop of apply_regulars.
Stepped(T, utxo, stake, X, acc) == acc.ok => Reaches(T, utxo, stake, X, acc.utxo, acc.stake)

LEMMA RegularSteps ==
  ASSUME NEW T, NEW utxo, NEW stake, NEW U, Distinct(U), T \subseteq U,
         NEW acc, RunsFrom(utxo, acc), Stepped(T, utxo, stake, Plain(U), acc),
         NEW tx \in U, IsTx(tx), NEW h \in Nat, NEW score
  PROVE  Stepped(T, utxo, stake, Plain(U), apply_regular(acc, tx, h, score))
<1> DEFINE r == apply_regular(acc, tx, h, score)
           valid == regular_valid(acc.utxo, acc.stake, tx, h, score)
<1>1. CASE ~acc.ok \/ ~valid
  <2>1. r = [acc EXCEPT !.ok = FALSE]
    BY <1>1 DEF apply_regular
  <2>2. acc = [ok |-> acc.ok, utxo |-> acc.utxo, stake |-> acc.stake, fees |-> acc.fees]
    BY DEF RunsFrom
  <2>3. r = [ok |-> FALSE, utxo |-> acc.utxo, stake |-> acc.stake, fees |-> acc.fees]
    BY <2>1, <2>2
  <2>4. r.ok = FALSE
    BY <2>3
  <2> HIDE DEF r
  <2>5. Stepped(T, utxo, stake, Plain(U), r)
    BY <2>4 DEF Stepped
  <2> QED
    BY <2>5 DEF r
<1>2. CASE acc.ok /\ valid
  <2> DEFINE u == acc.utxo
             s == acc.stake
             u2 == AfterTx(u, tx, h, FALSE)
             s2 == StakeAfter(s, tx, h)
  <2>1. PICK R : R \subseteq T \cup Plain(U) /\ Made(R, u, s) /\ Follows(T, utxo, stake, R, u, s)
    BY <1>2 DEF Stepped, Reaches
  <2>2. R \subseteq U
    BY <2>1 DEF Plain
  <2> DEFINE Q == With(R, tx)
  <2>3. r = [ok |-> TRUE, utxo |-> u2, stake |-> s2,
             fees |-> acc.fees + AssetIn(u, tx, Native) - AssetOut(tx, Native)]
    BY <1>2 DEF apply_regular, AfterTx
  <2>4. r.utxo = u2 /\ r.stake = s2
    BY <2>3
  <2>5. tx \in Plain(U)
    BY <1>2 DEF regular_valid, Plain, is_coinbase
  <2> HIDE DEF u, s, u2, s2, r
  <2>6. Made(Q, u2, s2)
    BY <1>2, <2>1, <2>2, RegularMakes DEF u, s, u2, s2
  <2>7. Follows(R, u, s, Q, u2, s2)
    BY <1>2, <2>1, <2>2, RegularMakes DEF u, s, u2, s2
  <2> HIDE DEF Q
  <2>8. Follows(T, utxo, stake, Q, u2, s2)
    BY <2>1, <2>7, FollowsTrans
  <2>9. Q \subseteq T \cup Plain(U)
    BY <2>1, <2>5 DEF Q, With
  <2>10. Reaches(T, utxo, stake, Plain(U), u2, s2)
    BY <2>6, <2>8, <2>9 DEF Reaches
  <2>11. Stepped(T, utxo, stake, Plain(U), r)
    BY <2>4, <2>10 DEF Stepped
  <2> QED
    BY <2>11 DEF r
<1> QED
  BY <1>1, <1>2

\* The regular transactions of a block are those after its coinbase.
LEMMA RestIs ==
  ASSUME NEW body, IsTxList(body)
  PROVE  LET cb == {body[i] : i \in {j \in DOMAIN body : j = 1 /\ is_coinbase(body[j])}}
             rest == IF cb = {} THEN body ELSE Tail(body)
         IN  IsTxList(rest) /\ ToSet(rest) \subseteq ToSet(body)
<1> DEFINE cb == {body[i] : i \in {j \in DOMAIN body : j = 1 /\ is_coinbase(body[j])}}
           rest == IF cb = {} THEN body ELSE Tail(body)
<1>1. CASE cb = {}
  BY <1>1
<1>2. CASE cb # {}
  <2> DEFINE T == Tail(body)
  <2>1. 1 \in DOMAIN body
    BY <1>2
  <2>2. body # <<>>
    BY <2>1
  <2>3. /\ Len(T) = Len(body) - 1 /\ T \in Seq(ToSet(body))
        /\ DOMAIN T = 1 .. Len(T)
        /\ \A i \in 1 .. Len(T) : T[i] = body[i + 1]
    BY <2>2 DEF IsTxList
  <2>4. ToSet(T) \subseteq ToSet(body)
    BY <2>3 DEF ToSet
  <2>5. T \in Seq(ToSet(T))
    <3> HIDE DEF T
    <3>1. \A i \in 1 .. Len(T) : T[i] \in ToSet(T)
      BY <2>3 DEF ToSet
    <3>2. T = [i \in 1 .. Len(T) |-> T[i]] /\ Len(T) \in Nat
      BY <2>3
    <3> QED
      BY <3>1, <3>2
  <2>6. IsTxList(T)
    BY <2>4, <2>5 DEF IsTxList
  <2> HIDE DEF cb
  <2> QED
    BY <1>2, <2>4, <2>6 DEF cb
<1> QED
  BY <1>1, <1>2

LEMMA RegularsMake ==
  ASSUME NEW T, NEW utxo, NEW stake, Made(T, utxo, stake), NEW U, Distinct(U), T \subseteq U,
         NEW q, IsTxList(q), ToSet(q) \subseteq U, NEW h \in Nat, NEW score
  PROVE  LET run == apply_regulars(utxo, stake, q, h, score)
         IN  RunsFrom(utxo, run) /\ Stepped(T, utxo, stake, Plain(U), run)
<1> DEFINE base == [ok |-> TRUE, utxo |-> utxo, stake |-> stake, fees |-> 0]
           n == Len(q)
<1>1. n \in Nat /\ DOMAIN q = 1 .. n /\ \A i \in 1 .. n : IsTx(q[i]) /\ q[i] \in U
  BY DEF IsTxList, ToSet
<1>2. RunsFrom(utxo, base) /\ IsView(utxo)
  <2>1. IsView(utxo) /\ Total(utxo, Native) \in Nat
    BY TotalIs DEF Made
  <2>2. Total(base.utxo, Native) + base.fees = Total(utxo, Native)
    BY <2>1
  <2> QED
    BY <2>1, <2>2 DEF RunsFrom
<1>3. Stepped(T, utxo, stake, Plain(U), base)
  <2>1. T \subseteq T \cup Plain(U) /\ Follows(T, utxo, stake, T, utxo, stake)
    BY FollowsSelf
  <2>2. Reaches(T, utxo, stake, Plain(U), utxo, stake)
    BY <2>1 DEF Reaches
  <2>3. base.utxo = utxo /\ base.stake = stake
    OBVIOUS
  <2> HIDE DEF base
  <2> QED
    BY <2>2, <2>3 DEF Stepped
<1> HIDE DEF base, n
<1>4. PICK f : Spends!IsLoop(h, score, base, n, q, f) /\ Spends!Run(h, score, base, q) = f[n]
  BY <1>1, Spends!LoopRuns
<1>5. f[0] = base /\ \A i \in 1 .. n : f[i] = apply_regular(f[i - 1], q[i], h, score)
  <2>1. 0 \in 0 .. n /\ \A i \in 1 .. n : i \in 0 .. n /\ i # 0
    BY <1>1
  <2> QED
    BY <1>4, <2>1 DEF Spends!IsLoop
<1> DEFINE Good == {i \in 0 .. n : RunsFrom(utxo, f[i]) /\ Stepped(T, utxo, stake, Plain(U), f[i])}
<1>6. 0 \in Good
  BY <1>1, <1>2, <1>3, <1>5
<1>7. ASSUME NEW i \in 1 .. n, i - 1 \in Good PROVE i \in Good
  <2> DEFINE acc == f[i - 1]
             tx == q[i]
  <2>1. RunsFrom(utxo, acc) /\ Stepped(T, utxo, stake, Plain(U), acc)
    BY <1>7
  <2>2. IsTx(tx) /\ tx \in U /\ i \in 0 .. n
    BY <1>1
  <2>3. f[i] = apply_regular(acc, tx, h, score)
    BY <1>5
  <2> HIDE DEF acc, tx
  <2>4. RunsFrom(utxo, apply_regular(acc, tx, h, score))
    BY <1>2, <2>1, <2>2, RegularRuns
  <2>5. Stepped(T, utxo, stake, Plain(U), apply_regular(acc, tx, h, score))
    BY <2>1, <2>2, RegularSteps
  <2> QED
    BY <2>2, <2>3, <2>4, <2>5
<1>8. n \in Good
  <2> HIDE DEF Good
  <2>1. \A i \in 0 .. n : i \in Good
    BY <1>1, <1>6, <1>7, Spends!NatUpTo
  <2> QED
    BY <1>1, <2>1
<1> QED
  BY <1>4, <1>8, RegularsAre DEF base

\* The coinbase of a block is the last to be applied.
LEMMA SettleMakes ==
  ASSUME NEW T, NEW utxo, NEW stake, NEW U, Distinct(U), T \subseteq U,
         NEW run, Stepped(T, utxo, stake, Plain(U), run),
         NEW c, NEW cb, (cb = {} \/ cb = {c}), (cb = {c} => IsTx(c) /\ is_coinbase(c) /\ c \in U \ T),
         NEW subsidy, NEW minted, NEW h, NEW score
  PROVE  LET r == Settle(run, cb, utxo, subsidy, minted, h, score)
         IN  /\ r.ok => Reaches(T, utxo, stake, PlainAnd(U, cb), r.utxo, r.stake)
             /\ ~r.ok => r.utxo = utxo
<1> DEFINE fine == /\ run.ok
                   /\ \A x \in cb : coinbase_valid(run.utxo, x, subsidy + fee_share(run.fees),
                                                   minted, score)
           after == WithCoinbase(run.utxo, h, cb)
           X == PlainAnd(U, cb)
           r == Settle(run, cb, utxo, subsidy, minted, h, score)
<1>1. CASE ~fine
  <2>1. r = [ok |-> FALSE, utxo |-> utxo, stake |-> run.stake, fees |-> 0, minted |-> 0]
    BY <1>1 DEF Settle
  <2>2. r.ok = FALSE /\ r.utxo = utxo
    BY <2>1
  <2> HIDE DEF r
  <2> QED
    BY <2>2 DEF r
<1>2. CASE fine
  <2>1. r = [ok |-> TRUE, utxo |-> after, stake |-> run.stake, fees |-> run.fees,
             minted |-> Minted(cb)]
    BY <1>2 DEF Settle, Minted, WithCoinbase
  <2>2. r.ok = TRUE /\ r.utxo = after /\ r.stake = run.stake
    BY <2>1
  <2> DEFINE u == run.utxo
             s == run.stake
  <2>3. PICK R : R \subseteq T \cup Plain(U) /\ Made(R, u, s) /\ Follows(T, utxo, stake, R, u, s)
    BY <1>2 DEF Stepped, Reaches
  <2> HIDE DEF r, u, s
  <2>4. Reaches(T, utxo, stake, X, after, s)
    <3>1. CASE cb = {}
      <4>1. after = u /\ R \subseteq T \cup X
        BY <2>3, <3>1, CoinbaseIs DEF u, PlainAnd
      <4> HIDE DEF after, X
      <4> QED
        BY <2>3, <4>1 DEF Reaches
    <3>2. CASE cb = {c} /\ IsTx(c) /\ is_coinbase(c) /\ c \in U \ T
      <4> DEFINE u2 == MintOne(h, 0, u, c)
                 Q == With(R, c)
      <4>1. after = u2
        BY <3>2, CoinbaseIs DEF u
      <4>2. c.id \notin IdsOf(R)
        <5> SUFFICES ASSUME NEW x \in R, x.id = c.id PROVE FALSE
          BY DEF IdsOf
        <5>1. x \in U /\ c \in U
          BY <2>3, <3>2 DEF Plain
        <5>2. x = c
          BY <5>1 DEF Distinct
        <5> QED
          BY <2>3, <3>2, <5>2 DEF Plain
      <4>3. Made(Q, u2, s) /\ Follows(R, u, s, Q, u2, s)
        BY <2>3, <3>2, <4>2, CoinbaseMakes
      <4>4. Q \subseteq T \cup X
        BY <2>3, <3>2 DEF With, PlainAnd
      <4> HIDE DEF after, X, u2, Q
      <4>5. Follows(T, utxo, stake, Q, u2, s)
        BY <2>3, <4>3, FollowsTrans
      <4> QED
        BY <4>1, <4>3, <4>4, <4>5 DEF Reaches
    <3> QED
      BY <3>1, <3>2
  <2> HIDE DEF X, after
  <2>5. Reaches(T, utxo, stake, X, r.utxo, r.stake)
    BY <2>2, <2>4 DEF s
  <2> QED
    BY <2>2, <2>5 DEF X, r
<1> QED
  BY <1>1, <1>2

\* A block whose coinbase is new makes the view of its transactions more.
LEMMA BlockMakes ==
  ASSUME NEW T, NEW utxo, NEW stake, Made(T, utxo, stake), NEW U, Distinct(U), T \subseteq U,
         NEW body, IsTxList(body), ToSet(body) \subseteq U,
         \A x \in ToSet(body) : is_coinbase(x) => x \notin T,
         NEW subsidy, NEW minted, NEW h \in Nat, NEW score
  PROVE  LET r == apply_block_inner(utxo, stake, body, subsidy, minted, h, score)
         IN  /\ r.ok => Reaches(T, utxo, stake, PlainAnd(U, ToSet(body)), r.utxo, r.stake)
             /\ ~r.ok => r.utxo = utxo
<1> DEFINE cb == {body[i] : i \in {j \in DOMAIN body : j = 1 /\ is_coinbase(body[j])}}
           c == body[1]
           rest == IF cb = {} THEN body ELSE Tail(body)
           run == apply_regulars(utxo, stake, rest, h, score)
           r == Settle(run, cb, utxo, subsidy, minted, h, score)
<1>1. DOMAIN body = 1 .. Len(body) /\ Len(body) \in Nat /\ \A i \in DOMAIN body : IsTx(body[i])
  BY DEF IsTxList, ToSet
<1>2. cb = {} \/ (cb = {c} /\ 1 \in DOMAIN body /\ is_coinbase(c))
  BY <1>1
<1>3. (cb = {} \/ cb = {c}) /\ (cb = {c} => IsTx(c) /\ is_coinbase(c) /\ c \in U \ T)
  <2>1. ASSUME cb = {c} PROVE IsTx(c) /\ is_coinbase(c) /\ c \in U \ T
    <3>1. 1 \in DOMAIN body /\ is_coinbase(c)
      BY <1>2, <2>1
    <3>2. c \in ToSet(body)
      BY <3>1 DEF ToSet
    <3> QED
      BY <1>1, <3>1, <3>2
  <2> QED
    BY <1>2, <2>1
<1>4. IsTxList(rest) /\ ToSet(rest) \subseteq ToSet(body)
  BY <1>1, RestIs
<1> HIDE DEF cb, c
<1>5. Stepped(T, utxo, stake, Plain(U), run)
  <2>1. ToSet(rest) \subseteq U
    BY <1>4
  <2> HIDE DEF rest
  <2> QED
    BY <1>4, <2>1, RegularsMake
<1>6. apply_block_inner(utxo, stake, body, subsidy, minted, h, score) = r
  BY DEF apply_block_inner, cb
<1> HIDE DEF run, rest
<1>7. /\ r.ok => Reaches(T, utxo, stake, PlainAnd(U, cb), r.utxo, r.stake)
      /\ ~r.ok => r.utxo = utxo
  BY <1>3, <1>5, SettleMakes
<1>8. cb \subseteq ToSet(body)
  BY DEF cb, ToSet
<1> HIDE DEF r
<1>9. r.ok => Reaches(T, utxo, stake, PlainAnd(U, ToSet(body)), r.utxo, r.stake)
  <2> DEFINE X == PlainAnd(U, cb)
             Y == PlainAnd(U, ToSet(body))
  <2>1. X \subseteq Y
    BY <1>8 DEF PlainAnd
  <2> HIDE DEF X, Y
  <2>2. ASSUME Reaches(T, utxo, stake, X, r.utxo, r.stake)
        PROVE  Reaches(T, utxo, stake, Y, r.utxo, r.stake)
    BY <2>1, <2>2 DEF Reaches
  <2> QED
    BY <1>7, <2>2 DEF X, Y
<1> QED
  BY <1>6, <1>7, <1>9 DEF r

-----------------------------------------------------------------------------
(***************************************************************************)
(* The blocks of a DAG.  Ids are unique when an id stands for one          *)
(* transaction, and that of a coinbase for one block: those are what a     *)
(* view may rely on to know that an outpoint is never made again.          *)
(***************************************************************************)
Universe(made) == UNION {ToSet(made[a]) : a \in DOMAIN made}

UniqueIn(made) ==
  \A a, b \in DOMAIN made : \A x \in ToSet(made[a]), y \in ToSet(made[b]) :
    x.id = y.id => x = y /\ (is_coinbase(x) => a = b)

\* Transactions of these blocks, whose coinbases are those of the blocks of C.
Known(made, T, C) ==
  /\ T \subseteq Universe(made)
  /\ \A x \in T : is_coinbase(x) => \E a \in C : a \in DOMAIN made /\ x \in ToSet(made[a])

\* A view that follows that of T, with the blocks of C applied, or some of them.
Comes(made, T, utxo, stake, C, utxo2, stake2) ==
  \E R : Known(made, R, C) /\ Made(R, utxo2, stake2)
         /\ Follows(T, utxo, stake, R, utxo2, stake2)

LEMMA UniqueIsDistinct ==
  ASSUME NEW made, UniqueIn(made)
  PROVE  Distinct(Universe(made))
BY DEF UniqueIn, Distinct, Universe

\* A block more.
LEMMA BlockComes ==
  ASSUME NEW made, UniqueIn(made), NEW T, NEW u0, NEW s0, NEW C, NEW utxo, NEW stake,
         Comes(made, T, u0, s0, C, utxo, stake),
         NEW b \in DOMAIN made, b \notin C, IsTxList(made[b]),
         NEW subsidy, NEW minted, NEW h \in Nat, NEW score
  PROVE  LET r == apply_block_inner(utxo, stake, made[b], subsidy, minted, h, score)
         IN  /\ r.ok => Comes(made, T, u0, s0, With(C, b), r.utxo, r.stake)
             /\ ~r.ok => r.utxo = utxo
<1> DEFINE U == Universe(made)
           body == made[b]
           D == With(C, b)
           r == apply_block_inner(utxo, stake, body, subsidy, minted, h, score)
<1>1. PICK R : Known(made, R, C) /\ Made(R, utxo, stake) /\ Follows(T, u0, s0, R, utxo, stake)
  BY DEF Comes
<1>2. Distinct(U) /\ R \subseteq U /\ ToSet(body) \subseteq U
  BY <1>1, UniqueIsDistinct DEF Known, Universe
<1>3. ASSUME NEW x \in ToSet(body), is_coinbase(x), x \in R PROVE FALSE
  <2>1. PICK a \in C : a \in DOMAIN made /\ x \in ToSet(made[a])
    BY <1>1, <1>3 DEF Known
  <2> QED
    BY <1>3, <2>1 DEF UniqueIn
<1> HIDE DEF U, body
<1>4. /\ r.ok => Reaches(R, utxo, stake, PlainAnd(U, ToSet(body)), r.utxo, r.stake)
      /\ ~r.ok => r.utxo = utxo
  <2>1. IsTxList(body) /\ \A x \in ToSet(body) : is_coinbase(x) => x \notin R
    BY <1>3 DEF body
  <2> QED
    BY <1>1, <1>2, <2>1, BlockMakes
<1> HIDE DEF r
<1>5. ASSUME r.ok PROVE Comes(made, T, u0, s0, D, r.utxo, r.stake)
  <2>1. PICK Q : /\ Q \subseteq R \cup PlainAnd(U, ToSet(body)) /\ Made(Q, r.utxo, r.stake)
                 /\ Follows(R, utxo, stake, Q, r.utxo, r.stake)
    BY <1>4, <1>5 DEF Reaches
  <2>2. Follows(T, u0, s0, Q, r.utxo, r.stake)
    BY <1>1, <2>1, FollowsTrans
  <2>3. Known(made, Q, D)
    <3>1. Q \subseteq U
      BY <1>2, <2>1 DEF PlainAnd, Plain
    <3>2. ASSUME NEW x \in Q, is_coinbase(x)
          PROVE  \E a \in D : a \in DOMAIN made /\ x \in ToSet(made[a])
      <4>1. x \in R \/ x \in ToSet(body)
        BY <2>1, <3>2 DEF PlainAnd, Plain
      <4>2. CASE x \in R
        <5>1. PICK a \in C : a \in DOMAIN made /\ x \in ToSet(made[a])
          BY <1>1, <3>2, <4>2 DEF Known
        <5>2. a \in D
          BY DEF With
        <5> QED
          BY <5>1, <5>2
      <4>3. CASE x \in ToSet(body)
        <5>1. b \in D
          BY DEF With
        <5> QED
          BY <4>3, <5>1 DEF body
      <4> QED
        BY <4>1, <4>2, <4>3
    <3> HIDE DEF D
    <3> QED
      BY <3>1, <3>2 DEF Known, U
  <2> QED
    BY <2>1, <2>2, <2>3 DEF Comes
<1> QED
  BY <1>4, <1>5 DEF r, body

\* The blocks of C and the first i of a sequence.
UpTo(C, q, i) == C \cup {q[j] : j \in 1 .. i}

\* Each block of the mergeset applies, or leaves the registry alone.
Clean(s, q) ==
  \A i \in DOMAIN q :
    LET view == MergedView(s, SubSeq(q, 1, i - 1))
        r    == MergedOutcome(view, q[i], chain_height_of(q[i]))
    IN  r.ok \/ r.stake = view.stake

\* The view before a mergeset, and the views on the way to the one after it.
SelectedView(s) ==
  [utxo |-> reconstruct_state(s), stake |-> reconstruct_stake(s),
   minted |-> block_minted[s], fees |-> block_fees[s]]

LEMMA MergedIs ==
  \A s, q : MergedView(s, q) = Merges!Run(0, 0, SelectedView(s), q)
BY DEF SelectedView, MergedView, MergeOne, Merges!Run, FoldLeft,
       Merges!MapThenFoldSet, MapThenFoldSet, Merges!Max, Max

LEMMA MergedPrefix ==
  ASSUME NEW s, NEW base, base = SelectedView(s),
         NEW n \in Nat, NEW q, NEW f, Merges!IsLoop(0, 0, base, n, q, f),
         NEW k \in 0 .. n, NEW r, Merges!FirstOf(r, k, q)
  PROVE  MergedView(s, r) = f[k]
<1>2. Merges!Run(0, 0, base, r) = f[k]
  BY Merges!PrefixRuns
<1> QED
  BY <1>2, MergedIs

LEMMA MergeSteps ==
  ASSUME NEW s, NEW S, NEW q \in Seq(S)
  PROVE  \E f : /\ f[0] = SelectedView(s) /\ f[Len(q)] = MergedView(s, q)
               /\ \A i \in 1 .. Len(q) : /\ f[i] = ApplyMerged(f[i - 1], q[i])
                                        /\ f[i - 1] = MergedView(s, SubSeq(q, 1, i - 1))
<1> DEFINE base == SelectedView(s)
           n == Len(q)
<1>1. n \in Nat /\ DOMAIN q = 1 .. n
  OBVIOUS
<1>2. MergedView(s, q) = Merges!Run(0, 0, base, q)
  BY MergedIs
<1>3. ASSUME NEW i \in 1 .. n
      PROVE  LET p == SubSeq(q, 1, i - 1)
                 k == i - 1
             IN  k \in 0 .. n /\ Merges!FirstOf(p, k, q)
  BY <1>1 DEF Merges!FirstOf
<1> HIDE DEF base, n
<1>4. PICK f : Merges!IsLoop(0, 0, base, n, q, f) /\ Merges!Run(0, 0, base, q) = f[n]
  BY <1>1, Merges!LoopRuns
<1>5. f[0] = base /\ \A i \in 1 .. n : f[i] = ApplyMerged(f[i - 1], q[i])
  <2>1. 0 \in 0 .. n /\ \A i \in 1 .. n : i \in 0 .. n /\ i # 0
    BY <1>1
  <2> QED
    BY <1>4, <2>1 DEF Merges!IsLoop, MergeOne
<1>6. ASSUME NEW i \in 1 .. n
      PROVE  MergedView(s, SubSeq(q, 1, i - 1)) = f[i - 1]
  <2> DEFINE p == SubSeq(q, 1, i - 1)
             k == i - 1
  <2>1. k \in 0 .. n /\ Merges!FirstOf(p, k, q)
    BY <1>3
  <2>3. base = SelectedView(s)
    BY DEF base
  <2> HIDE DEF p, k
  <2>2. MergedView(s, p) = f[k]
    BY <1>1, <1>4, <2>1, <2>3, MergedPrefix
  <2> QED
    BY <2>2 DEF p, k
<1> QED
  BY <1>2, <1>4, <1>5, <1>6 DEF base, n

\* A mergeset more.  That a block which does not apply leaves the registry
\* alone is an assumption: the code does not undo what its transactions bonded.
LEMMA MergesCome ==
  ASSUME NEW made, UniqueIn(made), NEW T, NEW s, NEW C,
         Comes(made, T, reconstruct_state(s), reconstruct_stake(s), C,
               reconstruct_state(s), reconstruct_stake(s)),
         NEW S, NEW q \in Seq(S), \A i, j \in DOMAIN q : q[i] = q[j] => i = j,
         \A i \in DOMAIN q : q[i] \notin C,
         \A b \in S : /\ b \in DOMAIN made /\ IsTxList(made[b]) /\ txs[b] = made[b]
                      /\ chain_height_of(b) \in Nat,
         Clean(s, q)
  PROVE  Comes(made, T, reconstruct_state(s), reconstruct_stake(s), UpTo(C, q, Len(q)),
               MergedView(s, q).utxo, MergedView(s, q).stake)
<1> DEFINE u0 == reconstruct_state(s)
           s0 == reconstruct_stake(s)
           n == Len(q)
<1>1. n \in Nat /\ DOMAIN q = 1 .. n /\ \A i \in 1 .. n : q[i] \in S
  OBVIOUS
<1>3. SelectedView(s).utxo = u0 /\ SelectedView(s).stake = s0
  BY DEF SelectedView
<1>4. PICK f : /\ f[0] = SelectedView(s) /\ f[n] = MergedView(s, q)
               /\ \A i \in 1 .. n : /\ f[i] = ApplyMerged(f[i - 1], q[i])
                                     /\ f[i - 1] = MergedView(s, SubSeq(q, 1, i - 1))
  BY MergeSteps
<1> HIDE DEF n, u0, s0
<1> DEFINE In(i) == Comes(made, T, u0, s0, UpTo(C, q, i), f[i].utxo, f[i].stake)
           Good == {i \in 0 .. n : In(i)}
<1>7. 0 \in Good
  <2>1. UpTo(C, q, 0) = C /\ 0 \in 0 .. n
    BY <1>1 DEF UpTo
  <2>2. Comes(made, T, u0, s0, C, u0, s0)
    BY DEF u0, s0
  <2> QED
    BY <1>3, <1>4, <2>1, <2>2
<1>8. ASSUME NEW i \in 1 .. n, i - 1 \in Good PROVE i \in Good
  <2> DEFINE k == i - 1
             view == f[k]
             b == q[i]
             D == UpTo(C, q, k)
             h == chain_height_of(b)
             r == MergedOutcome(view, b, h)
             subsidy == subsidy_at(h)
             score == dag.node[b].blue_score
             k0 == view.minted
             body == made[b]
  <2>1. Comes(made, T, u0, s0, D, view.utxo, view.stake)
    BY <1>8
  <2>2. b \in DOMAIN made /\ IsTxList(made[b]) /\ txs[b] = made[b] /\ h \in Nat
    BY <1>1
  <2>3. k \in 0 .. n /\ i \in 0 .. n /\ 1 .. i = (1 .. k) \cup {i} /\ \A j \in 1 .. k : j \in 1 .. n /\ j # i
    BY <1>1
  <2>4. b \notin D
    BY <1>1, <2>3 DEF UpTo
  <2>5. UpTo(C, q, i) = With(D, b)
    BY <2>3 DEF UpTo, With
  <2>6. r.ok \/ r.stake = view.stake
    <3>1. MergedView(s, SubSeq(q, 1, i - 1)) = view
      BY <1>4
    <3> QED
      BY <1>1, <3>1 DEF Clean
  <2>7. r = apply_block_inner(view.utxo, view.stake, body, subsidy, k0, h, score)
    BY <2>2 DEF MergedOutcome
  <2>8. f[i].utxo = r.utxo /\ f[i].stake = r.stake
    <3>1. f[i] = ApplyMerged(view, b)
      BY <1>4
    <3>2. ApplyMerged(view, b) = CountedIn(view, r)
      BY DEF ApplyMerged
    <3> HIDE DEF view, b, r
    <3> QED
      BY <3>1, <3>2 DEF CountedIn
  <2> HIDE DEF D, b, view, h, r, subsidy, score, k0
  <2>9. /\ r.ok => Comes(made, T, u0, s0, With(D, b), r.utxo, r.stake)
        /\ ~r.ok => r.utxo = view.utxo
    BY <2>1, <2>2, <2>4, <2>7, BlockComes
  <2>10. CASE r.ok
    BY <2>3, <2>5, <2>8, <2>9, <2>10
  <2>11. CASE ~r.ok
    <3>1. f[i].utxo = view.utxo /\ f[i].stake = view.stake
      BY <2>6, <2>8, <2>9, <2>11
    <3>2. \A R : Known(made, R, D) => Known(made, R, With(D, b))
      BY DEF Known, With
    <3>3. Comes(made, T, u0, s0, With(D, b), view.utxo, view.stake)
      BY <2>1, <3>2 DEF Comes
    <3> QED
      BY <2>3, <2>5, <3>1, <3>3
  <2> QED
    BY <2>10, <2>11
<1>9. n \in Good
  <2> HIDE DEF Good
  <2>1. \A i \in 0 .. n : i \in Good
    BY <1>1, <1>7, <1>8, Merges!NatUpTo
  <2> QED
    BY <1>1, <2>1
<1> QED
  BY <1>4, <1>9 DEF u0, s0, n

-----------------------------------------------------------------------------
(***************************************************************************)
(* Finality.                                                               *)
(***************************************************************************)
\* The selected tip is not final, and what is below a final block is.
LEMMA FinalIs ==
  ASSUME NEW d, Sound(d)
  PROVE  /\ finality_score(d) \in Int
         /\ ~is_final(d, selected_tip(d))
         /\ \A a, b \in Nodes(d) :
              d.node[a].blue_score < d.node[b].blue_score /\ is_final(d, b) => is_final(d, a)
<1> DEFINE k == d.node[selected_tip(d)].blue_score
           m == k - FinalityDepth
<1>1. \A b \in Nodes(d) : d.node[b].blue_score \in Nat
  BY WellFormedIs DEF Sound, ByTheRule
<1>2. k \in Nat
  BY <1>1, TipIsHeaviest
<1>3. finality_score(d) \in Int /\ finality_score(d) <= k
  <2>1. CASE FinalityDepth = NoFinality
    BY <1>2, <2>1 DEF finality_score
  <2>2. CASE FinalityDepth # NoFinality
    <3>1. finality_score(d) = Max({0, m}) /\ FinalityDepth \in Nat
      BY <2>2, NumbersAssumption DEF finality_score
    <3>2. m \in Int /\ m <= k
      BY <1>2, <3>1
    <3> HIDE DEF m, k
    <3>3. Max({0, m}) = IF m >= 0 THEN m ELSE 0
      <4> DEFINE x == IF m >= 0 THEN m ELSE 0
      <4>1. x \in {0, m} /\ \A y \in {0, m} : x >= y
        BY <3>2
      <4>2. \A z \in {0, m} : (\A y \in {0, m} : z >= y) => z = x
        BY <3>2
      <4> HIDE DEF x
      <4>3. Max({0, m}) = x
        BY <4>1, <4>2 DEF Max
      <4> QED
        BY <4>3 DEF x
    <3> QED
      BY <1>2, <3>1, <3>2, <3>3
  <2> QED
    BY <2>1, <2>2
<1>4. ~is_final(d, selected_tip(d))
  <2>1. is_final(d, selected_tip(d)) <=> k < finality_score(d)
    BY DEF is_final
  <2> HIDE DEF k
  <2> QED
    BY <1>2, <1>3, <2>1
<1> QED
  BY <1>1, <1>3, <1>4 DEF is_final

-----------------------------------------------------------------------------
(***************************************************************************)
(* Heights: how far a block is up its own selected chain.                  *)
(***************************************************************************)
HeightIn(d, b) == Len(ChainTo(d, b)) - 1

\* A block is one above its selected parent.
LEMMA HeightIs ==
  ASSUME NEW d, ByTheRule(d), NoBlock \notin Nodes(d), NEW b \in Nodes(d)
  PROVE  /\ HeightIn(d, b) \in Nat
         /\ b = Genesis => HeightIn(d, b) = 0
         /\ b # Genesis => /\ d.node[b].sp \in Nodes(d)
                           /\ HeightIn(d, b) = HeightIn(d, d.node[b].sp) + 1
<1>1. Grounded(d, Nodes(d), d)
  BY RuleGrounded
<1>2. \A x \in Nodes(d) :
        /\ ChainTo(d, x) \in Seq(Nodes(d)) /\ ChainTo(d, x) # <<>>
        /\ ChainTo(d, x) = IF d.node[x].sp \in Nodes(d)
                           THEN Append(ChainTo(d, d.node[x].sp), x) ELSE <<x>>
  BY <1>1, ChainIs
<1> DEFINE chain == ChainTo(d, b)
<1>3. chain \in Seq(Nodes(d)) /\ chain # <<>>
  BY <1>2
<1> HIDE DEF chain
<1>4. Len(chain) \in Nat /\ Len(chain) > 0
  BY <1>3
<1>5. CASE b = Genesis
  <2>1. d.node[b].sp \notin Nodes(d)
    BY <1>5, SelectedBelow
  <2>2. chain = <<b>>
    BY <1>2, <2>1 DEF chain
  <2> QED
    BY <1>5, <2>2 DEF HeightIn, chain
<1>6. CASE b # Genesis
  <2> DEFINE s == d.node[b].sp
             below == ChainTo(d, s)
  <2>1. s \in Nodes(d)
    BY <1>6, SelectedBelow
  <2>2. chain = Append(below, b) /\ below \in Seq(Nodes(d))
    BY <1>2, <2>1 DEF chain
  <2> HIDE DEF s, below
  <2>3. Len(chain) = Len(below) + 1 /\ Len(below) \in Nat
    BY <2>2, AppendIs
  <2> QED
    BY <1>4, <1>6, <2>1, <2>3 DEF HeightIn, chain, s, below
<1> QED
  BY <1>5, <1>6

\* The blocks of a selected chain are at the heights of their places.
LEMMA ChainPlaces ==
  ASSUME NEW d, ByTheRule(d), NoBlock \notin Nodes(d), NEW b \in Nodes(d)
  PROVE  LET chain == ChainTo(d, b)
             n == Len(chain)
         IN  /\ chain \in Seq(Nodes(d)) /\ chain # <<>> /\ chain[n] = b
             /\ \A i \in 1 .. n : HeightIn(d, chain[i]) = i - 1
<1> DEFINE Places(x) == \A i \in 1 .. Len(ChainTo(d, x)) : HeightIn(d, ChainTo(d, x)[i]) = i - 1
           Bad == {x \in Nodes(d) : ~Places(x)}
<1>1. Grounded(d, Nodes(d), d) /\ WellFormed(d)
  BY RuleGrounded DEF ByTheRule
<1>2. \A x \in Nodes(d) :
        /\ ChainTo(d, x) \in Seq(Nodes(d)) /\ ChainTo(d, x) # <<>>
        /\ ChainTo(d, x) = IF d.node[x].sp \in Nodes(d)
                           THEN Append(ChainTo(d, d.node[x].sp), x) ELSE <<x>>
  BY <1>1, ChainIs
<1>3. Bad = {}
  <2> SUFFICES ASSUME Bad # {} PROVE FALSE
    OBVIOUS
  <2>1. Bad \in SUBSET Nodes(d)
    OBVIOUS
  <2>2. PICK x \in Bad : \A y \in Bad : y \notin d.node[x].past
    <3> HIDE DEF Bad
    <3> QED
      BY <1>1, <2>1, HasOldest
  <2> DEFINE s == d.node[x].sp
             q == ChainTo(d, s)
  <2>3. CASE s \in Nodes(d)
    <3>1. Places(s)
      <4>1. x # Genesis
        BY <2>3, SelectedBelow
      <4>2. s \in d.node[x].past
        BY <4>1, SelectedBelow
      <4> QED
        BY <2>2, <2>3, <4>2
    <3>2. ChainTo(d, x) = Append(q, x) /\ q \in Seq(Nodes(d))
      BY <1>2, <2>3
    <3> DEFINE n == Len(q)
    <3>3. /\ n \in Nat /\ Len(ChainTo(d, x)) = n + 1 /\ ChainTo(d, x)[n + 1] = x
          /\ \A i \in 1 .. n : ChainTo(d, x)[i] = q[i]
      <4> HIDE DEF q
      <4> QED
        BY <3>2, AppendIs
    <3>4. HeightIn(d, x) = (n + 1) - 1
      BY <3>3 DEF HeightIn
    <3>5. \A i \in 1 .. n : HeightIn(d, q[i]) = i - 1
      BY <3>1
    <3> HIDE DEF q, n
    <3>6. Places(x)
      <4> SUFFICES ASSUME NEW i \in 1 .. n + 1 PROVE HeightIn(d, ChainTo(d, x)[i]) = i - 1
        BY <3>3
      <4>1. i = n + 1 \/ i \in 1 .. n
        BY <3>3
      <4> QED
        BY <3>3, <3>4, <3>5, <4>1
    <3> QED
      BY <2>2, <3>6
  <2>4. CASE s \notin Nodes(d)
    <3>1. ChainTo(d, x) = <<x>>
      BY <1>2, <2>4
    <3>2. Len(ChainTo(d, x)) = 1 /\ ChainTo(d, x)[1] = x
      BY <3>1
    <3>3. HeightIn(d, x) = 0
      BY <3>2 DEF HeightIn
    <3>4. Places(x)
      BY <3>2, <3>3
    <3> QED
      BY <2>2, <3>4
  <2> QED
    BY <2>3, <2>4
<1>4. Places(b)
  BY <1>3
<1> DEFINE chain == ChainTo(d, b)
<1>5. chain[Len(chain)] = b
  <2>1. CASE d.node[b].sp \in Nodes(d)
    <3> DEFINE q == ChainTo(d, d.node[b].sp)
    <3>1. chain = Append(q, b) /\ q \in Seq(Nodes(d))
      BY <1>2, <2>1
    <3> HIDE DEF q
    <3> QED
      BY <3>1, AppendIs
  <2>2. CASE d.node[b].sp \notin Nodes(d)
    <3>1. chain = <<b>>
      BY <1>2, <2>2
    <3> QED
      BY <3>1
  <2> QED
    BY <2>1, <2>2
<1> QED
  BY <1>2, <1>4, <1>5

\* An insertion leaves every height as it was.
LEMMA SameHeights ==
  ASSUME NEW d, NEW e, ByTheRule(d), ByTheRule(e), NoBlock \notin Nodes(e),
         Nodes(d) \subseteq Nodes(e), \A b \in Nodes(d) : e.node[b] = d.node[b],
         NEW x \in Nodes(d)
  PROVE  HeightIn(e, x) = HeightIn(d, x)
<1> DEFINE Bad == {y \in Nodes(d) : HeightIn(e, y) # HeightIn(d, y)}
<1>1. Bad \in SUBSET Nodes(d) /\ WellFormed(d) /\ NoBlock \notin Nodes(d)
  BY DEF ByTheRule
<1> SUFFICES ASSUME Bad # {} PROVE FALSE
  OBVIOUS
<1>2. PICK b \in Bad : \A y \in Bad : y \notin d.node[b].past
  <2> HIDE DEF Bad
  <2> QED
    BY <1>1, HasOldest
<1>3. b \in Nodes(d) /\ b \in Nodes(e) /\ e.node[b] = d.node[b]
  BY <1>2
<1>4. b # Genesis
  BY <1>1, <1>2, <1>3, HeightIs
<1> DEFINE s == d.node[b].sp
<1>5. s \in Nodes(d) /\ s \in d.node[b].past
  BY <1>1, <1>3, <1>4, SelectedBelow
<1>6. HeightIn(e, b) = HeightIn(e, s) + 1 /\ HeightIn(d, b) = HeightIn(d, s) + 1
  BY <1>1, <1>3, <1>4, HeightIs
<1>7. HeightIn(e, s) = HeightIn(d, s)
  BY <1>2, <1>5
<1> QED
  BY <1>2, <1>6, <1>7

-----------------------------------------------------------------------------
(***************************************************************************)
(* The undo log, exactly.  Each block has a view of its own, and what made *)
(* it; its entry leads there from its selected parent's view while that is *)
(* in the log, and from nothing when that has been folded.                 *)
(***************************************************************************)
IsMade(v) == Made(v.txs, v.utxo, v.stake)

After(v, w) == Follows(v.txs, v.utxo, v.stake, w.txs, w.utxo, w.stake)

\* An entry that has absorbed all there was below: nothing it spends comes back.
Absorbed(delta, v) ==
  /\ IsDelta(delta) /\ apply_delta(delta, NoEntries) = v.utxo
  /\ \A op \in delta.spent : op[1] \in IdsOf(v.txs)

Entry(d, log, V, b) ==
  LET s == d.node[b].sp
  IN  IF s \in DOMAIN log.deltas
      THEN /\ log.deltas[b] = diff_utxo(V[s].utxo, V[b].utxo)
           /\ log.stake[b] = diff_stake(V[s].stake, V[b].stake)
           /\ After(V[s], V[b])
      ELSE Absorbed(log.deltas[b], V[b]) /\ log.stake[b] = diff_stake(NoStake, V[b].stake)

Exact(d, log, V) ==
  /\ DOMAIN log.stake = DOMAIN log.deltas /\ DOMAIN log.heights = DOMAIN log.deltas
  /\ \A b \in DOMAIN log.deltas :
       IsMade(V[b]) /\ log.heights[b] = HeightIn(d, b) /\ Entry(d, log, V, b)

\* A view that follows another has what they share from it.
LEMMA SharedAgree ==
  ASSUME NEW v, IsMade(v), NEW w, IsMade(w), After(v, w)
  PROVE  /\ Agree(v.utxo, w.utxo) /\ Agree(v.stake.frozen, w.stake.frozen)
         /\ IsUtxo(v.utxo) /\ IsUtxo(w.utxo)
         /\ Bonded(v.stake.frozen) /\ v.stake = Reg(v.stake.frozen)
         /\ Bonded(w.stake.frozen) /\ w.stake = Reg(w.stake.frozen)
<1>1. /\ Newer(v.txs, v.utxo, w.utxo) /\ Newer(v.txs, v.stake.frozen, w.stake.frozen)
      /\ Tracks(v.txs, v.utxo) /\ BackedBy(v.stake, v.utxo) /\ BackedBy(w.stake, w.utxo)
      /\ IsUtxo(v.utxo) /\ IsUtxo(w.utxo)
  BY DEF IsMade, Made, After, Follows, IsView
<1>2. Agree(v.utxo, w.utxo)
  BY <1>1 DEF Agree, Newer, Tracks
<1>3. \A op \in DOMAIN v.stake.frozen : op \in DOMAIN v.utxo
  BY <1>1 DEF BackedBy
<1>4. Agree(v.stake.frozen, w.stake.frozen)
  BY <1>1, <1>3 DEF Agree, Newer, Tracks
<1> QED
  BY <1>1, <1>2, <1>4 DEF BackedBy

\* The difference of two such views leads from the first to the second.
LEMMA DiffLeads ==
  ASSUME NEW v, IsMade(v), NEW w, IsMade(w), After(v, w)
  PROVE  /\ apply_delta(diff_utxo(v.utxo, w.utxo), v.utxo) = w.utxo
         /\ stake_delta_applies(diff_stake(v.stake, w.stake), v.stake)
         /\ apply_stake_delta(diff_stake(v.stake, w.stake), v.stake) = w.stake
<1>1. /\ Agree(v.utxo, w.utxo) /\ Agree(v.stake.frozen, w.stake.frozen)
      /\ IsUtxo(v.utxo) /\ IsUtxo(w.utxo)
      /\ Bonded(v.stake.frozen) /\ v.stake = Reg(v.stake.frozen)
      /\ Bonded(w.stake.frozen) /\ w.stake = Reg(w.stake.frozen)
  BY SharedAgree
<1>2. apply_delta(diff_utxo(v.utxo, w.utxo), v.utxo) = w.utxo
  <2>1. \A op \in DOMAIN v.utxo \cap DOMAIN w.utxo : w.utxo[op] = v.utxo[op]
    BY <1>1 DEF Agree
  <2> QED
    BY <1>1, <2>1, ApplyDiff
<1> DEFINE a == v.stake.frozen
           b == w.stake.frozen
<1> HIDE DEF a, b
<1>3. /\ stake_delta_applies(diff_stake(Reg(a), Reg(b)), Reg(a))
      /\ apply_stake_delta(diff_stake(Reg(a), Reg(b)), Reg(a)) = Reg(b)
  <2>1. Bonded(a) /\ Bonded(b) /\ Agree(a, b) /\ UnbondMaturity \in Nat
    BY <1>1, NumbersAssumption DEF a, b
  <2> QED
    BY <2>1, ApplyStakeDiff
<1> QED
  BY <1>1, <1>2, <1>3 DEF a, b

\* And from nothing.
LEMMA StakeLeads ==
  ASSUME NEW w, IsMade(w)
  PROVE  /\ stake_delta_applies(diff_stake(NoStake, w.stake), NoStake)
         /\ apply_stake_delta(diff_stake(NoStake, w.stake), NoStake) = w.stake
<1> DEFINE b == w.stake.frozen
           a == NoEntries
<1>1. Bonded(b) /\ w.stake = Reg(b)
  BY DEF IsMade, Made, BackedBy
<1>2. Bonded(a) /\ NoStake = Reg(a) /\ Agree(a, b) /\ UnbondMaturity \in Nat
  <2>1. DOMAIN NoEntries = {}
    BY DEF NoEntries
  <2> QED
    BY <2>1, NoStakeIs, NumbersAssumption DEF Agree
<1> HIDE DEF a, b
<1>3. /\ stake_delta_applies(diff_stake(Reg(a), Reg(b)), Reg(a))
      /\ apply_stake_delta(diff_stake(Reg(a), Reg(b)), Reg(a)) = Reg(b)
  BY <1>1, <1>2, ApplyStakeDiff
<1> QED
  BY <1>1, <1>2, <1>3

\* An entry folded into a child's: the child's leads from nothing.
LEMMA FoldLeads ==
  ASSUME NEW v, IsMade(v), NEW w, IsMade(w), After(v, w),
         NEW delta, Absorbed(delta, v)
  PROVE  /\ Absorbed(compose_delta(delta, diff_utxo(v.utxo, w.utxo)), w)
         /\ compose_stake_delta(diff_stake(NoStake, v.stake), diff_stake(v.stake, w.stake))
              = diff_stake(NoStake, w.stake)
<1> DEFINE e == diff_utxo(v.utxo, w.utxo)
           c == compose_delta(delta, e)
<1>1. /\ Agree(v.utxo, w.utxo) /\ Agree(v.stake.frozen, w.stake.frozen)
      /\ IsUtxo(v.utxo) /\ IsUtxo(w.utxo)
      /\ Bonded(v.stake.frozen) /\ v.stake = Reg(v.stake.frozen)
      /\ Bonded(w.stake.frozen) /\ w.stake = Reg(w.stake.frozen)
  BY SharedAgree
<1>2. /\ v.txs \subseteq w.txs /\ Newer(v.txs, v.utxo, w.utxo) /\ Tracks(v.txs, v.utxo)
  BY DEF IsMade, Made, After, Follows
<1>3. IdsOf(v.txs) \subseteq IdsOf(w.txs)
  BY <1>2 DEF IdsOf
<1>4. /\ IsDelta(e) /\ e.spent \subseteq DOMAIN v.utxo
      /\ \A op \in DOMAIN e.created : op \in DOMAIN w.utxo /\ ~(op \in DOMAIN v.utxo
                                                             /\ w.utxo[op] = v.utxo[op])
  BY DEF diff_utxo, ChangedFrom, IsDelta, IsUtxo
<1>5. delta.spent \cap DOMAIN e.created = {}
  BY <1>2, <1>4 DEF Absorbed, Newer
<1>6. apply_delta(e, v.utxo) = w.utxo
  BY DiffLeads
<1> HIDE DEF e
<1>7. apply_delta(c, NoEntries) = w.utxo
  <2>1. IsUtxo(NoEntries)
    BY NoStakeIs DEF Bonded
  <2>2. apply_delta(c, NoEntries) = apply_delta(e, apply_delta(delta, NoEntries))
    BY <1>4, <1>5, <2>1, ApplyCompose DEF Absorbed
  <2> QED
    BY <1>6, <2>2 DEF Absorbed
<1>8. c.spent = delta.spent \cup e.spent /\ IsDelta(c)
  BY DEF compose_delta, InsertAll, IsDelta, IsUtxo
<1> HIDE DEF c
<1>9. \A op \in c.spent : op[1] \in IdsOf(w.txs)
  BY <1>2, <1>3, <1>4, <1>8 DEF Absorbed, Tracks
<1>10. Absorbed(c, w)
  BY <1>7, <1>8, <1>9 DEF Absorbed
<1> DEFINE a == v.stake.frozen
           b == w.stake.frozen
<1> HIDE DEF a, b
<1>11. compose_stake_delta(diff_stake(NoStake, Reg(a)), diff_stake(Reg(a), Reg(b)))
         = diff_stake(NoStake, Reg(b))
  <2>1. Bonded(a) /\ Bonded(b) /\ Agree(a, b)
    BY <1>1 DEF a, b
  <2> QED
    BY <2>1, ComposeStakeDiff
<1> QED
  BY <1>1, <1>10, <1>11 DEF a, b, c, e

\* One iteration of prune, on a block below which nothing is left.
LEMMA FoldKeepsExact ==
  ASSUME NEW d, NEW log, NEW V, Exact(d, log, V),
         NEW b \in DOMAIN log.deltas, d.node[b].sp \notin DOMAIN log.deltas
  PROVE  /\ DOMAIN FoldDelta(d, log, b).deltas = DOMAIN log.deltas \ {b}
         /\ Exact(d, FoldDelta(d, log, b), V)
<1> DEFINE new == FoldDelta(d, log, b)
           left == DOMAIN log.deltas \ {b}
<1>1. /\ DOMAIN new.deltas = left /\ DOMAIN new.stake = left
      /\ \A c \in left :
           /\ new.deltas[c] = IF d.node[c].sp = b
                              THEN compose_delta(log.deltas[b], log.deltas[c])
                              ELSE log.deltas[c]
           /\ new.stake[c] = IF d.node[c].sp = b
                             THEN compose_stake_delta(log.stake[b], log.stake[c])
                             ELSE log.stake[c]
  BY DEF FoldDelta
<1>2. DOMAIN new.heights = left /\ \A c \in left : new.heights[c] = log.heights[c]
  BY DEF FoldDelta, RemoveAll, Exact
<1> HIDE DEF new
<1>3. IsMade(V[b]) /\ Entry(d, log, V, b)
  BY DEF Exact
<1>4. Absorbed(log.deltas[b], V[b]) /\ log.stake[b] = diff_stake(NoStake, V[b].stake)
  BY <1>3 DEF Entry
<1>5. ASSUME NEW c \in left
      PROVE  IsMade(V[c]) /\ new.heights[c] = HeightIn(d, c) /\ Entry(d, new, V, c)
  <2>1. IsMade(V[c]) /\ log.heights[c] = HeightIn(d, c) /\ Entry(d, log, V, c)
    BY DEF Exact
  <2>2. CASE d.node[c].sp = b
    <3>1. /\ log.deltas[c] = diff_utxo(V[b].utxo, V[c].utxo)
          /\ log.stake[c] = diff_stake(V[b].stake, V[c].stake)
          /\ After(V[b], V[c])
      BY <2>1, <2>2 DEF Entry
    <3> DEFINE v == V[b]
               w == V[c]
    <3>2. /\ Absorbed(compose_delta(log.deltas[b], diff_utxo(v.utxo, w.utxo)), w)
          /\ compose_stake_delta(diff_stake(NoStake, v.stake), diff_stake(v.stake, w.stake))
               = diff_stake(NoStake, w.stake)
      <4>1. IsMade(v) /\ IsMade(w) /\ After(v, w) /\ Absorbed(log.deltas[b], v)
        BY <1>3, <1>4, <2>1, <3>1
      <4> HIDE DEF v, w
      <4> QED
        BY <4>1, FoldLeads
    <3>3. Absorbed(new.deltas[c], V[c]) /\ new.stake[c] = diff_stake(NoStake, V[c].stake)
      BY <1>1, <1>4, <2>2, <3>1, <3>2
    <3>4. d.node[c].sp \notin DOMAIN new.deltas
      BY <1>1, <2>2
    <3>5. Entry(d, new, V, c)
      BY <3>3, <3>4 DEF Entry
    <3> QED
      BY <1>2, <2>1, <3>5
  <2>3. CASE d.node[c].sp # b
    <3>1. new.deltas[c] = log.deltas[c] /\ new.stake[c] = log.stake[c]
      BY <1>1, <2>3
    <3>2. d.node[c].sp \in DOMAIN new.deltas <=> d.node[c].sp \in DOMAIN log.deltas
      BY <1>1, <2>3
    <3>3. Entry(d, new, V, c)
      BY <2>1, <3>1, <3>2 DEF Entry
    <3> QED
      BY <1>2, <2>1, <3>3
  <2> QED
    BY <2>2, <2>3
<1>6. Exact(d, new, V)
  BY <1>1, <1>2, <1>5 DEF Exact
<1> QED
  BY <1>1, <1>6 DEF new

\* The state of the loop of prune when n final blocks are left.
Pruned(d, old, V, log, n) ==
  /\ DOMAIN log.deltas \subseteq old /\ {b \in old : ~is_final(d, b)} \subseteq DOMAIN log.deltas
  /\ Exact(d, log, V)
  /\ IsFiniteSet(Stale(d, log)) /\ Cardinality(Stale(d, log)) = n

LEMMA FoldOnePrunes ==
  ASSUME NEW d, Sound(d), NoBlock \notin Nodes(d), NEW old \in SUBSET Nodes(d),
         NEW V, NEW log, NEW n \in Nat, n # 0, Pruned(d, old, V, log, n)
  PROVE  Pruned(d, old, V, FoldDelta(d, log, Deepest(d, log)), n - 1)
<1> DEFINE S == Stale(d, log)
           b == Deepest(d, log)
           new == FoldDelta(d, log, b)
           T == Stale(d, new)
<1>1. /\ S \in SUBSET Nodes(d) /\ S # {} /\ IsFiniteSet(S) /\ ByTheRule(d)
      /\ S = {x \in DOMAIN log.deltas : is_final(d, x)} /\ DOMAIN log.deltas \subseteq Nodes(d)
  <2>1. S = {x \in DOMAIN log.deltas : is_final(d, x)}
    BY DEF Stale
  <2>2. IsFiniteSet(S) /\ Cardinality(S) = n /\ DOMAIN log.deltas \subseteq Nodes(d)
    BY DEF Pruned
  <2>3. S # {}
    BY <2>2, FS_EmptySet
  <2> QED
    BY <2>1, <2>2, <2>3 DEF Sound
<1>2. b \in S /\ \A a \in S : d.node[b].blue_score <= d.node[a].blue_score
  BY <1>1, DeepestIs
<1> HIDE DEF b
<1>3. d.node[b].sp \notin DOMAIN log.deltas
  <2> SUFFICES ASSUME d.node[b].sp \in DOMAIN log.deltas PROVE FALSE
    OBVIOUS
  <2> DEFINE a == d.node[b].sp
  <2>1. b \in Nodes(d) /\ a \in Nodes(d) /\ is_final(d, b)
    BY <1>1, <1>2
  <2>2. d.node[a].blue_score < d.node[b].blue_score
    BY <1>1, <2>1, SelectedIsLess, NumbersAssumption
  <2>3. is_final(d, a)
    BY <2>1, <2>2, FinalIs
  <2>4. d.node[b].blue_score <= d.node[a].blue_score
    BY <1>1, <1>2, <2>3
  <2>5. d.node[a].blue_score \in Nat /\ d.node[b].blue_score \in Nat
    BY <1>1, <2>1, WellFormedIs DEF ByTheRule
  <2> QED
    BY <2>2, <2>4, <2>5
<1>4. DOMAIN new.deltas = DOMAIN log.deltas \ {b} /\ Exact(d, new, V)
  BY <1>1, <1>2, <1>3, FoldKeepsExact DEF Pruned
<1>5. T = S \ {b}
  BY <1>4 DEF Stale
<1> HIDE DEF S, T, new
<1>6. IsFiniteSet(T) /\ Cardinality(T) = n - 1
  <2>1. Cardinality(S) = n
    BY DEF Pruned, S
  <2>2. IsFiniteSet(S \ {b}) /\ Cardinality(S \ {b}) = Cardinality(S) - 1
    BY <1>1, <1>2, FS_RemoveElement
  <2> QED
    BY <1>5, <2>1, <2>2
<1>7. DOMAIN new.deltas \subseteq old /\ {x \in old : ~is_final(d, x)} \subseteq DOMAIN new.deltas
  <2>1. is_final(d, b)
    BY <1>1, <1>2
  <2> QED
    BY <1>4, <2>1 DEF Pruned
<1>8. Pruned(d, old, V, new, n - 1)
  BY <1>4, <1>6, <1>7 DEF Pruned, T
<1> QED
  BY <1>8 DEF new, b

(***************************************************************************)
(* Pruning the undo log leaves the blocks that are not final, whose        *)
(* entries lead to the same views as before (prune).                       *)
(***************************************************************************)
LEMMA PruneKeepsExact ==
  ASSUME NEW d, Sound(d), NoBlock \notin Nodes(d), NEW log,
         DOMAIN log.deltas \subseteq Nodes(d), NEW V, Exact(d, log, V)
  PROVE  /\ DOMAIN prune(d, log).deltas = {b \in DOMAIN log.deltas : ~is_final(d, b)}
         /\ Exact(d, prune(d, log), V)
<1> DEFINE n == Cardinality(Stale(d, log))
           q == [i \in 1 .. n |-> i]
           old == DOMAIN log.deltas
<1>1. IsFiniteSet(Stale(d, log)) /\ n \in Nat
  <2>1. IsFiniteSet(Nodes(d)) /\ Stale(d, log) \in SUBSET Nodes(d)
    BY WellFormedIs DEF Sound, ByTheRule, Stale
  <2> QED
    BY <2>1, FS_Subset, FS_CardinalityType
<1>2. prune(d, log) = Folds!Run(d, 0, log, q)
  BY DEF prune, FoldOne, Folds!Run, FoldLeft, Folds!MapThenFoldSet,
         MapThenFoldSet, Folds!Max, Max
<1>3. DOMAIN q = 1 .. n
  OBVIOUS
<1>4. Pruned(d, old, V, log, n)
  BY <1>1 DEF Pruned
<1> HIDE DEF n, q
<1>5. PICK f : Folds!IsLoop(d, 0, log, n, q, f) /\ Folds!Run(d, 0, log, q) = f[n]
  BY <1>1, <1>3, Folds!LoopRuns
<1>6. f[0] = log /\ \A i \in 1 .. n : f[i] = FoldDelta(d, f[i - 1], Deepest(d, f[i - 1]))
  <2>1. 0 \in 0 .. n /\ \A i \in 1 .. n : i \in 0 .. n /\ i # 0
    BY <1>1
  <2> QED
    BY <1>5, <2>1 DEF Folds!IsLoop, FoldOne
<1> DEFINE Good == {i \in 0 .. n : Pruned(d, old, V, f[i], n - i)}
<1>7. 0 \in Good
  <2>1. n - 0 = n /\ 0 \in 0 .. n
    BY <1>1
  <2> QED
    BY <1>4, <1>6, <2>1
<1>8. ASSUME NEW i \in 1 .. n, i - 1 \in Good PROVE i \in Good
  <2> DEFINE k == n - (i - 1)
             log1 == f[i - 1]
  <2>1. k \in Nat /\ k # 0 /\ k - 1 = n - i /\ i \in 0 .. n
    BY <1>1
  <2>2. Pruned(d, old, V, log1, k)
    BY <1>8
  <2>5. old \in SUBSET Nodes(d)
    OBVIOUS
  <2> HIDE DEF k, log1, old
  <2>3. Pruned(d, old, V, FoldDelta(d, log1, Deepest(d, log1)), k - 1)
    BY <2>1, <2>2, <2>5, FoldOnePrunes
  <2>4. Pruned(d, old, V, f[i], n - i)
    BY <1>6, <2>1, <2>3 DEF log1
  <2> QED
    BY <2>1, <2>4
<1>9. n \in Good
  <2> HIDE DEF Good
  <2>1. \A i \in 0 .. n : i \in Good
    BY <1>1, <1>7, <1>8, Folds!NatUpTo
  <2> QED
    BY <1>1, <2>1
<1>10. Pruned(d, old, V, prune(d, log), 0)
  <2>1. n - n = 0
    BY <1>1
  <2> QED
    BY <1>2, <1>5, <1>9, <2>1
<1> DEFINE new == prune(d, log)
<1> HIDE DEF new
<1>11. Stale(d, new) = {}
  BY <1>10, FS_EmptySet DEF Pruned, new
<1>12. \A b \in DOMAIN new.deltas : ~is_final(d, b)
  BY <1>11 DEF Stale
<1>13. DOMAIN new.deltas = {b \in old : ~is_final(d, b)}
  BY <1>10, <1>12 DEF Pruned, new
<1> QED
  BY <1>10, <1>13 DEF Pruned, new

-----------------------------------------------------------------------------
(***************************************************************************)
(* The views, rebuilt.                                                     *)
(***************************************************************************)
\* No view is none of the maps a view is.
NoViewIsNone == ~IsUtxo(NoView)

\* The loop of reconstruct_stake.
StakeOne(log, c, s, x) ==
  IF s = NoView \/ ~stake_delta_applies(log[x], s) THEN NoView ELSE apply_stake_delta(log[x], s)
Restakes == INSTANCE LoopProofs WITH op <- StakeOne, val <- LAMBDA c, x : 0

RegistryOf(b) == Restakes!Run(stake_deltas, 0, NoStake, ViewPath(dag, b))

\* A registry is a view.
LEMMA RegistryIsSome ==
  ASSUME NoViewIsNone, NEW fr
  PROVE  Reg(fr) # NoView
<1>1. Reg(fr) = [x \in DOMAIN Reg(fr) |-> Reg(fr)[x]]
  BY DEF Reg
<1> QED
  BY <1>1 DEF NoViewIsNone, IsUtxo

\* The path to b goes through its selected parent while that is not final.
LEMMA ViewPathSplits ==
  ASSUME ByTheRule(dag), NoBlock \notin Nodes(dag), NEW b \in Nodes(dag)
  PROVE  LET s == dag.node[b].sp
         IN  /\ ViewPath(dag, b) \in Seq(Nodes(dag))
             /\ s \in NonFinal => /\ s \in Nodes(dag) /\ s \in dag.node[b].past
                                  /\ ViewPath(dag, b) = Append(ViewPath(dag, s), b)
             /\ s \notin NonFinal => ViewPath(dag, b) = <<b>>
<1> DEFINE E == {x \in Nodes(dag) : ~is_final(dag, x)}
<1>1. \A x : ViewPath(dag, x) = PathTo(dag, E, x)
  BY Zenon DEF ViewPath, PathTo
<1>2. E \in SUBSET Nodes(dag) /\ E = NonFinal
  BY DEF NonFinal
<1> HIDE DEF E
<1>3. /\ PathTo(dag, E, b) \in Seq(Nodes(dag))
      /\ PathTo(dag, E, b) = IF dag.node[b].sp \in E
                             THEN Append(PathTo(dag, E, dag.node[b].sp), b) ELSE <<b>>
  BY <1>2, RuleGrounded, PathIs
<1>4. dag.node[b].sp \in E => dag.node[b].sp \in Nodes(dag) /\ dag.node[b].sp \in dag.node[b].past
  BY <1>2, SelectedBelow
<1> DEFINE s == dag.node[b].sp
<1> HIDE DEF s
<1>5. ViewPath(dag, b) \in Seq(Nodes(dag))
  BY <1>1, <1>3
<1>6. ASSUME s \in E
      PROVE  /\ s \in Nodes(dag) /\ s \in dag.node[b].past
             /\ ViewPath(dag, b) = Append(ViewPath(dag, s), b)
  <2>1. PathTo(dag, E, b) = Append(PathTo(dag, E, s), b) /\ s \in Nodes(dag)
        /\ s \in dag.node[b].past
    BY <1>3, <1>4, <1>6 DEF s
  <2>2. ViewPath(dag, b) = PathTo(dag, E, b) /\ ViewPath(dag, s) = PathTo(dag, E, s)
    BY <1>1
  <2> QED
    BY <2>1, <2>2
<1>7. ASSUME s \notin E PROVE ViewPath(dag, b) = <<b>>
  <2>1. PathTo(dag, E, b) = <<b>>
    BY <1>3, <1>7 DEF s
  <2> QED
    BY <1>1, <2>1
<1> QED
  BY <1>2, <1>5, <1>6, <1>7 DEF s

\* The undo log, as one record.
Log == [deltas |-> deltas, stake |-> stake_deltas, heights |-> heights]

\* What one more entry makes of the view below it.
LEMMA EntryLeads ==
  ASSUME NoViewIsNone, NEW d, NEW log, NEW V, Exact(d, log, V), NEW b \in DOMAIN log.deltas
  PROVE  LET s == d.node[b].sp
             u == IF s \in DOMAIN log.deltas THEN V[s].utxo ELSE NoEntries
             r == IF s \in DOMAIN log.deltas THEN V[s].stake ELSE NoStake
         IN  /\ apply_delta(log.deltas[b], u) = V[b].utxo
             /\ StakeOne(log.stake, 0, r, b) = V[b].stake
<1> DEFINE s == d.node[b].sp
           w == V[b]
<1>1. IsMade(w) /\ Entry(d, log, V, b)
  BY DEF Exact
<1>2. CASE s \in DOMAIN log.deltas
  <2> DEFINE v == V[s]
  <2>1. /\ log.deltas[b] = diff_utxo(v.utxo, w.utxo)
        /\ log.stake[b] = diff_stake(v.stake, w.stake)
        /\ After(v, w) /\ IsMade(v)
    BY <1>1, <1>2 DEF Entry, Exact
  <2>2. v.stake = Reg(v.stake.frozen)
    BY <2>1 DEF IsMade, Made, BackedBy
  <2>3. v.stake # NoView
    BY <2>2, RegistryIsSome
  <2> HIDE DEF v, w
  <2>4. /\ apply_delta(log.deltas[b], v.utxo) = w.utxo
        /\ stake_delta_applies(log.stake[b], v.stake)
        /\ apply_stake_delta(log.stake[b], v.stake) = w.stake
    BY <1>1, <2>1, DiffLeads
  <2>5. StakeOne(log.stake, 0, v.stake, b) = w.stake
    BY <2>3, <2>4 DEF StakeOne
  <2> QED
    BY <1>2, <2>4, <2>5 DEF v, w
<1>3. CASE s \notin DOMAIN log.deltas
  <2>1. Absorbed(log.deltas[b], w) /\ log.stake[b] = diff_stake(NoStake, w.stake)
    BY <1>1, <1>3 DEF Entry
  <2>2. NoStake # NoView
    BY NoStakeIs, RegistryIsSome
  <2> HIDE DEF w
  <2>3. apply_delta(log.deltas[b], NoEntries) = w.utxo
    BY <2>1 DEF Absorbed
  <2>4. StakeOne(log.stake, 0, NoStake, b) = w.stake
    BY <1>1, <2>1, <2>2, StakeLeads DEF StakeOne
  <2> QED
    BY <1>3, <2>3, <2>4 DEF w
<1> QED
  BY <1>2, <1>3

\* The views the undo log is exact about are the views that are rebuilt.
LEMMA ViewsAreRebuilt ==
  ASSUME NoViewIsNone, ByTheRule(dag), NoBlock \notin Nodes(dag), NEW V,
         Exact(dag, Log, V), DOMAIN deltas = NonFinal, NEW b \in NonFinal
  PROVE  reconstruct_state(b) = V[b].utxo /\ reconstruct_stake(b) = V[b].stake
<1> DEFINE N == Nodes(dag)
           path(x) == ViewPath(dag, x)
           Inside(x) == ToSet(path(x)) \subseteq NonFinal
           Fine(x) == /\ Inside(x) /\ ViewOf(x) = V[x].utxo
                      /\ RegistryOf(x) = V[x].stake
           Bad == {x \in NonFinal : ~Fine(x)}
<1>1. /\ NonFinal \in SUBSET N /\ Log.deltas = deltas /\ Log.stake = stake_deltas
      /\ DOMAIN stake_deltas = NonFinal
  BY DEF NonFinal, Log, Exact
<1>2. Bad = {}
  <2> SUFFICES ASSUME Bad # {} PROVE FALSE
    OBVIOUS
  <2>1. PICK x \in Bad : \A y \in Bad : y \notin dag.node[x].past
    <3>1. Bad \in SUBSET N
      BY <1>1
    <3> HIDE DEF Bad
    <3> QED
      BY <3>1, SameNodes, HasOldest DEF ByTheRule
  <2> DEFINE s == dag.node[x].sp
             u == IF s \in DOMAIN Log.deltas THEN V[s].utxo ELSE NoEntries
             r == IF s \in DOMAIN Log.deltas THEN V[s].stake ELSE NoStake
  <2>2. x \in NonFinal /\ ~Fine(x) /\ x \in N
    BY <1>1, <2>1
  <2>3. /\ apply_delta(deltas[x], u) = V[x].utxo
        /\ StakeOne(stake_deltas, 0, r, x) = V[x].stake
    BY <1>1, <2>2, EntryLeads
  <2>4. /\ path(x) \in Seq(N)
        /\ s \in NonFinal => /\ s \in N /\ s \in dag.node[x].past
                             /\ path(x) = Append(path(s), x)
        /\ s \notin NonFinal => path(x) = <<x>>
    BY <2>2, ViewPathSplits
  <2>5. CASE s \notin NonFinal
    <3>1. <<>> \in Seq(N) /\ path(x) = Append(<<>>, x)
      BY <2>4, <2>5
    <3>2. ToSet(path(x)) = {x}
      BY <2>4, <2>5 DEF ToSet
    <3>3. u = NoEntries /\ r = NoStake
      BY <1>1, <2>5
    <3> DEFINE e == <<>>
    <3>8. e \in Seq(N) /\ path(x) = Append(e, x) /\ e = <<>>
      BY <3>1
    <3>9. e \in Seq(N)
      BY <3>8
    <3> HIDE DEF e
    <3>4. Applies!Run(deltas, 0, NoEntries, Append(e, x))
            = apply_delta(deltas[x], Applies!Run(deltas, 0, NoEntries, e))
      BY <2>2, <3>9, Applies!RunAppend
    <3>5. Restakes!Run(stake_deltas, 0, NoStake, Append(e, x))
            = StakeOne(stake_deltas, 0, Restakes!Run(stake_deltas, 0, NoStake, e), x)
      BY <2>2, <3>9, Restakes!RunAppend
    <3>6. ViewOf(x) = V[x].utxo
      BY <2>3, <3>8, <3>3, <3>4, Applies!RunEmpty DEF ViewOf
    <3>7. RegistryOf(x) = V[x].stake
      BY <2>3, <3>8, <3>3, <3>5, Restakes!RunEmpty DEF RegistryOf
    <3> QED
      BY <2>2, <3>2, <3>6, <3>7
  <2>6. CASE s \in NonFinal
    <3> DEFINE rest == path(s)
    <3>1. s \in N /\ s \in dag.node[x].past /\ path(x) = Append(rest, x)
      BY <2>4, <2>6
    <3>2. rest \in Seq(N)
      BY <3>1, ViewPathSplits
    <3>3. Fine(s)
      BY <2>1, <2>6, <3>1
    <3>4. u = V[s].utxo /\ r = V[s].stake
      BY <1>1, <2>6
    <3>5. ToSet(path(x)) = ToSet(rest) \cup {x}
      <4> DEFINE n == Len(rest)
      <4> HIDE DEF rest
      <4>1. /\ n \in Nat /\ Append(rest, x) \in Seq(N) /\ Len(Append(rest, x)) = n + 1
            /\ Append(rest, x)[n + 1] = x
            /\ \A i \in 1 .. n : Append(rest, x)[i] = rest[i]
        BY <2>2, <3>2, AppendIs
      <4> DEFINE t == Append(rest, x)
      <4> HIDE DEF t
      <4>2. DOMAIN rest = 1 .. n /\ DOMAIN t = 1 .. n + 1 /\ path(x) = t
        BY <3>1, <3>2, <4>1 DEF t
      <4>3. 1 .. n + 1 = (1 .. n) \cup {n + 1}
        BY <4>1
      <4> HIDE DEF n
      <4> QED
        BY <4>1, <4>2, <4>3 DEF ToSet, t
    <3> HIDE DEF rest
    <3>6. Applies!Run(deltas, 0, NoEntries, Append(rest, x))
            = apply_delta(deltas[x], Applies!Run(deltas, 0, NoEntries, rest))
      BY <2>2, <3>2, Applies!RunAppend
    <3>7. Restakes!Run(stake_deltas, 0, NoStake, Append(rest, x))
            = StakeOne(stake_deltas, 0, Restakes!Run(stake_deltas, 0, NoStake, rest), x)
      BY <2>2, <3>2, Restakes!RunAppend
    <3>8. ViewOf(x) = V[x].utxo
      BY <2>3, <3>1, <3>3, <3>4, <3>6 DEF ViewOf, rest
    <3>9. RegistryOf(x) = V[x].stake
      BY <2>3, <3>1, <3>3, <3>4, <3>7 DEF RegistryOf, rest
    <3>10. Inside(x)
      BY <2>2, <3>3, <3>5 DEF rest
    <3> QED
      BY <2>2, <3>8, <3>9, <3>10
  <2> QED
    BY <2>5, <2>6
<1>3. \A x : reconstruct_state(x)
               = IF ToSet(path(x)) \subseteq DOMAIN deltas THEN ViewOf(x) ELSE NoView
  BY DEF reconstruct_state, ViewOf, NoEntries, Applies!Run, FoldLeft,
         Applies!MapThenFoldSet, MapThenFoldSet, Applies!Max, Max
<1>4. \A x : reconstruct_stake(x)
               = IF ToSet(path(x)) \subseteq DOMAIN stake_deltas THEN RegistryOf(x) ELSE NoView
  BY DEF reconstruct_stake, RegistryOf, StakeOne, Restakes!Run, FoldLeft,
         Restakes!MapThenFoldSet, MapThenFoldSet, Restakes!Max, Max
<1>5. Fine(b)
  BY <1>2
<1> HIDE DEF path
<1> QED
  BY <1>1, <1>3, <1>4, <1>5

-----------------------------------------------------------------------------
(***************************************************************************)
(* A block more, and its view.                                             *)
(***************************************************************************)
\* Heights are numbers.
LEMMA HeightsAreNat ==
  ASSUME ByTheRule(dag), NoBlock \notin Nodes(dag), NEW V, Exact(dag, Log, V),
         DOMAIN deltas \subseteq Nodes(dag), NEW b \in Nodes(dag)
  PROVE  chain_height_of(b) \in Nat /\ HeightOr0(b) + 1 \in Nat
<1> DEFINE chain == ChainTo(dag, b)
           known == {i \in DOMAIN chain : chain[i] \in DOMAIN heights}
           n == Len(chain)
           m == Max(known)
<1>1. \A x \in DOMAIN heights : heights[x] \in Nat
  BY HeightIs DEF Exact, Log
<1>2. chain \in Seq(Nodes(dag)) /\ chain # <<>>
  <2>1. Grounded(dag, Nodes(dag), dag)
    BY RuleGrounded
  <2> QED
    BY <2>1, ChainIs
<1>3. dag.node[b].blue_score \in Nat
  BY WellFormedIs DEF ByTheRule
<1>4. HeightOr0(b) + 1 \in Nat
  BY <1>1 DEF HeightOr0
<1>5. chain_height_of(b) = IF known = {} THEN dag.node[b].blue_score
                           ELSE heights[chain[m]] + n - m
  BY DEF chain_height_of
<1> HIDE DEF chain
<1>6. n \in Nat /\ n > 0 /\ DOMAIN chain = 1 .. n
  BY <1>2
<1>7. CASE known = {}
  BY <1>3, <1>4, <1>5, <1>7
<1>8. CASE known # {}
  <2>1. known \in (SUBSET (1 .. n)) \ {{}}
    BY <1>6, <1>8
  <2>2. m \in known
    <3> HIDE DEF known
    <3> QED
      BY <1>6, <2>1, MaxOfPrefix DEF m
  <2>3. heights[chain[m]] \in Nat /\ m \in 1 .. n
    BY <1>1, <1>6, <2>2
  <2> DEFINE h == heights[chain[m]]
  <2> HIDE DEF h, m, n, known
  <2>4. h + n - m \in Nat
    BY <1>6, <2>3 DEF h
  <2> QED
    BY <1>4, <1>5, <1>8, <2>4 DEF h
<1> QED
  BY <1>7, <1>8

\* The bodies of more blocks, and more blocks.
LEMMA KnownMore ==
  ASSUME NEW made, NEW T, NEW C, Known(made, T, C),
         NEW more, DOMAIN made \subseteq DOMAIN more, \A b \in DOMAIN made : more[b] = made[b],
         NEW D, C \subseteq D
  PROVE  Known(more, T, D)
<1>1. Universe(made) \subseteq Universe(more)
  <2> SUFFICES ASSUME NEW a \in DOMAIN made PROVE ToSet(made[a]) \subseteq Universe(more)
    BY DEF Universe
  <2>1. a \in DOMAIN more /\ more[a] = made[a]
    OBVIOUS
  <2> QED
    BY <2>1 DEF Universe
<1>2. ASSUME NEW x \in T, is_coinbase(x)
      PROVE  \E a \in D : a \in DOMAIN more /\ x \in ToSet(more[a])
  <2>1. PICK a \in C : a \in DOMAIN made /\ x \in ToSet(made[a])
    BY <1>2 DEF Known
  <2>2. a \in D /\ a \in DOMAIN more /\ x \in ToSet(more[a])
    BY <2>1
  <2> QED
    BY <2>2
<1> QED
  BY <1>1, <1>2 DEF Known

\* The view of a block that applies follows that of its selected parent.
LEMMA OwnViewComes ==
  ASSUME ByTheRule(dag), NoBlock \notin Nodes(dag), DOMAIN txs = Nodes(dag),
         \A b \in Nodes(dag) : IsTxList(txs[b]),
         NEW V, Exact(dag, Log, V), DOMAIN deltas \subseteq Nodes(dag), NEW s \in Nodes(dag),
         reconstruct_state(s) = V[s].utxo, reconstruct_stake(s) = V[s].stake,
         IsMade(V[s]), Known(txs, V[s].txs, dag.node[s].past \cup {s}),
         NEW ps \in SUBSET Nodes(dag), NEW id, id \notin Nodes(dag), NEW body, IsTxList(body),
         NEW made, made = Put(txs, id, body), UniqueIn(made),
         NEW q, q = mergeset_ordered(dag, s, ps), Clean(s, q),
         NEW own, own = OwnOutcome(s, body, MergedView(s, q)), own.ok
  PROVE  Comes(made, V[s].txs, V[s].utxo, V[s].stake,
               dag.node[s].past \cup {s} \cup ToSet(q) \cup {id}, own.utxo, own.stake)
<1> DEFINE v == V[s]
           C == dag.node[s].past \cup {s}
           N == Nodes(dag)
           n == Len(q)
           D == UpTo(C, q, n)
           mv == MergedView(s, q)
<1>1. /\ DOMAIN made = N \cup {id} /\ made[id] = body
      /\ \A b \in N : made[b] = txs[b] /\ b \in DOMAIN made
  BY DEF Put
<1>2. /\ q \in Seq(N) /\ DOMAIN q = 1 .. n /\ n \in Nat
      /\ \A i, j \in DOMAIN q : q[i] = q[j] => i = j
      /\ \A i \in DOMAIN q : q[i] \notin C
  BY MergesetOrdered
<1>3. C \subseteq N
  BY WellFormedIs DEF ByTheRule
<1>4. Comes(made, v.txs, v.utxo, v.stake, C, v.utxo, v.stake)
  <2>1. Known(made, v.txs, C)
    <3>1. DOMAIN txs \subseteq DOMAIN made /\ \A b \in DOMAIN txs : made[b] = txs[b]
      BY <1>1
    <3> HIDE DEF v, C
    <3>2. Known(txs, v.txs, C) /\ C \subseteq C
      BY DEF v, C
    <3> QED
      BY <3>1, <3>2, KnownMore
  <2>2. Made(v.txs, v.utxo, v.stake)
    BY DEF IsMade
  <2>3. Follows(v.txs, v.utxo, v.stake, v.txs, v.utxo, v.stake)
    BY FollowsSelf
  <2> HIDE DEF v, C
  <2> QED
    BY <2>1, <2>2, <2>3 DEF Comes
<1>5. \A b \in N : /\ b \in DOMAIN made /\ IsTxList(made[b]) /\ txs[b] = made[b]
                   /\ chain_height_of(b) \in Nat
  BY <1>1, HeightsAreNat
<1>6. Comes(made, v.txs, v.utxo, v.stake, D, mv.utxo, mv.stake)
  <2> DEFINE T == v.txs
  <2>1. Comes(made, T, reconstruct_state(s), reconstruct_stake(s), C,
              reconstruct_state(s), reconstruct_stake(s))
    BY <1>4
  <2> HIDE DEF T, C, N
  <2>2. Comes(made, T, reconstruct_state(s), reconstruct_stake(s), UpTo(C, q, Len(q)),
              MergedView(s, q).utxo, MergedView(s, q).stake)
    BY <1>2, <1>5, <2>1, MergesCome
  <2> QED
    BY <2>2 DEF T, C
<1>7. id \in DOMAIN made /\ id \notin D /\ IsTxList(made[id])
  <2>1. \A i \in 1 .. n : q[i] \in N
    BY <1>2
  <2> QED
    BY <1>1, <1>3, <2>1 DEF UpTo
<1>8. With(D, id) = C \cup ToSet(q) \cup {id}
  <2>1. {q[j] : j \in 1 .. n} = ToSet(q)
    BY <1>2 DEF ToSet
  <2> QED
    BY <2>1 DEF UpTo, With
<1> DEFINE h == HeightOr0(s) + 1
           subsidy == subsidy_at(h)
           k == mv.minted
           score == dag.node[s].blue_score + 1
<1>9. h \in Nat /\ own = apply_block_inner(mv.utxo, mv.stake, made[id], subsidy, k, h, score)
  BY <1>1, HeightsAreNat DEF OwnOutcome
<1> HIDE DEF h, subsidy, k, score, D, v, C, mv
<1>10. Comes(made, v.txs, v.utxo, v.stake, With(D, id), own.utxo, own.stake)
  <2> DEFINE T == v.txs
             u0 == v.utxo
             s0 == v.stake
             u == mv.utxo
             r == mv.stake
  <2>1. Comes(made, T, u0, s0, D, u, r)
    BY <1>6
  <2>2. own = apply_block_inner(u, r, made[id], subsidy, k, h, score)
    BY <1>9
  <2> HIDE DEF T, u0, s0, u, r
  <2>3. own.ok => Comes(made, T, u0, s0, With(D, id), own.utxo, own.stake)
    BY <1>7, <1>9, <2>1, <2>2, BlockComes
  <2> QED
    BY <2>3 DEF T, u0, s0
<1> QED
  BY <1>8, <1>10 DEF v, C

\* The undo log with the entry of a new block.
LEMMA PutKeepsExact ==
  ASSUME BlocksInv, DOMAIN deltas \subseteq Nodes(dag), NEW V, Exact(dag, Log, V),
         NEW d, NEW id, NEW ps, NEW w, Grown(dag, d, id, ps, w), id \notin Nodes(dag) \cup {NoBlock},
         NEW s \in DOMAIN deltas, d.node[id].sp = s,
         NEW v, IsMade(v), After(V[s], v), NEW h, h = HeightIn(d, id)
  PROVE  LET log == [deltas  |-> Put(deltas, id, diff_utxo(V[s].utxo, v.utxo)),
                     stake   |-> Put(stake_deltas, id, diff_stake(V[s].stake, v.stake)),
                     heights |-> Put(heights, id, h)]
             new == [b \in Nodes(d) |-> IF b = id THEN v ELSE V[b]]
         IN  Exact(d, log, new)
<1> DEFINE x == diff_utxo(V[s].utxo, v.utxo)
           y == diff_stake(V[s].stake, v.stake)
           log == [deltas |-> Put(deltas, id, x), stake |-> Put(stake_deltas, id, y),
                   heights |-> Put(heights, id, h)]
           new == [b \in Nodes(d) |-> IF b = id THEN v ELSE V[b]]
           D == DOMAIN deltas
<1>1. /\ Nodes(d) = Nodes(dag) \cup {id} /\ \A b \in Nodes(dag) : d.node[b] = dag.node[b]
      /\ ByTheRule(dag) /\ NoBlock \notin Nodes(dag)
  BY NoBlockAssumption DEF Grown, BlocksInv, Sound
<1>2. /\ DOMAIN stake_deltas = D /\ DOMAIN heights = D
      /\ \A b \in D : IsMade(V[b]) /\ heights[b] = HeightIn(dag, b) /\ Entry(dag, Log, V, b)
  BY DEF Exact, Log
<1>9. \A b \in D : HeightIn(d, b) = HeightIn(dag, b)
  <2>1. ByTheRule(d) /\ NoBlock \notin Nodes(d) /\ D \subseteq Nodes(dag)
    BY <1>1 DEF Grown, Sound
  <2> DEFINE e == dag
  <2>2. /\ ByTheRule(e) /\ Nodes(e) \subseteq Nodes(d) /\ D \subseteq Nodes(e)
        /\ \A b \in Nodes(e) : d.node[b] = e.node[b]
    BY <1>1, <2>1
  <2> HIDE DEF e, D
  <2>3. \A b \in Nodes(e) : HeightIn(d, b) = HeightIn(e, b)
    BY <2>1, <2>2, SameHeights
  <2> QED
    BY <2>2, <2>3 DEF e
<1>3. /\ DOMAIN log.deltas = D \cup {id} /\ log.deltas[id] = x
      /\ DOMAIN log.stake = D \cup {id} /\ log.stake[id] = y
      /\ DOMAIN log.heights = D \cup {id} /\ log.heights[id] = h
      /\ \A b \in D : b # id => /\ log.deltas[b] = deltas[b] /\ log.stake[b] = stake_deltas[b]
                                /\ log.heights[b] = heights[b]
  BY <1>2 DEF Put
<1>4. new[id] = v /\ \A b \in D : b # id => new[b] = V[b]
  BY <1>1
<1>5. \A b \in D : b # id /\ b \in Nodes(dag)
  OBVIOUS
<1> HIDE DEF new, log
<1>6. IsMade(new[id]) /\ log.heights[id] = HeightIn(d, id) /\ Entry(d, log, new, id)
  <2>1. s \in DOMAIN log.deltas /\ new[s] = V[s]
    BY <1>3, <1>4, <1>5
  <2>2. Entry(d, log, new, id)
    BY <1>3, <1>4, <2>1 DEF Entry, x, y
  <2> QED
    BY <1>3, <1>4, <2>2
<1>7. ASSUME NEW b \in D
      PROVE  IsMade(new[b]) /\ log.heights[b] = HeightIn(d, b) /\ Entry(d, log, new, b)
  <2> DEFINE a == d.node[b].sp
  <2>1. a = dag.node[b].sp /\ a # id
    <3>1. a = dag.node[b].sp
      BY <1>1, <1>5
    <3>2. a \in Nodes(dag) \/ a = NoBlock
      <4>1. CASE b = Genesis
        <5> DEFINE g == Rules!GenesisNode(dag.node[Genesis].work)
        <5>1. g.sp = NoBlock
          BY DEF Rules!GenesisNode
        <5>2. dag.node[Genesis] = g
          BY <1>1, GenesisFields
        <5> HIDE DEF g
        <5> QED
          BY <3>1, <4>1, <5>1, <5>2
      <4>2. CASE b # Genesis
        BY <1>1, <1>5, <3>1, <4>2, SelectedBelow
      <4> QED
        BY <4>1, <4>2
    <3> QED
      BY <3>1, <3>2
  <2>2. a \in DOMAIN log.deltas <=> a \in D
    BY <1>3, <2>1
  <2>3. a \in D => new[a] = V[a]
    BY <1>4, <1>5
  <2>4. Entry(dag, Log, V, b) /\ Log.deltas = deltas /\ Log.stake = stake_deltas
    BY <1>2 DEF Log
  <2>5. new[b] = V[b] /\ log.deltas[b] = deltas[b] /\ log.stake[b] = stake_deltas[b]
        /\ log.heights[b] = heights[b]
    BY <1>3, <1>4, <1>5
  <2> HIDE DEF D
  <2>6. Entry(d, log, new, b)
    BY <2>1, <2>2, <2>3, <2>4, <2>5 DEF Entry, D
  <2> QED
    BY <1>2, <1>9, <2>5, <2>6 DEF D
<1>8. Exact(d, log, new)
  BY <1>3, <1>6, <1>7 DEF Exact
<1> QED
  BY <1>8 DEF new, log, x, y

-----------------------------------------------------------------------------
(***************************************************************************)
(* The inductive invariant.  The views in it are ghosts: what each block   *)
(* of the undo log was found to make when it was connected.                *)
(***************************************************************************)
AllKnown(d, made, V) ==
  \A b \in Nodes(d) : ~is_final(d, b) => Known(made, V[b].txs, d.node[b].past \cup {b})

ViewsHold(V) ==
  /\ Exact(dag, Log, V)
  /\ AllKnown(dag, txs, V)
  /\ tip_state = V[selected_tip(dag)].utxo /\ tip_stake = V[selected_tip(dag)].stake

ViewsInv == BlocksInv /\ DOMAIN deltas = NonFinal /\ \E V : ViewsHold(V)

\* Then everything is available, the tip is what is rebuilt, and what is
\* bonded is backed.
LEMMA ViewsInvSuffices ==
  ASSUME ViewsInv, NoViewIsNone
  PROVE  StateAvailable /\ TipStateIsView /\ RegistryBacked
<1>1. PICK V : ViewsHold(V)
  BY DEF ViewsInv
<1>2. /\ Exact(dag, Log, V) /\ Sound(dag) /\ ByTheRule(dag) /\ NoBlock \notin Nodes(dag)
      /\ DOMAIN deltas = NonFinal
      /\ tip_state = V[selected_tip(dag)].utxo /\ tip_stake = V[selected_tip(dag)].stake
  BY <1>1, NoBlockAssumption DEF ViewsInv, ViewsHold, BlocksInv, Sound
<1>3. ASSUME NEW b \in NonFinal
      PROVE  /\ reconstruct_state(b) = V[b].utxo /\ reconstruct_stake(b) = V[b].stake
             /\ IsView(V[b].utxo) /\ BackedBy(V[b].stake, V[b].utxo)
  <2>1. IsMade(V[b])
    BY <1>2, <1>3 DEF Exact, Log
  <2> QED
    BY <1>2, <2>1, ViewsAreRebuilt DEF IsMade, Made
<1>4. StateAvailable
  <2>1. DOMAIN stake_deltas = NonFinal /\ DOMAIN heights = NonFinal
    BY <1>2 DEF Exact, Log
  <2>2. ASSUME NEW b \in NonFinal
        PROVE  reconstruct_state(b) # NoView /\ reconstruct_stake(b) # NoView
    <3>1. V[b].utxo # NoView
      BY <1>3 DEF IsView, NoViewIsNone
    <3>2. V[b].stake # NoView
      <4>1. V[b].stake = Reg(V[b].stake.frozen)
        BY <1>3 DEF BackedBy
      <4> QED
        BY <4>1, RegistryIsSome
    <3> QED
      BY <1>3, <3>1, <3>2
  <2> QED
    BY <1>2, <2>1, <2>2 DEF StateAvailable
<1>5. TipStateIsView
  <2>1. selected_tip(dag) \in NonFinal
    BY <1>2, TipIsHeaviest, FinalIs DEF NonFinal
  <2> QED
    BY <1>2, <1>3, <2>1 DEF TipStateIsView
<1>6. FrozenUnspent
  BY <1>3 DEF FrozenUnspent, BackedBy
<1>7. LockedExact
  <2> SUFFICES ASSUME NEW b \in NonFinal, NEW k
               PROVE  LET stake == reconstruct_stake(b)
                      IN  stake_of(stake, k)
                            = MapThenSumSet(LAMBDA op : stake.frozen[op].value,
                                            {op \in DOMAIN stake.frozen :
                                               stake.frozen[op].key = k})
    BY DEF LockedExact
  <2> DEFINE stake == reconstruct_stake(b)
             fr == stake.frozen
  <2>1. Bonded(fr) /\ stake = Reg(fr)
    BY <1>3 DEF BackedBy
  <2> HIDE DEF stake, fr
  <2>2. stake_of(stake, k) = Count(Amounts(fr), Bonds(fr, k))
    BY <2>1, StakeOfIs
  <2>3. MapThenSumSet(LAMBDA op : fr[op].value, Bonds(fr, k))
          = Count(Amounts(fr), Bonds(fr, k))
    BY <2>1, BondsSum
  <2>4. stake_of(stake, k) = MapThenSumSet(LAMBDA op : fr[op].value, Bonds(fr, k))
    BY <2>1, <2>2, <2>3
  <2> QED
    BY <2>4 DEF stake, fr, Bonds
<1> QED
  BY <1>4, <1>5, <1>6, <1>7 DEF RegistryBacked

-----------------------------------------------------------------------------
(***************************************************************************)
(* The steps.                                                              *)
(***************************************************************************)
\* Finality does not retreat, ids are not used twice, and a merged block that
\* does not apply has bonded nothing.
UniqueIds == UniqueIn(txs)

FinalStay(d, e) == \A b \in Nodes(d) : is_final(d, b) => is_final(e, b)

CleanMerge(d, e, id) == Clean(e.node[id].sp, mergeset_ordered(d, e.node[id].sp, e.node[id].parents))

\* apply_new_block keeps the views, and adds that of the new block.
LEMMA InsertViews ==
  ASSUME BlocksInv, DOMAIN deltas = NonFinal, NEW V, ViewsHold(V), NoViewIsNone,
         NEW id \in Id, NEW ps \in SUBSET Nodes(dag), NEW w \in Work,
         NEW body, IsTxList(body), Insert(id, ps, w, body),
         UniqueIn(txs'), FinalStay(dag, dag'), CleanMerge(dag, dag', id)
  PROVE  LET s   == Heaviest(dag, ps)
             own == OwnOutcome(s, body, MergedView(s, mergeset_ordered(dag, s, ps)))
         IN  /\ BlocksInv' /\ (DOMAIN deltas = NonFinal)'
             /\ \E W : /\ ViewsHold(W)' /\ \A b \in Nodes(dag) : W[b] = V[b]
                      /\ W[id].utxo = own.utxo /\ W[id].stake = own.stake
<1> DEFINE d == insert(dag, id, ps, w, NoPruning)
<1>1. id \notin Nodes(dag) /\ ps # {}
  BY DEF Insert, Admissible
<1>2. PICK s \in ps : /\ s = Heaviest(dag, ps) /\ ~is_final(dag, s)
                      /\ Connect(id, s, body, d, MergedView(s, mergeset_ordered(dag, s, ps)))
  BY DEF Insert
<1> DEFINE q      == mergeset_ordered(dag, s, ps)
           mv     == MergedView(s, q)
           own    == OwnOutcome(s, body, mv)
           h      == HeightOr0(s) + 1
           log    == [deltas  |-> Put(deltas, id, diff_utxo(reconstruct_state(s), own.utxo)),
                      stake   |-> Put(stake_deltas, id,
                                      diff_stake(reconstruct_stake(s), own.stake)),
                      heights |-> Put(heights, id, h)]
           lg     == prune(d, log)
<1>3. /\ own.ok /\ dag' = d /\ txs' = Put(txs, id, body)
      /\ tip_state' = TipView(d, id, own.utxo, tip_state)
      /\ tip_stake' = TipView(d, id, own.stake, tip_stake)
      /\ deltas' = lg.deltas /\ stake_deltas' = lg.stake /\ heights' = lg.heights
  BY <1>2 DEF Connect, Record
<1>4. d = Wired(dag, id, ps, w)
  BY InsertIs
<1> HIDE DEF d, own, mv
<1>5. /\ Sound(dag) /\ ByTheRule(dag) /\ NoBlock \notin Nodes(dag) /\ DOMAIN txs = Nodes(dag)
      /\ \A b \in Nodes(dag) : IsTxList(txs[b])
      /\ BlocksInv /\ DOMAIN deltas = NonFinal
  BY NoBlockAssumption DEF BlocksInv, Sound
<1>6. Grown(dag, d, id, ps, w) /\ id \notin Nodes(dag) \cup {NoBlock}
  BY <1>1, <1>4, <1>5, WiredSound, NumbersAssumption, NoBlockAssumption
<1>7. /\ Sound(d) /\ ByTheRule(d) /\ Nodes(d) = Nodes(dag) \cup {id}
      /\ NoBlock \notin Nodes(d) /\ d.node[id].parents = ps
      /\ \A b \in Nodes(dag) : d.node[b] = dag.node[b]
  BY <1>5, <1>6 DEF Grown, Sound
<1>8. /\ d.node[id].sp = s /\ d.node[id].past = dag.node[s].past \cup {s} \cup ToSet(q)
      /\ d.tips = (dag.tips \ ps) \cup {id}
  <2> DEFINE n == NewNode(dag, ps, w)
  <2>1. n.sp = s /\ n.past = dag.node[s].past \cup {s} \cup ToSet(q)
    BY <1>2 DEF NewNode
  <2> HIDE DEF n, q
  <2>2. d.node = [b \in Nodes(dag) \cup {id} |-> IF b = id THEN n ELSE dag.node[b]]
    BY <1>4 DEF Wired, n
  <2>3. d.tips = (dag.tips \ ps) \cup {id}
    BY <1>4 DEF Wired
  <2> QED
    BY <2>1, <2>2, <2>3
<1>9. s \in Nodes(dag) /\ s \in NonFinal /\ s \in DOMAIN deltas
  BY <1>2, <1>5 DEF NonFinal
<1>11. /\ Exact(dag, Log, V) /\ AllKnown(dag, txs, V)
       /\ tip_state = V[selected_tip(dag)].utxo /\ tip_stake = V[selected_tip(dag)].stake
  BY DEF ViewsHold
<1>12. reconstruct_state(s) = V[s].utxo /\ reconstruct_stake(s) = V[s].stake
  BY <1>5, <1>9, <1>11, ViewsAreRebuilt
<1>13. IsMade(V[s]) /\ Known(txs, V[s].txs, dag.node[s].past \cup {s})
  BY <1>2, <1>9, <1>11 DEF Exact, Log, AllKnown
<1> DEFINE C == dag.node[s].past \cup {s} \cup ToSet(q) \cup {id}
<1>14. Comes(txs', V[s].txs, V[s].utxo, V[s].stake, C, own.utxo, own.stake)
  <2>0. DOMAIN deltas \subseteq Nodes(dag)
    BY <1>5 DEF NonFinal
  <2>1. Clean(s, q)
    BY <1>3, <1>7, <1>8 DEF CleanMerge
  <2> DEFINE made == txs'
  <2>2. made = Put(txs, id, body) /\ UniqueIn(made)
    BY <1>3
  <2>3. own = OwnOutcome(s, body, MergedView(s, q)) /\ own.ok
    BY <1>3 DEF own, mv
  <2>4. q = mergeset_ordered(dag, s, ps)
    OBVIOUS
  <2> HIDE DEF made, q
  <2>5. Comes(made, V[s].txs, V[s].utxo, V[s].stake, C, own.utxo, own.stake)
    BY <1>1, <1>5, <1>9, <1>11, <1>12, <1>13, <2>0, <2>1, <2>2, <2>3, <2>4, OwnViewComes
  <2> QED
    BY <2>5 DEF made
<1> HIDE DEF C
<1>15. PICK R : /\ Known(txs', R, C) /\ Made(R, own.utxo, own.stake)
                /\ Follows(V[s].txs, V[s].utxo, V[s].stake, R, own.utxo, own.stake)
  BY <1>14 DEF Comes
<1> DEFINE v == [txs |-> R, utxo |-> own.utxo, stake |-> own.stake]
           new == [b \in Nodes(d) |-> IF b = id THEN v ELSE V[b]]
<1>16. IsMade(v) /\ After(V[s], v) /\ Known(txs', v.txs, C)
       /\ v.utxo = own.utxo /\ v.stake = own.stake
  BY <1>15 DEF IsMade, After
<1>17. h = HeightIn(d, id)
  <2>1. id # Genesis /\ Genesis \in Nodes(dag)
    BY <1>1, <1>5, SelectedBelow
  <2>2. HeightIn(d, id) = HeightIn(d, s) + 1
    BY <1>7, <1>8, <2>1, HeightIs
  <2> DEFINE e == dag
  <2>3. /\ ByTheRule(e) /\ Nodes(e) \subseteq Nodes(d) /\ s \in Nodes(e)
        /\ \A b \in Nodes(e) : d.node[b] = e.node[b]
    BY <1>5, <1>7, <1>9
  <2>4. s \in DOMAIN heights /\ heights[s] = HeightIn(e, s)
    BY <1>9, <1>11 DEF Exact, Log
  <2> HIDE DEF e
  <2>5. HeightIn(d, s) = HeightIn(e, s)
    BY <1>7, <2>3, SameHeights
  <2> QED
    BY <2>2, <2>4, <2>5 DEF HeightOr0
<1> HIDE DEF v, h, q
<1>18. Exact(d, log, new)
  <2>1. DOMAIN deltas \subseteq Nodes(dag)
    BY <1>5 DEF NonFinal
  <2>2. log = [deltas  |-> Put(deltas, id, diff_utxo(V[s].utxo, v.utxo)),
               stake   |-> Put(stake_deltas, id, diff_stake(V[s].stake, v.stake)),
               heights |-> Put(heights, id, h)]
    BY <1>12, <1>16
  <2> HIDE DEF log
  <2> QED
    BY <1>5, <1>6, <1>8, <1>9, <1>11, <1>16, <1>17, <2>1, <2>2, PutKeepsExact
<1>19. DOMAIN log.deltas = DOMAIN deltas \cup {id}
  BY DEF Put
<1>20. new[id] = v /\ \A b \in Nodes(dag) : new[b] = V[b]
  BY <1>1, <1>7
<1> HIDE DEF new, log
<1>21. DOMAIN lg.deltas = {b \in DOMAIN log.deltas : ~is_final(d, b)} /\ Exact(d, lg, new)
  <2>1. DOMAIN log.deltas \subseteq Nodes(d)
    BY <1>5, <1>7, <1>19 DEF NonFinal
  <2> QED
    BY <1>7, <1>18, <2>1, PruneKeepsExact
<1> HIDE DEF lg
<1>22. BlocksInv'
  <2>1. DOMAIN txs' = Nodes(dag') /\ \A b \in Nodes(dag') : IsTxList(txs'[b])
    BY <1>3, <1>5, <1>7 DEF Put
  <2> QED
    BY <1>3, <1>5, <1>7, <2>1 DEF BlocksInv
<1>23. (DOMAIN deltas = NonFinal)'
  <2>1. NonFinal' = {b \in Nodes(d) : ~is_final(d, b)}
    BY <1>3 DEF NonFinal
  <2>2. ASSUME NEW b \in Nodes(dag), ~is_final(d, b)
        PROVE  b \in DOMAIN deltas
    BY <1>3, <1>5, <2>2 DEF NonFinal, FinalStay
  <2>3. DOMAIN lg.deltas = {b \in Nodes(d) : ~is_final(d, b)}
    BY <1>5, <1>7, <1>19, <1>21, <2>2 DEF NonFinal
  <2> QED
    BY <1>3, <2>1, <2>3
<1>24. Exact(dag', Log', new)
  <2>1. Log' = [deltas |-> lg.deltas, stake |-> lg.stake, heights |-> lg.heights]
    BY <1>3 DEF Log
  <2>2. Exact(d, [deltas |-> lg.deltas, stake |-> lg.stake, heights |-> lg.heights], new)
    BY <1>21 DEF Exact, Entry
  <2> QED
    BY <1>3, <2>1, <2>2
<1>25. AllKnown(dag', txs', new)
  <2>1. ASSUME NEW b \in Nodes(d), ~is_final(d, b)
        PROVE  Known(txs', new[b].txs, d.node[b].past \cup {b})
    <3>1. CASE b = id
      <4>1. C = d.node[id].past \cup {id}
        BY <1>8 DEF C
      <4> QED
        BY <1>16, <1>20, <3>1, <4>1
    <3>2. CASE b \in Nodes(dag)
      <4> DEFINE T == V[b].txs
                 D == dag.node[b].past \cup {b}
                 made == txs'
      <4>1. ~is_final(dag, b)
        BY <1>3, <2>1, <3>2 DEF FinalStay
      <4>2. Known(txs, T, D)
        BY <1>11, <3>2, <4>1 DEF AllKnown
      <4>3. DOMAIN txs \subseteq DOMAIN made /\ \A a \in DOMAIN txs : made[a] = txs[a]
        BY <1>1, <1>3, <1>5 DEF Put
      <4>4. new[b] = V[b] /\ d.node[b] = dag.node[b]
        BY <1>7, <1>20, <3>2
      <4> HIDE DEF made, T, D
      <4>5. Known(made, T, D)
        BY <4>2, <4>3, KnownMore
      <4> QED
        BY <4>4, <4>5 DEF made, T, D
    <3> QED
      BY <1>7, <2>1, <3>1, <3>2
  <2> QED
    BY <1>3, <2>1 DEF AllKnown
<1>26. /\ tip_state' = new[selected_tip(d)].utxo /\ tip_stake' = new[selected_tip(d)].stake
  <2>1. selected_tip(d) \in {id, selected_tip(dag)}
    BY <1>1, <1>5, <1>6, <1>7, <1>8, <1>9, TipMoves, NumbersAssumption
  <2>2. CASE selected_tip(d) = id
    BY <1>3, <1>16, <1>20, <2>2 DEF TipView
  <2>3. CASE selected_tip(d) # id
    <3>1. selected_tip(d) = selected_tip(dag) /\ selected_tip(dag) \in Nodes(dag)
      BY <1>5, <2>1, <2>3, TipIsHeaviest
    <3> QED
      BY <1>3, <1>11, <1>20, <2>3, <3>1 DEF TipView
  <2> QED
    BY <2>2, <2>3
<1>27. PICK W : W = new
  OBVIOUS
<1>28. ViewsHold(W)'
  BY <1>3, <1>24, <1>25, <1>26, <1>27 DEF ViewsHold
<1>29. \A b \in Nodes(dag) : W[b] = V[b]
  BY <1>20, <1>27
<1>30. W[id].utxo = own.utxo /\ W[id].stake = own.stake
  BY <1>16, <1>20, <1>27
<1> QED
  BY <1>2, <1>22, <1>23, <1>28, <1>29, <1>30 DEF own, mv, q

\* Genesis alone, and its view.
LEMMA ViewsInvInit ==
  ASSUME Init
  PROVE  ViewsInv
<1> DEFINE cb == GenesisTxs[1]
           state == Created(cb, 0, TRUE)
           delta == diff_utxo(NoEntries, state)
           g == [txs |-> {cb}, utxo |-> state, stake |-> NoStake]
           V == [b \in {Genesis} |-> g]
<1>1. /\ dag = NewDag(1) /\ txs = [b \in {Genesis} |-> GenesisTxs]
      /\ tip_state = state /\ tip_stake = NoStake /\ deltas = [b \in {Genesis} |-> delta]
      /\ stake_deltas = [b \in {Genesis} |-> diff_stake(NoStake, NoStake)]
      /\ heights = [b \in {Genesis} |-> 0]
  BY DEF Init, NoEntries, AtGenesis
<1>2. Sound(dag) /\ Nodes(dag) = {Genesis}
  BY <1>1, NewSound, NumbersAssumption
<1>3. dag.node[Genesis].sp = NoBlock
  BY <1>1 DEF NewDag
<1>4. BlocksInv
  BY LedgerInvInit DEF LedgerInv
<1>5. selected_tip(dag) = Genesis /\ ~is_final(dag, Genesis)
  BY <1>2, TipIsHeaviest, FinalIs
<1>6. DOMAIN deltas = NonFinal
  BY <1>1, <1>2, <1>5 DEF NonFinal
<1>7. IsTx(cb) /\ is_coinbase(cb) /\ cb \in ToSet(GenesisTxs)
  BY GenesisAssumption DEF IsTxList, ToSet
<1>8. Tracks({cb}, state)
  <2>1. Spent(cb) = {}
    BY <1>7 DEF is_coinbase, Spent
  <2>2. \A op \in DOMAIN state : op[1] = cb.id
    BY DEF Created
  <2> HIDE DEF state, cb
  <2> QED
    BY <2>1, <2>2 DEF Tracks, IdsOf
<1>9. IsView(state) /\ IsUtxo(state)
  BY <1>7, CreatedTotal DEF IsView
<1>10. IsUtxo(NoEntries) /\ DOMAIN NoEntries = {}
  BY DEF NoEntries, IsUtxo
<1>11. BackedBy(NoStake, state)
  <2>1. NoStake.frozen = NoEntries
    BY NoStakeIs DEF Reg
  <2> HIDE DEF state
  <2> QED
    BY <1>10, <2>1, NoStakeIs DEF BackedBy
<1> HIDE DEF cb, state, delta
<1>12. IsMade(g) /\ g.txs = {cb} /\ g.utxo = state /\ g.stake = NoStake
  BY <1>8, <1>9, <1>11 DEF IsMade, Made
<1>13. Absorbed(delta, g)
  <2>1. apply_delta(delta, NoEntries) = state
    BY <1>9, <1>10, ApplyDiff DEF delta
  <2>2. delta.spent = {} /\ IsDelta(delta)
    BY <1>9, <1>10 DEF diff_utxo, ChangedFrom, IsDelta, IsUtxo, delta
  <2> QED
    BY <1>12, <2>1, <2>2 DEF Absorbed
<1> HIDE DEF g
<1>14. V[Genesis] = g
  OBVIOUS
<1> HIDE DEF V
<1>15. Exact(dag, Log, V)
  <2>1. /\ DOMAIN Log.deltas = {Genesis} /\ DOMAIN Log.stake = {Genesis}
        /\ DOMAIN Log.heights = {Genesis} /\ Log.deltas[Genesis] = delta
        /\ Log.stake[Genesis] = diff_stake(NoStake, NoStake) /\ Log.heights[Genesis] = 0
    BY <1>1 DEF Log
  <2>2. NoBlock # Genesis
    BY NoBlockAssumption
  <2>3. Entry(dag, Log, V, Genesis)
    BY <1>3, <1>12, <1>13, <1>14, <2>1, <2>2 DEF Entry
  <2>4. HeightIn(dag, Genesis) = 0
    <3>1. ByTheRule(dag) /\ NoBlock \notin Nodes(dag) /\ Genesis \in Nodes(dag)
      BY <1>2, NoBlockAssumption DEF Sound
    <3> QED
      BY <3>1, HeightIs
  <2> QED
    BY <1>12, <1>14, <2>1, <2>3, <2>4 DEF Exact
<1>16. AllKnown(dag, txs, V)
  <2>1. /\ DOMAIN txs = {Genesis} /\ cb \in ToSet(txs[Genesis])
    BY <1>1, <1>7
  <2>2. cb \in Universe(txs)
    BY <2>1 DEF Universe
  <2>3. Known(txs, g.txs, dag.node[Genesis].past \cup {Genesis})
    BY <1>12, <2>1, <2>2 DEF Known
  <2> QED
    BY <1>2, <1>14, <2>3 DEF AllKnown
<1>17. ViewsHold(V)
  BY <1>1, <1>5, <1>12, <1>14, <1>15, <1>16 DEF ViewsHold
<1> QED
  BY <1>4, <1>6, <1>17 DEF ViewsInv

\* "Finality only rises" (the comment on prune).
FinalityRises == [][FinalStay(dag, dag')]_vars

\* A merged block that does not apply has bonded and unbonded nothing.
NoStrayBonds == [][\A id \in Nodes(dag') \ Nodes(dag) : CleanMerge(dag, dag', id)]_vars

(***************************************************************************)
(* The undo log answers for every block that may be built upon, the        *)
(* materialised view of the tip is the rebuilt one, and every registry is  *)
(* backed by the outputs of its view, also in the totals producers are     *)
(* elected by: as long as ids are not used twice, finality does not        *)
(* retreat and failed blocks leave no bonds (README, known deviations).    *)
(***************************************************************************)
THEOREM ViewsAreExact ==
  ASSUME PayloadIsTyped, NoViewIsNone
  PROVE  Spec /\ []UniqueIds /\ FinalityRises /\ NoStrayBonds
           => [](StateAvailable /\ TipStateIsView /\ RegistryBacked)
<1> DEFINE Rises == FinalStay(dag, dag')
           NoStray == \A id \in Nodes(dag') \ Nodes(dag) : CleanMerge(dag, dag', id)
<1>1. Init => ViewsInv
  BY ViewsInvInit
<1>2. ViewsInv /\ UniqueIds' /\ [Next]_vars /\ [Rises]_vars /\ [NoStray]_vars => ViewsInv'
  <2> SUFFICES ASSUME ViewsInv, UniqueIds', [Next]_vars, [Rises]_vars, [NoStray]_vars
               PROVE  ViewsInv'
    OBVIOUS
  <2>1. CASE UNCHANGED vars
    BY <2>1 DEF vars, ViewsInv, BlocksInv, NonFinal, ViewsHold, Log
  <2>2. CASE ~UNCHANGED vars
    <3>1. Next /\ Rises /\ NoStray
      BY <2>2
    <3>2. PICK id \in Id, ps \in SUBSET Nodes(dag), w \in Work :
            \E body \in Payload(id, txs) : Insert(id, ps, w, body)
      BY <3>1 DEF Next
    <3>3. PICK body \in Payload(id, txs) : Insert(id, ps, w, body)
      BY <3>2
    <3>4. IsTxList(body)
      BY PayloadIsTyped DEF PayloadIsTyped, ViewsInv, BlocksInv
    <3>5. id \in Nodes(dag') \ Nodes(dag)
      <4>1. id \notin Nodes(dag)
        BY <3>3 DEF Insert, Admissible
      <4>2. dag' = insert(dag, id, ps, w, NoPruning)
        BY <3>3 DEF Insert, Connect, Record
      <4>3. dag' = Wired(dag, id, ps, w)
        BY <4>2, InsertIs
      <4>4. DOMAIN dag'.node = Nodes(dag) \cup {id}
        BY <4>3 DEF Wired
      <4> QED
        BY <4>1, <4>4 DEF Nodes
    <3>6. CleanMerge(dag, dag', id) /\ FinalStay(dag, dag') /\ UniqueIn(txs')
      BY <3>1, <3>5 DEF UniqueIds
    <3>7. PICK V : ViewsHold(V)
      BY DEF ViewsInv
    <3>8. BlocksInv' /\ (DOMAIN deltas = NonFinal)' /\ \E W : ViewsHold(W)'
      BY <3>3, <3>4, <3>6, <3>7, InsertViews DEF ViewsInv
    <3> QED
      BY <3>8 DEF ViewsInv
  <2> QED
    BY <2>1, <2>2
<1>3. ViewsInv => StateAvailable /\ TipStateIsView /\ RegistryBacked
  BY ViewsInvSuffices
<1> QED
  BY <1>1, <1>2, <1>3, PTL DEF Spec, FinalityRises, NoStrayBonds

-----------------------------------------------------------------------------
(***************************************************************************)
(* Replays: every view is what applying the order of its block gives.      *)
(***************************************************************************)
OutcomeIn(d, made, run, b) ==
  apply_block_inner(run.utxo, run.stake, made[b],
    IF b = Genesis THEN MaxSupply ELSE subsidy_at(HeightIn(d, b)),
    run.minted, HeightIn(d, b),
    IF b = Genesis THEN Ungated ELSE d.node[b].blue_score)

ReplayOne(d, made, run, b) == Counted(run, OutcomeIn(d, made, run, b))

Replays == INSTANCE LoopProofs WITH op <- ReplayOne, val <- LAMBDA c, x : 0

Nothing == [utxo |-> NoEntries, stake |-> NoStake, minted |-> 0, burned |-> 0, fees |-> 0]

\* The replay of the order of b in the DAG d with the transactions made.
RunOf(d, made, b) == Replays!Run(d, made, Nothing, OrderOf(d, b))

\* Replay is that loop.
LEMMA ReplayRuns ==
  ASSUME NEW q
  PROVE  Replay(q) = Replays!Run(dag, txs, Nothing, q)
BY DEF Replay, ReplayBlock, Outcome, TrueHeight, ReplayOne, OutcomeIn, HeightIn, Nothing,
       NoEntries, Replays!Run, FoldLeft, Replays!MapThenFoldSet, MapThenFoldSet, Replays!Max, Max

\* The past of a block is a DAG by the rule.
LEMMA PastIsRuled ==
  ASSUME NEW d, ByTheRule(d), NoBlock \notin Nodes(d), NEW b \in Nodes(d), NEW e,
         Nodes(e) = d.node[b].past \cup {b}, \A x \in Nodes(e) : e.node[x] = d.node[x]
  PROVE  ByTheRule(e) /\ Nodes(e) \subseteq Nodes(d)
<1> DEFINE P == Nodes(e)
<1>1. WellFormed(d) /\ Ruled(d) /\ PastIsAncestry(d)
  BY RuledAncestry DEF ByTheRule
<1>2. /\ P \subseteq Nodes(d) /\ IsFiniteSet(P) /\ P \subseteq Nat
      /\ \A x \in P : d.node[x].past \subseteq P
  <2>1. P \subseteq Nodes(d) /\ \A x \in P : d.node[x].past \subseteq P
    BY <1>1, WellFormedIs
  <2> QED
    BY <1>1, <2>1, WellFormedIs, FS_Subset
<1>3. \A x \in P : d.node[x].parents \subseteq P
  <2> TAKE x \in P
  <2>1. d.node[x].parents \subseteq d.node[x].past
    BY <1>1, <1>2 DEF PastIsAncestry, Rules!Ancestors
  <2> QED
    BY <1>2, <2>1
<1> HIDE DEF P
<1>4. \A x \in P : e.node[x] = d.node[x]
  BY DEF P
<1>5. WellFormed(e)
  <2>1. ASSUME NEW x \in P
        PROVE  /\ e.node[x].parents \subseteq P /\ e.node[x].past \subseteq P \ {x}
               /\ \A y \in e.node[x].past : e.node[y].past \subseteq e.node[x].past
               /\ DOMAIN e.node[x].sizes \subseteq e.node[x].past
               /\ e.node[x].work \in Nat /\ e.node[x].past_size \in Nat
               /\ e.node[x].blue_score \in Nat /\ e.node[x].blue_work \in Nat
    <3>1. x \in Nodes(d) /\ e.node[x] = d.node[x] /\ d.node[x].past \subseteq P
      BY <1>2, <1>4
    <3>2. \A y \in d.node[x].past : e.node[y] = d.node[y]
      BY <1>4, <3>1
    <3> QED
      BY <1>1, <1>3, <3>1, <3>2, WellFormedIs
  <2> QED
    BY <1>2, <2>1 DEF WellFormed, P
<1>6. SameIn(d, e, P)
  BY <1>4 DEF SameIn
<1>7. Ruled(e)
  <2>1. Genesis \in P
    BY GenesisBelow DEF P
  <2>2. ASSUME NEW x \in P, x # Genesis PROVE IsRuled(e, e.node[x])
    <3> DEFINE n == d.node[x]
    <3>1. /\ n.parents # {} /\ Rules!IsColouring(d, n.parents, n.sp, n.blues)
          /\ n = Rules!NodeOf(d, n.parents, n.work, n.sp, n.blues)
      BY <1>1, <1>2, <2>2 DEF Ruled, IsRuled
    <3>2. n.parents \in SUBSET P /\ n.sp \in n.parents
      BY <1>3, <3>1 DEF Rules!IsColouring, Rules!IsHeaviest
    <3>3. Rules!Ancestors(d, n.parents) \subseteq P
      BY <1>2, <3>2 DEF Rules!Ancestors
    <3>4. Rules!Inherited(d, n.sp) \subseteq P
      <4>1. n.sp \in P /\ n.sp \in Nodes(d)
        BY <1>2, <3>2
      <4>2. DOMAIN d.node[n.sp].sizes \subseteq d.node[n.sp].past
        BY <1>1, <4>1, WellFormedIs
      <4> QED
        BY <1>2, <4>1, <4>2 DEF Rules!Inherited
    <3>5. n.blues \in SUBSET P /\ n.sp \in P
      BY <3>1, <3>2, <3>3 DEF Rules!IsColouring, Rules!Merged
    <3> HIDE DEF n
    <3>6. Rules!IsColouring(e, n.parents, n.sp, n.blues)
      BY <1>6, <3>1, <3>2, <3>3, <3>4, <3>5, ColouringIn
    <3>7. Rules!NodeOf(d, n.parents, n.work, n.sp, n.blues) =
          Rules!NodeOf(e, n.parents, n.work, n.sp, n.blues)
      BY <1>6, <3>2, <3>4, <3>5, SameNode
    <3>8. IsRuled(e, n)
      BY <3>1, <3>6, <3>7 DEF IsRuled
    <3> QED
      BY <1>4, <3>8 DEF n
  <2>3. e.node[Genesis] = d.node[Genesis] /\ Genesis \in Nodes(d)
    BY <1>2, <1>4, <2>1
  <2>4. d.node[Genesis] = Rules!GenesisNode(d.node[Genesis].work)
    BY <1>1, <2>3, Zenon DEF Ruled
  <2>5. e.node[Genesis] = Rules!GenesisNode(e.node[Genesis].work)
    BY <2>3, <2>4
  <2>6. P = Nodes(e)
    BY DEF P
  <2> QED
    BY <2>1, <2>2, <2>5, <2>6, Zenon DEF Ruled
<1> QED
  BY <1>2, <1>5, <1>7 DEF ByTheRule, P

\* The replay of a past is that of the order of its block.
LEMMA ReplayIs ==
  ASSUME ByTheRule(dag), NoBlock \notin Nodes(dag), NEW b \in Nodes(dag)
  PROVE  ReplayPast(b) = RunOf(dag, txs, b)
<1> DEFINE d == dag
           e == PastDag(b)
           o == OrderOf(e, b)
<1>1. /\ Nodes(e) = d.node[b].past \cup {b} /\ e.tips = {b}
      /\ \A x \in Nodes(e) : e.node[x] = d.node[x]
  BY DEF PastDag, Nodes
<1> HIDE DEF d, e
<1>2. ByTheRule(d) /\ NoBlock \notin Nodes(d) /\ b \in Nodes(d)
  BY DEF d
<1>3. ByTheRule(e) /\ Nodes(e) \subseteq Nodes(d) /\ b \in Nodes(e) /\ NoBlock \notin Nodes(e)
  BY <1>1, <1>2, PastIsRuled
<1>4. o = OrderOf(d, b)
  BY <1>1, <1>2, <1>3, SameOrders
<1>5. selected_tip(e) = b
  BY <1>1 DEF selected_tip, Heaviest
<1>6. ToSet(o) = Nodes(e)
  <2>1. Lists(e, o, e.node[b].past \cup {b})
    BY <1>3, OrderLists
  <2> QED
    BY <1>1, <1>3, <2>1 DEF Lists
<1>7. o \in Seq(Nodes(e))
  BY <1>3, OrderIs
<1>8. linearize(e) = o \o SortTopo(e, {})
  <2> DEFINE rest == Nodes(e) \ ToSet(o)
  <2>1. linearize(e) = IF Genesis \in rest
                       THEN <<Genesis>> \o o \o SortTopo(e, rest \ {Genesis})
                       ELSE o \o SortTopo(e, rest)
    BY <1>5, Zenon DEF linearize, selected_chain, OrderOf
  <2>2. rest = {}
    BY <1>6
  <2> HIDE DEF rest
  <2> QED
    BY <2>1, <2>2
<1>9. SortTopo(e, {}) = <<>>
  BY <1>3, WellNumbered, SortTopoLists DEF ByTheRule
<1>10. linearize(e) = o
  BY <1>7, <1>8, <1>9
<1> QED
  BY <1>4, <1>10, ReplayRuns DEF ReplayPast, RunOf, d, e

\* An activation rule that is met stays met at a higher score.
LEMMA ActiveStays ==
  ASSUME NEW o, NEW score \in Int, NEW more \in Int, score <= more, Active(score, o)
  PROVE  Active(more, o)
<1>1. o.lock.kind \in DOMAIN Activation => more > Activation[o.lock.kind]
  BY NumbersAssumption DEF Active
<1>2. o.asset # Native => more > Activation["asset"]
  BY NumbersAssumption DEF Active
<1> QED
  BY <1>1, <1>2 DEF Active

LEMMA RegularStays ==
  ASSUME NEW utxo, NEW stake, NEW tx, NEW h, NEW score \in Int, NEW more \in Int, score <= more,
         regular_valid(utxo, stake, tx, h, score)
  PROVE  regular_valid(utxo, stake, tx, h, more)
<1>1. \A i \in DOMAIN tx.outs : Active(score, tx.outs[i])
  BY DEF regular_valid
<1>2. \A i \in DOMAIN tx.outs : Active(more, tx.outs[i])
  BY <1>1, ActiveStays
<1>3. ASSUME NEW i \in DOMAIN tx.ins
      PROVE  InputValid(utxo, tx, tx.ins[i], h, more)
  <2> DEFINE in == tx.ins[i]
             e == utxo[in.op]
  <2>1. InputValid(utxo, tx, in, h, score)
    BY DEF regular_valid
  <2> HIDE DEF in
  <2>2. /\ in.op \in DOMAIN utxo /\ Mature(e, h) /\ Active(score, e.output)
        /\ WitnessActive(score, in, e.output.lock)
        /\ SequenceAged(tx, e, h) /\ Unlocks(tx, in, e, h)
    BY <2>1 DEF InputValid
  <2> DEFINE o == e.output
  <2>3. Active(more, o)
    <3>1. Active(score, o)
      BY <2>2
    <3> HIDE DEF o
    <3> QED
      BY <3>1, ActiveStays
  <2>4. WitnessActive(more, in, e.output.lock)
    BY <2>2, NumbersAssumption DEF WitnessActive
  <2>5. InputValid(utxo, tx, in, h, more)
    BY <2>2, <2>3, <2>4 DEF InputValid
  <2> QED
    BY <2>5 DEF in
<1>4. \A i \in DOMAIN tx.outs : tx.outs[i].value > 0
  BY DEF regular_valid
<1>5. /\ tx.ins # <<>> /\ tx.outs # <<>> /\ tx.lock_time <= h
      /\ Cardinality(Spent(tx)) = Len(tx.ins) /\ Conserved(utxo, tx)
      /\ StakeRules(utxo, stake, tx, h) /\ AllNew(RemoveAll(utxo, Spent(tx)), tx)
  BY DEF regular_valid
<1> QED
  BY <1>2, <1>3, <1>4, <1>5 DEF regular_valid

\* Transactions that all apply do so at a higher score.
LEMMA RegularsStay ==
  ASSUME NEW utxo, NEW stake, NEW q, IsTxList(q), NEW h,
         NEW score \in Int, NEW more \in Int, score <= more,
         apply_regulars(utxo, stake, q, h, score).ok
  PROVE  apply_regulars(utxo, stake, q, h, more) = apply_regulars(utxo, stake, q, h, score)
<1> DEFINE base == [ok |-> TRUE, utxo |-> utxo, stake |-> stake, fees |-> 0]
           n == Len(q)
<1>1. n \in Nat /\ DOMAIN q = 1 .. n
  BY DEF IsTxList
<1>2. /\ apply_regulars(utxo, stake, q, h, score) = Spends!Run(h, score, base, q)
      /\ apply_regulars(utxo, stake, q, h, more) = Spends!Run(h, more, base, q)
  BY RegularsAre
<1>3. "ok" \in DOMAIN base
  OBVIOUS
<1> HIDE DEF base, n
<1>4. PICK f : Spends!IsLoop(h, score, base, n, q, f) /\ Spends!Run(h, score, base, q) = f[n]
  BY <1>1, Spends!LoopRuns
<1>5. PICK g : Spends!IsLoop(h, more, base, n, q, g) /\ Spends!Run(h, more, base, q) = g[n]
  BY <1>1, Spends!LoopRuns
<1>6. /\ f[0] = base /\ g[0] = base
      /\ \A i \in 1 .. n : f[i] = apply_regular(f[i - 1], q[i], h, score)
      /\ \A i \in 1 .. n : g[i] = apply_regular(g[i - 1], q[i], h, more)
  <2>1. 0 \in 0 .. n /\ \A i \in 1 .. n : i \in 0 .. n /\ i # 0
    BY <1>1
  <2> QED
    BY <1>4, <1>5, <2>1 DEF Spends!IsLoop
<1> DEFINE Good == {i \in 0 .. n : "ok" \in DOMAIN f[i] /\ (f[i].ok => g[i] = f[i])}
<1>7. 0 \in Good
  BY <1>1, <1>3, <1>6
<1>8. ASSUME NEW i \in 1 .. n, i - 1 \in Good PROVE i \in Good
  <2> DEFINE a == f[i - 1]
             b == g[i - 1]
             tx == q[i]
  <2>1. "ok" \in DOMAIN a /\ (a.ok => b = a) /\ i \in 0 .. n
    BY <1>1, <1>8
  <2>2. f[i] = apply_regular(a, tx, h, score) /\ g[i] = apply_regular(b, tx, h, more)
    BY <1>6
  <2> HIDE DEF a, b, tx
  <2>3. CASE ~a.ok \/ ~regular_valid(a.utxo, a.stake, tx, h, score)
    <3>1. f[i] = [a EXCEPT !.ok = FALSE]
      BY <2>2, <2>3 DEF apply_regular
    <3>2. "ok" \in DOMAIN f[i] /\ ~f[i].ok
      BY <2>1, <3>1
    <3> QED
      BY <2>1, <3>2
  <2>4. CASE a.ok /\ regular_valid(a.utxo, a.stake, tx, h, score)
    <3>1. b = a /\ regular_valid(a.utxo, a.stake, tx, h, more)
      BY <2>1, <2>4, RegularStays
    <3>2. f[i] = g[i]
      BY <2>2, <2>4, <3>1 DEF apply_regular
    <3>3. "ok" \in DOMAIN f[i]
      BY <2>2, <2>4 DEF apply_regular
    <3> QED
      BY <2>1, <3>2, <3>3
  <2> QED
    BY <2>3, <2>4
<1> HIDE DEF Good
<1>9. \A i \in 0 .. n : i \in Good
  BY <1>1, <1>7, <1>8, Spends!NatUpTo
<1>10. n \in Good
  BY <1>1, <1>9
<1> QED
  BY <1>2, <1>4, <1>5, <1>10 DEF Good

\* A block that applies does so at a higher score.
LEMMA BlockStays ==
  ASSUME NEW utxo, NEW stake, NEW body, IsTxList(body), NEW subsidy, NEW minted, NEW h,
         NEW score \in Int, NEW more \in Int, score <= more,
         apply_block_inner(utxo, stake, body, subsidy, minted, h, score).ok
  PROVE  apply_block_inner(utxo, stake, body, subsidy, minted, h, more)
           = apply_block_inner(utxo, stake, body, subsidy, minted, h, score)
<1> DEFINE cb == {body[i] : i \in {j \in DOMAIN body : j = 1 /\ is_coinbase(body[j])}}
           rest == IF cb = {} THEN body ELSE Tail(body)
           run(sc) == apply_regulars(utxo, stake, rest, h, sc)
           end(sc) == Settle(run(sc), cb, utxo, subsidy, minted, h, sc)
<1>1. \A sc : apply_block_inner(utxo, stake, body, subsidy, minted, h, sc) = end(sc)
  BY DEF apply_block_inner
<1>2. IsTxList(rest)
  BY RestIs
<1> HIDE DEF cb, rest
<1>3. end(score).ok
  BY <1>1
<1> DEFINE fine(sc) == \A c \in cb : coinbase_valid(run(sc).utxo, c, subsidy + fee_share(run(sc).fees),
                                                   minted, sc)
<1>4. run(score).ok /\ fine(score)
  <2> DEFINE r == run(score)
             ok == r.ok /\ \A c \in cb : coinbase_valid(r.utxo, c, subsidy + fee_share(r.fees),
                                                       minted, score)
  <2>1. Settle(r, cb, utxo, subsidy, minted, h, score) =
          IF ok
          THEN [ok     |-> TRUE,
                utxo   |-> WithCoinbase(r.utxo, h, cb),
                stake  |-> r.stake,
                fees   |-> r.fees,
                minted |-> Minted(cb)]
          ELSE [ok |-> FALSE, utxo |-> utxo, stake |-> r.stake, fees |-> 0, minted |-> 0]
    BY DEF Settle, WithCoinbase, Minted
  <2> HIDE DEF ok
  <2>2. ok
    BY <1>3, <2>1
  <2> QED
    BY <2>2 DEF ok
<1>5. run(more) = run(score)
  BY <1>2, <1>4, RegularsStay
<1>6. fine(more)
  <2> TAKE c \in cb
  <2> DEFINE u == run(score).utxo
             a == subsidy + fee_share(run(score).fees)
  <2>1. coinbase_valid(u, c, a, minted, score)
    BY <1>4
  <2> HIDE DEF u, a
  <2>2. \A i \in DOMAIN c.outs : Active(score, c.outs[i]) => Active(more, c.outs[i])
    BY ActiveStays
  <2>3. coinbase_valid(u, c, a, minted, more)
    BY <2>1, <2>2 DEF coinbase_valid
  <2> QED
    BY <1>5, <2>3 DEF u, a
<1> DEFINE r == run(score)
<1>7. \A sc : run(sc) = r /\ fine(sc) =>
        end(sc) = [ok |-> TRUE, utxo |-> WithCoinbase(r.utxo, h, cb), stake |-> r.stake,
                   fees |-> r.fees, minted |-> Minted(cb)]
  <2> TAKE sc
  <2> HAVE run(sc) = r /\ fine(sc)
  <2> HIDE DEF r
  <2>1. r.ok /\ \A c \in cb : coinbase_valid(r.utxo, c, subsidy + fee_share(r.fees), minted, sc)
    <3>1. r.ok
      BY <1>4 DEF r
    <3> QED
      BY <3>1
  <2> HIDE DEF run
  <2> QED
    BY <2>1 DEF Settle, WithCoinbase, Minted
<1> HIDE DEF run, end, fine, r
<1>8. run(score) = r /\ run(more) = r
  BY <1>5 DEF r
<1> QED
  BY <1>1, <1>4, <1>6, <1>7, <1>8

\* The order by key of old blocks does not change.
LEMMA SameSorts ==
  ASSUME NEW d, NEW e, NEW M, \A a \in M : e.node[a] = d.node[a]
  PROVE  SortTopo(e, M) = SortTopo(d, M)
<1>1. \A y \in M : {a \in M : TopoKeyLess(e, a, y)} = {a \in M : TopoKeyLess(d, a, y)}
  <2> TAKE y \in M
  <2>1. \A a \in M : TopoKeyLess(e, a, y) <=> TopoKeyLess(d, a, y)
    BY Zenon DEF TopoKeyLess
  <2> QED
    BY <2>1
<1> DEFINE in(i, y) == Cardinality({a \in M : TopoKeyLess(e, a, y)}) = i - 1
           jn(i, y) == Cardinality({a \in M : TopoKeyLess(d, a, y)}) = i - 1
<1>2. \A i \in 1 .. Cardinality(M) : \A y \in M : in(i, y) <=> jn(i, y)
  BY <1>1
<1> HIDE DEF in, jn
<1>3. \A i \in 1 .. Cardinality(M) : (CHOOSE y \in M : in(i, y)) = (CHOOSE y \in M : jn(i, y))
  BY <1>2
<1>4. [i \in 1 .. Cardinality(M) |-> CHOOSE y \in M : in(i, y)] =
      [i \in 1 .. Cardinality(M) |-> CHOOSE y \in M : jn(i, y)]
  BY <1>3
<1> QED
  BY <1>4, Zenon DEF SortTopo, in, jn

\* The blocks of d are as they were in e, transactions included.
Extends(d, e, made, more) ==
  /\ ByTheRule(d) /\ ByTheRule(e) /\ NoBlock \notin Nodes(e)
  /\ Nodes(d) \subseteq Nodes(e)
  /\ \A b \in Nodes(d) : e.node[b] = d.node[b] /\ more[b] = made[b]

\* One step of a replay of old blocks is what it was, and so is all of it.
LEMMA RunsAgree ==
  ASSUME NEW d, NEW e, NEW made, NEW more, Extends(d, e, made, more), NEW base,
         NEW q \in Seq(Nodes(d))
  PROVE  Replays!Run(e, more, base, q) = Replays!Run(d, made, base, q)
<1> DEFINE n == Len(q)
<1>1. n \in Nat /\ DOMAIN q = 1 .. n /\ \A i \in 1 .. n : q[i] \in Nodes(d)
  OBVIOUS
<1>2. ASSUME NEW i \in 1 .. n, NEW acc
      PROVE  ReplayOne(e, more, acc, q[i]) = ReplayOne(d, made, acc, q[i])
  <2> DEFINE b == q[i]
  <2>1. b \in Nodes(d) /\ e.node[b] = d.node[b] /\ more[b] = made[b]
    BY <1>1 DEF Extends
  <2> HIDE DEF b
  <2>2. HeightIn(e, b) = HeightIn(d, b)
    BY <2>1, SameHeights DEF Extends
  <2>3. OutcomeIn(e, more, acc, b) = OutcomeIn(d, made, acc, b)
    BY <2>1, <2>2 DEF OutcomeIn
  <2>4. ReplayOne(e, more, acc, b) = ReplayOne(d, made, acc, b)
    BY <2>3 DEF ReplayOne
  <2> QED
    BY <2>4 DEF b
<1> HIDE DEF n
<1> QED
  BY <1>1, <1>2, Replays!RunSame

\* The replay of an old block stays.
LEMMA RunStays ==
  ASSUME NEW d, NEW e, NEW made, NEW more, Extends(d, e, made, more), NEW x \in Nodes(d)
  PROVE  RunOf(e, more, x) = RunOf(d, made, x)
<1>1. OrderOf(e, x) = OrderOf(d, x)
  BY SameOrders DEF Extends
<1>2. OrderOf(d, x) \in Seq(Nodes(d))
  <2>1. NoBlock \notin Nodes(d)
    BY DEF Extends
  <2> QED
    BY <2>1, OrderIs DEF Extends
<1> DEFINE q == OrderOf(d, x)
<1> HIDE DEF q
<1>3. q \in Seq(Nodes(d))
  BY <1>2 DEF q
<1>4. Replays!Run(e, more, Nothing, q) = Replays!Run(d, made, Nothing, q)
  BY <1>3, RunsAgree
<1> QED
  BY <1>1, <1>4 DEF RunOf, q

\* The replay of a new block goes on from that of its selected parent: its
\* mergeset, then the block.
LEMMA NewRun ==
  ASSUME NEW d, NEW e, NEW made, NEW more, Extends(d, e, made, more),
         NEW id \in Nodes(e), id # Genesis, NEW s, s = e.node[id].sp, s \in Nodes(d),
         NEW ps \in SUBSET Nodes(d), ps = e.node[id].parents,
         NEW q, q = mergeset_ordered(d, s, ps)
  PROVE  RunOf(e, more, id) =
           ReplayOne(e, more, Replays!Run(d, made, RunOf(d, made, s), q), id)
<1> DEFINE M == Rules!Merged(d, s, ps)
           o == OrderOf(d, s)
<1>1. /\ ByTheRule(d) /\ ByTheRule(e) /\ NoBlock \notin Nodes(e) /\ NoBlock \notin Nodes(d)
      /\ Nodes(d) \subseteq Nodes(e) /\ \A b \in Nodes(d) : e.node[b] = d.node[b]
  BY DEF Extends
<1>2. q = SortTopo(d, M) /\ M \in SUBSET Nodes(d) /\ q \in Seq(Nodes(d))
  <2>1. WellFormed(d) /\ PastIsAncestry(d)
    BY <1>1, RuledAncestry DEF ByTheRule
  <2>2. mergeset_ordered(d, s, ps) = SortTopo(d, M) /\ M \in SUBSET Nodes(d)
    BY <2>1, MergesetIs
  <2>3. mergeset_ordered(d, s, ps) \in Seq(Nodes(d))
    BY <1>1, MergesetLists
  <2> QED
    BY <2>2, <2>3
<1>3. Rules!Merged(e, s, ps) = M
  <2>1. /\ e.node[s].past = d.node[s].past
        /\ {e.node[p].past : p \in ps} = {d.node[p].past : p \in ps}
    BY <1>1
  <2> QED
    BY <2>1 DEF Rules!Merged, Rules!Ancestors
<1>4. OrderOf(e, id) = OrderOf(e, s) \o Append(SortTopo(e, Rules!Merged(e, s, ps)), id)
  BY <1>1, OrderIs
<1>5. OrderOf(e, s) = o /\ o \in Seq(Nodes(d))
  BY <1>1, SameOrders, OrderIs
<1> HIDE DEF M, o
<1>6. SortTopo(e, M) = q
  BY <1>1, <1>2, SameSorts
<1>7. OrderOf(e, id) = o \o Append(q, id)
  BY <1>3, <1>4, <1>5, <1>6
<1> DEFINE N == Nodes(e)
<1>8. o \in Seq(N) /\ q \in Seq(N) /\ Append(q, id) \in Seq(N)
  BY <1>1, <1>2, <1>5
<1> DEFINE base == Replays!Run(e, more, Nothing, o)
           r == Append(q, id)
<1>9. Replays!Run(e, more, base, r) = ReplayOne(e, more, Replays!Run(e, more, base, q), id)
  <2>1. id \in N
    OBVIOUS
  <2> HIDE DEF base, N
  <2> QED
    BY <1>8, <2>1, Replays!RunAppend
<1>10. Replays!Run(e, more, Nothing, o \o r) = Replays!Run(e, more, base, r)
  <2> HIDE DEF r, N
  <2>1. r \in Seq(N)
    BY <1>8 DEF r
  <2> QED
    BY <1>8, <2>1, Replays!RunConcat
<1>11. base = RunOf(d, made, s)
  <2>1. Replays!Run(e, more, Nothing, o) = Replays!Run(d, made, Nothing, o)
    BY <1>5, RunsAgree
  <2> QED
    BY <2>1 DEF RunOf, o
<1> HIDE DEF base
<1>12. Replays!Run(e, more, base, q) = Replays!Run(d, made, base, q)
  BY <1>2, RunsAgree
<1> QED
  BY <1>7, <1>9, <1>10, <1>11, <1>12 DEF RunOf

\* When final blocks are as high as they score, chain_height_of is exact.
FallsBack(d) == \A b \in Nodes(d) : is_final(d, b) => d.node[b].blue_score = HeightIn(d, b)

LEMMA HeightsMatch ==
  ASSUME ByTheRule(dag), NoBlock \notin Nodes(dag), NEW V, Exact(dag, Log, V),
         DOMAIN deltas = NonFinal, FallsBack(dag), NEW b \in Nodes(dag)
  PROVE  /\ chain_height_of(b) = HeightIn(dag, b)
         /\ b \in NonFinal => HeightOr0(b) = HeightIn(dag, b)
<1> DEFINE d == dag
           chain == ChainTo(d, b)
           known == {i \in DOMAIN chain : chain[i] \in DOMAIN heights}
           n == Len(chain)
           m == Max(known)
<1>1. DOMAIN heights = NonFinal /\ \A x \in NonFinal : heights[x] = HeightIn(d, x)
  BY DEF Exact, Log
<1>2. /\ chain \in Seq(Nodes(d)) /\ chain # <<>> /\ chain[n] = b
      /\ \A i \in 1 .. n : HeightIn(d, chain[i]) = i - 1
  <2>1. ByTheRule(d) /\ NoBlock \notin Nodes(d) /\ b \in Nodes(d)
    OBVIOUS
  <2> HIDE DEF d
  <2> QED
    BY <2>1, ChainPlaces
<1>3. HeightIn(d, b) = n - 1
  BY DEF HeightIn
<1>4. chain_height_of(b) = IF known = {} THEN d.node[b].blue_score
                           ELSE heights[chain[m]] + n - m
  BY DEF chain_height_of
<1>5. b \in NonFinal => HeightOr0(b) = HeightIn(d, b)
  BY <1>1 DEF HeightOr0
<1>6. b \notin NonFinal => d.node[b].blue_score = HeightIn(d, b)
  BY DEF NonFinal, FallsBack
<1> HIDE DEF chain, d
<1>7. n \in Nat /\ n > 0 /\ DOMAIN chain = 1 .. n
  BY <1>2
<1>8. CASE known = {}
  <2>1. b \notin NonFinal
    BY <1>1, <1>2, <1>7, <1>8
  <2> QED
    BY <1>4, <1>5, <1>6, <1>8, <2>1 DEF d
<1>9. CASE known # {}
  <2>1. known \in (SUBSET (1 .. n)) \ {{}}
    BY <1>7, <1>9
  <2>2. m \in known
    <3> HIDE DEF known
    <3> QED
      BY <1>7, <2>1, MaxOfPrefix DEF m
  <2>3. m \in 1 .. n /\ heights[chain[m]] = m - 1
    BY <1>1, <1>2, <1>7, <2>2
  <2> HIDE DEF m, n, known
  <2>4. heights[chain[m]] + n - m = n - 1
    BY <1>7, <2>3
  <2> QED
    BY <1>3, <1>4, <1>5, <1>9, <2>4 DEF d
<1> QED
  BY <1>8, <1>9

\* A replay that has counted all it minted and all fees.
Level(run) ==
  /\ IsView(run.utxo) /\ run.minted \in Nat /\ run.minted <= MaxSupply
  /\ run.fees \in Nat /\ run.burned \in Nat
  /\ Total(run.utxo, Native) + run.fees = run.minted

LEMMA LevelStarts == Level(Nothing)
<1>1. MaxSupply \in Nat
  BY NumbersAssumption
<1>2. IsView(NoEntries) /\ Total(NoEntries, Native) = 0
  BY NoEntriesIs
<1>3. Nothing.utxo = NoEntries /\ Nothing.minted = 0 /\ Nothing.fees = 0 /\ Nothing.burned = 0
  BY DEF Nothing
<1> QED
  BY <1>1, <1>2, <1>3 DEF Level

LEMMA LevelOne ==
  ASSUME NEW run, Level(run), NEW d, NEW made, NEW b, IsTxList(made[b])
  PROVE  Level(ReplayOne(d, made, run, b))
<1> DEFINE r == OutcomeIn(d, made, run, b)
           utxo == run.utxo
           minted == run.minted
           subsidy == IF b = Genesis THEN MaxSupply ELSE subsidy_at(HeightIn(d, b))
           h == HeightIn(d, b)
           score == IF b = Genesis THEN Ungated ELSE d.node[b].blue_score
           body == made[b]
           stake == run.stake
<1>1. r = apply_block_inner(utxo, stake, body, subsidy, minted, h, score)
  BY DEF OutcomeIn
<1>2. /\ IsView(utxo) /\ minted \in Nat /\ minted <= MaxSupply /\ MaxSupply \in Nat
      /\ IsTxList(body) /\ run.fees \in Nat /\ run.burned \in Nat
      /\ Total(utxo, Native) + run.fees = minted
  BY NumbersAssumption DEF Level
<1>3. Total(utxo, Native) \in Nat
  BY <1>2, TotalIs
<1> HIDE DEF r, utxo, minted, subsidy, h, score, body, stake
<1>4. Balances(utxo, minted, r)
  BY <1>1, <1>2, BlockBalances
<1>5. /\ IsView(r.utxo) /\ r.fees \in Nat /\ r.minted \in Nat
      /\ Total(r.utxo, Native) + r.fees = Total(utxo, Native) + r.minted
      /\ minted + r.minted <= MaxSupply
  BY <1>4 DEF Balances
<1>6. Total(r.utxo, Native) \in Nat
  BY <1>5, TotalIs
<1>7. CASE ~r.ok
  BY <1>7 DEF ReplayOne, Counted, r
<1>8. CASE r.ok
  <2> DEFINE new == ReplayOne(d, made, run, b)
  <2>1. new = [utxo |-> r.utxo, stake |-> r.stake, minted |-> run.minted + r.minted,
               burned |-> run.burned + burned(r.fees), fees |-> run.fees + r.fees]
    BY <1>8 DEF ReplayOne, Counted, r
  <2>2. burned(r.fees) \in Nat
    BY <1>5, BurnedIs
  <2>3. /\ new.utxo = r.utxo /\ new.minted = minted + r.minted
        /\ new.burned = run.burned + burned(r.fees) /\ new.fees = run.fees + r.fees
    BY <2>1 DEF minted
  <2> HIDE DEF new
  <2>4. Total(r.utxo, Native) + (run.fees + r.fees) = minted + r.minted
    BY <1>2, <1>3, <1>5, <1>6
  <2>5. Level(new)
    BY <1>2, <1>5, <2>2, <2>3, <2>4 DEF Level
  <2> QED
    BY <2>5 DEF new
<1> QED
  BY <1>7, <1>8

\* A replay stays level, whatever it applies.
LEMMA LevelRuns ==
  ASSUME NEW base, Level(base), NEW d, NEW made, NEW S, NEW q \in Seq(S),
         \A b \in S : IsTxList(made[b])
  PROVE  Level(Replays!Run(d, made, base, q))
<1> DEFINE n == Len(q)
<1>1. n \in Nat /\ DOMAIN q = 1 .. n /\ \A i \in 1 .. n : IsTxList(made[q[i]])
  OBVIOUS
<1> HIDE DEF n
<1>2. PICK f : Replays!IsLoop(d, made, base, n, q, f) /\ Replays!Run(d, made, base, q) = f[n]
  BY <1>1, Replays!LoopRuns
<1>3. f[0] = base /\ \A i \in 1 .. n : f[i] = ReplayOne(d, made, f[i - 1], q[i])
  <2>1. 0 \in 0 .. n /\ \A i \in 1 .. n : i \in 0 .. n /\ i # 0
    BY <1>1
  <2> QED
    BY <1>2, <2>1 DEF Replays!IsLoop
<1> DEFINE Good == {i \in 0 .. n : Level(f[i])}
<1>4. 0 \in Good
  BY <1>1, <1>3
<1>5. ASSUME NEW i \in 1 .. n, i - 1 \in Good PROVE i \in Good
  <2>1. Level(f[i - 1]) /\ i \in 0 .. n
    BY <1>1, <1>5
  <2>2. Level(f[i])
    BY <1>1, <1>3, <2>1, LevelOne
  <2> QED
    BY <2>1, <2>2
<1> HIDE DEF Good
<1>6. \A i \in 0 .. n : i \in Good
  BY <1>1, <1>4, <1>5, Spends!NatUpTo
<1>7. n \in Good
  BY <1>1, <1>6
<1> QED
  BY <1>2, <1>7 DEF Good

LEMMA RunLevel ==
  ASSUME NEW d, ByTheRule(d), NoBlock \notin Nodes(d), NEW made,
         \A b \in Nodes(d) : IsTxList(made[b]), NEW x \in Nodes(d)
  PROVE  Level(RunOf(d, made, x))
<1> DEFINE q == OrderOf(d, x)
           N == Nodes(d)
<1>1. q \in Seq(N) /\ \A b \in N : IsTxList(made[b])
  BY OrderIs
<1> HIDE DEF q, N
<1>2. Level(Replays!Run(d, made, Nothing, q))
  BY <1>1, LevelStarts, LevelRuns
<1> QED
  BY <1>2 DEF RunOf, q

-----------------------------------------------------------------------------
\* The ledger's view of a block and its replay say the same.
Matches(view, run) ==
  /\ view.utxo = run.utxo /\ view.stake = run.stake
  /\ view.minted = run.minted /\ view.fees = run.burned

\* A block that fails mints and burns nothing, and leaves the outputs alone.
LEMMA FailedBlock ==
  ASSUME NEW utxo, NEW stake, NEW body, NEW subsidy, NEW minted, NEW h, NEW score,
         ~apply_block_inner(utxo, stake, body, subsidy, minted, h, score).ok
  PROVE  LET r == apply_block_inner(utxo, stake, body, subsidy, minted, h, score)
         IN  r.utxo = utxo /\ r.minted = 0 /\ r.fees = 0
<1> DEFINE cb == {body[i] : i \in {j \in DOMAIN body : j = 1 /\ is_coinbase(body[j])}}
           run == apply_regulars(utxo, stake, IF cb = {} THEN body ELSE Tail(body), h, score)
           ok == run.ok /\ \A c \in cb : coinbase_valid(run.utxo, c, subsidy + fee_share(run.fees),
                                                        minted, score)
<1>1. apply_block_inner(utxo, stake, body, subsidy, minted, h, score)
        = Settle(run, cb, utxo, subsidy, minted, h, score)
  BY DEF apply_block_inner
<1>2. Settle(run, cb, utxo, subsidy, minted, h, score)
        = IF ok
          THEN [ok |-> TRUE, utxo |-> WithCoinbase(run.utxo, h, cb), stake |-> run.stake,
                fees |-> run.fees, minted |-> Minted(cb)]
          ELSE [ok |-> FALSE, utxo |-> utxo, stake |-> run.stake, fees |-> 0, minted |-> 0]
  BY DEF Settle, WithCoinbase, Minted
<1> HIDE DEF ok, run, cb
<1> QED
  BY <1>1, <1>2

\* A merged block adds to a view what it adds to its replay.
LEMMA MergeMatches ==
  ASSUME NEW view, NEW run, Matches(view, run), Level(run), NEW b, b # Genesis,
         chain_height_of(b) = HeightIn(dag, b),
         MergedOutcome(view, b, chain_height_of(b)).ok
           \/ MergedOutcome(view, b, chain_height_of(b)).stake = view.stake
  PROVE  Matches(ApplyMerged(view, b), ReplayOne(dag, txs, run, b))
<1> DEFINE h == chain_height_of(b)
           r == MergedOutcome(view, b, h)
           new == ReplayOne(dag, txs, run, b)
<1>1. OutcomeIn(dag, txs, run, b) = r
  BY DEF OutcomeIn, MergedOutcome, Matches
<1>2. new = Counted(run, r)
  BY <1>1 DEF ReplayOne
<1>3. ApplyMerged(view, b) = CountedIn(view, r)
  BY DEF ApplyMerged
<1>4. ~r.ok => r.utxo = view.utxo /\ r.minted = 0 /\ r.fees = 0
  BY FailedBlock DEF MergedOutcome
<1>5. r.ok \/ r.stake = view.stake
  OBVIOUS
<1> HIDE DEF r, new
<1>6. /\ view.utxo = run.utxo /\ view.stake = run.stake
      /\ view.minted = run.minted /\ view.fees = run.burned
      /\ run.minted \in Nat /\ run.burned \in Nat
  BY DEF Matches, Level
<1> DEFINE w == CountedIn(view, r)
<1>7. /\ w.utxo = r.utxo /\ w.stake = r.stake
      /\ w.minted = view.minted + r.minted /\ w.fees = view.fees + burned(r.fees)
  BY DEF CountedIn
<1> HIDE DEF w
<1>8. CASE r.ok
  <2>1. /\ new.utxo = r.utxo /\ new.stake = r.stake
        /\ new.minted = run.minted + r.minted /\ new.burned = run.burned + burned(r.fees)
    BY <1>2, <1>8 DEF Counted
  <2> QED
    BY <1>3, <1>6, <1>7, <2>1 DEF Matches, w, new
<1>9. CASE ~r.ok
  <2>1. new = run
    BY <1>2, <1>9 DEF Counted
  <2>2. burned(r.fees) = 0
    BY <1>4, <1>9 DEF burned, FeeDen
  <2>3. view.minted + r.minted = run.minted /\ view.fees + burned(r.fees) = run.burned
    BY <1>4, <1>6, <1>9, <2>2
  <2> QED
    BY <1>3, <1>4, <1>5, <1>6, <1>7, <1>9, <2>1, <2>3 DEF Matches, w, new
<1> QED
  BY <1>8, <1>9

\* A mergeset adds to a view what it adds to its replay.
LEMMA MergesMatch ==
  ASSUME NEW s, NEW run, Matches(SelectedView(s), run), Level(run), NEW S, NEW q \in Seq(S),
         \A b \in S : b # Genesis /\ chain_height_of(b) = HeightIn(dag, b) /\ IsTxList(txs[b]),
         Clean(s, q)
  PROVE  /\ Matches(MergedView(s, q), Replays!Run(dag, txs, run, q))
         /\ Level(Replays!Run(dag, txs, run, q))
<1> DEFINE n == Len(q)
           d == dag
           made == txs
<1>1. n \in Nat /\ DOMAIN q = 1 .. n
  OBVIOUS
<1>2. PICK g : /\ g[0] = SelectedView(s) /\ g[n] = MergedView(s, q)
               /\ \A i \in 1 .. n : /\ g[i] = ApplyMerged(g[i - 1], q[i])
                                    /\ g[i - 1] = MergedView(s, SubSeq(q, 1, i - 1))
  BY MergeSteps
<1>3. \A b \in S : IsTxList(made[b])
  OBVIOUS
<1> HIDE DEF d, made, n
<1>4. PICK f : Replays!IsLoop(d, made, run, n, q, f) /\ Replays!Run(d, made, run, q) = f[n]
  BY <1>1, Replays!LoopRuns
<1>5. f[0] = run /\ \A i \in 1 .. n : f[i] = ReplayOne(d, made, f[i - 1], q[i])
  <2>1. 0 \in 0 .. n /\ \A i \in 1 .. n : i \in 0 .. n /\ i # 0
    BY <1>1
  <2> QED
    BY <1>4, <2>1 DEF Replays!IsLoop
<1> DEFINE Good == {i \in 0 .. n : Matches(g[i], f[i]) /\ Level(f[i])}
<1>6. 0 \in Good
  BY <1>1, <1>2, <1>5
<1>7. ASSUME NEW i \in 1 .. n, i - 1 \in Good PROVE i \in Good
  <2> DEFINE view == g[i - 1]
             acc == f[i - 1]
             b == q[i]
  <2>1. Matches(view, acc) /\ Level(acc) /\ i \in 0 .. n
    BY <1>1, <1>7
  <2>2. b \in S /\ i \in DOMAIN q
    BY <1>1
  <2>3. g[i] = ApplyMerged(view, b) /\ view = MergedView(s, SubSeq(q, 1, i - 1))
        /\ f[i] = ReplayOne(d, made, acc, b)
    BY <1>2, <1>5
  <2>4. LET r == MergedOutcome(view, b, chain_height_of(b)) IN r.ok \/ r.stake = view.stake
    BY <2>2, <2>3 DEF Clean
  <2>5. b # Genesis /\ chain_height_of(b) = HeightIn(dag, b) /\ IsTxList(made[b])
    BY <1>3, <2>2
  <2> HIDE DEF view, acc, b
  <2>6. Matches(ApplyMerged(view, b), ReplayOne(dag, txs, acc, b))
    BY <2>1, <2>4, <2>5, MergeMatches
  <2>7. Level(ReplayOne(d, made, acc, b))
    BY <2>1, <2>5, LevelOne
  <2> QED
    BY <2>1, <2>3, <2>6, <2>7 DEF d, made
<1> HIDE DEF Good
<1>8. \A i \in 0 .. n : i \in Good
  BY <1>1, <1>6, <1>7, Spends!NatUpTo
<1>9. n \in Good
  BY <1>1, <1>8
<1>10. Matches(g[n], f[n]) /\ Level(f[n])
  BY <1>9 DEF Good
<1> QED
  BY <1>2, <1>4, <1>10 DEF d, made

\* What apply_new_block writes for block id with the transactions body: s is its
\* selected parent, q its mergeset, mv the merged view, own the outcome.
Recorded(id, ps, body, s, q, mv, own) ==
  LET m == mv.minted + own.minted
      f == mv.fees + burned(own.fees)
  IN  /\ s \in ps /\ s \in Nodes(dag) /\ s \in NonFinal /\ own.ok
      /\ id \notin Nodes(dag) /\ id # Genesis
      /\ Extends(dag, dag', txs, txs') /\ Sound(dag) /\ Sound(dag')
      /\ Nodes(dag') = Nodes(dag) \cup {id} /\ txs' = Put(txs, id, body)
      /\ dag'.node[id].sp = s /\ dag'.node[id].parents = ps
      /\ dag'.node[id].past = dag.node[s].past \cup {s} \cup ToSet(q)
      /\ block_minted' = Put(block_minted, id, m) /\ block_fees' = Put(block_fees, id, f)
      /\ supply' = TipView(dag', id, [native_minted |-> m, fees_burned |-> f], supply)
      /\ selected_tip(dag) \in Nodes(dag)
      /\ selected_tip(dag') \in {id, selected_tip(dag)}

LEMMA InsertShape ==
  ASSUME BlocksInv, NEW id \in Id, NEW ps \in SUBSET Nodes(dag), NEW w \in Work,
         NEW body, Insert(id, ps, w, body)
  PROVE  LET s   == Heaviest(dag, ps)
             q   == mergeset_ordered(dag, s, ps)
             mv  == MergedView(s, q)
             own == OwnOutcome(s, body, mv)
         IN  Recorded(id, ps, body, s, q, mv, own)
<1> DEFINE d == insert(dag, id, ps, w, NoPruning)
<1>1. id \notin Nodes(dag) /\ ps # {}
  BY DEF Insert, Admissible
<1>2. PICK s \in ps : /\ s = Heaviest(dag, ps) /\ ~is_final(dag, s)
                      /\ Connect(id, s, body, d, MergedView(s, mergeset_ordered(dag, s, ps)))
  BY DEF Insert
<1> DEFINE q   == mergeset_ordered(dag, s, ps)
           mv  == MergedView(s, q)
           own == OwnOutcome(s, body, mv)
           m   == mv.minted + own.minted
           f   == mv.fees + burned(own.fees)
<1>3. /\ own.ok /\ dag' = d /\ txs' = Put(txs, id, body)
      /\ block_minted' = Put(block_minted, id, m) /\ block_fees' = Put(block_fees, id, f)
      /\ supply' = TipView(d, id, [native_minted |-> m, fees_burned |-> f], supply)
  BY <1>2 DEF Connect, Record
<1>4. d = Wired(dag, id, ps, w)
  BY InsertIs
<1> HIDE DEF d, mv, own, m, f
<1>5. Sound(dag) /\ ByTheRule(dag) /\ NoBlock \notin Nodes(dag) /\ DOMAIN txs = Nodes(dag)
  BY NoBlockAssumption DEF BlocksInv, Sound
<1>6. Grown(dag, d, id, ps, w) /\ id \notin Nodes(dag) \cup {NoBlock}
  BY <1>1, <1>4, <1>5, WiredSound, NumbersAssumption, NoBlockAssumption
<1>7. /\ Sound(d) /\ ByTheRule(d) /\ Nodes(d) = Nodes(dag) \cup {id}
      /\ NoBlock \notin Nodes(d) /\ d.node[id].parents = ps
      /\ \A b \in Nodes(dag) : d.node[b] = dag.node[b]
  BY <1>5, <1>6 DEF Grown, Sound
<1>8. /\ d.node[id].sp = s /\ d.node[id].past = dag.node[s].past \cup {s} \cup ToSet(q)
      /\ d.tips = (dag.tips \ ps) \cup {id}
  <2> DEFINE n == NewNode(dag, ps, w)
  <2>1. n.sp = s /\ n.past = dag.node[s].past \cup {s} \cup ToSet(q)
    BY <1>2 DEF NewNode
  <2> HIDE DEF n, q
  <2>2. d.node = [b \in Nodes(dag) \cup {id} |-> IF b = id THEN n ELSE dag.node[b]]
    BY <1>4 DEF Wired, n
  <2>3. d.tips = (dag.tips \ ps) \cup {id}
    BY <1>4 DEF Wired
  <2> QED
    BY <2>1, <2>2, <2>3
<1>9. s \in Nodes(dag) /\ s \in NonFinal
  BY <1>2, <1>5 DEF NonFinal
<1>10. id # Genesis
  BY <1>1, <1>5, SelectedBelow
<1>11. Extends(dag, dag', txs, txs')
  <2>1. \A b \in Nodes(dag) : txs'[b] = txs[b]
    BY <1>1, <1>3, <1>5 DEF Put
  <2> QED
    BY <1>3, <1>5, <1>7, <2>1 DEF Extends
<1>12. selected_tip(d) \in {id, selected_tip(dag)}
  BY <1>1, <1>5, <1>6, <1>7, <1>8, <1>9, TipMoves, NumbersAssumption
<1>13. selected_tip(dag) \in Nodes(dag)
  BY <1>5, TipIsHeaviest
<1> HIDE DEF q
<1>14. Recorded(id, ps, body, s, q, mv, own)
  BY <1>1, <1>2, <1>3, <1>5, <1>7, <1>8, <1>9, <1>10, <1>11, <1>12, <1>13 DEF m, f, Recorded
<1> QED
  BY <1>2, <1>14 DEF q, mv, own

\* The block's own transactions add to the view what they add to its replay.
LEMMA OwnMatches ==
  ASSUME NEW mv, NEW run, Matches(mv, run), NEW s, NEW body, IsTxList(body),
         NEW own, own = OwnOutcome(s, body, mv), own.ok,
         NEW e, NEW more, NEW id, id # Genesis, more[id] = body,
         HeightOr0(s) + 1 = HeightIn(e, id),
         dag.node[s].blue_score \in Nat, e.node[id].blue_score \in Nat,
         dag.node[s].blue_score < e.node[id].blue_score
  PROVE  LET new == ReplayOne(e, more, run, id)
         IN  /\ new.utxo = own.utxo /\ new.stake = own.stake
             /\ new.minted = mv.minted + own.minted /\ new.burned = mv.fees + burned(own.fees)
<1> DEFINE h == HeightIn(e, id)
           u == mv.utxo
           t == mv.stake
           m == mv.minted
           sub == subsidy_at(h)
           low == dag.node[s].blue_score + 1
           high == e.node[id].blue_score
<1>1. own = apply_block_inner(u, t, body, sub, m, h, low)
  BY DEF OwnOutcome
<1>2. OutcomeIn(e, more, run, id) = apply_block_inner(u, t, body, sub, m, h, high)
  BY DEF OutcomeIn, Matches
<1>3. low \in Int /\ high \in Int /\ low <= high
  OBVIOUS
<1> HIDE DEF h, u, t, m, sub, low, high
<1>4. OutcomeIn(e, more, run, id) = own
  BY <1>1, <1>2, <1>3, BlockStays
<1> DEFINE new == ReplayOne(e, more, run, id)
<1>5. new = [utxo |-> own.utxo, stake |-> own.stake, minted |-> run.minted + own.minted,
             burned |-> run.burned + burned(own.fees), fees |-> run.fees + own.fees]
  BY <1>4 DEF ReplayOne, Counted
<1> HIDE DEF new
<1>6. run.minted = mv.minted /\ run.burned = mv.fees
  BY DEF Matches
<1> QED
  BY <1>5, <1>6 DEF new

-----------------------------------------------------------------------------
\* What the ledger keeps of every block, and the views V, are what the replays say.
Told(d, made, minted, fees, V) ==
  \A b \in Nodes(d) :
    LET run == RunOf(d, made, b)
    IN  /\ minted[b] = run.minted /\ fees[b] = run.burned
        /\ ~is_final(d, b) => V[b].utxo = run.utxo /\ V[b].stake = run.stake

TipTotals(d, minted, fees) ==
  [native_minted |-> minted[selected_tip(d)], fees_burned |-> fees[selected_tip(d)]]

Replayed(V) ==
  /\ FallsBack(dag) => Told(dag, txs, block_minted, block_fees, V)
  /\ supply = TipTotals(dag, block_minted, block_fees)

ReplayInv == LedgerInv /\ DOMAIN deltas = NonFinal /\ \E V : ViewsHold(V) /\ Replayed(V)

\* The new block's replay.
LEMMA NewTold ==
  ASSUME LedgerInv, DOMAIN deltas = NonFinal, NEW V, ViewsHold(V), NoViewIsNone,
         FallsBack(dag), Told(dag, txs, block_minted, block_fees, V),
         NEW id \in Id, NEW ps \in SUBSET Nodes(dag), NEW w \in Work,
         NEW body, IsTxList(body), Insert(id, ps, w, body), CleanMerge(dag, dag', id)
  PROVE  LET s   == Heaviest(dag, ps)
             mv  == MergedView(s, mergeset_ordered(dag, s, ps))
             own == OwnOutcome(s, body, mv)
             run == RunOf(dag', txs', id)
         IN  /\ run.utxo = own.utxo /\ run.stake = own.stake
             /\ run.minted = mv.minted + own.minted /\ run.burned = mv.fees + burned(own.fees)
<1> DEFINE s   == Heaviest(dag, ps)
           q   == mergeset_ordered(dag, s, ps)
           mv  == MergedView(s, q)
           own == OwnOutcome(s, body, mv)
           d   == dag
           e   == dag'
           made == txs
           more == txs'
           run == RunOf(d, made, s)
<1>0. BlocksInv
  BY DEF LedgerInv
<1>1. /\ s \in Nodes(d) /\ s \in NonFinal /\ own.ok
      /\ id \notin Nodes(d) /\ id # Genesis /\ Extends(d, e, made, more) /\ Sound(d) /\ Sound(e)
      /\ Nodes(e) = Nodes(d) \cup {id} /\ txs' = Put(txs, id, body)
      /\ e.node[id].sp = s /\ e.node[id].parents = ps
  <2>1. Recorded(id, ps, body, s, q, mv, own)
    BY <1>0, InsertShape
  <2> HIDE DEF s, q, mv, own
  <2> QED
    BY <2>1 DEF Recorded
<1>2. /\ more[id] = body /\ ByTheRule(d) /\ ByTheRule(e) /\ id \in Nodes(e)
      /\ NoBlock \notin Nodes(d) /\ NoBlock \notin Nodes(e)
      /\ \A b \in Nodes(d) : e.node[b] = d.node[b] /\ IsTxList(made[b])
  <2>1. \A b \in Nodes(d) : IsTxList(made[b])
    BY <1>0 DEF BlocksInv
  <2>2. NoBlock \notin Nodes(d) /\ ByTheRule(d) /\ ByTheRule(e) /\ NoBlock \notin Nodes(e)
        /\ \A b \in Nodes(d) : e.node[b] = d.node[b]
    BY <1>1 DEF Extends
  <2> QED
    BY <1>1, <2>1, <2>2 DEF Put
<1>3. Clean(s, q)
  BY <1>1 DEF CleanMerge
<1>4. q \in Seq(Nodes(d) \ {Genesis})
  <2>1. /\ q \in Seq(Nodes(d)) /\ ToSet(q) \subseteq Nodes(d) \ (d.node[s].past \cup {s})
    BY <1>1, <1>2, MergesetOrdered
  <2>2. Genesis \in d.node[s].past \cup {s}
    BY <1>1, <1>2, GenesisBelow
  <2> HIDE DEF q
  <2>3. \A i \in 1 .. Len(q) : q[i] \in Nodes(d) \ {Genesis}
    BY <2>1, <2>2 DEF ToSet
  <2> QED
    BY <2>1, <2>3
<1>5. Exact(dag, Log, V)
  BY DEF ViewsHold
<1>6. \A b \in Nodes(d) : chain_height_of(b) = HeightIn(dag, b)
  BY <1>2, <1>5, HeightsMatch
<1>7. HeightOr0(s) + 1 = HeightIn(e, id)
  <2>1. HeightOr0(s) = HeightIn(d, s)
    BY <1>1, <1>2, <1>5, HeightsMatch
  <2> HIDE DEF d, e, s
  <2>2. HeightIn(e, id) = HeightIn(e, s) + 1
    BY <1>1, <1>2, HeightIs
  <2>3. HeightIn(e, s) = HeightIn(d, s)
    BY <1>1, <1>2, SameHeights
  <2> QED
    BY <2>1, <2>2, <2>3
<1>8. Matches(SelectedView(s), run) /\ Level(run)
  <2>1. reconstruct_state(s) = V[s].utxo /\ reconstruct_stake(s) = V[s].stake
    BY <1>1, <1>2, <1>5, ViewsAreRebuilt
  <2>2. /\ block_minted[s] = run.minted /\ block_fees[s] = run.burned
        /\ V[s].utxo = run.utxo /\ V[s].stake = run.stake
    BY <1>1 DEF Told, NonFinal
  <2>3. Level(run)
    <3> HIDE DEF d, made, s
    <3> QED
      BY <1>1, <1>2, RunLevel
  <2> HIDE DEF run, s
  <2> QED
    BY <2>1, <2>2, <2>3 DEF Matches, SelectedView
<1>9. Matches(mv, Replays!Run(dag, txs, run, q))
  <2> DEFINE S == Nodes(d) \ {Genesis}
  <2>1. \A b \in S : b # Genesis /\ chain_height_of(b) = HeightIn(dag, b) /\ IsTxList(txs[b])
    BY <1>2, <1>6
  <2>2. q \in Seq(S)
    BY <1>4
  <2> HIDE DEF run, s, q, S
  <2> QED
    BY <1>3, <1>8, <2>1, <2>2, MergesMatch
<1>10. dag.node[s].blue_score \in Nat /\ e.node[id].blue_score \in Nat
       /\ dag.node[s].blue_score < e.node[id].blue_score
  <2>1. e.node[s] = d.node[s] /\ s \in Nodes(e)
    BY <1>1, <1>2
  <2> HIDE DEF e, s
  <2>2. e.node[e.node[id].sp].blue_score < e.node[id].blue_score
    BY <1>1, <1>2, <2>1, SelectedIsLess, NumbersAssumption
  <2>3. e.node[s].blue_score \in Nat /\ e.node[id].blue_score \in Nat
    BY <1>2, <2>1, WellFormedIs DEF ByTheRule
  <2> QED
    BY <1>1, <2>1, <2>2, <2>3
<1> DEFINE r == Replays!Run(d, made, run, q)
<1>11. RunOf(e, more, id) = ReplayOne(e, more, r, id)
  <2>1. q = mergeset_ordered(d, s, ps) /\ ps \in SUBSET Nodes(d)
    OBVIOUS
  <2> HIDE DEF d, e, made, more, s, q
  <2>2. RunOf(e, more, id) = ReplayOne(e, more, Replays!Run(d, made, RunOf(d, made, s), q), id)
    BY <1>1, <1>2, <2>1, NewRun
  <2> QED
    BY <2>2
<1>12. Matches(mv, r)
  BY <1>9
<1> DEFINE new == ReplayOne(e, more, r, id)
<1>13. /\ new.utxo = own.utxo /\ new.stake = own.stake
       /\ new.minted = mv.minted + own.minted /\ new.burned = mv.fees + burned(own.fees)
  <2>1. own = OwnOutcome(s, body, mv)
    OBVIOUS
  <2> HIDE DEF e, more, r, s, mv, own
  <2> QED
    BY <1>1, <1>2, <1>7, <1>10, <1>12, <2>1, OwnMatches
<1> QED
  BY <1>11, <1>13

\* apply_new_block keeps what the replays say, and adds that of the new block.
LEMMA InsertReplays ==
  ASSUME LedgerInv, DOMAIN deltas = NonFinal, NEW V, ViewsHold(V), Replayed(V), NoViewIsNone,
         NEW id \in Id, NEW ps \in SUBSET Nodes(dag), NEW w \in Work,
         NEW body, IsTxList(body), Insert(id, ps, w, body),
         UniqueIn(txs'), FinalStay(dag, dag'), CleanMerge(dag, dag', id)
  PROVE  ReplayInv'
<1> DEFINE s   == Heaviest(dag, ps)
           q   == mergeset_ordered(dag, s, ps)
           mv  == MergedView(s, q)
           own == OwnOutcome(s, body, mv)
           m   == mv.minted + own.minted
           f   == mv.fees + burned(own.fees)
           d   == dag
           e   == dag'
           made == txs
           more == txs'
<1>0. BlocksInv /\ TotalsInv
  BY DEF LedgerInv
<1>1. LedgerInv'
  BY InsertKeeps
<1>2. (DOMAIN deltas = NonFinal)'
  BY <1>0, InsertViews
<1>3. PICK W : /\ ViewsHold(W)' /\ \A b \in Nodes(dag) : W[b] = V[b]
               /\ W[id].utxo = own.utxo /\ W[id].stake = own.stake
  BY <1>0, InsertViews
<1>4. Recorded(id, ps, body, s, q, mv, own)
  BY <1>0, InsertShape
<1>5. FallsBack(d) /\ Told(d, made, block_minted, block_fees, V) =>
        LET run == RunOf(e, more, id)
        IN  /\ run.utxo = own.utxo /\ run.stake = own.stake
            /\ run.minted = m /\ run.burned = f
  BY NewTold
<1> HIDE DEF s, q, mv, own
<1>6. /\ id \notin Nodes(d) /\ Extends(d, e, made, more) /\ Nodes(e) = Nodes(d) \cup {id}
      /\ block_minted' = Put(block_minted, id, m) /\ block_fees' = Put(block_fees, id, f)
      /\ supply' = TipView(e, id, [native_minted |-> m, fees_burned |-> f], supply)
      /\ selected_tip(d) \in Nodes(d) /\ selected_tip(e) \in {id, selected_tip(d)}
  BY <1>4 DEF Recorded
<1>7. /\ DOMAIN block_minted = Nodes(d) /\ DOMAIN block_fees = Nodes(d)
  BY <1>0 DEF TotalsInv
<1> HIDE DEF m, f
<1>8. /\ block_minted'[id] = m /\ block_fees'[id] = f
      /\ \A b \in Nodes(d) : block_minted'[b] = block_minted[b] /\ block_fees'[b] = block_fees[b]
  BY <1>6, <1>7 DEF Put
<1>9. supply' = TipTotals(e, block_minted', block_fees')
  <2>1. CASE selected_tip(e) = id
    BY <1>6, <1>8, <2>1 DEF TipView, TipTotals
  <2>2. CASE selected_tip(e) # id
    <3>1. selected_tip(e) = selected_tip(d) /\ supply' = supply
      BY <1>6, <2>2 DEF TipView
    <3>2. supply = TipTotals(d, block_minted, block_fees)
      BY DEF Replayed
    <3> QED
      BY <1>6, <1>8, <3>1, <3>2 DEF TipTotals
  <2> QED
    BY <2>1, <2>2
<1>10. ASSUME FallsBack(e) PROVE Told(e, more, block_minted', block_fees', W)
  <2>1. FallsBack(d)
    <3> SUFFICES ASSUME NEW b \in Nodes(d), is_final(d, b)
                 PROVE  d.node[b].blue_score = HeightIn(d, b)
      BY DEF FallsBack
    <3>1. is_final(e, b) /\ b \in Nodes(e) /\ e.node[b] = d.node[b]
      BY <1>6 DEF FinalStay, Extends
    <3>2. e.node[b].blue_score = HeightIn(e, b)
      BY <1>10, <3>1 DEF FallsBack
    <3> HIDE DEF d, e
    <3>3. HeightIn(e, b) = HeightIn(d, b)
      BY <1>6, SameHeights DEF Extends
    <3> QED
      BY <3>1, <3>2, <3>3
  <2>2. Told(d, made, block_minted, block_fees, V)
    BY <2>1 DEF Replayed
  <2>3. LET run == RunOf(e, more, id)
        IN  /\ run.utxo = own.utxo /\ run.stake = own.stake /\ run.minted = m /\ run.burned = f
    BY <1>5, <2>1, <2>2
  <2>4. ASSUME NEW b \in Nodes(d) PROVE RunOf(e, more, b) = RunOf(d, made, b)
    <3> HIDE DEF d, e, made, more
    <3> QED
      BY <1>6, RunStays
  <2>5. \A b \in Nodes(d) : ~is_final(e, b) => ~is_final(d, b)
    BY DEF FinalStay
  <2> DEFINE minted == block_minted'
             fees == block_fees'
  <2>6. \A b \in Nodes(d) : minted[b] = block_minted[b] /\ fees[b] = block_fees[b]
    BY <1>8
  <2>7. minted[id] = m /\ fees[id] = f
    BY <1>8
  <2>8. \A b \in Nodes(d) : W[b] = V[b]
    BY <1>3
  <2> HIDE DEF d, e, made, more, minted, fees
  <2>9. ASSUME NEW b \in Nodes(e)
        PROVE  LET run == RunOf(e, more, b)
               IN  /\ minted[b] = run.minted /\ fees[b] = run.burned
                   /\ ~is_final(e, b) => W[b].utxo = run.utxo /\ W[b].stake = run.stake
    <3>1. CASE b = id
      BY <1>3, <2>3, <2>7, <3>1
    <3>2. CASE b \in Nodes(d)
      BY <2>2, <2>4, <2>5, <2>6, <2>8, <3>2 DEF Told
    <3> QED
      BY <1>6, <2>9, <3>1, <3>2
  <2>10. Told(e, more, minted, fees, W)
    BY <2>9 DEF Told
  <2> QED
    BY <2>10 DEF minted, fees
<1>11. Replayed(W)'
  BY <1>9, <1>10 DEF Replayed
<1> QED
  BY <1>1, <1>2, <1>3, <1>11 DEF ReplayInv

\* A list of one has nothing after its head.
LEMMA OneAlone ==
  ASSUME NEW X, NEW q \in Seq(X), Len(q) = 1
  PROVE  DOMAIN q = 1 .. 1 /\ Tail(q) = <<>> /\ q[1] \in X
<1>1. DOMAIN q = 1 .. 1 /\ q[1] \in X /\ q # <<>>
  OBVIOUS
<1> DEFINE T == Tail(q)
<1>2. T \in Seq(X) /\ Len(T) = Len(q) - 1
  BY <1>1
<1> HIDE DEF T
<1>3. T = <<>>
  BY <1>2
<1> QED
  BY <1>1, <1>3 DEF T

\* The replay of genesis is its coinbase.
LEMMA GenesisRun ==
  ASSUME Init
  PROVE  LET run == RunOf(dag, txs, Genesis)
         IN  /\ run.utxo = tip_state /\ run.stake = NoStake
             /\ run.minted = AssetOut(GenesisTxs[1], Native) /\ run.burned = 0
<1> DEFINE c == GenesisTxs[1]
           state == Created(c, 0, TRUE)
           r == apply_block_inner(NoEntries, NoStake, GenesisTxs, MaxSupply, 0, 0, Ungated)
<1>1. /\ dag = NewDag(1) /\ txs = [b \in {Genesis} |-> GenesisTxs] /\ tip_state = state
      /\ coinbase_valid(NoEntries, c, MaxSupply, 0, Ungated)
  BY DEF Init, NoEntries, AtGenesis
<1>2. Sound(dag) /\ Nodes(dag) = {Genesis}
  BY <1>1, NewSound, NumbersAssumption
<1>3. ByTheRule(dag) /\ NoBlock \notin Nodes(dag) /\ Genesis \in Nodes(dag)
  BY <1>2, NoBlockAssumption DEF Sound
<1>4. OrderOf(dag, Genesis) = <<Genesis>> /\ HeightIn(dag, Genesis) = 0
  BY <1>3, OrderIs, HeightIs
<1>5. /\ Len(GenesisTxs) = 1 /\ is_coinbase(c) /\ IsTx(c) /\ Tail(GenesisTxs) = <<>>
      /\ DOMAIN GenesisTxs = 1 .. 1
  <2> DEFINE q == GenesisTxs
             X == ToSet(GenesisTxs)
  <2>1. q \in Seq(X) /\ Len(q) = 1 /\ \A tx \in X : IsTx(tx)
    BY GenesisAssumption DEF IsTxList
  <2> HIDE DEF q, X
  <2>3. DOMAIN q = 1 .. 1 /\ Tail(q) = <<>> /\ q[1] \in X
    BY <2>1, OneAlone
  <2> QED
    BY GenesisAssumption, <2>1, <2>3 DEF q
<1>6. IsView(state) /\ IsUtxo(state) /\ AssetOut(c, Native) \in Nat
  BY <1>5, CreatedTotal, OutIs DEF IsView
<1>7. InsertAll(NoEntries, state) = state
  <2> HIDE DEF state
  <2>1. state = [op \in DOMAIN state |-> state[op]]
    BY <1>6 DEF IsUtxo
  <2> QED
    BY <2>1 DEF InsertAll, NoEntries
<1> DEFINE cb == {GenesisTxs[i] : i \in {j \in DOMAIN GenesisTxs : j = 1 /\ is_coinbase(GenesisTxs[j])}}
           base == [ok |-> TRUE, utxo |-> NoEntries, stake |-> NoStake, fees |-> 0]
<1>8. cb = {c}
  <2>1. {j \in DOMAIN GenesisTxs : j = 1 /\ is_coinbase(GenesisTxs[j])} = {1}
    BY <1>5
  <2> QED
    BY <2>1
<1>9. apply_regulars(NoEntries, NoStake, <<>>, 0, Ungated) = base
  BY RegularsAre, Spends!RunEmpty
<1>10. r = Settle(base, cb, NoEntries, MaxSupply, 0, 0, Ungated)
  <2>1. r = Settle(apply_regulars(NoEntries, NoStake, IF cb = {} THEN GenesisTxs ELSE Tail(GenesisTxs),
                                  0, Ungated), cb, NoEntries, MaxSupply, 0, 0, Ungated)
    BY DEF apply_block_inner
  <2> HIDE DEF cb, r, base
  <2>2. (IF cb = {} THEN GenesisTxs ELSE Tail(GenesisTxs)) = <<>>
    BY <1>5, <1>8
  <2> QED
    BY <1>9, <2>1, <2>2
<1> HIDE DEF cb
<1>11. /\ r.utxo = state /\ r.stake = NoStake /\ r.fees = 0 /\ r.ok = TRUE
       /\ r.minted = AssetOut(c, Native)
  <2>1. MaxSupply + fee_share(0) = MaxSupply
    BY NumbersAssumption DEF fee_share, FeeDen
  <2>2. /\ base.ok = TRUE /\ base.utxo = NoEntries /\ base.stake = NoStake /\ base.fees = 0
    OBVIOUS
  <2>3. \A x \in cb : coinbase_valid(base.utxo, x, MaxSupply + fee_share(base.fees), 0, Ungated)
    BY <1>1, <1>8, <2>1, <2>2
  <2> DEFINE utxo2 == WithCoinbase(NoEntries, 0, cb)
             sum == Minted(cb)
  <2>4. r = [ok |-> TRUE, utxo |-> utxo2, stake |-> NoStake, fees |-> 0, minted |-> sum]
    <3> HIDE DEF base, r
    <3> QED
      BY <1>10, <2>2, <2>3 DEF Settle, WithCoinbase, Minted
  <2>5. utxo2 = MintOne(0, 0, NoEntries, c) /\ sum = AssetOut(c, Native)
    BY <1>6, <1>8, CoinbaseIs
  <2>6. MintOne(0, 0, NoEntries, c) = state
    BY <1>7 DEF MintOne
  <2> HIDE DEF utxo2, sum, r, state
  <2> QED
    BY <2>4, <2>5, <2>6
<1> HIDE DEF r, state, base
<1> DEFINE d == dag
           made == txs
<1>12. OutcomeIn(d, made, Nothing, Genesis) = r
  <2>1. Nothing.utxo = NoEntries /\ Nothing.stake = NoStake /\ Nothing.minted = 0
    BY DEF Nothing
  <2>2. made[Genesis] = GenesisTxs
    BY <1>1
  <2> QED
    BY <1>4, <2>1, <2>2 DEF OutcomeIn, r
<1>13. RunOf(d, made, Genesis) = ReplayOne(d, made, Nothing, Genesis)
  <2> HIDE DEF d, made
  <2>1. OrderOf(d, Genesis) = Append(<<>>, Genesis)
    BY <1>4 DEF d
  <2> DEFINE q == <<>>
             X == {Genesis}
  <2>2. q \in Seq(X) /\ Genesis \in X
    OBVIOUS
  <2> HIDE DEF q, X
  <2>3. Replays!Run(d, made, Nothing, Append(q, Genesis))
          = ReplayOne(d, made, Replays!Run(d, made, Nothing, q), Genesis)
    BY <2>2, Replays!RunAppend
  <2>4. Replays!Run(d, made, Nothing, <<>>) = Nothing
    BY Replays!RunEmpty
  <2> QED
    BY <2>1, <2>3, <2>4 DEF RunOf, q
<1> DEFINE new == Counted(Nothing, r)
<1>14. burned(0) = 0
  BY DEF burned, FeeDen
<1>15. /\ new.utxo = r.utxo /\ new.stake = r.stake /\ new.minted = r.minted /\ new.burned = 0
  <2>1. new = [utxo |-> r.utxo, stake |-> r.stake, minted |-> 0 + r.minted,
               burned |-> 0 + burned(r.fees), fees |-> 0 + r.fees]
    BY <1>11 DEF Counted, Nothing
  <2>2. 0 + r.minted = r.minted /\ 0 + burned(r.fees) = 0
    BY <1>6, <1>11, <1>14
  <2> HIDE DEF new
  <2> QED
    BY <2>1, <2>2
<1> HIDE DEF new
<1>16. RunOf(d, made, Genesis) = new
  BY <1>12, <1>13 DEF ReplayOne, new
<1> QED
  BY <1>1, <1>11, <1>15, <1>16

LEMMA ReplayInvInit ==
  ASSUME Init
  PROVE  ReplayInv
<1> DEFINE c == GenesisTxs[1]
           m == AssetOut(c, Native)
<1>1. LedgerInv /\ ViewsInv
  BY LedgerInvInit, ViewsInvInit
<1>2. PICK V : ViewsHold(V)
  BY <1>1 DEF ViewsInv
<1>3. /\ dag = NewDag(1) /\ tip_stake = NoStake
      /\ block_minted = [b \in {Genesis} |-> m] /\ block_fees = [b \in {Genesis} |-> 0]
      /\ supply = [native_minted |-> m, fees_burned |-> 0]
  BY DEF Init, AtGenesis
<1>4. Sound(dag) /\ Nodes(dag) = {Genesis}
  BY <1>3, NewSound, NumbersAssumption
<1>5. selected_tip(dag) = Genesis
  BY <1>4, TipIsHeaviest
<1>6. V[Genesis].utxo = tip_state /\ V[Genesis].stake = NoStake
  BY <1>2, <1>3, <1>5 DEF ViewsHold
<1>7. LET run == RunOf(dag, txs, Genesis)
      IN  /\ run.utxo = tip_state /\ run.stake = NoStake /\ run.minted = m /\ run.burned = 0
  BY GenesisRun
<1> HIDE DEF m, c
<1>8. block_minted[Genesis] = m /\ block_fees[Genesis] = 0
  BY <1>3
<1>9. Told(dag, txs, block_minted, block_fees, V)
  BY <1>4, <1>6, <1>7, <1>8 DEF Told
<1>10. supply = TipTotals(dag, block_minted, block_fees)
  BY <1>3, <1>5, <1>8 DEF TipTotals
<1> QED
  BY <1>1, <1>2, <1>9, <1>10 DEF ReplayInv, Replayed, ViewsInv

LEMMA ReplayInvSuffices ==
  ASSUME ReplayInv, NoViewIsNone
  PROVE  StateAvailable /\ TipStateIsView /\ RegistryBacked /\ ViewIsReplay /\ SupplyExact
<1>1. ViewsInv /\ BlocksInv /\ TotalsInv
  BY DEF ReplayInv, ViewsInv, LedgerInv
<1>2. PICK V : ViewsHold(V) /\ Replayed(V)
  BY DEF ReplayInv
<1>3. /\ Sound(dag) /\ ByTheRule(dag) /\ NoBlock \notin Nodes(dag) /\ DOMAIN deltas = NonFinal
      /\ \A b \in Nodes(dag) : IsTxList(txs[b])
  BY <1>1, NoBlockAssumption DEF BlocksInv, Sound, ReplayInv
<1>4. StateAvailable /\ TipStateIsView /\ RegistryBacked
  BY <1>1, ViewsInvSuffices
<1>5. \A b \in NonFinal : reconstruct_state(b) = V[b].utxo /\ reconstruct_stake(b) = V[b].stake
  BY <1>2, <1>3, ViewsAreRebuilt DEF ViewsHold
<1>6. \A b \in Nodes(dag) : ReplayPast(b) = RunOf(dag, txs, b)
  BY <1>3, ReplayIs
<1>7. FallbackExact => Told(dag, txs, block_minted, block_fees, V)
  <2>1. FallbackExact => FallsBack(dag)
    BY DEF FallbackExact, FallsBack, NonFinal, TrueHeight, HeightIn
  <2> QED
    BY <1>2, <2>1 DEF Replayed
<1>8. ViewIsReplay
  <2>1. ASSUME FallbackExact, NEW b \in NonFinal
        PROVE  /\ reconstruct_state(b) = ReplayPast(b).utxo
               /\ reconstruct_stake(b) = ReplayPast(b).stake
    <3>1. b \in Nodes(dag) /\ ~is_final(dag, b)
      BY DEF NonFinal
    <3> QED
      BY <1>5, <1>6, <1>7, <2>1, <3>1 DEF Told
  <2> QED
    BY <2>1 DEF ViewIsReplay
<1>9. SupplyExact
  <2> DEFINE tip == selected_tip(dag)
             run == RunOf(dag, txs, tip)
  <2>1. tip \in Nodes(dag) /\ ~is_final(dag, tip)
    BY <1>3, TipIsHeaviest, FinalIs
  <2>2. ASSUME FallbackExact, NEW b \in Nodes(dag)
        PROVE  block_minted[b] = ReplayPast(b).minted /\ block_fees[b] = ReplayPast(b).burned
    BY <1>6, <1>7, <2>2 DEF Told
  <2>3. supply = [native_minted |-> block_minted[tip], fees_burned |-> block_fees[tip]]
    BY <1>2 DEF Replayed, TipTotals
  <2>4. ASSUME FallbackExact
        PROVE  NativeTotal(tip_state) + ReplayPast(tip).fees = supply.native_minted
    <3>1. tip_state = V[tip].utxo
      BY <1>2 DEF ViewsHold
    <3>2. V[tip].utxo = run.utxo /\ block_minted[tip] = run.minted
      BY <1>7, <2>1, <2>4 DEF Told
    <3>3. Level(run)
      <4> DEFINE d == dag
                 made == txs
      <4>1. /\ ByTheRule(d) /\ NoBlock \notin Nodes(d) /\ tip \in Nodes(d)
            /\ \A b \in Nodes(d) : IsTxList(made[b])
        BY <1>3, <2>1
      <4> HIDE DEF tip, d, made
      <4>2. Level(RunOf(d, made, tip))
        BY <4>1, RunLevel
      <4> QED
        BY <4>2 DEF d, made
    <3>4. ReplayPast(tip) = run
      BY <1>6, <2>1
    <3> HIDE DEF run, tip
    <3>5. NativeTotal(run.utxo) = Total(run.utxo, Native)
      BY <3>3, TotalIs DEF Level
    <3> QED
      BY <2>3, <3>1, <3>2, <3>3, <3>4, <3>5 DEF Level
  <2>5. supply.native_minted <= MaxSupply
    BY <1>1, <2>1, <2>3 DEF TotalsInv
  <2> HIDE DEF tip, run
  <2> QED
    BY <2>2, <2>3, <2>4, <2>5 DEF SupplyExact, tip
<1> QED
  BY <1>4, <1>8, <1>9

\* An insertion keeps the replays, where ids are not used twice, finality
\* does not retreat and the merge is clean.
LEMMA ReplayInvNext ==
  ASSUME PayloadIsTyped, NoViewIsNone, ReplayInv, UniqueIds', [Next]_vars,
         [FinalStay(dag, dag')]_vars,
         [\A id \in Nodes(dag') \ Nodes(dag) : CleanMerge(dag, dag', id)]_vars
  PROVE  ReplayInv'
<1> DEFINE NoStray == \A id \in Nodes(dag') \ Nodes(dag) : CleanMerge(dag, dag', id)
<1>1. PICK V : ViewsHold(V) /\ Replayed(V)
  BY DEF ReplayInv
<1>2. CASE UNCHANGED vars
  <2>1. /\ dag' = dag /\ txs' = txs /\ deltas' = deltas /\ supply' = supply
        /\ block_minted' = block_minted /\ block_fees' = block_fees
    BY <1>2 DEF vars
  <2>2. LedgerInv'
    BY <1>2 DEF vars, ReplayInv, LedgerInv, BlocksInv, TotalsInv, UndoInv, TipInv
  <2>3. ViewsHold(V)'
    BY <1>1, <1>2 DEF vars, NonFinal, ViewsHold, Log
  <2>4. Replayed(V)'
    BY <1>1, <2>1 DEF Replayed
  <2>5. (DOMAIN deltas = NonFinal)'
    BY <2>1 DEF ReplayInv, NonFinal
  <2> QED
    BY <2>2, <2>3, <2>4, <2>5 DEF ReplayInv
<1>3. CASE ~UNCHANGED vars
  <2>1. Next /\ FinalStay(dag, dag') /\ NoStray
    BY <1>3
  <2>2. PICK id \in Id, ps \in SUBSET Nodes(dag), w \in Work :
          \E body \in Payload(id, txs) : Insert(id, ps, w, body)
    BY <2>1 DEF Next
  <2>3. PICK body \in Payload(id, txs) : Insert(id, ps, w, body)
    BY <2>2
  <2>4. IsTxList(body)
    BY PayloadIsTyped DEF PayloadIsTyped, ReplayInv, LedgerInv, BlocksInv
  <2>5. id \in Nodes(dag') \ Nodes(dag)
    <3>1. id \notin Nodes(dag)
      BY <2>3 DEF Insert, Admissible
    <3>2. dag' = insert(dag, id, ps, w, NoPruning)
      BY <2>3 DEF Insert, Connect, Record
    <3>3. dag' = Wired(dag, id, ps, w)
      BY <3>2, InsertIs
    <3>4. DOMAIN dag'.node = Nodes(dag) \cup {id}
      BY <3>3 DEF Wired
    <3> QED
      BY <3>1, <3>4 DEF Nodes
  <2>6. CleanMerge(dag, dag', id) /\ UniqueIn(txs')
    BY <2>1, <2>5 DEF UniqueIds
  <2> QED
    BY <1>1, <2>1, <2>3, <2>4, <2>6, InsertReplays DEF ReplayInv
<1> QED
  BY <1>2, <1>3

(***************************************************************************)
(* Every registry is backed by the outputs of its view.                    *)
(***************************************************************************)
THEOREM RegistryIsBacked ==
  ASSUME PayloadIsTyped, NoViewIsNone
  PROVE  Spec /\ []UniqueIds /\ FinalityRises /\ NoStrayBonds => []RegistryBacked
<1>1. Spec /\ []UniqueIds /\ FinalityRises /\ NoStrayBonds
        => [](StateAvailable /\ TipStateIsView /\ RegistryBacked)
  BY ViewsAreExact
<1> QED
  BY <1>1, PTL

(***************************************************************************)
(* The running totals are those of the replay: what was minted and burned  *)
(* in a view counts every block of its past once, and the native value of  *)
(* the tip's view is what was minted less the fees.                        *)
(***************************************************************************)
THEOREM SupplyIsExact ==
  ASSUME PayloadIsTyped, NoViewIsNone
  PROVE  Spec /\ []UniqueIds /\ FinalityRises /\ NoStrayBonds => []SupplyExact
<1> DEFINE Rises == FinalStay(dag, dag')
           NoStray == \A id \in Nodes(dag') \ Nodes(dag) : CleanMerge(dag, dag', id)
<1>1. Init => ReplayInv
  BY ReplayInvInit
<1>2. ReplayInv /\ UniqueIds' /\ [Next]_vars /\ [Rises]_vars /\ [NoStray]_vars => ReplayInv'
  BY ReplayInvNext
<1>3. ReplayInv => SupplyExact
  BY ReplayInvSuffices
<1> QED
  BY <1>1, <1>2, <1>3, PTL DEF Spec, FinalityRises, NoStrayBonds

-----------------------------------------------------------------------------
(***************************************************************************)
(* The tail: ledger_state is the replay of the whole order, where no block *)
(* bonds and the coinbases together stay within the cap.                   *)
(***************************************************************************)
AllPlain(body) == \A tx \in ToSet(body) : tx.role = "plain"

\* Transactions that do not bond leave the empty registry alone.
LEMMA PlainRegulars ==
  ASSUME NEW utxo, NEW q, IsTxList(q), NEW h, NEW score, \A i \in DOMAIN q : q[i].role = "plain"
  PROVE  apply_regulars(utxo, NoStake, q, h, score).stake = NoStake
<1> DEFINE base == [ok |-> TRUE, utxo |-> utxo, stake |-> NoStake, fees |-> 0]
           n == Len(q)
           Kept(a) == {"ok", "stake"} \subseteq DOMAIN a /\ a.stake = NoStake
<1>1. n \in Nat /\ DOMAIN q = 1 .. n
  BY DEF IsTxList
<1>2. apply_regulars(utxo, NoStake, q, h, score) = Spends!Run(h, score, base, q)
  BY RegularsAre
<1>3. Kept(base)
  OBVIOUS
<1> HIDE DEF base, n
<1>4. PICK f : Spends!IsLoop(h, score, base, n, q, f) /\ Spends!Run(h, score, base, q) = f[n]
  BY <1>1, Spends!LoopRuns
<1>5. f[0] = base /\ \A i \in 1 .. n : f[i] = apply_regular(f[i - 1], q[i], h, score)
  <2>1. 0 \in 0 .. n /\ \A i \in 1 .. n : i \in 0 .. n /\ i # 0
    BY <1>1
  <2> QED
    BY <1>4, <2>1 DEF Spends!IsLoop
<1> DEFINE Good == {i \in 0 .. n : Kept(f[i])}
<1>6. 0 \in Good
  <2>1. 0 \in 0 .. n
    BY <1>1
  <2> HIDE DEF Kept
  <2> QED
    BY <2>1, <1>3, <1>5
<1>7. ASSUME NEW i \in 1 .. n, i - 1 \in Good PROVE i \in Good
  <2> DEFINE a == f[i - 1]
             tx == q[i]
  <2>1. Kept(a) /\ i \in 0 .. n
    BY <1>1, <1>7
  <2>2. f[i] = apply_regular(a, tx, h, score) /\ tx.role = "plain"
    BY <1>1, <1>5
  <2> HIDE DEF a, tx
  <2>3. CASE ~a.ok \/ ~regular_valid(a.utxo, a.stake, tx, h, score)
    <3>1. f[i] = [a EXCEPT !.ok = FALSE]
      BY <2>2, <2>3 DEF apply_regular
    <3> QED
      BY <2>1, <3>1
  <2>4. CASE a.ok /\ regular_valid(a.utxo, a.stake, tx, h, score)
    <3>1. StakeAfter(a.stake, tx, h) = a.stake
      BY <2>2 DEF StakeAfter
    <3>2. f[i].stake = StakeAfter(a.stake, tx, h) /\ {"ok", "stake"} \subseteq DOMAIN f[i]
      BY <2>2, <2>4 DEF apply_regular
    <3> QED
      BY <2>1, <3>1, <3>2
  <2> QED
    BY <2>3, <2>4
<1> HIDE DEF Good
<1>8. \A i \in 0 .. n : i \in Good
  BY <1>1, <1>6, <1>7, Spends!NatUpTo
<1>9. n \in Good
  BY <1>1, <1>8
<1> QED
  BY <1>2, <1>4, <1>9 DEF Good

\* What the coinbase of a block mints, by apply_block_inner and by Coin.
LEMMA CoinIs ==
  ASSUME NEW body, IsTxList(body), NEW a
  PROVE  LET cb == {body[i] : i \in {j \in DOMAIN body : j = 1 /\ is_coinbase(body[j])}}
         IN  /\ Coin(body, a) \in Nat
             /\ \/ cb = {} /\ Coin(body, a) = 0
                \/ /\ cb = {body[1]} /\ IsTx(body[1]) /\ is_coinbase(body[1])
                   /\ 1 \in DOMAIN body /\ Coin(body, a) = AssetOut(body[1], a)
<1> DEFINE cb == {body[i] : i \in {j \in DOMAIN body : j = 1 /\ is_coinbase(body[j])}}
<1>1. DOMAIN body = 1 .. Len(body) /\ Len(body) \in Nat /\ \A i \in DOMAIN body : IsTx(body[i])
  BY DEF IsTxList, ToSet
<1>2. body # <<>> <=> 1 \in DOMAIN body
  BY <1>1 DEF IsTxList
<1>3. CASE body # <<>> /\ is_coinbase(body[1])
  <2>1. cb = {body[1]} /\ 1 \in DOMAIN body /\ IsTx(body[1])
    BY <1>1, <1>2, <1>3
  <2>2. Coin(body, a) = AssetOut(body[1], a)
    BY <1>3 DEF Coin
  <2>3. AssetOut(body[1], a) \in Nat
    BY <2>1, OutIs
  <2> QED
    BY <1>3, <2>1, <2>2, <2>3
<1>4. CASE ~(body # <<>> /\ is_coinbase(body[1]))
  <2>1. {j \in DOMAIN body : j = 1 /\ is_coinbase(body[j])} = {}
    BY <1>2, <1>4
  <2>2. cb = {}
    BY <2>1
  <2>3. Coin(body, a) = 0
    BY <1>4 DEF Coin
  <2> QED
    BY <2>2, <2>3
<1> QED
  BY <1>3, <1>4

\* Its outcome on the empty registry.
LEMMA PlainBlock ==
  ASSUME NEW utxo, NEW body, IsTxList(body), AllPlain(body),
         NEW subsidy, NEW minted, NEW h, NEW score
  PROVE  LET r == apply_block_inner(utxo, NoStake, body, subsidy, minted, h, score)
         IN  r.stake = NoStake /\ (r.minted = 0 \/ r.minted = Coin(body, Native))
<1> DEFINE cb == {body[i] : i \in {j \in DOMAIN body : j = 1 /\ is_coinbase(body[j])}}
           rest == IF cb = {} THEN body ELSE Tail(body)
           run == apply_regulars(utxo, NoStake, rest, h, score)
           ok == run.ok /\ \A c \in cb : coinbase_valid(run.utxo, c, subsidy + fee_share(run.fees),
                                                        minted, score)
           r == apply_block_inner(utxo, NoStake, body, subsidy, minted, h, score)
<1>1. r = Settle(run, cb, utxo, subsidy, minted, h, score)
  BY DEF apply_block_inner
<1>2. Settle(run, cb, utxo, subsidy, minted, h, score)
        = IF ok
          THEN [ok |-> TRUE, utxo |-> WithCoinbase(run.utxo, h, cb), stake |-> run.stake,
                fees |-> run.fees, minted |-> Minted(cb)]
          ELSE [ok |-> FALSE, utxo |-> utxo, stake |-> run.stake, fees |-> 0, minted |-> 0]
  BY DEF Settle, WithCoinbase, Minted
<1>3. IsTxList(rest) /\ ToSet(rest) \subseteq ToSet(body)
  BY RestIs
<1>4. \A i \in DOMAIN rest : rest[i].role = "plain"
  <2> HIDE DEF rest
  <2> QED
    BY <1>3 DEF AllPlain, ToSet
<1>5. run.stake = NoStake
  <2> HIDE DEF rest
  <2> QED
    BY <1>3, <1>4, PlainRegulars
<1>6. Minted(cb) = Coin(body, Native)
  <2>1. \/ cb = {} /\ Coin(body, Native) = 0
        \/ /\ cb = {body[1]} /\ IsTx(body[1])
           /\ Coin(body, Native) = AssetOut(body[1], Native)
    BY CoinIs
  <2> HIDE DEF cb
  <2>2. CASE cb = {} /\ Coin(body, Native) = 0
    BY <2>2, CoinbaseIs
  <2>3. CASE /\ cb = {body[1]} /\ IsTx(body[1])
             /\ Coin(body, Native) = AssetOut(body[1], Native)
    <3>1. AssetOut(body[1], Native) \in Nat
      BY <2>3, OutIs
    <3> QED
      BY <2>3, <3>1, CoinbaseIs
  <2> QED
    BY <2>1, <2>2, <2>3
<1> HIDE DEF ok, run, cb, r
<1> QED
  BY <1>1, <1>2, <1>5, <1>6 DEF r

\* Within the cap, what was minted before makes no difference.
LEMMA CapLoose ==
  ASSUME NEW utxo, NEW stake, NEW body, IsTxList(body), NEW subsidy, NEW h, NEW score,
         NEW m \in Nat, NEW k \in Nat, MaxSupply \in Nat,
         m + Coin(body, Native) <= MaxSupply, k + Coin(body, Native) <= MaxSupply
  PROVE  apply_block_inner(utxo, stake, body, subsidy, m, h, score)
           = apply_block_inner(utxo, stake, body, subsidy, k, h, score)
<1> DEFINE cb == {body[i] : i \in {j \in DOMAIN body : j = 1 /\ is_coinbase(body[j])}}
           run == apply_regulars(utxo, stake, IF cb = {} THEN body ELSE Tail(body), h, score)
           Ok(x) == run.ok /\ \A c \in cb : coinbase_valid(run.utxo, c, subsidy + fee_share(run.fees),
                                                           x, score)
<1>1. \A x : apply_block_inner(utxo, stake, body, subsidy, x, h, score)
        = Settle(run, cb, utxo, subsidy, x, h, score)
  BY DEF apply_block_inner
<1>2. \A x : Settle(run, cb, utxo, subsidy, x, h, score)
        = IF Ok(x)
          THEN [ok |-> TRUE, utxo |-> WithCoinbase(run.utxo, h, cb), stake |-> run.stake,
                fees |-> run.fees, minted |-> Minted(cb)]
          ELSE [ok |-> FALSE, utxo |-> utxo, stake |-> run.stake, fees |-> 0, minted |-> 0]
  BY DEF Settle, WithCoinbase, Minted
<1>3. \A c \in cb : /\ m + AssetOut(c, Native) <= MaxSupply
                    /\ k + AssetOut(c, Native) <= MaxSupply
  <2>1. \/ cb = {}
        \/ cb = {body[1]} /\ Coin(body, Native) = AssetOut(body[1], Native)
    BY CoinIs
  <2> HIDE DEF cb
  <2> QED
    BY <2>1
<1> HIDE DEF run, cb
<1>4. Ok(m) = Ok(k)
  BY <1>3 DEF coinbase_valid
<1> HIDE DEF Ok
<1> QED
  BY <1>1, <1>2, <1>4

\* One step of the tail, for the loop lemmas; and what its blocks mint.
TailOne(c, d, state, b) == ApplyTail(state, b)

Tails == INSTANCE LoopProofs WITH op <- TailOne, val <- LAMBDA c, x : Coin(c.made[x], c.asset)

Coins(made, a, S) == [b \in S |-> Coin(made[b], a)]

CoinSum(made, a, S) == MapThenSumSet(LAMBDA b : Coin(made[b], a), S)

LEMMA CoinsAre ==
  ASSUME NEW made, NEW a, NEW N, IsFiniteSet(N), \A b \in N : IsTxList(made[b]),
         NEW S \in SUBSET N
  PROVE  /\ Valued(Coins(made, a, N), S) /\ \A b \in N : Coins(made, a, N)[b] \in Nat
         /\ CoinSum(made, a, S) = Count(Coins(made, a, N), S)
<1> DEFINE f == Coins(made, a, N)
           c == [made |-> made, asset |-> a]
<1>1. \A b \in N : f[b] = Coin(made[b], a) /\ f[b] \in Nat
  BY CoinIs DEF Coins
<1>2. IsFiniteSet(S)
  BY FS_Subset
<1>3. CoinSum(made, a, S) = Tails!Sum(c, S)
  BY DEF CoinSum, Tails!Sum, Tails!MapThenSumSet, MapThenSumSet, Tails!MapThenFoldSet, MapThenFoldSet
<1>4. Valued(f, S)
  <2> HIDE DEF f
  <2> QED
    BY <1>1, <1>2, SameCount
<1>5. \A g, R : Tails!Count(g, R) = Count(g, R) /\ (Tails!Valued(g, R) <=> Valued(g, R))
  BY DEF Tails!Count, Tails!Units, Tails!Valued, Count, Valued, Spends!Count, Spends!Units,
         Spends!Valued, Tails!Cardinality, Spends!Cardinality, Cardinality, Tails!IsFiniteSet,
         Spends!IsFiniteSet, IsFiniteSet
<1>6. \A x \in S : Coin(c.made[x], c.asset) = f[x]
  <2> HIDE DEF f
  <2>1. c.made = made /\ c.asset = a
    OBVIOUS
  <2> HIDE DEF c
  <2> QED
    BY <1>1, <2>1
<1> HIDE DEF f, c
<1>7. Tails!Sum(c, S) = Tails!Count(f, S)
  BY <1>4, <1>5, <1>6, Tails!SumCounts
<1> QED
  BY <1>1, <1>3, <1>4, <1>5, <1>7 DEF f

\* A replay that bonds nothing and has minted no more than these coinbases.
Modest(f, run, S) ==
  run.stake = NoStake /\ run.minted \in Nat /\ run.minted <= Count(f, S)

LEMMA ModestOne ==
  ASSUME NEW d, NEW made, NEW N, NEW f, f = Coins(made, Native, N), Valued(f, N),
         NEW S \in SUBSET N, NEW b \in N \ S, IsTxList(made[b]), AllPlain(made[b]),
         NEW run, Modest(f, run, S)
  PROVE  Modest(f, ReplayOne(d, made, run, b), S \cup {b})
<1> DEFINE r == OutcomeIn(d, made, run, b)
<1>1. r.stake = NoStake /\ (r.minted = 0 \/ r.minted = Coin(made[b], Native))
  <2> DEFINE subsidy == IF b = Genesis THEN MaxSupply ELSE subsidy_at(HeightIn(d, b))
             score == IF b = Genesis THEN Ungated ELSE d.node[b].blue_score
             body == made[b]
             m == run.minted
             utxo == run.utxo
             h == HeightIn(d, b)
  <2>1. r = apply_block_inner(utxo, NoStake, body, subsidy, m, h, score)
    BY DEF OutcomeIn, Modest
  <2>2. IsTxList(body) /\ AllPlain(body)
    OBVIOUS
  <2> HIDE DEF subsidy, score, body, m, utxo, h, r
  <2>3. r.stake = NoStake /\ (r.minted = 0 \/ r.minted = Coin(body, Native))
    BY <2>1, <2>2, PlainBlock
  <2> QED
    BY <2>3 DEF body
<1>2. f[b] = Coin(made[b], Native) /\ f[b] \in Nat
  <2>1. f[b] = Coin(made[b], Native)
    BY DEF Coins
  <2> QED
    BY <2>1, CoinIs
<1>3. Count(f, S \cup {b}) = Count(f, S) + f[b] /\ Count(f, S) \in Nat
  <2>1. Valued(f, S) /\ b \notin S
    BY CountFacts
  <2>2. Valued(f, S) <=> Spends!Valued(f, S)
    BY DEF Valued
  <2>3. Spends!Count(f, S \cup {b}) = Spends!Count(f, S) + f[b]
    BY <1>2, <2>1, <2>2, Spends!CountAdds
  <2> QED
    BY <2>1, <2>3, CountFacts DEF Count
<1> HIDE DEF r
<1>4. CASE r.ok
  <2> DEFINE new == ReplayOne(d, made, run, b)
  <2>1. new = [utxo |-> r.utxo, stake |-> r.stake, minted |-> run.minted + r.minted,
               burned |-> run.burned + burned(r.fees), fees |-> run.fees + r.fees]
    BY <1>4 DEF ReplayOne, Counted, r
  <2>2. new.stake = r.stake /\ new.minted = run.minted + r.minted
    BY <2>1
  <2> HIDE DEF new
  <2>3. Modest(f, new, S \cup {b})
    BY <1>1, <1>2, <1>3, <2>2 DEF Modest
  <2> QED
    BY <2>3 DEF new
<1>5. CASE ~r.ok
  <2>1. ReplayOne(d, made, run, b) = run
    BY <1>5 DEF ReplayOne, Counted, r
  <2> QED
    BY <1>2, <1>3, <2>1 DEF Modest
<1> QED
  BY <1>4, <1>5

\* A list that names no block twice, and none of S.
Once(q, S) ==
  /\ \A i, j \in DOMAIN q : q[i] = q[j] => i = j
  /\ \A i \in DOMAIN q : q[i] \notin S

Placed(q, i) == {q[j] : j \in 1 .. i}

PlainBodies(made, N) == \A b \in N : IsTxList(made[b]) /\ AllPlain(made[b])

\* F is the loop over such a list, modest at every place.
StaysModest(d, made, N, f, S, q, base, n, F) ==
  /\ F[0] = base
  /\ \A i \in 1 .. n : F[i] = ReplayOne(d, made, F[i - 1], q[i])
  /\ \A i \in 0 .. n : Modest(f, F[i], S \cup Placed(q, i)) /\ S \cup Placed(q, i) \in SUBSET N
  /\ \A i \in 1 .. n : q[i] \in N \ (S \cup Placed(q, i - 1))

LEMMA ModestRuns ==
  ASSUME NEW d, NEW made, NEW N, NEW f, f = Coins(made, Native, N), Valued(f, N),
         PlainBodies(made, N),
         NEW S \in SUBSET N, NEW q \in Seq(N), Once(q, S),
         NEW base, Modest(f, base, S), NEW n, n = Len(q),
         NEW F, Replays!IsLoop(d, made, base, n, q, F)
  PROVE  StaysModest(d, made, N, f, S, q, base, n, F) /\ Placed(q, n) = ToSet(q)
<1>1. n \in Nat /\ DOMAIN q = 1 .. n /\ \A i \in 1 .. n : q[i] \in N
  OBVIOUS
<1>2. F[0] = base /\ \A i \in 1 .. n : F[i] = ReplayOne(d, made, F[i - 1], q[i])
  <2>1. 0 \in 0 .. n /\ \A i \in 1 .. n : i \in 0 .. n /\ i # 0
    BY <1>1
  <2> QED
    BY <2>1 DEF Replays!IsLoop
<1>3. \A i \in 0 .. n : S \cup Placed(q, i) \in SUBSET N
  <2>1. ASSUME NEW i \in 0 .. n, NEW j \in 1 .. i PROVE j \in 1 .. n
    BY <1>1
  <2> QED
    BY <1>1, <2>1 DEF Placed
<1>4. \A i \in 1 .. n : q[i] \in N \ (S \cup Placed(q, i - 1))
  <2>1. ASSUME NEW i \in 1 .. n, NEW j \in 1 .. i - 1 PROVE j \in 1 .. n /\ j # i
    BY <1>1
  <2> QED
    BY <1>1, <2>1 DEF Placed, Once
<1>5. Placed(q, n) = ToSet(q)
  BY <1>1 DEF Placed, ToSet
<1> DEFINE Good == {i \in 0 .. n : Modest(f, F[i], S \cup Placed(q, i))}
<1>6. 0 \in Good
  <2>1. Placed(q, 0) = {}
    BY DEF Placed
  <2>2. S \cup Placed(q, 0) = S /\ 0 \in 0 .. n
    BY <1>1, <2>1
  <2> QED
    BY <1>2, <2>2
<1>7. ASSUME NEW i \in 1 .. n, i - 1 \in Good PROVE i \in Good
  <2> DEFINE P == S \cup Placed(q, i - 1)
             b == q[i]
             run == F[i - 1]
  <2>1. Modest(f, run, P) /\ i \in 0 .. n /\ i - 1 \in 0 .. n
    BY <1>1, <1>7
  <2>2. b \in N \ P /\ P \in SUBSET N /\ F[i] = ReplayOne(d, made, run, b)
    BY <1>2, <1>3, <1>4, <2>1
  <2>3. S \cup Placed(q, i) = P \cup {b}
    <3>1. \A j : j \in 1 .. i <=> (j \in 1 .. i - 1 \/ j = i)
      BY <1>1
    <3> QED
      BY <3>1 DEF Placed
  <2> HIDE DEF P, b, run
  <2>4. IsTxList(made[b]) /\ AllPlain(made[b])
    BY <2>2 DEF PlainBodies
  <2>5. Modest(f, ReplayOne(d, made, run, b), P \cup {b})
    BY <2>1, <2>2, <2>4, ModestOne
  <2> QED
    BY <2>1, <2>2, <2>3, <2>5
<1> HIDE DEF Good
<1>8. \A i \in 0 .. n : i \in Good
  BY <1>1, <1>6, <1>7, Spends!NatUpTo
<1> QED
  BY <1>2, <1>3, <1>4, <1>5, <1>8 DEF Good, StaysModest

\* A block of the tail is applied as in the replay.
LEMMA TailStep ==
  ASSUME MaxSupply \in Nat, NEW N, NEW f, f = Coins(txs, Native, N), Valued(f, N),
         Count(f, N) <= MaxSupply,
         NEW S \in SUBSET N, NEW b \in N \ S, IsTxList(txs[b]),
         NEW run, Modest(f, run, S), b # Genesis, HeightOr0(b) = HeightIn(dag, b)
  PROVE  ApplyTail(run.utxo, b) = ReplayOne(dag, txs, run, b).utxo
<1> DEFINE r == OutcomeIn(dag, txs, run, b)
           t == apply_block_inner(run.utxo, NoStake, txs[b], subsidy_at(HeightOr0(b)), 0,
                                  HeightOr0(b), dag.node[b].blue_score)
<1>1. f[b] = Coin(txs[b], Native) /\ f[b] \in Nat
  <2>1. f[b] = Coin(txs[b], Native)
    BY DEF Coins
  <2> QED
    BY <2>1, CoinIs
<1>2. /\ Count(f, S \cup {b}) = Count(f, S) + f[b] /\ Count(f, S) \in Nat
      /\ Count(f, S \cup {b}) <= Count(f, N) /\ Count(f, S \cup {b}) \in Nat /\ Count(f, N) \in Nat
  <2>1. Valued(f, S) /\ b \notin S /\ S \cup {b} \in SUBSET N
    BY CountFacts
  <2>2. Valued(f, S) <=> Spends!Valued(f, S)
    BY DEF Valued
  <2>3. Spends!Count(f, S \cup {b}) = Spends!Count(f, S) + f[b]
    BY <1>1, <2>1, <2>2, Spends!CountAdds
  <2>4. Valued(f, S \cup {b}) /\ Count(f, S \cup {b}) <= Count(f, N)
    BY <2>1, CountFacts
  <2> QED
    BY <2>1, <2>3, <2>4, CountFacts DEF Count
<1>3. /\ run.minted \in Nat /\ run.stake = NoStake
      /\ run.minted + Coin(txs[b], Native) <= MaxSupply
      /\ 0 + Coin(txs[b], Native) <= MaxSupply
  <2>1. run.minted \in Nat /\ run.stake = NoStake /\ run.minted <= Count(f, S)
    BY DEF Modest
  <2> QED
    BY <1>1, <1>2, <2>1
<1>4. r = t
  <2> DEFINE m == run.minted
             utxo == run.utxo
             body == txs[b]
             h == HeightIn(dag, b)
             subsidy == subsidy_at(h)
             score == dag.node[b].blue_score
  <2>1. /\ r = apply_block_inner(utxo, NoStake, body, subsidy, m, h, score)
        /\ t = apply_block_inner(utxo, NoStake, body, subsidy, 0, h, score)
    BY <1>3 DEF OutcomeIn
  <2>2. /\ m \in Nat /\ m + Coin(body, Native) <= MaxSupply
        /\ 0 \in Nat /\ 0 + Coin(body, Native) <= MaxSupply /\ IsTxList(body)
    BY <1>3
  <2> HIDE DEF m, utxo, body, h, subsidy, score, r, t
  <2> QED
    BY <2>1, <2>2, CapLoose
<1>5. ApplyTail(run.utxo, b) = t.utxo
  BY DEF ApplyTail
<1>6. ~t.ok => t.utxo = run.utxo
  <2> DEFINE utxo == run.utxo
             body == txs[b]
             h == HeightOr0(b)
             subsidy == subsidy_at(h)
             score == dag.node[b].blue_score
  <2>1. t = apply_block_inner(utxo, NoStake, body, subsidy, 0, h, score)
    OBVIOUS
  <2> HIDE DEF utxo, body, h, subsidy, score, t
  <2>2. ~t.ok => t.utxo = utxo
    BY <2>1, FailedBlock
  <2> QED
    BY <2>2 DEF utxo
<1> HIDE DEF t
<1>7. CASE r.ok
  <2>1. ReplayOne(dag, txs, run, b)
          = [utxo |-> r.utxo, stake |-> r.stake, minted |-> run.minted + r.minted,
             burned |-> run.burned + burned(r.fees), fees |-> run.fees + r.fees]
    BY <1>7 DEF ReplayOne, Counted
  <2> HIDE DEF r
  <2> QED
    BY <1>4, <1>5, <2>1
<1>8. CASE ~r.ok
  <2>1. ReplayOne(dag, txs, run, b) = run
    BY <1>8 DEF ReplayOne, Counted
  <2> HIDE DEF r
  <2> QED
    BY <1>4, <1>5, <1>6, <1>8, <2>1
<1> QED
  BY <1>7, <1>8

\* So is the whole tail.
LEMMA TailFollows ==
  ASSUME MaxSupply \in Nat, NEW N, NEW f, f = Coins(txs, Native, N), Valued(f, N),
         Count(f, N) <= MaxSupply, PlainBodies(txs, N),
         NEW S \in SUBSET N, NEW q \in Seq(N), Once(q, S), NEW base, Modest(f, base, S),
         \A i \in DOMAIN q : q[i] # Genesis /\ HeightOr0(q[i]) = HeightIn(dag, q[i])
  PROVE  Tails!Run(0, 0, base.utxo, q) = Replays!Run(dag, txs, base, q).utxo
<1> DEFINE n == Len(q)
           d == dag
           made == txs
           utxo == base.utxo
<1>1. n \in Nat /\ DOMAIN q = 1 .. n
  OBVIOUS
<1> HIDE DEF n, d, made, utxo
<1>2. PICK F : Replays!IsLoop(d, made, base, n, q, F) /\ Replays!Run(d, made, base, q) = F[n]
  BY <1>1, Replays!LoopRuns
<1>3. PICK g : Tails!IsLoop(0, 0, utxo, n, q, g) /\ Tails!Run(0, 0, utxo, q) = g[n]
  BY <1>1, Tails!LoopRuns
<1>4. g[0] = utxo /\ \A i \in 1 .. n : g[i] = ApplyTail(g[i - 1], q[i])
  <2>1. 0 \in 0 .. n /\ \A i \in 1 .. n : i \in 0 .. n /\ i # 0
    BY <1>1
  <2> QED
    BY <1>3, <2>1 DEF Tails!IsLoop, TailOne
<1>5. /\ F[0] = base
      /\ \A i \in 1 .. n : F[i] = ReplayOne(d, made, F[i - 1], q[i])
      /\ \A i \in 0 .. n : Modest(f, F[i], S \cup Placed(q, i)) /\ S \cup Placed(q, i) \in SUBSET N
      /\ \A i \in 1 .. n : q[i] \in N \ (S \cup Placed(q, i - 1))
  <2>1. f = Coins(made, Native, N) /\ PlainBodies(made, N)
    BY DEF made
  <2>2. n = Len(q)
    BY DEF n
  <2>3. StaysModest(d, made, N, f, S, q, base, n, F)
    BY <1>2, <2>1, <2>2, ModestRuns
  <2> QED
    BY <2>3 DEF StaysModest
<1> DEFINE Good == {i \in 0 .. n : g[i] = F[i].utxo}
<1>6. 0 \in Good
  BY <1>1, <1>4, <1>5 DEF utxo
<1>7. ASSUME NEW i \in 1 .. n, i - 1 \in Good PROVE i \in Good
  <2> DEFINE P == S \cup Placed(q, i - 1)
             b == q[i]
             run == F[i - 1]
  <2>1. g[i - 1] = run.utxo /\ i \in 0 .. n /\ i - 1 \in 0 .. n
    BY <1>1, <1>7
  <2>2. /\ Modest(f, run, P) /\ P \in SUBSET N /\ b \in N \ P
        /\ F[i] = ReplayOne(d, made, run, b) /\ g[i] = ApplyTail(run.utxo, b)
    BY <1>4, <1>5, <2>1
  <2>3. b # Genesis /\ HeightOr0(b) = HeightIn(dag, b)
    BY <1>1
  <2> HIDE DEF P, b, run
  <2>4. IsTxList(txs[b])
    BY <2>2 DEF PlainBodies
  <2>5. ApplyTail(run.utxo, b) = ReplayOne(dag, txs, run, b).utxo
    BY <2>2, <2>3, <2>4, TailStep
  <2> QED
    BY <2>1, <2>2, <2>5 DEF d, made
<1> HIDE DEF Good
<1>8. \A i \in 0 .. n : i \in Good
  BY <1>1, <1>6, <1>7, Spends!NatUpTo
<1>9. n \in Good
  BY <1>1, <1>8
<1> QED
  BY <1>2, <1>3, <1>9 DEF Good, d, made, utxo

\* A list of all blocks names none twice.
LEMMA ListedOnce ==
  ASSUME NEW d, WellFormed(d), NEW q, NEW S, Lists(d, q, S)
  PROVE  \A i, j \in DOMAIN q : q[i] = q[j] => i = j
<1> DEFINE n == Len(q)
           I == 1 .. n
<1>1. n \in Nat /\ DOMAIN q = I /\ q \in [I -> S] /\ n = Cardinality(S)
  <2>1. q \in Seq(Nodes(d)) /\ ToSet(q) = S /\ n = Cardinality(S)
    BY DEF Lists
  <2>2. n \in Nat /\ DOMAIN q = I
    BY <2>1
  <2>3. \A i \in I : q[i] \in S
    BY <2>1, <2>2 DEF ToSet
  <2>4. q = [i \in I |-> q[i]]
    BY <2>1
  <2> QED
    BY <2>1, <2>2, <2>3, <2>4
<1>2. IsFiniteSet(I) /\ Cardinality(I) = n
  BY <1>1, FS_Interval
<1>3. q \in Surjection(I, S)
  <2>1. ToSet(q) = S
    BY DEF Lists
  <2>2. \A t \in S : \E i \in I : q[i] = t
    BY <1>1, <2>1 DEF ToSet
  <2> HIDE DEF I
  <2> QED
    BY <1>1, <2>2 DEF Surjection
<1> HIDE DEF I, n
<1>4. q \in Injection(I, S)
  BY <1>1, <1>2, <1>3, FS_SurjSameCardinalityImpliesInj
<1> QED
  BY <1>1, <1>4 DEF Injection, IsInjective

\* The order of a block ends with it.
LEMMA OrderEnds ==
  ASSUME NEW d, ByTheRule(d), NoBlock \notin Nodes(d), NEW b \in Nodes(d)
  PROVE  LET o == OrderOf(d, b)
         IN  Len(o) \in Nat \ {0} /\ o[Len(o)] = b
<1>1. CASE b = Genesis
  <2>1. OrderOf(d, b) = <<b>>
    BY <1>1, OrderIs
  <2> QED
    BY <2>1
<1>2. CASE b # Genesis
  <2> DEFINE s == d.node[b].sp
             M == Rules!Merged(d, s, d.node[b].parents)
             m == SortTopo(d, M)
             N == Nodes(d)
             o == OrderOf(d, s)
  <2>1. OrderOf(d, b) = o \o Append(m, b)
    BY <1>2, OrderIs
  <2>2. s \in N /\ o \in Seq(N)
    BY <1>2, SelectedBelow, OrderIs
  <2>3. m \in Seq(N)
    <3>1. d.node[b].parents \in SUBSET N /\ WellFormed(d) /\ PastIsAncestry(d)
      BY RuledAncestry DEF ByTheRule, WellFormed
    <3>2. M \in SUBSET Nodes(d)
      BY <2>2, <3>1, MergesetIs
    <3>3. m \in Seq(M)
      BY <3>1, <3>2, WellNumbered, SortTopoLists
    <3> HIDE DEF m, M, N
    <3> QED
      BY <3>2, <3>3 DEF N
  <2>4. b \in N
    OBVIOUS
  <2> HIDE DEF s, M, m, N, o
  <2>5. Append(m, b) \in Seq(N) /\ Len(Append(m, b)) = Len(m) + 1 /\ Append(m, b)[Len(m) + 1] = b
    BY <2>3, <2>4
  <2> DEFINE z == Append(m, b)
  <2> HIDE DEF z
  <2>6. /\ z \in Seq(N) /\ Len(z) = Len(m) + 1 /\ z[Len(m) + 1] = b /\ Len(m) \in Nat
    BY <2>3, <2>5 DEF z
  <2>7. /\ Len(o) \in Nat /\ Len(o \o z) = Len(o) + Len(z)
        /\ \A i \in 1 .. Len(z) : (o \o z)[Len(o) + i] = z[i]
    <3> DEFINE k == Len(o)
               l == Len(z)
    <3>1. k = Len(o) /\ l = Len(z) /\ z \in Seq(N)
      BY <2>6
    <3> HIDE DEF k, l
    <3>2. k \in Nat /\ Len(o \o z) = k + l /\ \A i \in 1 .. l : (o \o z)[k + i] = z[i]
      BY <2>2, <3>1, ConcatIs
    <3> QED
      BY <3>1, <3>2
  <2>8. Len(z) \in 1 .. Len(z) /\ Len(z) \in Nat \ {0}
    BY <2>6
  <2>9. (o \o z)[Len(o \o z)] = b /\ Len(o \o z) \in Nat \ {0}
    BY <2>6, <2>7, <2>8
  <2> QED
    BY <2>1, <2>9 DEF z
<1> QED
  BY <1>1, <1>2

\* q is what follows t in z, and z names nothing twice.
ComesAfter(t, q, z) ==
  /\ SubSeq(z, (CHOOSE i \in DOMAIN z : z[i] = t) + 1, Len(z)) = q
  /\ ToSet(q) \subseteq ToSet(Tail(z))

NoRepeat(z) == \A i, j \in DOMAIN z : z[i] = z[j] => i = j

\* What follows the block at which a part of an order ends.
LEMMA AfterTip ==
  ASSUME NEW X, NEW o \in Seq(X), Len(o) # 0, NEW q \in Seq(X), NEW t, o[Len(o)] = t,
         NEW z, z = o \o q, NoRepeat(z)
  PROVE  ComesAfter(t, q, z)
<1> DEFINE n == Len(o)
           m == Len(q)
           at == CHOOSE i \in DOMAIN z : z[i] = t
<1>1. /\ n \in Nat \ {0} /\ m \in Nat /\ z \in Seq(X) /\ Len(z) = n + m /\ DOMAIN z = 1 .. n + m
      /\ \A i \in 1 .. n : z[i] = o[i]
      /\ \A i \in 1 .. m : z[n + i] = q[i]
  BY ConcatIs
<1>2. n \in DOMAIN z /\ z[n] = t
  BY <1>1
<1>3. at = n
  BY <1>2 DEF NoRepeat
<1> DEFINE s == SubSeq(z, n + 1, Len(z))
<1>4. s \in Seq(X) /\ Len(s) = m /\ \A i \in 1 .. m : s[i] = z[n + i]
  <2>1. n + 1 \in 1 .. Len(z) + 1 /\ Len(z) \in Nat
    BY <1>1
  <2> HIDE DEF n, m
  <2>2. /\ s \in Seq(X) /\ Len(s) = Len(z) - n
        /\ \A i \in 1 .. Len(s) : s[i] = z[n + i]
    BY <1>1, <2>1
  <2> QED
    BY <1>1, <2>2
<1>5. s = q
  <2>1. \A i \in 1 .. m : s[i] = q[i]
    BY <1>1, <1>4
  <2> HIDE DEF s
  <2>2. s = [i \in 1 .. m |-> s[i]] /\ q = [i \in 1 .. m |-> q[i]]
    BY <1>4
  <2> QED
    BY <2>1, <2>2
<1>6. ToSet(q) \subseteq ToSet(Tail(z))
  <2> DEFINE u == Tail(z)
  <2>1. z # <<>>
    BY <1>1
  <2>2. Len(u) = Len(z) - 1 /\ u \in Seq(X) /\ \A i \in 1 .. Len(u) : u[i] = z[i + 1]
    BY <1>1, <2>1
  <2> HIDE DEF u, n, m
  <2>3. DOMAIN u = 1 .. n + m - 1
    BY <1>1, <2>2
  <2>4. ASSUME NEW i \in 1 .. m PROVE q[i] \in ToSet(u)
    <3>1. n + i - 1 \in 1 .. n + m - 1 /\ (n + i - 1) + 1 = n + i
      <4>1. n \in Nat /\ m \in Nat /\ n >= 1 /\ i \in Nat /\ i >= 1 /\ i <= m
        BY <1>1
      <4> QED
        BY <4>1
    <3>2. u[n + i - 1] = z[n + i]
      BY <1>1, <2>2, <3>1
    <3>3. q[i] = u[n + i - 1]
      BY <1>1, <3>2
    <3>4. n + i - 1 \in DOMAIN u
      BY <2>3, <3>1
    <3> QED
      BY <3>3, <3>4 DEF ToSet
  <2>5. DOMAIN q = 1 .. m
    BY DEF m
  <2> QED
    BY <2>4, <2>5 DEF ToSet, u
<1> HIDE DEF at, s, n
<1> QED
  BY <1>3, <1>5, <1>6 DEF at, s, ComesAfter

IsTail(N, t, S, o, q, z) ==
  /\ z = o \o q /\ o \in Seq(N) /\ q \in Seq(N) /\ S \in SUBSET N
  /\ ToSet(o) = S /\ Once(o, {}) /\ Once(q, S) /\ ToSet(q) = N \ S
  /\ ComesAfter(t, q, z)

\* The order of a DAG: that of its selected tip, and the tail.
LEMMA TailIs ==
  ASSUME NEW d, Sound(d), NoBlock \notin Nodes(d), NEW t, t = selected_tip(d),
         NEW S, S = d.node[t].past \cup {t}, NEW o, o = OrderOf(d, t),
         NEW q, q = SortTopo(d, Nodes(d) \ S), NEW z, z = linearize(d)
  PROVE  IsTail(Nodes(d), t, S, o, q, z)
<1> DEFINE N == Nodes(d)
<1>1. ByTheRule(d) /\ WellFormed(d) /\ t \in N
  BY TipIsHeaviest DEF Sound, ByTheRule
<1>2. Lists(d, o, S)
  BY <1>1, OrderLists
<1>3. o \in Seq(N) /\ S \in SUBSET N /\ ToSet(o) = S
  BY <1>2 DEF Lists
<1>4. z = o \o q
  BY LinearizeIs
<1>5. /\ q \in Seq(N) /\ ToSet(q) = N \ S /\ DOMAIN q = 1 .. Len(q)
      /\ \A i, j \in 1 .. Len(q) : TopoKeyLess(d, q[i], q[j]) <=> i < j
  <2> DEFINE T == N \ S
  <2>1. Numbered(d) /\ T \in SUBSET Nodes(d)
    BY <1>1, WellNumbered
  <2> HIDE DEF T, N
  <2> DEFINE c == Cardinality(T)
  <2>2. q = SortTopo(d, T)
    BY DEF T, N
  <2>3. /\ q \in Seq(T) /\ ToSet(q) = T /\ Len(q) = c
        /\ \A i, j \in 1 .. c : TopoKeyLess(d, q[i], q[j]) <=> i < j
    BY <2>1, <2>2, SortTopoLists
  <2> HIDE DEF c
  <2>4. T \subseteq N
    BY DEF T
  <2>5. q \in Seq(N) /\ DOMAIN q = 1 .. Len(q)
    BY <2>3, <2>4
  <2> QED
    BY <2>3, <2>5 DEF T
<1>6. Once(o, {})
  BY <1>1, <1>2, ListedOnce DEF Once
<1>7. Once(q, S)
  <2>1. \A a \in N : ~TopoKeyLess(d, a, a)
    BY <1>1, WellNumbered, TopoOrder
  <2> DEFINE Less(i, j) == TopoKeyLess(d, q[i], q[j])
  <2>4. \A i, j \in 1 .. Len(q) : Less(i, j) <=> i < j
    BY <1>5
  <2>2. ASSUME NEW i \in 1 .. Len(q), NEW j \in 1 .. Len(q), q[i] = q[j] PROVE i = j
    <3>1. q[i] \in N
      BY <1>5
    <3>2. ~Less(i, j) /\ ~Less(j, i)
      BY <2>1, <2>2, <3>1
    <3> HIDE DEF Less
    <3>3. ~(i < j) /\ ~(j < i)
      BY <2>4, <3>2
    <3>4. i \in Int /\ j \in Int
      OBVIOUS
    <3> QED
      BY <3>3, <3>4
  <2>3. \A i \in 1 .. Len(q) : q[i] \in N \ S
    BY <1>5 DEF ToSet
  <2>5. \A i, j \in 1 .. Len(q) : q[i] = q[j] => i = j
    BY <2>2
  <2> DEFINE D == 1 .. Len(q)
  <2>6. DOMAIN q = D /\ \A i \in D : q[i] \notin S
    BY <1>5, <2>3
  <2> HIDE DEF D
  <2>7. \A i, j \in D : q[i] = q[j] => i = j
    BY <2>5 DEF D
  <2> QED
    BY <2>6, <2>7 DEF Once
<1>8. Len(o) # 0 /\ o[Len(o)] = t
  BY <1>1, OrderEnds
<1>9. NoRepeat(z)
  <2>1. Lists(d, z, Nodes(d))
    BY LinearizeLists
  <2> QED
    BY <1>1, <2>1, ListedOnce DEF NoRepeat
<1> HIDE DEF N
<1>10. ComesAfter(t, q, z)
  <2>1. o \in Seq(N) /\ q \in Seq(N) /\ Len(o) # 0 /\ o[Len(o)] = t /\ z = o \o q /\ NoRepeat(z)
    BY <1>3, <1>4, <1>5, <1>8, <1>9
  <2> QED
    BY <2>1, AfterTip
<1> QED
  BY <1>3, <1>4, <1>5, <1>6, <1>7, <1>10 DEF N, IsTail

\* ledger_state is the loop over what follows the selected tip.
LEMMA LedgerStateIs ==
  ASSUME NEW q, ComesAfter(selected_tip(dag), q, linearize(dag))
  PROVE  ledger_state = Tails!Run(0, 0, tip_state, q)
<1> DEFINE order == linearize(dag)
           at == CHOOSE i \in DOMAIN order : order[i] = selected_tip(dag)
           s == SubSeq(order, at + 1, Len(order))
<1>1. s = q
  BY DEF ComesAfter
<1>2. ledger_state = FoldLeft(ApplyTail, tip_state, s)
  BY DEF ledger_state
<1> HIDE DEF s
<1>3. FoldLeft(ApplyTail, tip_state, s) = Tails!Run(0, 0, tip_state, s)
  BY DEF TailOne, Tails!Run, FoldLeft, Tails!MapThenFoldSet, MapThenFoldSet, Tails!Max, Max
<1> QED
  BY <1>1, <1>2, <1>3

\* The full ledger state is the replay of every block in linearized order.
LEMMA ReplayInvTails ==
  ASSUME ReplayInv, NoViewIsNone
  PROVE  LedgerStateIsReplay
<1> DEFINE t == selected_tip(dag)
           N == Nodes(dag)
           S == dag.node[t].past \cup {t}
           o == OrderOf(dag, t)
           q == SortTopo(dag, N \ S)
           z == linearize(dag)
<1> SUFFICES ASSUME TailIsPlain, FallbackExact,
                    ToSet(Tail(z)) \ dag.node[t].past \subseteq NonFinal
             PROVE  ledger_state = Replay(z).utxo
  BY DEF LedgerStateIsReplay
<1>1. ViewsInv /\ BlocksInv
  BY DEF ReplayInv, ViewsInv, LedgerInv
<1>2. PICK V : ViewsHold(V) /\ Replayed(V)
  BY DEF ReplayInv
<1>3. /\ Sound(dag) /\ ByTheRule(dag) /\ NoBlock \notin N /\ DOMAIN deltas = NonFinal
      /\ IsFiniteSet(N) /\ \A b \in N : IsTxList(txs[b])
  BY <1>1, NoBlockAssumption DEF BlocksInv, Sound, ReplayInv, ByTheRule, WellFormed
<1>4. FallsBack(dag)
  BY DEF FallbackExact, FallsBack, NonFinal, TrueHeight, HeightIn
<1>5. /\ z = o \o q /\ o \in Seq(N) /\ q \in Seq(N) /\ S \in SUBSET N
      /\ ToSet(o) = S /\ Once(o, {}) /\ Once(q, S) /\ ToSet(q) = N \ S /\ ComesAfter(t, q, z)
  <2> DEFINE d == dag
  <2>1. Sound(d) /\ NoBlock \notin Nodes(d) /\ t = selected_tip(d) /\ S = d.node[t].past \cup {t}
        /\ o = OrderOf(d, t) /\ q = SortTopo(d, Nodes(d) \ S) /\ z = linearize(d) /\ N = Nodes(d)
    BY <1>3
  <2> HIDE DEF d, N, t, S, o, q, z
  <2>2. IsTail(Nodes(d), t, S, o, q, z)
    BY <2>1, TailIs
  <2> QED
    BY <2>1, <2>2 DEF IsTail
<1> DEFINE f == Coins(txs, Native, N)
<1>6. Valued(f, N) /\ Count(f, N) <= MaxSupply /\ PlainBodies(txs, N)
  <2>1. \A b \in N : AllPlain(txs[b])
    BY DEF TailIsPlain, AllPlain
  <2> DEFINE made == txs
  <2>2. CoinSum(made, Native, N) <= MaxSupply
    BY DEF TailIsPlain, CoinSum
  <2>3. N \in SUBSET N /\ IsFiniteSet(N) /\ f = Coins(made, Native, N)
        /\ \A b \in N : IsTxList(made[b]) /\ AllPlain(made[b])
    BY <1>3, <2>1
  <2> HIDE DEF made, N, f
  <2>4. Valued(f, N) /\ CoinSum(made, Native, N) = Count(f, N) /\ PlainBodies(made, N)
    BY <2>3, CoinsAre DEF PlainBodies
  <2> QED
    BY <2>2, <2>4 DEF made
<1> DEFINE base == RunOf(dag, txs, t)
<1>7. Modest(f, base, S)
  <2> DEFINE d == dag
             made == txs
             n == Len(o)
             none == {}
  <2>1. /\ f = Coins(made, Native, N) /\ PlainBodies(made, N) /\ base = Replays!Run(d, made, Nothing, o)
        /\ n = Len(o) /\ n \in Nat /\ DOMAIN o = 1 .. n /\ none \in SUBSET N /\ Once(o, none)
    BY <1>5, <1>6 DEF RunOf
  <2>2. Modest(f, Nothing, none)
    <3>1. Count(f, none) = 0 /\ Nothing.stake = NoStake /\ Nothing.minted = 0
      BY CountFacts DEF Nothing
    <3> HIDE DEF none, f
    <3> QED
      BY <3>1 DEF Modest
  <2> HIDE DEF d, made, n, none, f, N, o, base, S
  <2>3. PICK F : Replays!IsLoop(d, made, Nothing, n, o, F)
                 /\ Replays!Run(d, made, Nothing, o) = F[n]
    BY <2>1, Replays!LoopRuns
  <2>4. StaysModest(d, made, N, f, none, o, Nothing, n, F) /\ Placed(o, n) = ToSet(o)
    BY <1>5, <1>6, <2>1, <2>2, <2>3, ModestRuns
  <2>5. Modest(f, F[n], none \cup Placed(o, n))
    <3>1. \A i \in 0 .. n : Modest(f, F[i], none \cup Placed(o, i))
      BY <2>4 DEF StaysModest
    <3>2. n \in 0 .. n
      BY <2>1
    <3> QED
      BY <3>1, <3>2
  <2>6. none \cup Placed(o, n) = S
    BY <1>5, <2>4 DEF none
  <2> QED
    BY <2>1, <2>3, <2>5, <2>6
<1>8. base.utxo = tip_state
  <2>1. t \in N /\ ~is_final(dag, t)
    BY <1>3, TipIsHeaviest, FinalIs
  <2>2. Told(dag, txs, block_minted, block_fees, V) /\ tip_state = V[t].utxo
    BY <1>2, <1>4 DEF Replayed, ViewsHold
  <2> QED
    BY <2>1, <2>2 DEF Told
<1>9. \A i \in DOMAIN q : q[i] # Genesis /\ HeightOr0(q[i]) = HeightIn(dag, q[i])
  <2>1. ASSUME NEW i \in DOMAIN q PROVE q[i] # Genesis /\ HeightOr0(q[i]) = HeightIn(dag, q[i])
    <3> DEFINE b == q[i]
    <3>1. b \in ToSet(q)
      BY DEF ToSet
    <3> HIDE DEF b
    <3>2. b \in N \ S /\ b \in ToSet(Tail(z))
      BY <1>5, <3>1 DEF ComesAfter
    <3>3. Genesis \in S
      BY <1>3, TipIsHeaviest, GenesisBelow
    <3>4. b \in NonFinal
      BY <3>2
    <3>5. HeightOr0(b) = HeightIn(dag, b)
      BY <1>2, <1>3, <1>4, <3>2, <3>4, HeightsMatch DEF ViewsHold
    <3> QED
      BY <3>2, <3>3, <3>5 DEF b
  <2> QED
    BY <2>1
<1>10. ledger_state = Tails!Run(0, 0, base.utxo, q)
  <2>1. ledger_state = Tails!Run(0, 0, tip_state, q)
    BY <1>5, LedgerStateIs
  <2> QED
    BY <1>8, <2>1
<1>11. Tails!Run(0, 0, base.utxo, q) = Replays!Run(dag, txs, base, q).utxo
  <2>1. f = Coins(txs, Native, N) /\ MaxSupply \in Nat
    BY NumbersAssumption
  <2> HIDE DEF f, N, S, q, base
  <2> QED
    BY <1>5, <1>6, <1>7, <1>9, <2>1, TailFollows
<1>12. Replay(z) = Replays!Run(dag, txs, base, q)
  <2> DEFINE d == dag
             made == txs
  <2>1. Replay(z) = Replays!Run(d, made, Nothing, z) /\ base = Replays!Run(d, made, Nothing, o)
    BY ReplayRuns DEF RunOf
  <2> HIDE DEF d, made, z, o, q, N, base
  <2>2. Replays!Run(d, made, Nothing, o \o q)
          = Replays!Run(d, made, Replays!Run(d, made, Nothing, o), q)
    BY <1>5, Replays!RunConcat
  <2>3. Replay(z) = Replays!Run(d, made, base, q)
    BY <1>5, <2>1, <2>2
  <2> QED
    BY <2>3 DEF d, made
<1> QED
  BY <1>10, <1>11, <1>12

(***************************************************************************)
(* Views are exact: the undo log answers for every block that may be built *)
(* upon, with what applying the order of its past gives; the materialised  *)
(* view of the tip is the rebuilt one; and ledger_state is the replay of   *)
(* all blocks.                                                             *)
(***************************************************************************)
THEOREM ReplaysAreExact ==
  ASSUME PayloadIsTyped, NoViewIsNone
  PROVE  Spec /\ []UniqueIds /\ FinalityRises /\ NoStrayBonds => []ViewsExact
<1> DEFINE Rises == FinalStay(dag, dag')
           NoStray == \A id \in Nodes(dag') \ Nodes(dag) : CleanMerge(dag, dag', id)
<1>1. Init => ReplayInv
  BY ReplayInvInit
<1>2. ReplayInv /\ UniqueIds' /\ [Next]_vars /\ [Rises]_vars /\ [NoStray]_vars => ReplayInv'
  BY ReplayInvNext
<1>3. ReplayInv => ViewsExact
  BY ReplayInvSuffices, ReplayInvTails DEF ViewsExact
<1> QED
  BY <1>1, <1>2, <1>3, PTL DEF Spec, FinalityRises, NoStrayBonds

-----------------------------------------------------------------------------
(***************************************************************************)
(* Assets.  Regular transactions make none, coinbases make what Coin says; *)
(* so no view holds more of an asset than the coinbases of its past made.  *)
(***************************************************************************)
KeepsFrom(utxo, acc) == acc.ok => \A a : Total(acc.utxo, a) <= Total(utxo, a)

\* One transaction of a block leaves no more of any asset than there was.
LEMMA RegularKeeps ==
  ASSUME NEW utxo, IsView(utxo), NEW acc, RunsFrom(utxo, acc), KeepsFrom(utxo, acc),
         NEW tx, IsTx(tx), NEW h, NEW score
  PROVE  KeepsFrom(utxo, apply_regular(acc, tx, h, score))
<1> DEFINE r == apply_regular(acc, tx, h, score)
           valid == regular_valid(acc.utxo, acc.stake, tx, h, score)
           u == acc.utxo
           after == InsertAll(RemoveAll(u, Spent(tx)), Created(tx, h, FALSE))
<1>1. CASE ~acc.ok \/ ~valid
  <2>1. r = [acc EXCEPT !.ok = FALSE] /\ "ok" \in DOMAIN acc
    BY <1>1 DEF apply_regular, RunsFrom
  <2>2. ~r.ok
    BY <2>1
  <2> HIDE DEF r
  <2>3. KeepsFrom(utxo, r)
    BY <2>2 DEF KeepsFrom
  <2> QED
    BY <2>3 DEF r
<1>2. CASE acc.ok /\ valid
  <2>1. r.utxo = after
    BY <1>2 DEF apply_regular
  <2>2. IsView(u)
    BY <1>2 DEF RunsFrom
  <2>3. /\ IsView(after)
        /\ \A a : /\ AssetIn(u, tx, a) \in Nat /\ AssetOut(tx, a) \in Nat
                  /\ AssetOut(tx, a) <= AssetIn(u, tx, a)
                  /\ Total(after, a) + AssetIn(u, tx, a) = Total(u, a) + AssetOut(tx, a)
    <3> DEFINE stake == acc.stake
    <3>1. regular_valid(u, stake, tx, h, score)
      BY <1>2
    <3> HIDE DEF u, stake
    <3> QED
      BY <2>2, <3>1, RegularBalances
  <2> HIDE DEF r, after, u
  <2>4. ASSUME NEW a PROVE Total(r.utxo, a) <= Total(utxo, a)
    <3>1. Total(u, a) <= Total(utxo, a)
      BY <1>2 DEF KeepsFrom, u
    <3>2. Total(u, a) \in Nat /\ Total(after, a) \in Nat /\ Total(utxo, a) \in Nat
      BY <2>2, <2>3, TotalIs
    <3>3. /\ AssetIn(u, tx, a) \in Nat /\ AssetOut(tx, a) \in Nat
          /\ AssetOut(tx, a) <= AssetIn(u, tx, a)
          /\ Total(after, a) + AssetIn(u, tx, a) = Total(u, a) + AssetOut(tx, a)
      BY <2>3
    <3>4. Total(after, a) <= Total(u, a)
      BY <3>2, <3>3
    <3> QED
      BY <2>1, <3>1, <3>2, <3>4
  <2>5. KeepsFrom(utxo, r)
    BY <2>4 DEF KeepsFrom
  <2> QED
    BY <2>5 DEF r
<1> QED
  BY <1>1, <1>2

\* So do all of them.
LEMMA RegularsKeep ==
  ASSUME NEW utxo, IsView(utxo), NEW stake, NEW q, IsTxList(q), NEW h, NEW score
  PROVE  KeepsFrom(utxo, apply_regulars(utxo, stake, q, h, score))
<1> DEFINE base == [ok |-> TRUE, utxo |-> utxo, stake |-> stake, fees |-> 0]
           n == Len(q)
<1>1. n \in Nat /\ DOMAIN q = 1 .. n /\ \A i \in 1 .. n : IsTx(q[i])
  BY DEF IsTxList, ToSet
<1>2. RunsFrom(utxo, base) /\ KeepsFrom(utxo, base)
  <2>1. \A a : Total(utxo, a) \in Nat
    BY TotalIs
  <2>2. Total(base.utxo, Native) + base.fees = Total(utxo, Native)
    BY <2>1
  <2>3. \A a : Total(base.utxo, a) <= Total(utxo, a)
    BY <2>1
  <2> QED
    BY <2>2, <2>3 DEF RunsFrom, KeepsFrom
<1> HIDE DEF base, n
<1>3. PICK f : Spends!IsLoop(h, score, base, n, q, f) /\ Spends!Run(h, score, base, q) = f[n]
  BY <1>1, Spends!LoopRuns
<1>4. f[0] = base /\ \A i \in 1 .. n : f[i] = apply_regular(f[i - 1], q[i], h, score)
  <2>1. 0 \in 0 .. n /\ \A i \in 1 .. n : i \in 0 .. n /\ i # 0
    BY <1>1
  <2> QED
    BY <1>3, <2>1 DEF Spends!IsLoop
<1> DEFINE Good == {i \in 0 .. n : RunsFrom(utxo, f[i]) /\ KeepsFrom(utxo, f[i])}
<1>5. 0 \in Good
  BY <1>1, <1>2, <1>4
<1>6. ASSUME NEW i \in 1 .. n, i - 1 \in Good PROVE i \in Good
  <2>1. RunsFrom(utxo, f[i - 1]) /\ KeepsFrom(utxo, f[i - 1])
    BY <1>6
  <2>2. /\ RunsFrom(utxo, apply_regular(f[i - 1], q[i], h, score))
        /\ KeepsFrom(utxo, apply_regular(f[i - 1], q[i], h, score))
    BY <1>1, <2>1, RegularRuns, RegularKeeps
  <2>3. i \in 0 .. n
    BY <1>1
  <2> QED
    BY <1>4, <2>2, <2>3
<1>7. n \in Good
  <2> HIDE DEF Good
  <2>1. \A i \in 0 .. n : i \in Good
    BY <1>1, <1>5, <1>6, Spends!NatUpTo
  <2> QED
    BY <1>1, <2>1
<1> QED
  BY <1>3, <1>7, RegularsAre DEF base

\* A block adds of each asset at most what its coinbase makes.
LEMMA BlockKeeps ==
  ASSUME NEW utxo, IsView(utxo), NEW stake, NEW body, IsTxList(body),
         NEW subsidy, NEW minted, NEW h, NEW score
  PROVE  LET r == apply_block_inner(utxo, stake, body, subsidy, minted, h, score)
         IN  /\ IsView(r.utxo)
             /\ \A a : Total(r.utxo, a) <= Total(utxo, a) + Coin(body, a)
<1> DEFINE cb == {body[i] : i \in {j \in DOMAIN body : j = 1 /\ is_coinbase(body[j])}}
           rest == IF cb = {} THEN body ELSE Tail(body)
           run == apply_regulars(utxo, stake, rest, h, score)
           ok == run.ok /\ \A c \in cb : coinbase_valid(run.utxo, c, subsidy + fee_share(run.fees),
                                                        minted, score)
           r == apply_block_inner(utxo, stake, body, subsidy, minted, h, score)
           c == body[1]
           new == Created(c, h, TRUE)
<1>1. r = IF ok
          THEN [ok |-> TRUE, utxo |-> WithCoinbase(run.utxo, h, cb), stake |-> run.stake,
                fees |-> run.fees, minted |-> Minted(cb)]
          ELSE [ok |-> FALSE, utxo |-> utxo, stake |-> run.stake, fees |-> 0, minted |-> 0]
  BY DEF apply_block_inner, Settle, WithCoinbase, Minted
<1>2. IsTxList(rest)
  BY RestIs
<1>3. RunsFrom(utxo, run) /\ KeepsFrom(utxo, run)
  <2> HIDE DEF rest
  <2> QED
    BY <1>2, RegularsRun, RegularsKeep
<1>4. /\ \A a : Coin(body, a) \in Nat
      /\ \/ cb = {} /\ \A a : Coin(body, a) = 0
         \/ /\ cb = {c} /\ IsTx(c) /\ \A a : Coin(body, a) = AssetOut(c, a)
  <2>1. \A a : /\ Coin(body, a) \in Nat
               /\ \/ cb = {} /\ Coin(body, a) = 0
                  \/ cb = {c} /\ IsTx(c) /\ Coin(body, a) = AssetOut(c, a)
    BY CoinIs
  <2> HIDE DEF cb, c
  <2> QED
    BY <2>1
<1>5. \A a : Total(utxo, a) \in Nat
  BY TotalIs
<1>6. ok => cb = {} \/ AllNew(run.utxo, c)
  <2> HIDE DEF run, c
  <2>1. cb = {c} => c \in cb
    OBVIOUS
  <2> QED
    BY <1>4, <2>1 DEF coinbase_valid
<1>7. ok => run.ok
  OBVIOUS
<1>8. cb = {} => WithCoinbase(run.utxo, h, cb) = run.utxo
  BY CoinbaseIs
<1>9. cb = {c} => WithCoinbase(run.utxo, h, cb) = InsertAll(run.utxo, new)
  <2> DEFINE u == run.utxo
  <2> HIDE DEF u, c, cb
  <2>1. cb = {c} => WithCoinbase(u, h, cb) = MintOne(h, 0, u, c)
    BY CoinbaseIs
  <2>2. MintOne(h, 0, u, c) = InsertAll(u, new)
    BY DEF MintOne
  <2> QED
    BY <2>1, <2>2, Zenon DEF u
<1> HIDE DEF cb, run, c, new
<1>10. CASE ~ok
  <2>1. r.utxo = utxo
    BY <1>1, <1>10
  <2> QED
    BY <1>4, <1>5, <2>1
<1>11. CASE ok
  <2> DEFINE u == run.utxo
  <2>1. r.utxo = WithCoinbase(u, h, cb)
    BY <1>1, <1>11
  <2>2. IsView(u) /\ \A a : Total(u, a) <= Total(utxo, a)
    BY <1>3, <1>7, <1>11 DEF RunsFrom, KeepsFrom
  <2>3. \A a : Total(u, a) \in Nat
    BY <2>2, TotalIs
  <2> HIDE DEF u, r, ok
  <2>4. CASE cb = {} /\ \A a : Coin(body, a) = 0
    <3>1. r.utxo = u
      BY <1>8, <2>1, <2>4 DEF u
    <3> QED
      BY <1>5, <2>2, <2>3, <2>4, <3>1 DEF r
  <2>5. CASE /\ cb = {c} /\ IsTx(c) /\ \A a : Coin(body, a) = AssetOut(c, a)
    <3>1. r.utxo = InsertAll(u, new)
      BY <1>9, <2>1, <2>5 DEF u
    <3>2. AllNew(u, c)
      <4>1. c \in cb
        BY <2>5
      <4> QED
        BY <1>6, <1>11, <4>1 DEF u
    <3>3. DOMAIN u \cap DOMAIN new = {}
      BY <3>2 DEF AllNew, Created, new
    <3>4. IsView(new) /\ \A a : Total(new, a) = Coin(body, a)
      <4>1. IsView(new) /\ \A a : Total(new, a) = AssetOut(c, a)
        BY <2>5, CreatedTotal DEF new
      <4> QED
        BY <2>5, <4>1
    <3>5. IsView(r.utxo) /\ \A a : Total(r.utxo, a) = Total(u, a) + Coin(body, a)
      <4>1. /\ IsView(InsertAll(u, new))
            /\ \A a : Total(InsertAll(u, new), a) = Total(u, a) + Total(new, a)
        BY <2>2, <3>3, <3>4, TotalInserts
      <4> QED
        BY <3>1, <3>4, <4>1
    <3> QED
      BY <1>4, <1>5, <2>2, <2>3, <3>5 DEF r
  <2> QED
    BY <1>4, <2>4, <2>5
<1> QED
  BY <1>10, <1>11

\* What the coinbases of S, blocks of N, make of an asset.
MadeBy(made, N, a, S) == Count(Coins(made, a, N), S)

TxLists(made, N) == IsFiniteSet(N) /\ \A b \in N : IsTxList(made[b])

LEMMA MadeByIs ==
  ASSUME NEW made, NEW N, TxLists(made, N), NEW S \in SUBSET N, NEW a
  PROVE  /\ MadeBy(made, N, a, S) \in Nat
         /\ \A b \in N \ S : MadeBy(made, N, a, S \cup {b})
                               = MadeBy(made, N, a, S) + Coin(made[b], a)
<1> DEFINE f == Coins(made, a, N)
<1>1. Valued(f, S) /\ \A b \in N : f[b] = Coin(made[b], a) /\ f[b] \in Nat
  <2>1. Valued(f, S) /\ \A b \in N : f[b] \in Nat
    BY CoinsAre DEF TxLists
  <2>2. \A b \in N : f[b] = Coin(made[b], a)
    BY DEF Coins
  <2> QED
    BY <2>1, <2>2
<1> HIDE DEF f
<1>2. Count(f, S) \in Nat
  BY <1>1, CountFacts
<1>3. ASSUME NEW b \in N \ S PROVE Count(f, S \cup {b}) = Count(f, S) + f[b]
  BY <1>1, CountOneMore
<1> QED
  BY <1>1, <1>2, <1>3 DEF MadeBy, f

\* The amounts do not depend on what blocks there are besides.
LEMMA MadeByMore ==
  ASSUME NEW made, NEW N, NEW more, NEW M, N \subseteq M, \A b \in N : more[b] = made[b],
         NEW S \in SUBSET N, NEW a
  PROVE  MadeBy(more, M, a, S) = MadeBy(made, N, a, S)
<1> DEFINE f == Coins(made, a, N)
           g == Coins(more, a, M)
<1>1. \A b \in S : g[b] = f[b]
  BY DEF Coins
<1> HIDE DEF f, g
<1>2. Count(g, S) = Count(f, S)
  BY <1>1, CountFacts
<1> QED
  BY <1>2 DEF MadeBy, f, g

\* u holds no more than u0 and what the blocks of S make that are not in R.
Within(made, N, u0, R, u, S) ==
  IsView(u) /\ \A a : Total(u, a) + MadeBy(made, N, a, R) <= Total(u0, a) + MadeBy(made, N, a, S)

LEMMA BlockWithin ==
  ASSUME NEW made, NEW N, TxLists(made, N), NEW u0, IsView(u0), NEW R \in SUBSET N,
         NEW u, NEW S \in SUBSET N, Within(made, N, u0, R, u, S), NEW b \in N \ S,
         NEW stake, NEW subsidy, NEW minted, NEW h, NEW score
  PROVE  Within(made, N, u0, R,
                apply_block_inner(u, stake, made[b], subsidy, minted, h, score).utxo,
                S \cup {b})
<1> DEFINE body == made[b]
           r == apply_block_inner(u, stake, body, subsidy, minted, h, score)
           w == r.utxo
<1>1. IsTxList(body) /\ IsView(u)
  BY DEF TxLists, Within
<1> HIDE DEF body
<1>2. IsView(w) /\ \A a : Total(w, a) <= Total(u, a) + Coin(body, a)
  BY <1>1, BlockKeeps
<1> HIDE DEF w
<1>3. ASSUME NEW a
      PROVE  Total(w, a) + MadeBy(made, N, a, R) <= Total(u0, a) + MadeBy(made, N, a, S \cup {b})
  <2> DEFINE x == Total(w, a)
             y == Total(u, a)
             z == Total(u0, a)
             p == MadeBy(made, N, a, R)
             m == MadeBy(made, N, a, S)
             c == Coin(body, a)
             k == MadeBy(made, N, a, S \cup {b})
  <2>1. x \in Nat /\ y \in Nat /\ z \in Nat
    BY <1>1, <1>2, TotalIs
  <2>2. p \in Nat /\ m \in Nat /\ k = m + c
    BY MadeByIs DEF body
  <2>3. c \in Nat
    BY <1>1, CoinIs
  <2>4. x <= y + c /\ y + p <= z + m
    BY <1>2 DEF Within
  <2> HIDE DEF x, y, z, p, m, c, k
  <2>5. x + p <= z + k
    BY <2>1, <2>2, <2>3, <2>4
  <2> QED
    BY <2>5 DEF x, z, p, k
<1> QED
  BY <1>2, <1>3 DEF Within, w, body

\* The blocks of a mergeset, on the view of the selected parent.
LEMMA MergesKeep ==
  ASSUME NEW made, NEW N, TxLists(made, N), NEW s, IsView(reconstruct_state(s)),
         NEW R \in SUBSET N, NEW M \in SUBSET N, \A b \in M : made[b] = txs[b],
         NEW q \in Seq(M), Once(q, R)
  PROVE  Within(made, N, reconstruct_state(s), R, MergedView(s, q).utxo, R \cup ToSet(q))
<1> DEFINE pre == reconstruct_state(s)
           n == Len(q)
<1>1. n \in Nat /\ DOMAIN q = 1 .. n /\ \A i \in 1 .. n : q[i] \in M
  OBVIOUS
<1>2. PICK f : /\ f[0] = SelectedView(s) /\ f[n] = MergedView(s, q)
               /\ \A i \in 1 .. n : f[i] = ApplyMerged(f[i - 1], q[i])
  BY MergeSteps
<1> DEFINE Fine(i) == Within(made, N, pre, R, f[i].utxo, R \cup Placed(q, i))
           Good == {i \in 0 .. n : Fine(i)}
<1>3. 0 \in Good
  <2>1. R \cup Placed(q, 0) = R /\ 0 \in 0 .. n
    BY <1>1 DEF Placed
  <2>2. f[0].utxo = pre
    BY <1>2 DEF SelectedView
  <2>3. \A a : Total(pre, a) \in Nat /\ MadeBy(made, N, a, R) \in Nat
    BY TotalIs, MadeByIs
  <2> HIDE DEF pre
  <2>4. Within(made, N, pre, R, pre, R)
    <3>1. IsView(pre)
      BY DEF pre
    <3>2. \A a : Total(pre, a) + MadeBy(made, N, a, R) <= Total(pre, a) + MadeBy(made, N, a, R)
      BY <2>3
    <3> QED
      BY <3>1, <3>2 DEF Within
  <2>5. Fine(0)
    BY <2>1, <2>2, <2>4, Zenon
  <2> HIDE DEF Fine
  <2> QED
    BY <2>1, <2>5
<1>4. ASSUME NEW i \in 1 .. n, i - 1 \in Good PROVE i \in Good
  <2> DEFINE S == R \cup Placed(q, i - 1)
             b == q[i]
             view == f[i - 1]
             u == view.utxo
             h == chain_height_of(b)
  <2>1. Within(made, N, pre, R, u, S) /\ i \in 0 .. n /\ i - 1 \in 0 .. n
    BY <1>1, <1>4
  <2>2. b \in N \ S /\ S \in SUBSET N /\ b \in M
    <3>1. ASSUME NEW j \in 1 .. i - 1 PROVE j \in 1 .. n /\ j # i
      BY <1>1
    <3> QED
      BY <1>1, <3>1 DEF Placed, Once
  <2>3. R \cup Placed(q, i) = S \cup {b}
    <3>1. \A j : j \in 1 .. i <=> (j \in 1 .. i - 1 \/ j = i)
      BY <1>1
    <3> QED
      BY <3>1 DEF Placed
  <2>4. f[i].utxo = MergedOutcome(view, b, h).utxo
    <3>1. f[i] = ApplyMerged(view, b)
      BY <1>2
    <3> HIDE DEF view, b
    <3> QED
      BY <3>1 DEF ApplyMerged, CountedIn, h
  <2>5. txs[b] = made[b]
    BY <2>2
  <2> DEFINE stake == view.stake
             subsidy == subsidy_at(h)
             minted == view.minted
             score == dag.node[b].blue_score
  <2>6. f[i].utxo = apply_block_inner(u, stake, made[b], subsidy, minted, h, score).utxo
    BY <2>4, <2>5 DEF MergedOutcome
  <2> HIDE DEF S, b, u, h, stake, subsidy, minted, score, view, pre
  <2>7. IsView(pre)
    BY DEF pre
  <2>8. Within(made, N, pre, R,
               apply_block_inner(u, stake, made[b], subsidy, minted, h, score).utxo,
               S \cup {b})
    BY <2>1, <2>2, <2>7, BlockWithin
  <2> QED
    BY <2>1, <2>3, <2>6, <2>8 DEF pre
<1> HIDE DEF Good
<1>5. \A i \in 0 .. n : i \in Good
  BY <1>1, <1>3, <1>4, Spends!NatUpTo
<1>6. n \in Good
  BY <1>1, <1>5
<1>7. Placed(q, n) = ToSet(q)
  BY <1>1 DEF Placed, ToSet
<1> QED
  BY <1>2, <1>6, <1>7 DEF Good

\* V bounds the undo log with views that hold no more of an asset than the
\* coinbases of the past of their blocks made.
Covers(d, made, log, V) ==
  /\ Bounds(d, log, V)
  /\ \A b \in DOMAIN log : \A a :
       Total(V[b], a) <= MadeBy(made, Nodes(d), a, d.node[b].past \cup {b})

AssetsInv ==
  BlocksInv /\ DOMAIN deltas \subseteq Nodes(dag) /\ \E V : Covers(dag, txs, deltas, V)

\* The invariant says that assets are conserved.
LEMMA AssetsInvSuffices ==
  ASSUME AssetsInv
  PROVE  AssetsConserved
<1> SUFFICES ASSUME NEW b \in NonFinal, reconstruct_state(b) # NoView, NEW a
             PROVE  AssetTotal(reconstruct_state(b), a) <= Coined(a, dag.node[b].past \cup {b})
  BY DEF AssetsConserved
<1> DEFINE u == reconstruct_state(b)
           S == dag.node[b].past \cup {b}
           N == Nodes(dag)
           made == txs
           H == Held(u, a)
<1>1. PICK V : Covers(dag, txs, deltas, V)
  BY DEF AssetsInv
<1>2. ByTheRule(dag) /\ NoBlock \notin N /\ IsFiniteSet(N) /\ TxLists(made, N) /\ b \in N
  BY NoBlockAssumption DEF AssetsInv, BlocksInv, Sound, ByTheRule, WellFormed, TxLists, NonFinal
<1>3. S \in SUBSET N
  BY <1>2, WellFormedIs DEF ByTheRule
<1>4. b \in DOMAIN deltas /\ Below(u, V[b])
  BY <1>1, <1>2, ViewBelow DEF Covers
<1>5. IsView(V[b]) /\ Total(V[b], a) <= MadeBy(made, N, a, S)
  BY <1>1, <1>4 DEF Covers, Bounds
<1>6. IsView(u) /\ Total(u, a) <= Total(V[b], a)
  <2> HIDE DEF u
  <2> QED
    BY <1>4, <1>5, BelowHolds
<1>7. /\ Total(u, a) \in Nat /\ Total(V[b], a) \in Nat /\ MadeBy(made, N, a, S) \in Nat
  <2>1. MadeBy(made, N, a, S) \in Nat
    <3> HIDE DEF made, N, S
    <3> QED
      BY <1>2, <1>3, MadeByIs
  <2>2. Total(u, a) \in Nat /\ Total(V[b], a) \in Nat
    <3> HIDE DEF u
    <3> QED
      BY <1>5, <1>6, TotalIs
  <2> QED
    BY <2>1, <2>2
<1>8. Total(u, a) <= MadeBy(made, N, a, S)
  <2> DEFINE x == Total(u, a)
             y == Total(V[b], a)
             z == MadeBy(made, N, a, S)
  <2>1. x \in Nat /\ y \in Nat /\ z \in Nat /\ x <= y /\ y <= z
    BY <1>5, <1>6, <1>7
  <2> HIDE DEF x, y, z
  <2>2. x <= z
    BY <2>1
  <2> QED
    BY <2>2 DEF x, z
<1>9. CoinSum(made, a, S) = MadeBy(made, N, a, S)
  <2> HIDE DEF made, N, S
  <2> QED
    BY <1>2, <1>3, CoinsAre DEF TxLists, MadeBy
<1>10. AssetTotal(u, a) = Total(u, a)
  <2> HIDE DEF u
  <2>1. H \in SUBSET DOMAIN u /\ H = {op \in DOMAIN u : u[op].output.asset = a}
    BY DEF Held
  <2> HIDE DEF H
  <2>2. MapThenSumSet(LAMBDA op : u[op].output.value, H) = Count(Values(u), H)
    BY <1>6, <2>1, TotalIs
  <2>3. AssetTotal(u, a) = MapThenSumSet(LAMBDA op : u[op].output.value, H)
    BY <2>1 DEF AssetTotal
  <2> QED
    BY <2>2, <2>3 DEF Total, H
<1>11. CoinSum(made, a, S) = Coined(a, S)
  BY DEF CoinSum, Coined
<1> HIDE DEF S, u, N, made
<1>13. AssetTotal(u, a) <= Coined(a, S)
  BY <1>8, <1>9, <1>10, <1>11
<1> QED
  BY <1>13 DEF S, u

\* Genesis alone.
LEMMA AssetsInvInit ==
  ASSUME Init
  PROVE  AssetsInv
<1> DEFINE cb == GenesisTxs[1]
           state == Created(cb, 0, TRUE)
           delta == diff_utxo(NoEntries, state)
           x == apply_delta(delta, NoEntries)
           V == [b \in {Genesis} |-> x]
           N == {Genesis}
           made == [b \in N |-> GenesisTxs]
<1>1. /\ dag = NewDag(1) /\ txs = made /\ deltas = [b \in {Genesis} |-> delta]
  BY DEF Init, NoEntries, AtGenesis
<1>2. Sound(dag) /\ Nodes(dag) = N
  BY <1>1, NewSound, NumbersAssumption
<1>3. dag.node[Genesis].sp = NoBlock /\ dag.node[Genesis].past = {}
  <2>1. ByTheRule(dag) /\ NoBlock \notin Nodes(dag)
    BY <1>2, NoBlockAssumption DEF Sound
  <2> QED
    BY <1>1, <2>1, SelectedBelow DEF NewDag
<1>4. IsTx(cb) /\ is_coinbase(cb) /\ GenesisTxs # <<>> /\ IsTxList(GenesisTxs)
  BY GenesisAssumption DEF IsTxList, ToSet
<1>5. BlocksInv
  BY <1>1, <1>2, <1>4 DEF BlocksInv
<1>6. IsView(state) /\ \A a : Total(state, a) = Coin(GenesisTxs, a)
  <2>1. IsView(state) /\ \A a : Total(state, a) = AssetOut(cb, a)
    BY <1>4, CreatedTotal
  <2>2. \A a : Coin(GenesisTxs, a) = AssetOut(cb, a)
    BY <1>4 DEF Coin
  <2> QED
    BY <2>1, <2>2
<1> HIDE DEF cb, state
<1>7. IsView(x) /\ \A a : Total(x, a) <= Coin(GenesisTxs, a)
  <2>1. /\ IsView(NoEntries) /\ Below(NoEntries, NoEntries) /\ \A a : Total(NoEntries, a) = 0
    BY NoEntriesIs
  <2>2. IsView(x)
    BY <1>6, <2>1, DiffBound
  <2>3. ASSUME NEW a PROVE Total(x, a) <= Coin(GenesisTxs, a)
    <3>1. Total(x, a) + Total(NoEntries, a) <= Total(NoEntries, a) + Total(state, a)
      BY <1>6, <2>1, DiffBound
    <3>2. Total(x, a) \in Nat /\ Total(state, a) \in Nat
      <4> HIDE DEF x
      <4> QED
        BY <1>6, <2>2, TotalIs
    <3> DEFINE p == Total(x, a)
               z == Total(NoEntries, a)
               c == Total(state, a)
    <3>3. p \in Nat /\ c \in Nat /\ z = 0 /\ p + z <= z + c
      BY <2>1, <3>1, <3>2
    <3> HIDE DEF p, z, c
    <3>4. p <= c
      BY <3>3
    <3> QED
      BY <1>6, <3>4 DEF p, c
  <2> QED
    BY <2>2, <2>3
<1> HIDE DEF x, delta
<1>8. Bounds(dag, deltas, V)
  <2>1. Base(dag, deltas, V, Genesis) = NoEntries
    BY <1>1, <1>3, NoBlockAssumption DEF Base
  <2>2. V[Genesis] = x /\ deltas[Genesis] = delta /\ DOMAIN deltas = {Genesis}
    BY <1>1
  <2>3. Below(x, x)
    BY <1>7 DEF Below, IsView
  <2> HIDE DEF V
  <2> QED
    BY <1>7, <2>1, <2>2, <2>3 DEF Bounds, x
<1>9. \A a : MadeBy(made, N, a, {} \cup {Genesis}) = Coin(GenesisTxs, a)
  <2>1. ASSUME NEW a PROVE MadeBy(made, N, a, {} \cup {Genesis}) = Coin(GenesisTxs, a)
    <3> DEFINE S == {}
    <3>1. TxLists(made, N) /\ S \in SUBSET N /\ Genesis \in N \ S /\ made[Genesis] = GenesisTxs
      BY <1>4, FS_Singleton DEF TxLists
    <3>2. MadeBy(made, N, a, S) = 0
      BY CountFacts DEF MadeBy
    <3>3. Coin(GenesisTxs, a) \in Nat
      BY <1>4, CoinIs
    <3> HIDE DEF S, N, made
    <3>4. MadeBy(made, N, a, S \cup {Genesis}) = MadeBy(made, N, a, S) + Coin(GenesisTxs, a)
      BY <3>1, MadeByIs
    <3>5. MadeBy(made, N, a, S \cup {Genesis}) = Coin(GenesisTxs, a)
      BY <3>2, <3>3, <3>4
    <3> QED
      BY <3>5 DEF S
  <2> QED
    BY <2>1
<1>10. Covers(dag, txs, deltas, V)
  <2>1. V[Genesis] = x /\ DOMAIN deltas = {Genesis}
    BY <1>1
  <2> HIDE DEF V, made, N
  <2>2. ASSUME NEW b \in DOMAIN deltas, NEW a
        PROVE  Total(V[b], a) <= MadeBy(txs, Nodes(dag), a, dag.node[b].past \cup {b})
    <3>1. b = Genesis
      BY <2>1
    <3>2. MadeBy(txs, Nodes(dag), a, dag.node[b].past \cup {b}) = Coin(GenesisTxs, a)
      BY <1>1, <1>2, <1>3, <1>9, <3>1
    <3> QED
      BY <1>7, <2>1, <3>1, <3>2
  <2> QED
    BY <1>8, <2>2 DEF Covers
<1> HIDE DEF V
<1>11. DOMAIN deltas \subseteq Nodes(dag)
  BY <1>1, <1>2
<1> QED
  BY <1>5, <1>10, <1>11 DEF AssetsInv

\* What a block leaves on a view, and its delta on a bound of that view.
LEMMA OwnWithin ==
  ASSUME NEW made, NEW N, TxLists(made, N), NEW R \in SUBSET N, NEW S \in SUBSET N,
         NEW v, IsView(v), \A a : Total(v, a) <= MadeBy(made, N, a, R),
         NEW pre, Below(pre, v), NEW u, Within(made, N, pre, R, u, S)
  PROVE  LET x == apply_delta(diff_utxo(pre, u), v)
         IN  IsView(x) /\ \A a : Total(x, a) <= MadeBy(made, N, a, S)
<1> DEFINE x == apply_delta(diff_utxo(pre, u), v)
<1>1. IsView(pre) /\ IsView(u)
  BY BelowHolds DEF Within
<1>2. IsView(x)
  BY <1>1, DiffBound
<1>3. ASSUME NEW a PROVE Total(x, a) <= MadeBy(made, N, a, S)
  <2> DEFINE t == Total(x, a)
             p == Total(pre, a)
             o == Total(u, a)
             w == Total(v, a)
             m == MadeBy(made, N, a, R)
             k == MadeBy(made, N, a, S)
  <2>1. t + p <= w + o
    BY <1>1, DiffBound
  <2>2. o + m <= p + k /\ w <= m
    BY DEF Within
  <2>3. m \in Nat /\ k \in Nat
    BY MadeByIs
  <2>4. t \in Nat /\ p \in Nat /\ o \in Nat /\ w \in Nat
    <3> HIDE DEF x
    <3> QED
      BY <1>1, <1>2, TotalIs
  <2> HIDE DEF t, p, o, w, m, k, x
  <2>5. t <= k
    BY <2>1, <2>2, <2>3, <2>4
  <2> QED
    BY <2>5 DEF t, k, x
<1> HIDE DEF x
<1> QED
  BY <1>2, <1>3 DEF x

\* apply_new_block keeps the invariant.
LEMMA InsertKeepsAssets ==
  ASSUME AssetsInv, NEW id \in Id, NEW ps \in SUBSET Nodes(dag), NEW w \in Work,
         NEW body, IsTxList(body), Insert(id, ps, w, body)
  PROVE  AssetsInv'
<1> DEFINE s     == Heaviest(dag, ps)
           q     == mergeset_ordered(dag, s, ps)
           mv    == MergedView(s, q)
           own   == OwnOutcome(s, body, mv)
           pre   == reconstruct_state(s)
           d     == insert(dag, id, ps, w, NoPruning)
           delta == diff_utxo(pre, own.utxo)
           log   == [deltas  |-> Put(deltas, id, delta),
                     stake   |-> Put(stake_deltas, id,
                                     diff_stake(reconstruct_stake(s), own.stake)),
                     heights |-> Put(heights, id, HeightOr0(s) + 1)]
           M     == Nodes(dag)
           N     == M \cup {id}
           made  == Put(txs, id, body)
           R     == dag.node[s].past \cup {s}
           S     == R \cup ToSet(q) \cup {id}
<1>1. BlocksInv /\ DOMAIN deltas \subseteq M
  BY DEF AssetsInv
<1>2. PICK V : Covers(dag, txs, deltas, V)
  BY DEF AssetsInv
<1>3. Recorded(id, ps, body, s, q, mv, own)
  BY <1>1, InsertShape
<1>4. /\ ps # {} /\ id \notin M /\ pre # NoView /\ dag' = d /\ deltas' = prune(d, log).deltas
      /\ s \in ps
  <2>1. PICK z \in ps : /\ z = Heaviest(dag, ps) /\ reconstruct_state(z) # NoView
                        /\ Connect(id, z, body, d, MergedView(z, mergeset_ordered(dag, z, ps)))
    BY DEF Insert
  <2>2. z = s
    BY <2>1
  <2>3. pre # NoView /\ Connect(id, s, body, d, mv)
    BY <2>1, <2>2
  <2>4. dag' = d /\ deltas' = prune(d, log).deltas
    BY <2>3 DEF Connect, Record
  <2>5. ps # {} /\ id \notin M
    BY DEF Insert, Admissible
  <2> QED
    BY <2>2, <2>3, <2>4, <2>5
<1>5. log.deltas = Put(deltas, id, delta)
  OBVIOUS
<1>6. d = Wired(dag, id, ps, w)
  BY InsertIs
<1>7. own = apply_block_inner(mv.utxo, mv.stake, body, subsidy_at(HeightOr0(s) + 1), mv.minted,
                              HeightOr0(s) + 1, dag.node[s].blue_score + 1)
  BY DEF OwnOutcome
<1> HIDE DEF d, log, own, mv
<1>8. /\ txs' = made /\ s \in M /\ Nodes(d) = N /\ d.node[id].sp = s /\ Sound(dag)
      /\ d.node[id].past = R \cup ToSet(q) /\ \A b \in M : d.node[b] = dag.node[b]
  BY <1>3, <1>4 DEF Recorded, Extends
<1>9. /\ ByTheRule(dag) /\ NoBlock \notin M /\ IsFiniteSet(N) /\ DOMAIN txs = M
      /\ TxLists(made, N) /\ \A b \in M : made[b] = txs[b]
  <2>1. ByTheRule(dag) /\ NoBlock \notin M /\ IsFiniteSet(M) /\ DOMAIN txs = M
        /\ \A b \in M : IsTxList(txs[b])
    BY <1>1, NoBlockAssumption DEF BlocksInv, Sound, ByTheRule, WellFormed
  <2>2. IsFiniteSet(N)
    BY <2>1, FS_AddElement
  <2>3. made[id] = body /\ \A b \in M : made[b] = txs[b]
    BY <1>4, <2>1 DEF Put
  <2> HIDE DEF made
  <2>4. TxLists(made, N)
    BY <2>1, <2>2, <2>3 DEF TxLists
  <2> QED
    BY <2>1, <2>2, <2>3, <2>4
<1>10. Grown(dag, d, id, ps, w) /\ id \notin M \cup {NoBlock}
  BY <1>4, <1>6, <1>8, WiredSound, NumbersAssumption, NoBlockAssumption
<1>11. s \in DOMAIN deltas /\ Below(pre, V[s])
  BY <1>2, <1>4, <1>8, <1>9, ViewBelow DEF Covers
<1>12. R \in SUBSET M
  BY <1>8, <1>9, WellFormedIs DEF ByTheRule
<1>13. q \in Seq(M) /\ Once(q, R) /\ ToSet(q) \subseteq M
  BY <1>8, <1>9, MergesetOrdered DEF Once
<1>14. IsView(V[s]) /\ \A a : Total(V[s], a) <= MadeBy(made, N, a, R)
  <2>1. IsView(V[s]) /\ \A a : Total(V[s], a) <= MadeBy(txs, M, a, R)
    BY <1>2, <1>11 DEF Covers, Bounds
  <2> DEFINE old == txs
  <2>2. M \subseteq N /\ \A b \in M : made[b] = old[b]
    BY <1>9
  <2> HIDE DEF M, N, made, old, R
  <2>3. \A a : MadeBy(made, N, a, R) = MadeBy(old, M, a, R)
    BY <1>12, <2>2, MadeByMore
  <2> QED
    BY <2>1, <2>3 DEF old
<1>15. Within(made, N, pre, R, mv.utxo, R \cup ToSet(q))
  <2>1. IsView(pre)
    BY <1>11, <1>14, BelowHolds
  <2>2. R \in SUBSET N /\ M \in SUBSET N
    BY <1>12
  <2>3. \A b \in M : made[b] = txs[b]
    BY <1>9
  <2> HIDE DEF M, N, made, R, q, s
  <2>4. Within(made, N, reconstruct_state(s), R, MergedView(s, q).utxo, R \cup ToSet(q))
    BY <1>9, <1>13, <2>1, <2>2, <2>3, MergesKeep
  <2> QED
    BY <2>4 DEF mv
<1>16. Within(made, N, pre, R, own.utxo, S)
  <2> DEFINE u == mv.utxo
             stake == mv.stake
             subsidy == subsidy_at(HeightOr0(s) + 1)
             h == HeightOr0(s) + 1
             minted == mv.minted
             score == dag.node[s].blue_score + 1
             T == R \cup ToSet(q)
             S2 == T \cup {id}
  <2>1. IsView(pre)
    BY <1>11, <1>14, BelowHolds
  <2>2. R \in SUBSET N /\ T \in SUBSET N /\ id \in N \ T
    BY <1>4, <1>12, <1>13
  <2>3. made[id] = body
    BY DEF Put
  <2>4. own = apply_block_inner(u, stake, made[id], subsidy, minted, h, score)
    BY <1>7, <2>3
  <2>5. Within(made, N, pre, R, u, T)
    BY <1>15
  <2>6. S2 = S
    OBVIOUS
  <2> HIDE DEF u, stake, subsidy, h, minted, score, T, S, M, N, made, R, pre, q, s
  <2>7. Within(made, N, pre, R,
               apply_block_inner(u, stake, made[id], subsidy, minted, h, score).utxo, T \cup {id})
    BY <1>9, <2>1, <2>2, <2>5, BlockWithin
  <2> QED
    BY <2>4, <2>6, <2>7
<1> DEFINE x == apply_delta(delta, V[s])
           new == [b \in Nodes(d) |-> IF b = id THEN x ELSE V[b]]
<1>17. IsView(x) /\ \A a : Total(x, a) <= MadeBy(made, N, a, S)
  <2> DEFINE v == V[s]
             u == own.utxo
  <2>1. R \in SUBSET N /\ S \in SUBSET N
    BY <1>12, <1>13
  <2>2. /\ IsView(v) /\ (\A a : Total(v, a) <= MadeBy(made, N, a, R)) /\ Below(pre, v)
        /\ Within(made, N, pre, R, u, S) /\ TxLists(made, N)
        /\ x = apply_delta(diff_utxo(pre, u), v)
    BY <1>9, <1>11, <1>14, <1>16
  <2> HIDE DEF v, u, R, S, N, made, pre, x
  <2> QED
    BY <2>1, <2>2, OwnWithin
<1> HIDE DEF delta
<1>18. Bounds(d, log.deltas, new)
  <2>1. Bounds(dag, deltas, V)
    BY <1>2 DEF Covers
  <2> QED
    BY <1>1, <1>5, <1>8, <1>10, <1>11, <1>17, <2>1, PutKeepsBounds
<1>19. DOMAIN log.deltas = DOMAIN deltas \cup {id}
  BY <1>5 DEF Put
<1>20. Sound(d) /\ ByTheRule(d) /\ NoBlock \notin Nodes(d)
  BY <1>8, <1>9, <1>10 DEF Grown, Sound
<1>21. new[id] = x /\ \A b \in DOMAIN deltas : new[b] = V[b]
  BY <1>1, <1>4, <1>8
<1> HIDE DEF new, x
<1>22. DOMAIN deltas' \subseteq DOMAIN log.deltas /\ Bounds(d, deltas', new)
  <2>1. DOMAIN log.deltas \subseteq Nodes(d)
    BY <1>1, <1>8, <1>19
  <2> QED
    BY <1>4, <1>18, <1>20, <2>1, PruneKeepsBounds
<1>23. ASSUME NEW b \in DOMAIN deltas', NEW a
       PROVE  Total(new[b], a) <= MadeBy(made, N, a, d.node[b].past \cup {b})
  <2>1. CASE b = id
    <3>1. d.node[b].past \cup {b} = S
      BY <1>8, <2>1
    <3> QED
      BY <1>17, <1>21, <2>1, <3>1
  <2>2. CASE b # id
    <3> DEFINE P == dag.node[b].past \cup {b}
               old == txs
    <3>1. b \in DOMAIN deltas /\ b \in M
      BY <1>1, <1>19, <1>22, <2>2
    <3>2. Total(V[b], a) <= MadeBy(old, M, a, P)
      BY <1>2, <3>1 DEF Covers
    <3>3. P \in SUBSET M
      BY <1>9, <3>1, WellFormedIs DEF ByTheRule
    <3>4. M \subseteq N /\ \A c \in M : made[c] = old[c]
      BY <1>9
    <3>5. d.node[b].past \cup {b} = P /\ new[b] = V[b]
      BY <1>8, <1>21, <3>1
    <3> HIDE DEF P, M, N, made, old
    <3>6. MadeBy(made, N, a, P) = MadeBy(old, M, a, P)
      BY <3>3, <3>4, MadeByMore
    <3> QED
      BY <3>2, <3>5, <3>6
  <2> QED
    BY <2>1, <2>2
<1>24. BlocksInv'
  <2>1. DOMAIN txs' = Nodes(dag') /\ \A b \in Nodes(dag') : IsTxList(txs'[b])
    <3>1. DOMAIN made = N /\ \A b \in N : IsTxList(made[b])
      BY <1>9 DEF Put, TxLists
    <3> QED
      BY <1>4, <1>8, <3>1
  <2>2. Nodes(dag') \subseteq Id \cup {Genesis}
    BY <1>1, <1>4, <1>8 DEF BlocksInv
  <2> QED
    BY <1>4, <1>20, <2>1, <2>2 DEF BlocksInv
<1>25. Covers(d, made, deltas', new)
  <2> HIDE DEF made
  <2> QED
    BY <1>8, <1>22, <1>23 DEF Covers
<1>26. DOMAIN deltas' \subseteq Nodes(dag')
  BY <1>1, <1>4, <1>8, <1>19, <1>22
<1> HIDE DEF made
<1>27. \E W : Covers(dag', txs', deltas', W)
  BY <1>4, <1>8, <1>25
<1> QED
  BY <1>24, <1>26, <1>27 DEF AssetsInv

(***************************************************************************)
(* No assets from nowhere: no view that can be rebuilt holds more of an    *)
(* asset than the coinbases of its past made, for every DAG, finality      *)
(* depth, schedule and payload, and whether or not transaction ids repeat  *)
(* (apply_regular, apply_coinbase, prune).                                 *)
(***************************************************************************)
THEOREM AssetsAreConserved ==
  ASSUME PayloadIsTyped
  PROVE  Spec => []AssetsConserved
<1>1. Init => AssetsInv
  BY AssetsInvInit
<1>2. AssetsInv /\ [Next]_vars => AssetsInv'
  <2> SUFFICES ASSUME AssetsInv, [Next]_vars PROVE AssetsInv'
    OBVIOUS
  <2>1. ASSUME NEW id \in Id, NEW ps \in SUBSET Nodes(dag), NEW w \in Work,
               NEW body \in Payload(id, txs), Insert(id, ps, w, body)
        PROVE  AssetsInv'
    <3>1. IsTxList(body)
      BY PayloadIsTyped DEF PayloadIsTyped, AssetsInv, BlocksInv
    <3> QED
      BY <2>1, <3>1, InsertKeepsAssets
  <2>2. CASE UNCHANGED vars
    BY <2>2 DEF vars, AssetsInv, BlocksInv
  <2> QED
    BY <2>1, <2>2 DEF Next
<1>3. AssetsInv => AssetsConserved
  BY AssetsInvSuffices
<1> QED
  BY <1>1, <1>2, <1>3, PTL DEF Spec

-----------------------------------------------------------------------------
(***************************************************************************)
(* Time locks.  First what a script asks for: the number each of the time  *)
(* checks it begins with pops is within its bound, whatever comes later.   *)
(***************************************************************************)
OpcodeOne(lock_time, sequence, acc, i) == UNION {Script!Step(s, i, lock_time, sequence) : s \in acc}

Opcodes == INSTANCE LoopProofs WITH op <- OpcodeOne, val <- LAMBDA c, x : 0

Executes(f, script, witness, lock_time, sequence) ==
  /\ f[0] = {witness}
  /\ \A i \in 1 .. Len(script) : f[i] = OpcodeOne(lock_time, sequence, f[i - 1], script[i])
  /\ \A i \in 0 .. Len(script) : f[i] # {}

\* Execution is a loop over the opcodes, on sets of stacks; it fails for good.
LEMMA ExecuteRuns ==
  ASSUME NEW script, script \in Seq(ToSet(script)), NEW witness, NEW lock_time, NEW sequence,
         Script!execute(script, witness, lock_time, sequence)
  PROVE  \E f : Executes(f, script, witness, lock_time, sequence)
<1> DEFINE n == Len(script)
           base == {witness}
<1>1. n \in Nat /\ DOMAIN script = 1 .. n
  OBVIOUS
<1>2. Opcodes!Run(lock_time, sequence, base, script) # {}
  BY DEF Script!execute, OpcodeOne, Opcodes!Run, Script!FoldLeft, FoldLeft,
         Opcodes!MapThenFoldSet, Script!MapThenFoldSet, MapThenFoldSet, Opcodes!Max, Script!Max, Max
<1> HIDE DEF base, n
<1>3. PICK f : Opcodes!IsLoop(lock_time, sequence, base, n, script, f)
               /\ Opcodes!Run(lock_time, sequence, base, script) = f[n]
  BY <1>1, Opcodes!LoopRuns
<1>4. f[0] = base /\ \A i \in 1 .. n : f[i] = OpcodeOne(lock_time, sequence, f[i - 1], script[i])
  <2>1. 0 \in 0 .. n /\ \A i \in 1 .. n : i \in 0 .. n /\ i # 0
    BY <1>1
  <2> QED
    BY <1>3, <2>1 DEF Opcodes!IsLoop
<1> DEFINE Good == {j \in 0 .. n : f[n - j] # {}}
<1>5. 0 \in Good
  BY <1>1, <1>2, <1>3
<1>6. ASSUME NEW j \in 1 .. n, j - 1 \in Good PROVE j \in Good
  <2> DEFINE i == n - (j - 1)
  <2>1. i \in 1 .. n /\ i - 1 = n - j /\ j \in 0 .. n
    BY <1>1
  <2>2. f[i] # {}
    BY <1>6
  <2> HIDE DEF i
  <2>3. f[i] = OpcodeOne(lock_time, sequence, f[i - 1], script[i])
    BY <1>4, <2>1
  <2>4. f[i - 1] # {}
    BY <2>2, <2>3 DEF OpcodeOne
  <2> QED
    BY <2>1, <2>4
<1> HIDE DEF Good
<1>7. \A j \in 0 .. n : j \in Good
  BY <1>1, <1>5, <1>6, Spends!NatUpTo
<1>8. ASSUME NEW i \in 0 .. n PROVE f[i] # {}
  <2>1. n - i \in 0 .. n /\ n - (n - i) = i
    BY <1>1
  <2>2. f[n - (n - i)] # {}
    BY <1>7, <2>1 DEF Good
  <2> QED
    BY <2>1, <2>2
<1> QED
  BY <1>4, <1>8 DEF base, n, Executes

TimeCheck(i) == i.op \in {"CLTV", "CSV"}

Bound(i, lock_time, sequence) == IF i.op = "CLTV" THEN lock_time ELSE sequence

\* A time check takes the number on top of the stack, and leaves the rest.
LEMMA TimeChecked ==
  ASSUME NEW X, NEW stack \in Seq(X), NEW i, TimeCheck(i), NEW lock_time, NEW sequence,
         OpcodeOne(lock_time, sequence, {stack}, i) # {}
  PROVE  /\ Len(stack) >= 1 /\ stack[Len(stack)].kind = "number"
         /\ stack[Len(stack)].of <= Bound(i, lock_time, sequence)
         /\ OpcodeOne(lock_time, sequence, {stack}, i) = {SubSeq(stack, 1, Len(stack) - 1)}
<1> DEFINE b == Bound(i, lock_time, sequence)
<1>1. Script!Step(stack, i, lock_time, sequence) = Script!AtLeast(stack, b)
  BY DEF TimeCheck, Bound, Script!Step
<1>2. OpcodeOne(lock_time, sequence, {stack}, i) = Script!AtLeast(stack, b)
  BY <1>1 DEF OpcodeOne
<1> HIDE DEF b
<1>3. Len(stack) + 1 - 1 = Len(stack) /\ Len(stack) \in Nat
  OBVIOUS
<1>4. stack # <<>> /\ stack[Len(stack)].kind = "number" /\ stack[Len(stack)].of <= b
      /\ Script!AtLeast(stack, b) = {SubSeq(stack, 1, Len(stack) - 1)}
  BY <1>2, <1>3 DEF Script!AtLeast, Script!Top, Script!Below
<1>5. Len(stack) >= 1
  BY <1>3, <1>4
<1>6. OpcodeOne(lock_time, sequence, {stack}, i) = {SubSeq(stack, 1, Len(stack) - 1)}
  BY <1>2, <1>4, Zenon
<1> QED
  BY <1>4, <1>5, <1>6 DEF b

\* What a script that begins with n time checks has popped.
LEMMA Popped ==
  ASSUME NEW script, script \in Seq(ToSet(script)), NEW X, NEW witness \in Seq(X),
         NEW lock_time, NEW sequence, Script!execute(script, witness, lock_time, sequence),
         NEW n \in DOMAIN script, \A i \in 1 .. n : TimeCheck(script[i])
  PROVE  /\ n <= Len(witness) /\ witness[Len(witness) + 1 - n].kind = "number"
         /\ witness[Len(witness) + 1 - n].of <= Bound(script[n], lock_time, sequence)
<1> DEFINE m == Len(witness)
           k == Len(script)
<1>1. m \in Nat /\ k \in Nat /\ n \in 1 .. k /\ n \in Nat
  OBVIOUS
<1>10. PICK f : Executes(f, script, witness, lock_time, sequence)
  BY ExecuteRuns
<1>2. /\ f[0] = {witness}
      /\ \A i \in 1 .. k : f[i] = OpcodeOne(lock_time, sequence, f[i - 1], script[i])
      /\ \A i \in 0 .. k : f[i] # {}
  BY <1>10 DEF Executes
<1> DEFINE Left(i) == SubSeq(witness, 1, m - i)
           Good == {i \in 0 .. n : i <= m /\ f[i] = {Left(i)}}
<1>3. \A i \in 0 .. n : i <= m => /\ Left(i) \in Seq(X) /\ Len(Left(i)) = m - i
                                  /\ \A j \in 1 .. m - i : Left(i)[j] = witness[j]
  OBVIOUS
<1>4. 0 \in Good
  <2>1. Left(0) = witness
    OBVIOUS
  <2> HIDE DEF Left, m
  <2> QED
    BY <1>1, <1>2, <2>1
<1>5. ASSUME NEW i \in 1 .. n, i - 1 \in Good
      PROVE  /\ i \in Good /\ witness[m + 1 - i].kind = "number"
             /\ witness[m + 1 - i].of <= Bound(script[i], lock_time, sequence)
  <2> DEFINE stack == Left(i - 1)
             o == script[i]
  <2>1. i - 1 \in 0 .. n /\ i - 1 <= m /\ f[i - 1] = {stack}
    BY <1>5
  <2>2. stack \in Seq(X) /\ Len(stack) = m + 1 - i /\ \A j \in 1 .. m + 1 - i : stack[j] = witness[j]
    <3>1. m - (i - 1) = m + 1 - i
      BY <1>1
    <3> HIDE DEF Left, m
    <3> QED
      BY <1>3, <2>1, <3>1
  <2>3. i \in 1 .. k /\ i \in 0 .. k /\ i \in 0 .. n
    BY <1>1
  <2> HIDE DEF Left, m, Good
  <2>4. f[i] = OpcodeOne(lock_time, sequence, {stack}, o) /\ f[i] # {} /\ TimeCheck(o)
    BY <1>2, <2>1, <2>3
  <2> DEFINE l == Len(stack)
  <2> HIDE DEF stack, o
  <2>5. /\ l >= 1 /\ stack[l].kind = "number" /\ stack[l].of <= Bound(o, lock_time, sequence)
        /\ OpcodeOne(lock_time, sequence, {stack}, o) = {SubSeq(stack, 1, l - 1)}
    BY <2>2, <2>4, TimeChecked
  <2>6. l = m + 1 - i /\ l \in 1 .. m + 1 - i /\ i <= m /\ l - 1 = m - i
    BY <1>1, <2>2, <2>5
  <2>7. stack[l] = witness[m + 1 - i]
    BY <2>2, <2>6
  <2>8. SubSeq(stack, 1, l - 1) = Left(i)
    <3> DEFINE a == SubSeq(stack, 1, l - 1)
               z == Left(i)
    <3>1. a \in Seq(X) /\ Len(a) = m - i /\ \A j \in 1 .. m - i : a[j] = witness[j]
      <4>1. l - 1 \in 0 .. Len(stack)
        BY <1>1, <2>6
      <4>2. a \in Seq(X) /\ Len(a) = l - 1 /\ \A j \in 1 .. l - 1 : a[j] = stack[j]
        BY <2>2, <4>1
      <4>3. \A j \in 1 .. m - i : j \in 1 .. m + 1 - i
        BY <1>1
      <4> HIDE DEF a, l
      <4> QED
        BY <2>2, <2>6, <4>2, <4>3
    <3>2. z \in Seq(X) /\ Len(z) = m - i /\ \A j \in 1 .. m - i : z[j] = witness[j]
      BY <1>3, <2>3, <2>6
    <3> HIDE DEF a, z
    <3>3. a = [j \in 1 .. m - i |-> a[j]] /\ z = [j \in 1 .. m - i |-> z[j]]
      BY <3>1, <3>2
    <3>4. a = z
      BY <3>1, <3>2, <3>3
    <3> QED
      BY <3>4 DEF a, z
  <2>9. i \in Good
    BY <2>3, <2>4, <2>5, <2>6, <2>8 DEF Good
  <2> QED
    BY <2>5, <2>7, <2>9 DEF o
<1> HIDE DEF Good
<1>6. \A i \in 0 .. n : i \in Good
  BY <1>1, <1>4, <1>5, Spends!NatUpTo
<1>7. n \in 1 .. n /\ n - 1 \in Good /\ n \in Good
  BY <1>1, <1>6
<1>8. n <= m
  BY <1>7 DEF Good
<1>9. /\ witness[m + 1 - n].kind = "number"
      /\ witness[m + 1 - n].of <= Bound(script[n], lock_time, sequence)
  BY <1>5, <1>7
<1> QED
  BY <1>8, <1>9 DEF m

\* A script ran: no time check it begins with asks for more than it may.
LEMMA ScriptAged ==
  ASSUME NEW tx, IsTx(tx), NEW in \in ToSet(tx.ins), in.path = "run",
         NEW lock, lock.script \in Seq(ToSet(lock.script)),
         Script!execute(lock.script, in.witness, tx.lock_time, tx.sequence),
         NEW g \in Nat, NEW h \in Nat, tx.lock_time <= h,
         tx.sequence \in {0, FinalSequence} \/ h >= g + tx.sequence,
         NEW n \in DOMAIN lock.script
  PROVE  LET asked == Asked(lock, in, n)
         IN  IF lock.script[n].op = "CLTV" THEN asked <= h
             ELSE asked > 0 /\ tx.sequence # FinalSequence => h >= g + asked
<1> DEFINE asked == Asked(lock, in, n)
           script == lock.script
           w == in.witness
           l == tx.lock_time
           q == tx.sequence
<1>1. l \in Nat /\ q \in Nat /\ IsStack(w)
  BY DEF IsTx, ToSet
<1>2. CASE \A i \in 1 .. n : TimeCheck(script[i])
  <2> DEFINE k == Len(w) + 1 - n
  <2>1. asked = w[k].of
    BY <1>2 DEF Asked, TimeCheck
  <2>2. w \in Seq(ToSet(w))
    BY <1>1 DEF IsStack
  <2>3. script \in Seq(ToSet(script)) /\ Script!execute(script, w, l, q) /\ n \in DOMAIN script
    OBVIOUS
  <2>4. n \in 1 .. n /\ n \in Nat
    BY <2>3
  <2>5. TimeCheck(script[n])
    BY <1>2, <2>4
  <2> HIDE DEF script, w, l, q, asked
  <2>6. n <= Len(w) /\ w[k].kind = "number" /\ w[k].of <= Bound(script[n], l, q)
    BY <1>2, <2>2, <2>3, Popped
  <2>7. w[k].of \in Nat
    <3>1. k \in 1 .. Len(w) /\ DOMAIN w = 1 .. Len(w)
      BY <2>2, <2>4, <2>6
    <3> HIDE DEF k
    <3> QED
      BY <1>1, <2>6, <3>1 DEF IsStack
  <2>8. CASE script[n].op = "CLTV"
    <3>1. asked <= l
      BY <2>1, <2>6, <2>8 DEF Bound
    <3>2. asked <= h
      BY <1>1, <2>1, <2>7, <3>1 DEF l
    <3> QED
      BY <2>8, <3>2 DEF script, asked
  <2>9. CASE script[n].op # "CLTV"
    <3>1. asked <= q /\ asked \in Nat
      BY <2>1, <2>6, <2>7, <2>9 DEF Bound
    <3>2. asked > 0 /\ q # FinalSequence => h >= g + asked
      <4>1. q \in {0, FinalSequence} \/ h >= g + q
        BY DEF q
      <4> QED
        BY <1>1, <3>1, <4>1
    <3> QED
      BY <2>9, <3>2 DEF script, asked, q
  <2> QED
    BY <2>8, <2>9
<1>3. CASE ~ \A i \in 1 .. n : TimeCheck(script[i])
  <2>1. asked = 0
    BY <1>3 DEF Asked, TimeCheck
  <2> QED
    BY <2>1
<1> QED
  BY <1>2, <1>3

\* An entry that may be spent at height h has aged, since the height it was
\* made at, as its maker and the transaction that spends it ask.
LEMMA EntryAged ==
  ASSUME NEW tx, IsTx(tx), NEW in \in ToSet(tx.ins), NEW src, IsTx(src),
         in.op[2] \in DOMAIN src.outs,
         NEW e, e.output = src.outs[in.op[2]], e.coinbase = is_coinbase(src), e.height \in Nat,
         NEW h \in Nat, tx.lock_time <= h,
         Mature(e, h), SequenceAged(tx, e, h), Unlocks(tx, in, e, h)
  PROVE  Aged(tx, in, src, e.height, h)
<1> DEFINE lock == src.outs[in.op[2]].lock
           g == e.height
<1>1. tx.sequence \notin {0, FinalSequence} => h >= g + tx.sequence
  BY DEF SequenceAged
<1>2. is_coinbase(src) /\ g > 0 => h >= g + CoinbaseMaturity
  BY DEF Mature
<1>3. e.output.lock = lock
  OBVIOUS
<1>4. lock.kind = "htlc" /\ in.path = "refund" => h >= lock.after
  BY <1>3 DEF Unlocks, HtlcPath
<1>5. lock.kind = "vault" => h >= lock.after /\ h >= g + lock.csv
  BY <1>3 DEF Unlocks, VaultPath
<1>6. ASSUME lock.kind = "script", NEW n \in DOMAIN lock.script
      PROVE  LET asked == Asked(lock, in, n)
             IN  IF lock.script[n].op = "CLTV" THEN asked <= h
                 ELSE asked > 0 /\ tx.sequence # FinalSequence => h >= g + asked
  <2>1. in.path = "run" /\ Script!execute(lock.script, in.witness, tx.lock_time, tx.sequence)
    BY <1>3, <1>6 DEF Unlocks, ScriptPath
  <2>2. lock.script \in Seq(ToSet(lock.script))
    BY <1>6 DEF IsTx
  <2>3. tx.sequence \in {0, FinalSequence} \/ h >= g + tx.sequence
    BY DEF SequenceAged
  <2>4. g \in Nat /\ n \in DOMAIN lock.script
    BY <1>6
  <2> HIDE DEF lock, g
  <2> QED
    BY <2>1, <2>2, <2>3, <2>4, ScriptAged
<1> HIDE DEF g
<1>7. Aged(tx, in, src, g, h)
  BY <1>1, <1>2, <1>4, <1>5, <1>6 DEF Aged
<1> QED
  BY <1>7 DEF g

-----------------------------------------------------------------------------
\* tx of block y made the entry e at op.
Makes(d, y, tx, op, e) ==
  /\ tx.id = op[1] /\ op[2] \in DOMAIN tx.outs /\ e.output = tx.outs[op[2]]
  /\ e.height = HeightIn(d, y) /\ e.coinbase = is_coinbase(tx)

\* All that tx spends was made by blocks of C, and is old enough at h.
Timely(d, made, C, tx, h) ==
  \A in \in ToSet(tx.ins) :
    \E z \in C : \E src \in ToSet(made[z]) :
      src.id = in.op[1] /\ Aged(tx, in, src, HeightIn(d, z), h)

\* Every entry was made in time, by a transaction of one of the blocks of C.
Traced(d, made, C, utxo) ==
  \A op \in DOMAIN utxo :
    \E y \in C : \E tx \in ToSet(made[y]) :
      Makes(d, y, tx, op, utxo[op]) /\ Timely(d, made, C, tx, utxo[op].height)

\* Blocks of transactions at heights.
Chained(d, made, C) ==
  \A y \in C : HeightIn(d, y) \in Nat /\ \A tx \in ToSet(made[y]) : IsTx(tx)

LEMMA TracedMore ==
  ASSUME NEW d, NEW made, NEW C, NEW D, C \subseteq D, NEW utxo, Traced(d, made, C, utxo)
  PROVE  Traced(d, made, D, utxo)
<1> SUFFICES ASSUME NEW op \in DOMAIN utxo
             PROVE  \E y \in D : \E tx \in ToSet(made[y]) :
                      Makes(d, y, tx, op, utxo[op]) /\ Timely(d, made, D, tx, utxo[op].height)
  BY DEF Traced
<1>1. PICK y \in C : \E tx \in ToSet(made[y]) :
        Makes(d, y, tx, op, utxo[op]) /\ Timely(d, made, C, tx, utxo[op].height)
  BY DEF Traced
<1>2. PICK tx \in ToSet(made[y]) :
        Makes(d, y, tx, op, utxo[op]) /\ Timely(d, made, C, tx, utxo[op].height)
  BY <1>1
<1>3. Timely(d, made, D, tx, utxo[op].height)
  BY <1>2 DEF Timely
<1> QED
  BY <1>2, <1>3

\* Entries added, and entries taken away.
LEMMA TracedChanges ==
  ASSUME NEW d, NEW made, NEW C, NEW utxo, Traced(d, made, C, utxo), NEW S,
         NEW b \in C, NEW tx \in ToSet(made[b]), NEW h, h = HeightIn(d, b),
         NEW c, c = is_coinbase(tx), Timely(d, made, C, tx, h)
  PROVE  Traced(d, made, C, InsertAll(RemoveAll(utxo, S), Created(tx, h, c)))
<1> DEFINE left == RemoveAll(utxo, S)
           new == Created(tx, h, c)
           after == InsertAll(left, new)
<1>1. DOMAIN left \subseteq DOMAIN utxo /\ \A op \in DOMAIN left : left[op] = utxo[op]
  BY DEF RemoveAll
<1>2. \A op \in DOMAIN new : Makes(d, b, tx, op, new[op]) /\ new[op].height = h
  BY DEF Created, Makes
<1>3. /\ DOMAIN after = DOMAIN left \cup DOMAIN new
      /\ \A op \in DOMAIN after : after[op] = IF op \in DOMAIN new THEN new[op] ELSE left[op]
  BY DEF InsertAll
<1> HIDE DEF left, new, after
<1>4. ASSUME NEW op \in DOMAIN after
      PROVE  \E y \in C : \E t \in ToSet(made[y]) :
               Makes(d, y, t, op, after[op]) /\ Timely(d, made, C, t, after[op].height)
  <2>1. CASE op \in DOMAIN new
    <3>1. after[op] = new[op]
      BY <1>3, <2>1
    <3>2. Makes(d, b, tx, op, after[op]) /\ Timely(d, made, C, tx, after[op].height)
      BY <1>2, <2>1, <3>1
    <3> QED
      BY <3>2
  <2>2. CASE op \notin DOMAIN new
    <3>1. op \in DOMAIN utxo /\ after[op] = utxo[op]
      BY <1>1, <1>3, <2>2
    <3> QED
      BY <3>1 DEF Traced
  <2> QED
    BY <2>1, <2>2
<1>5. Traced(d, made, C, after)
  BY <1>4 DEF Traced
<1> QED
  BY <1>5 DEF after, left, new

\* What a transaction that may be applied at height h spends is old enough.
LEMMA RegularTimely ==
  ASSUME NEW d, NEW made, NEW C, Chained(d, made, C), NEW utxo, Traced(d, made, C, utxo),
         NEW stake, NEW tx, IsTx(tx), NEW h \in Nat, NEW score,
         regular_valid(utxo, stake, tx, h, score)
  PROVE  Timely(d, made, C, tx, h)
<1> SUFFICES ASSUME NEW in \in ToSet(tx.ins)
             PROVE  \E z \in C : \E src \in ToSet(made[z]) :
                      src.id = in.op[1] /\ Aged(tx, in, src, HeightIn(d, z), h)
  BY DEF Timely
<1> DEFINE op == in.op
           e == utxo[op]
<1>1. InputValid(utxo, tx, in, h, score) /\ tx.lock_time <= h
  BY DEF regular_valid, ToSet
<1>2. op \in DOMAIN utxo /\ Mature(e, h) /\ SequenceAged(tx, e, h) /\ Unlocks(tx, in, e, h)
  BY <1>1 DEF InputValid
<1>3. PICK z \in C : \E src \in ToSet(made[z]) :
        Makes(d, z, src, op, e) /\ Timely(d, made, C, src, e.height)
  BY <1>2 DEF Traced
<1>4. PICK src \in ToSet(made[z]) : Makes(d, z, src, op, e)
  BY <1>3
<1>5. IsTx(src) /\ HeightIn(d, z) \in Nat
  BY DEF Chained
<1> HIDE DEF e
<1>6. Aged(tx, in, src, e.height, h)
  BY <1>1, <1>2, <1>4, <1>5, EntryAged DEF Makes
<1>7. Aged(tx, in, src, HeightIn(d, z), h) /\ src.id = op[1]
  BY <1>4, <1>6 DEF Makes
<1> QED
  BY <1>7

LEMMA RegularTraced ==
  ASSUME NEW d, NEW made, NEW C, Chained(d, made, C), NEW b \in C, NEW h, h = HeightIn(d, b),
         NEW acc, {"ok", "utxo"} \subseteq DOMAIN acc, Traced(d, made, C, acc.utxo),
         NEW tx \in ToSet(made[b]), NEW score
  PROVE  LET r == apply_regular(acc, tx, h, score)
         IN  {"ok", "utxo"} \subseteq DOMAIN r /\ Traced(d, made, C, r.utxo)
<1> DEFINE r == apply_regular(acc, tx, h, score)
           u == acc.utxo
           stake == acc.stake
           valid == regular_valid(u, stake, tx, h, score)
           after == InsertAll(RemoveAll(u, Spent(tx)), Created(tx, h, FALSE))
<1>1. CASE ~acc.ok \/ ~valid
  <2>1. r = [acc EXCEPT !.ok = FALSE]
    BY <1>1 DEF apply_regular
  <2>2. DOMAIN r = DOMAIN acc /\ r.utxo = u
    BY <2>1
  <2> HIDE DEF r, u
  <2>3. {"ok", "utxo"} \subseteq DOMAIN r /\ Traced(d, made, C, r.utxo)
    BY <2>2 DEF u
  <2> QED
    BY <2>3 DEF r
<1>2. CASE acc.ok /\ valid
  <2>1. r.utxo = after /\ {"ok", "utxo"} \subseteq DOMAIN r
    BY <1>2 DEF apply_regular
  <2>2. IsTx(tx) /\ h \in Nat
    BY DEF Chained
  <2>3. valid /\ Traced(d, made, C, u)
    BY <1>2
  <2>4. is_coinbase(tx) = FALSE
    BY <1>2 DEF regular_valid, is_coinbase
  <2> DEFINE S == Spent(tx)
             c == FALSE
  <2>5. c = is_coinbase(tx)
    BY <2>4
  <2> HIDE DEF u, stake
  <2>6. Timely(d, made, C, tx, h)
    BY <2>2, <2>3, RegularTimely
  <2> HIDE DEF S, c
  <2>7. Traced(d, made, C, InsertAll(RemoveAll(u, S), Created(tx, h, c)))
    BY <2>3, <2>5, <2>6, TracedChanges
  <2> HIDE DEF r
  <2>8. Traced(d, made, C, r.utxo)
    BY <2>1, <2>7 DEF S, c
  <2> QED
    BY <2>1, <2>8 DEF r
<1> QED
  BY <1>1, <1>2

\* Applying transactions is a loop.
RegularLoop(utxo, stake, q, h, score, f) ==
  /\ f[0] = [ok |-> TRUE, utxo |-> utxo, stake |-> stake, fees |-> 0]
  /\ \A i \in 1 .. Len(q) : f[i] = apply_regular(f[i - 1], q[i], h, score)
  /\ apply_regulars(utxo, stake, q, h, score) = f[Len(q)]

LEMMA RegularLoops ==
  ASSUME NEW utxo, NEW stake, NEW q, IsTxList(q), NEW h, NEW score
  PROVE  \E f : RegularLoop(utxo, stake, q, h, score, f)
<1> DEFINE base == [ok |-> TRUE, utxo |-> utxo, stake |-> stake, fees |-> 0]
           n == Len(q)
<1>1. n \in Nat /\ DOMAIN q = 1 .. n
  BY DEF IsTxList
<1>2. apply_regulars(utxo, stake, q, h, score) = Spends!Run(h, score, base, q)
  BY RegularsAre
<1> HIDE DEF base, n
<1>3. PICK f : Spends!IsLoop(h, score, base, n, q, f) /\ Spends!Run(h, score, base, q) = f[n]
  BY <1>1, Spends!LoopRuns
<1>4. f[0] = base /\ \A i \in 1 .. n : f[i] = apply_regular(f[i - 1], q[i], h, score)
  <2>1. 0 \in 0 .. n /\ \A i \in 1 .. n : i \in 0 .. n /\ i # 0
    BY <1>1
  <2> QED
    BY <1>3, <2>1 DEF Spends!IsLoop
<1> QED
  BY <1>2, <1>3, <1>4 DEF RegularLoop, base, n

\* The regular transactions of a block.
LEMMA RegularsTraced ==
  ASSUME NEW d, NEW made, NEW C, Chained(d, made, C), NEW b \in C, NEW h, h = HeightIn(d, b),
         NEW utxo, Traced(d, made, C, utxo), NEW stake,
         NEW q, IsTxList(q), ToSet(q) \subseteq ToSet(made[b]), NEW score
  PROVE  Traced(d, made, C, apply_regulars(utxo, stake, q, h, score).utxo)
<1> DEFINE base == [ok |-> TRUE, utxo |-> utxo, stake |-> stake, fees |-> 0]
           n == Len(q)
<1>1. n \in Nat /\ DOMAIN q = 1 .. n /\ \A i \in 1 .. n : q[i] \in ToSet(made[b])
  <2>1. n \in Nat /\ DOMAIN q = 1 .. n
    BY DEF IsTxList
  <2>2. \A i \in DOMAIN q : q[i] \in ToSet(q)
    BY DEF ToSet
  <2> QED
    BY <2>1, <2>2
<1> DEFINE Fine(a) == {"ok", "utxo"} \subseteq DOMAIN a /\ Traced(d, made, C, a.utxo)
<1>2. Fine(base)
  <2>1. {"ok", "utxo"} \subseteq DOMAIN base /\ base.utxo = utxo
    OBVIOUS
  <2> HIDE DEF base
  <2> QED
    BY <2>1
<1> HIDE DEF base, n, Fine
<1>3. PICK f : RegularLoop(utxo, stake, q, h, score, f)
  BY RegularLoops
<1>4. f[0] = base /\ \A i \in 1 .. n : f[i] = apply_regular(f[i - 1], q[i], h, score)
  BY <1>3 DEF RegularLoop, base, n
<1> DEFINE Good == {i \in 0 .. n : Fine(f[i])}
<1>5. 0 \in Good
  <2>1. Fine(f[0])
    <3>1. f[0] = base
      BY <1>4
    <3> QED
      BY <1>2, <3>1, Zenon
  <2>2. 0 \in 0 .. n
    BY <1>1
  <2> QED
    BY <2>1, <2>2
<1>6. ASSUME NEW i \in 1 .. n, i - 1 \in Good PROVE i \in Good
  <2> DEFINE acc == f[i - 1]
             tx == q[i]
  <2>1. {"ok", "utxo"} \subseteq DOMAIN acc /\ Traced(d, made, C, acc.utxo)
    BY <1>6 DEF Fine
  <2>2. tx \in ToSet(made[b]) /\ f[i] = apply_regular(acc, tx, h, score) /\ i \in 0 .. n
    BY <1>1, <1>4
  <2> HIDE DEF acc, tx
  <2>3. Fine(apply_regular(acc, tx, h, score))
    BY <2>1, <2>2, RegularTraced DEF Fine
  <2> QED
    BY <2>2, <2>3
<1> HIDE DEF Good
<1>7. \A i \in 0 .. n : i \in Good
  BY <1>1, <1>5, <1>6, Spends!NatUpTo
<1>8. Traced(d, made, C, f[n].utxo)
  BY <1>1, <1>7 DEF Good, Fine
<1>9. apply_regulars(utxo, stake, q, h, score) = f[n]
  BY <1>3 DEF RegularLoop, n
<1> QED
  BY <1>8, <1>9

\* A block, whether or not it applies.
LEMMA BlockTraced ==
  ASSUME NEW d, NEW made, NEW C, Chained(d, made, C), NEW b \in C, IsTxList(made[b]),
         NEW h, h = HeightIn(d, b), NEW utxo, Traced(d, made, C, utxo), NEW stake,
         NEW subsidy, NEW minted, NEW score
  PROVE  Traced(d, made, C,
                apply_block_inner(utxo, stake, made[b], subsidy, minted, h, score).utxo)
<1> DEFINE body == made[b]
           cb == {body[i] : i \in {j \in DOMAIN body : j = 1 /\ is_coinbase(body[j])}}
           rest == IF cb = {} THEN body ELSE Tail(body)
           run == apply_regulars(utxo, stake, rest, h, score)
           ok == run.ok /\ \A c \in cb : coinbase_valid(run.utxo, c, subsidy + fee_share(run.fees),
                                                        minted, score)
           r == apply_block_inner(utxo, stake, body, subsidy, minted, h, score)
           c == body[1]
           u == run.utxo
           new == Created(c, h, TRUE)
<1>1. r = IF ok
          THEN [ok |-> TRUE, utxo |-> WithCoinbase(run.utxo, h, cb), stake |-> run.stake,
                fees |-> run.fees, minted |-> Minted(cb)]
          ELSE [ok |-> FALSE, utxo |-> utxo, stake |-> run.stake, fees |-> 0, minted |-> 0]
  BY DEF apply_block_inner, Settle, WithCoinbase, Minted
<1>2. IsTxList(rest) /\ ToSet(rest) \subseteq ToSet(body)
  BY RestIs
<1>3. Traced(d, made, C, u)
  <2> HIDE DEF rest
  <2> QED
    BY <1>2, RegularsTraced
<1>4. cb = {} \/ (cb = {c} /\ is_coinbase(c) /\ c \in ToSet(body))
  BY DEF ToSet
<1>5. cb = {} => WithCoinbase(u, h, cb) = u
  BY CoinbaseIs
<1>6. cb = {c} => WithCoinbase(u, h, cb) = InsertAll(u, new)
  <2> HIDE DEF u, c, cb
  <2>1. cb = {c} => WithCoinbase(u, h, cb) = MintOne(h, 0, u, c)
    BY CoinbaseIs
  <2>2. MintOne(h, 0, u, c) = InsertAll(u, new)
    BY DEF MintOne
  <2> QED
    BY <2>1, <2>2, Zenon
<1> HIDE DEF cb, run, c
<1>7. ASSUME cb = {c}, is_coinbase(c), c \in ToSet(body) PROVE Traced(d, made, C, InsertAll(u, new))
  <2> DEFINE S == {}
             t == TRUE
  <2>1. RemoveAll(u, S) = [op \in DOMAIN u |-> u[op]]
    BY DEF RemoveAll
  <2>2. InsertAll(RemoveAll(u, S), new) = InsertAll(u, new)
    <3>1. DOMAIN RemoveAll(u, S) = DOMAIN u /\ \A op \in DOMAIN u : RemoveAll(u, S)[op] = u[op]
      BY <2>1
    <3> DEFINE left == RemoveAll(u, S)
    <3> HIDE DEF left, new, u
    <3>2. InsertAll(left, new) = InsertAll(u, new)
      BY <3>1 DEF InsertAll, left
    <3> QED
      BY <3>2 DEF left
  <2>3. Timely(d, made, C, c, h)
    <3>1. ToSet(c.ins) = {}
      BY <1>7 DEF is_coinbase, ToSet
    <3> QED
      BY <3>1 DEF Timely
  <2>4. t = is_coinbase(c) /\ c \in ToSet(made[b])
    BY <1>7 DEF is_coinbase
  <2>5. Traced(d, made, C, u)
    BY <1>3
  <2> HIDE DEF S, t, u
  <2>6. Traced(d, made, C, InsertAll(RemoveAll(u, S), Created(c, h, t)))
    BY <2>3, <2>4, <2>5, TracedChanges
  <2> QED
    BY <2>2, <2>6 DEF t
<1> HIDE DEF u, new
<1>8. CASE ~ok
  <2>1. r.utxo = utxo
    BY <1>1, <1>8
  <2> HIDE DEF r
  <2>2. Traced(d, made, C, r.utxo)
    BY <2>1
  <2> QED
    BY <2>2 DEF r
<1>9. CASE ok
  <2>1. r.utxo = WithCoinbase(u, h, cb)
    BY <1>1, <1>9 DEF u
  <2> HIDE DEF r, ok
  <2>2. Traced(d, made, C, r.utxo)
    BY <1>3, <1>4, <1>5, <1>6, <1>7, <2>1
  <2> QED
    BY <2>2 DEF r
<1> QED
  BY <1>8, <1>9

\* A replay of blocks of C.
LEMMA ReplayTraced ==
  ASSUME NEW d, NEW made, NEW C, Chained(d, made, C), \A b \in C : IsTxList(made[b]),
         NEW o \in Seq(C)
  PROVE  Traced(d, made, C, Replays!Run(d, made, Nothing, o).utxo)
<1> DEFINE n == Len(o)
<1>1. n \in Nat /\ DOMAIN o = 1 .. n /\ \A i \in 1 .. n : o[i] \in C
  OBVIOUS
<1>2. Traced(d, made, C, Nothing.utxo)
  BY DEF Nothing, NoEntries, Traced
<1> HIDE DEF n
<1>3. PICK f : Replays!IsLoop(d, made, Nothing, n, o, f)
               /\ Replays!Run(d, made, Nothing, o) = f[n]
  BY <1>1, Replays!LoopRuns
<1>4. f[0] = Nothing /\ \A i \in 1 .. n : f[i] = ReplayOne(d, made, f[i - 1], o[i])
  <2>1. 0 \in 0 .. n /\ \A i \in 1 .. n : i \in 0 .. n /\ i # 0
    BY <1>1
  <2> QED
    BY <1>3, <2>1 DEF Replays!IsLoop
<1> DEFINE Fine(run) == Traced(d, made, C, run.utxo)
           Good == {i \in 0 .. n : Fine(f[i])}
<1>5. 0 \in Good
  <2>1. Fine(f[0]) /\ 0 \in 0 .. n
    BY <1>1, <1>2, <1>4
  <2> HIDE DEF Fine
  <2> QED
    BY <2>1
<1>6. ASSUME NEW i \in 1 .. n, i - 1 \in Good PROVE i \in Good
  <2> DEFINE run == f[i - 1]
             b == o[i]
             u == run.utxo
             h == HeightIn(d, b)
             stake == run.stake
             subsidy == IF b = Genesis THEN MaxSupply ELSE subsidy_at(h)
             minted == run.minted
             score == IF b = Genesis THEN Ungated ELSE d.node[b].blue_score
             r == OutcomeIn(d, made, run, b)
  <2>1. Traced(d, made, C, u) /\ b \in C /\ i \in 0 .. n /\ IsTxList(made[b])
    BY <1>1, <1>6
  <2>2. f[i] = ReplayOne(d, made, run, b)
    BY <1>4
  <2>3. r = apply_block_inner(u, stake, made[b], subsidy, minted, h, score)
    BY DEF OutcomeIn
  <2> HIDE DEF run, b, u, h, stake, subsidy, minted, score, r
  <2>4. h = HeightIn(d, b)
    BY DEF h
  <2>5. Traced(d, made, C, r.utxo)
    <3>1. Traced(d, made, C, apply_block_inner(u, stake, made[b], subsidy, minted, h, score).utxo)
      BY <2>1, <2>4, BlockTraced
    <3> QED
      BY <2>3, <3>1
  <2>6. f[i].utxo = r.utxo \/ f[i].utxo = u
    <3>1. f[i] = Counted(run, r)
      BY <2>2 DEF ReplayOne, r
    <3> QED
      BY <3>1 DEF Counted, u
  <2>7. Fine(f[i])
    BY <2>1, <2>5, <2>6
  <2> HIDE DEF Fine
  <2> QED
    BY <2>1, <2>7
<1> HIDE DEF Good
<1>7. \A i \in 0 .. n : i \in Good
  BY <1>1, <1>5, <1>6, Spends!NatUpTo
<1>8. Fine(f[n])
  BY <1>1, <1>7 DEF Good
<1> QED
  BY <1>3, <1>8

\* Where ids are not used twice, a transaction is what its id names.
LEMMA MakerIs ==
  ASSUME UniqueIn(txs), DOMAIN txs = Nodes(dag), \A b \in Nodes(dag) : IsTxList(txs[b]),
         NEW C \in SUBSET Nodes(dag), NEW y \in C, NEW tx \in ToSet(txs[y]),
         NEW op, op[1] = tx.id
  PROVE  /\ Maker(op, UNION {ToSet(txs[x]) : x \in C}) = tx
         /\ HeightIn(dag, y) \in MadeAt(tx.id, C)
<1> DEFINE all == UNION {ToSet(txs[x]) : x \in C}
<1>1. tx \in all
  OBVIOUS
<1>2. ASSUME NEW t \in all, t.id = tx.id PROVE t = tx
  <2>1. PICK x \in C : t \in ToSet(txs[x])
    OBVIOUS
  <2>2. x \in DOMAIN txs /\ y \in DOMAIN txs
    OBVIOUS
  <2> QED
    BY <1>2, <2>1, <2>2 DEF UniqueIn
<1>3. HeightIn(dag, y) \in MadeAt(tx.id, C)
  <2>1. PICK i \in DOMAIN txs[y] : txs[y][i] = tx
    BY DEF ToSet
  <2>2. txs[y][i].id = tx.id
    BY <2>1
  <2>3. y \in {x \in C : \E j \in DOMAIN txs[x] : txs[x][j].id = tx.id}
    BY <2>2
  <2>4. TrueHeight(y) \in MadeAt(tx.id, C)
    BY <2>3 DEF MadeAt
  <2> QED
    BY <2>4 DEF TrueHeight, HeightIn
<1> HIDE DEF all
<1>4. Maker(op, all) = tx
  BY <1>1, <1>2 DEF Maker
<1> QED
  BY <1>3, <1>4 DEF all

\* Entries that are traced keep the time locks.
LEMMA TracedObeys ==
  ASSUME UniqueIn(txs), DOMAIN txs = Nodes(dag), \A b \in Nodes(dag) : IsTxList(txs[b]),
         NEW C \in SUBSET Nodes(dag), NEW utxo, Traced(dag, txs, C, utxo),
         NEW op \in DOMAIN utxo
  PROVE  LET all == UNION {ToSet(txs[x]) : x \in C}
             tx  == Maker(op, all)
         IN  /\ utxo[op].height \in MadeAt(tx.id, C)
             /\ \A in \in ToSet(tx.ins) :
                  LET maker == Maker(in.op, all)
                  IN  \E g \in MadeAt(maker.id, C) : Aged(tx, in, maker, g, utxo[op].height)
<1> DEFINE all == UNION {ToSet(txs[x]) : x \in C}
           tx == Maker(op, all)
           h == utxo[op].height
<1>1. PICK y \in C : \E t \in ToSet(txs[y]) :
        Makes(dag, y, t, op, utxo[op]) /\ Timely(dag, txs, C, t, h)
  BY DEF Traced
<1>2. PICK t \in ToSet(txs[y]) : Makes(dag, y, t, op, utxo[op]) /\ Timely(dag, txs, C, t, h)
  BY <1>1
<1>3. t.id = op[1] /\ h = HeightIn(dag, y)
  BY <1>2 DEF Makes
<1>4. tx = t /\ h \in MadeAt(t.id, C)
  BY <1>3, MakerIs
<1>5. ASSUME NEW in \in ToSet(t.ins)
      PROVE  LET maker == Maker(in.op, all)
             IN  \E g \in MadeAt(maker.id, C) : Aged(t, in, maker, g, h)
  <2>1. PICK z \in C : \E src \in ToSet(txs[z]) :
          src.id = in.op[1] /\ Aged(t, in, src, HeightIn(dag, z), h)
    BY <1>2 DEF Timely
  <2>2. PICK src \in ToSet(txs[z]) : src.id = in.op[1] /\ Aged(t, in, src, HeightIn(dag, z), h)
    BY <2>1
  <2> DEFINE w == in.op
             maker == Maker(w, all)
  <2>3. w[1] = src.id
    BY <2>2
  <2> HIDE DEF w
  <2>4. maker = src /\ HeightIn(dag, z) \in MadeAt(src.id, C)
    BY <2>3, MakerIs
  <2> HIDE DEF all, h
  <2> QED
    BY <2>2, <2>4 DEF w
<1> HIDE DEF all, h, tx
<1>6. h \in MadeAt(tx.id, C)
  BY <1>4
<1>7. \A in \in ToSet(tx.ins) :
        LET maker == Maker(in.op, all)
        IN  \E g \in MadeAt(maker.id, C) : Aged(tx, in, maker, g, h)
  BY <1>4, <1>5
<1> QED
  BY <1>6, <1>7 DEF all, h, tx

\* Views that are replays keep the time locks.
LEMMA ReplaysObey ==
  ASSUME BlocksInv, UniqueIds, ViewIsReplay
  PROVE  TimeLocksHold
<1>1. /\ ByTheRule(dag) /\ NoBlock \notin Nodes(dag) /\ DOMAIN txs = Nodes(dag)
      /\ \A b \in Nodes(dag) : IsTxList(txs[b])
  BY NoBlockAssumption DEF BlocksInv, Sound
<1>2. UniqueIn(txs)
  BY DEF UniqueIds
<1>3. ASSUME FallbackExact, NEW b \in NonFinal
      PROVE  LET utxo   == reconstruct_state(b)
                 blocks == dag.node[b].past \cup {b}
                 all    == UNION {ToSet(txs[x]) : x \in blocks}
             IN  \A op \in DOMAIN utxo :
                   LET tx == Maker(op, all)
                   IN  /\ utxo[op].height \in MadeAt(tx.id, blocks)
                       /\ \A in \in ToSet(tx.ins) :
                            LET maker == Maker(in.op, all)
                            IN  \E g \in MadeAt(maker.id, blocks) :
                                  Aged(tx, in, maker, g, utxo[op].height)
  <2> DEFINE C == dag.node[b].past \cup {b}
             utxo == reconstruct_state(b)
             o == OrderOf(dag, b)
  <2>1. b \in Nodes(dag)
    BY DEF NonFinal
  <2>2. utxo = RunOf(dag, txs, b).utxo
    <3>1. utxo = ReplayPast(b).utxo
      BY <1>3 DEF ViewIsReplay
    <3>2. ReplayPast(b) = RunOf(dag, txs, b)
      BY <1>1, <2>1, ReplayIs
    <3> QED
      BY <3>1, <3>2
  <2>3. Lists(dag, o, C)
    <3> DEFINE d == dag
    <3>1. ByTheRule(d) /\ NoBlock \notin Nodes(d) /\ b \in Nodes(d)
      BY <1>1, <2>1
    <3> HIDE DEF d
    <3>2. Lists(d, OrderOf(d, b), d.node[b].past \cup {b})
      BY <3>1, OrderLists
    <3> QED
      BY <3>2 DEF d
  <2>4. o \in Seq(C) /\ C \in SUBSET Nodes(dag)
    <3> HIDE DEF o, C
    <3>1. o \in Seq(Nodes(dag)) /\ ToSet(o) = C /\ C \in SUBSET Nodes(dag)
      BY <2>3 DEF Lists
    <3>2. \A i \in 1 .. Len(o) : o[i] \in C
      BY <3>1 DEF ToSet
    <3> QED
      BY <3>1, <3>2
  <2>5. Chained(dag, txs, C) /\ \A x \in C : IsTxList(txs[x])
    <3> DEFINE d == dag
    <3>1. ByTheRule(d) /\ NoBlock \notin Nodes(d) /\ C \in SUBSET Nodes(d)
      BY <1>1, <2>4
    <3> HIDE DEF d, C
    <3>2. \A x \in C : HeightIn(d, x) \in Nat
      BY <3>1, HeightIs
    <3>3. \A x \in C : IsTxList(txs[x])
      BY <1>1, <2>4
    <3>4. \A x \in C : \A tx \in ToSet(txs[x]) : IsTx(tx)
      BY <3>3 DEF IsTxList, ToSet
    <3> QED
      BY <3>2, <3>3, <3>4 DEF Chained, d
  <2> DEFINE d == dag
             made == txs
  <2>6. Chained(d, made, C) /\ \A x \in C : IsTxList(made[x])
    BY <2>5
  <2> HIDE DEF C, o, utxo, d, made
  <2>7. Traced(d, made, C, Replays!Run(d, made, Nothing, o).utxo)
    BY <2>4, <2>6, ReplayTraced
  <2>8. Traced(dag, txs, C, utxo)
    BY <2>2, <2>7 DEF RunOf, d, made, o
  <2>9. \A op \in DOMAIN utxo :
          LET all == UNION {ToSet(txs[x]) : x \in C}
              tx  == Maker(op, all)
          IN  /\ utxo[op].height \in MadeAt(tx.id, C)
              /\ \A in \in ToSet(tx.ins) :
                   LET maker == Maker(in.op, all)
                   IN  \E g \in MadeAt(maker.id, C) : Aged(tx, in, maker, g, utxo[op].height)
    BY <1>1, <1>2, <2>4, <2>8, TracedObeys
  <2> QED
    BY <2>9 DEF C, utxo
<1> QED
  BY <1>3 DEF TimeLocksHold

(***************************************************************************)
(* What any view holds was spent in time and conserved: under the          *)
(* conditions of ReplaysAreExact, every unspent output was made at a chain *)
(* height by which all that its transaction spends had aged (InputValid,   *)
(* Mature, SequenceAged and the script paths), wherever it was merged.     *)
(***************************************************************************)
THEOREM SpendsObeyTheRules ==
  ASSUME PayloadIsTyped, NoViewIsNone
  PROVE  Spec /\ []UniqueIds /\ FinalityRises /\ NoStrayBonds => []SpendsObeyRules
<1> DEFINE Rises == FinalStay(dag, dag')
           NoStray == \A id \in Nodes(dag') \ Nodes(dag) : CleanMerge(dag, dag', id)
<1>1. Init => ReplayInv
  BY ReplayInvInit
<1>2. ReplayInv /\ UniqueIds' /\ [Next]_vars /\ [Rises]_vars /\ [NoStray]_vars => ReplayInv'
  BY ReplayInvNext
<1>3. ReplayInv /\ UniqueIds => TimeLocksHold
  BY ReplayInvSuffices, ReplaysObey DEF ReplayInv, LedgerInv
<1>4. Spec => []AssetsConserved
  BY AssetsAreConserved
<1>5. TimeLocksHold /\ AssetsConserved => SpendsObeyRules
  BY DEF SpendsObeyRules
<1> QED
  BY <1>1, <1>2, <1>3, <1>4, <1>5, PTL DEF Spec, FinalityRises, NoStrayBonds

=============================================================================
