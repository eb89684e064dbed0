---------------------------- MODULE NodeMempool ----------------------------
(***************************************************************************)
(* The node around its pool (node.rs): transactions are submitted or       *)
(* replace others, blocks arrive or are produced, and after each block the *)
(* pool is revalidated.  All handlers run under the node's lock.           *)
(*                                                                         *)
(* Of the ledger the pool sees ledger_state only.  Here that is the set of *)
(* transactions applied in it: any that can be applied in some order from  *)
(* the genesis outputs.  A block may extend it or, when it moves the       *)
(* selected tip to another branch, replace it by another such set.         *)
(***************************************************************************)
EXTENDS Mempool, Functions

CONSTANTS Outs(_),    \* the outpoints a transaction makes
          GenesisOuts,
          Minable,    \* transactions the ledger's other rules accept
          FeeBump     \* the min_fee_bump given to replace_by_fee

ASSUME NodeMempoolAssumption ==
  /\ Tx \subseteq Int /\ Minable \subseteq Tx /\ IsFiniteSet(Minable)
  /\ FeeBump \in Nat

VARIABLES pool,     \* mempool
          applied   \* the transactions in ledger_state

vars == <<pool, applied>>

Utxo(A) == (GenesisOuts \cup UNION {Outs(t) : t \in A}) \ UNION {Ins(t) : t \in A}

\* What ledger_state can be: put in some order, its transactions spend what is
\* there when their turn comes.
Ledgers ==
  {A \in SUBSET Minable :
     \E turn \in Injection(A, 1 .. Cardinality(A)) :
       \A t \in A : Ins(t) \subseteq Utxo({u \in A : turn[u] < turn[t]})}

-----------------------------------------------------------------------------
Init == pool = EmptyPool /\ applied = {}

\* submit_tx and pool.
Submit(t) ==
  /\ pool' \in add(pool, t, Utxo(applied))
  /\ UNCHANGED applied

ReplaceByFee(t) ==
  /\ pool' \in replace_by_fee(pool, t, Utxo(applied), FeeBump)
  /\ UNCHANGED applied

\* receive_block, once the ledger has taken the block, and the wallet calls
\* that insert a block of their own: evict_mempool follows.
ReceiveBlock(A) ==
  /\ applied' = A
  /\ pool' \in revalidate_with_utxo(pool, Utxo(A))

\* ordered_pending and produce_block: the pending transactions are tried in the
\* order of their ids, each on the state that those taken before it leave.
Taken(C) ==
  \A t \in pool.pending :
    t \in C <=> t \in Minable /\ Ins(t) \subseteq Utxo(applied \cup {u \in C : u < t})

\* What is taken becomes a block on all tips, whose transactions ledger_state
\* has already; the pool is revalidated before they are removed from it.
ProduceBlock ==
  \E C \in SUBSET pool.pending \ {{}} :
    /\ Taken(C)
    /\ applied' = applied \cup C
    /\ \E p \in revalidate_with_utxo(pool, Utxo(applied \cup C)) :
         pool' = remove_all(p, C)

\* promote_orphans.
PromoteOrphans ==
  /\ pool' \in on_new_block(pool, Utxo(applied))
  /\ UNCHANGED applied

Next ==
  \/ \E t \in Tx : Submit(t) \/ ReplaceByFee(t)
  \/ \E A \in Ledgers : ReceiveBlock(A)
  \/ ProduceBlock
  \/ PromoteOrphans

Spec == Init /\ [][Next]_vars

-----------------------------------------------------------------------------
(***************************************************************************)
(* The byte count, kept beside the pool by nine code paths, is the size of *)
(* what is pending (total_bytes), also after a replacement was put back or *)
(* given up halfway.                                                       *)
(***************************************************************************)
BytesExact == pool.bytes = Bytes(pool.pending)

(***************************************************************************)
(* An orphan is found under an outpoint it spends, the index names no      *)
(* transaction that is not an orphan any more, and no transaction is       *)
(* pending and an orphan at once.                                          *)
(***************************************************************************)
IndexExact ==
  /\ pool.pending \cap pool.orphans = {}
  /\ \A t \in pool.orphans : \E op \in Ins(t) : t \in pool.by_missing[op]
  /\ \A op \in Outpoint : \A t \in pool.by_missing[op] :
       t \in pool.orphans /\ op \in Ins(t)

(***************************************************************************)
(* What is pending spends existing outputs, whatever blocks came, whatever *)
(* they reorganised ("Valid, ready-to-mine transactions").                 *)
(***************************************************************************)
PendingSpendable == \A t \in pool.pending : Ins(t) \subseteq Utxo(applied)

(***************************************************************************)
(* The orphan pool keeps its limit, although a reorganisation may make     *)
(* orphans of the whole pool at once.                                      *)
(***************************************************************************)
OrphansBounded == Cardinality(pool.orphans) <= MaxOrphans

(***************************************************************************)
(* Blocks, submissions and replacements never take the pool above its      *)
(* limits, or further above them: only the promotion of orphans does,      *)
(* which does not look at them.                                            *)
(***************************************************************************)
OverfullByPromotionOnly ==
  [][\/ Cardinality(pool'.pending) > Max({MaxTxs, Cardinality(pool.pending)})
     \/ pool'.bytes > Max({MaxBytes, pool.bytes})
     => PromoteOrphans]_vars

(***************************************************************************)
(* What the pool keeps beside its transactions tells the truth about them, *)
(* and the limits of both pools hold, with one way past them.              *)
(***************************************************************************)
LimitsHold == []BytesExact /\ []IndexExact /\ []OrphansBounded /\ OverfullByPromotionOnly

(***************************************************************************)
(* What a submission displaces had the lowest fee rates in the pool        *)
(* ("lowest fee-rate txs are evicted first").                              *)
(***************************************************************************)
CheapestEvicted ==
  [][UNCHANGED applied =>
       \A t \in Tx : Submit(t) =>
         \A g \in pool.pending \ pool'.pending, k \in pool.pending \cap pool'.pending :
           Rate(g) <= Rate(k)]_vars

(***************************************************************************)
(* A replacement that got in pays the bump over one transaction it         *)
(* replaced, and no transaction it conflicts with is left; one that did    *)
(* not get in brings nothing into the pool.                                *)
(***************************************************************************)
ReplacementClears ==
  [][\A t \in Tx \ pool.pending : UNCHANGED applied /\ ReplaceByFee(t) =>
       \/ pool'.pending \subseteq pool.pending
       \/ /\ pool'.pending \ pool.pending = {t}
          /\ \E c \in pool.pending \ pool'.pending :
               Conflict(c, t) /\ Rate(t) >= Rate(c) + FeeBump
          /\ \A u \in pool'.pending \ {t} : ~Conflict(u, t)]_vars

(***************************************************************************)
(* A newcomer displaces what is cheaper or what it outbids, nothing else.  *)
(***************************************************************************)
FairlyDisplaced == CheapestEvicted /\ ReplacementClears

(***************************************************************************)
(* A produced block is one the ledger can apply, although pending          *)
(* transactions may conflict with each other, and nothing of it stays in   *)
(* the pool.                                                               *)
(***************************************************************************)
ProducedBlockApplies ==
  [][ProduceBlock =>
       /\ applied' \in Ledgers
       /\ (pool'.pending \cup pool'.orphans) \cap (applied' \ applied) = {}]_vars

=============================================================================
