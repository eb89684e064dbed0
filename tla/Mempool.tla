------------------------------ MODULE Mempool ------------------------------
(***************************************************************************)
(* The transaction pool (mempool_v2.rs) as a value and its operations.     *)
(* Where the code takes whatever entry a HashMap yields first, or one of   *)
(* several with the lowest fee rate, an operator gives the set of all      *)
(* pools it may leave behind.                                              *)
(*                                                                         *)
(* A pool is a record with the fields of MempoolV2: pending and orphans    *)
(* are sets of transactions (size and fee rate are those of the            *)
(* transaction: fee_with_utxo depends on the outputs it spends alone, and  *)
(* an orphan's rate of 0 is never read), by_missing is orphans_by_missing  *)
(* with {} for an absent key, and bytes is total_bytes.  Coinbase          *)
(* transactions, which submit_tx refuses, are left out.                    *)
(***************************************************************************)
EXTENDS Integers, FiniteSets, FiniteSetsExt

CONSTANTS Tx,          \* transaction ids: integers, they are ordered
          Ins(_),      \* the outpoints a transaction spends
          Size(_), Fee(_),  \* encoded size; inputs less outputs, 0 at least
          Outpoint,
          MaxTxs, MaxBytes, MaxOrphans, MinFeeRate  \* MempoolConfig

\* The limits are NonZeroUsize.
ASSUME MempoolAssumption ==
  /\ \A t \in Tx : Ins(t) \subseteq Outpoint /\ Size(t) \in Nat \ {0} /\ Fee(t) \in Nat
  /\ {MaxTxs, MaxBytes, MaxOrphans} \subseteq Nat \ {0}
  /\ MinFeeRate \in Nat

Rate(t) == Fee(t) \div Size(t)

\* The total size of a set of transactions: all their bytes, counted.
Bytes(S) == Cardinality(UNION {{t} \X (1 .. Size(t)) : t \in S})

Missing(t, utxo) == Ins(t) \ utxo
Conflict(t, u) == Ins(t) \cap Ins(u) # {}

EmptyPool == [pending |-> {}, orphans |-> {},
              by_missing |-> [op \in Outpoint |-> {}], bytes |-> 0]

-----------------------------------------------------------------------------
AddPending(p, S) ==
  [p EXCEPT !.pending = @ \cup S, !.bytes = @ + Bytes(S)]

remove_pending(p, S) ==
  [p EXCEPT !.pending = @ \ S, !.bytes = @ - Bytes(S \cap p.pending)]

\* Orphans are filed under the inputs that are missing now.
AddOrphans(p, S, utxo) ==
  [p EXCEPT !.orphans = @ \cup S,
            !.by_missing = [op \in Outpoint |->
                              @[op] \cup {t \in S : op \in Missing(t, utxo)}]]

\* remove_orphan, which does nothing for what is no orphan.
remove_orphan(p, S) ==
  [p EXCEPT !.orphans = @ \ S, !.by_missing = [op \in Outpoint |-> @[op] \ S]]

\* Mutant of remove_all: only what is still pending is removed.
RemovePendingOnly(p, S) == remove_pending(p, S)

\* remove_all: transactions that a block has included.
remove_all(p, S) == remove_orphan(remove_pending(p, S), S)

\* ensure_orphan_capacity and prune_orphans: arbitrary orphans go until at
\* most `limit' are left.
PruneTo(p, limit) ==
  {remove_orphan(p, S) :
     S \in {V \in SUBSET p.orphans :
              Cardinality(V) = Max({0, Cardinality(p.orphans) - limit})}}

-----------------------------------------------------------------------------
LowestFirst(kept, gone) == \A g \in gone, k \in kept : Rate(g) <= Rate(k)

\* What may be left of S when evict_lowest_fee_rate is called until there is
\* room, which there is with the sets in `roomy'.
EvictUntil(S, roomy) ==
  {kept \in SUBSET S :
     /\ LowestFirst(kept, S \ kept)
     /\ kept = {} \/ kept \in roomy
     /\ \/ kept = S
        \/ \E last \in S \ kept : /\ \A g \in S \ kept : Rate(g) <= Rate(last)
                                  /\ kept \cup {last} \notin roomy}

\* Mutant of CountRoom: off by one.
CountRoomLax(S) == Cardinality(S) <= MaxTxs

CountRoom(S) == Cardinality(S) < MaxTxs

\* ensure_capacity and the end of add.  When the byte limit empties the pool
\* the transaction is refused, even if it would fit now.
Enter(p, t) ==
  LET Fits(S) == Bytes(S) + Size(t) <= MaxBytes
      Result(counted, kept) ==
        LET left == remove_pending(p, p.pending \ kept)
        IN  IF Fits(counted) \/ kept # {} THEN AddPending(left, {t}) ELSE left
      Roomy(S, Room(_)) == {V \in SUBSET S : Room(V)}
  IN  UNION {{Result(counted, kept) :
                kept \in EvictUntil(counted, Roomy(counted, Fits))} :
               counted \in EvictUntil(p.pending, Roomy(p.pending, CountRoom))}

\* add: a duplicate changes nothing, but an orphan of the same id is gone
\* whatever comes after.
add(p, t, utxo) ==
  LET q == remove_orphan(p, {t})
  IN  CASE t \in p.pending -> {p}
        [] t \notin p.pending /\ Missing(t, utxo) # {} ->
             {AddOrphans(r, {t}, utxo) : r \in PruneTo(q, MaxOrphans - 1)}
        [] t \notin p.pending /\ Missing(t, utxo) = {} ->
             IF Rate(t) < MinFeeRate THEN {q} ELSE Enter(q, t)

\* Mutant of Replace: only the one transaction that was compared is removed.
ReplaceOne(p, t, c, utxo) == add(remove_pending(p, {c}), t, utxo)

\* The replacement goes in for c, and any other conflicting one goes as well.
Replace(p, t, c, utxo) ==
  add(remove_pending(p, {u \in p.pending : Conflict(u, t)}), t, utxo)

\* replace_by_fee: some conflicting transaction c is found, and the new one
\* must pay its rate and the bump.
replace_by_fee(p, t, utxo, bump) ==
  LET q == remove_orphan(p, {t})
      Targets == {c \in p.pending : Conflict(c, t)}
  IN  IF t \in p.pending THEN {p}
      ELSE IF Missing(t, utxo) # {} \/ Targets = {} THEN {q}
      ELSE UNION {IF Rate(t) < Rate(c) + bump THEN {q} ELSE Replace(q, t, c, utxo) :
                    c \in Targets}

-----------------------------------------------------------------------------
\* Mutant of revalidate_with_utxo: only the orphan limit is enforced.
OnlyPrune(p, utxo) == PruneTo(p, MaxOrphans)

\* revalidate_with_utxo, after every change of the ledger.
revalidate_with_utxo(p, utxo) ==
  LET gone == {t \in p.pending : Missing(t, utxo) # {}}
  IN  PruneTo(AddOrphans(remove_pending(p, gone), gone, utxo), MaxOrphans)

\* on_new_block: orphans that wait for nothing any more become pending, or
\* are dropped for their fee; nothing looks at the limits of the pool.
on_new_block(p, utxo) ==
  LET ready == {t \in p.orphans : Missing(t, utxo) = {}}
  IN  PruneTo(AddPending(remove_orphan(p, ready),
                         {t \in ready : Rate(t) >= MinFeeRate}), MaxOrphans)

=============================================================================
