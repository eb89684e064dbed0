----------------------------- MODULE LedgerProps -----------------------------
(***************************************************************************)
(* What the ledger promises.  The reference is apply_dag: take the blocks  *)
(* a view is about, linearize them, and apply every block from nothing, at *)
(* its height on its own selected chain; a block that fails has no effect, *)
(* neither on the UTXO set nor on the registry.                            *)
(***************************************************************************)
EXTENDS Ledger

TrueHeight(b) == Len(ChainTo(dag, b)) - 1

\* The DAG of b and its past: its selected tip is b.
PastDag(b) ==
  [tips |-> {b},
   node |-> [x \in dag.node[b].past \cup {b} |-> dag.node[x]]]

\* The next block of a replay.
Outcome(run, b) ==
  apply_block_inner(run.utxo, run.stake, txs[b],
    IF b = Genesis THEN MaxSupply ELSE subsidy_at(TrueHeight(b)),
    run.minted, TrueHeight(b),
    IF b = Genesis THEN Ungated ELSE dag.node[b].blue_score)

Counted(run, r) ==
  IF ~r.ok THEN run
  ELSE [utxo |-> r.utxo, stake |-> r.stake, minted |-> run.minted + r.minted,
        burned |-> run.burned + burned(r.fees), fees |-> run.fees + r.fees]

ReplayBlock(run, b) == Counted(run, Outcome(run, b))

Replay(order) ==
  FoldLeft(ReplayBlock,
           [utxo |-> [op \in {} |-> 0], stake |-> NoStake,
            minted |-> 0, burned |-> 0, fees |-> 0],
           order)

ReplayPast(b) == Replay(linearize(PastDag(b)))

NonFinal == {b \in Nodes(dag) : ~is_final(dag, b)}

\* The heights that merging a final block falls back to are its true ones.
FallbackExact ==
  \A b \in Nodes(dag) \ NonFinal : dag.node[b].blue_score = TrueHeight(b)

NativeTotal(utxo) ==
  MapThenSumSet(LAMBDA op : utxo[op].output.value,
                {op \in DOMAIN utxo : utxo[op].output.asset = Native})

-----------------------------------------------------------------------------
(***************************************************************************)
(* A block that is not final may still be built upon: the undo log and the *)
(* heights are kept for these blocks and no others, and their views can be *)
(* rebuilt ("non-final selected parent always has a stored delta",         *)
(* apply_new_block).                                                       *)
(***************************************************************************)
StateAvailable ==
  /\ DOMAIN deltas = NonFinal /\ DOMAIN stake_deltas = NonFinal /\ DOMAIN heights = NonFinal
  /\ \A b \in NonFinal : reconstruct_state(b) # NoView /\ reconstruct_stake(b) # NoView

(***************************************************************************)
(* The view rebuilt from the undo log is the state after applying, in the  *)
(* recursive GHOSTDAG order, every transaction of the block's past and its *)
(* own (struct Ledger), however many deltas have been folded meanwhile.    *)
(***************************************************************************)
ViewIsReplay ==
  FallbackExact =>
    \A b \in NonFinal :
      LET replay == ReplayPast(b)
      IN  /\ reconstruct_state(b) = replay.utxo
          /\ reconstruct_stake(b) = replay.stake

(***************************************************************************)
(* The materialised view of the selected tip and the one rebuilt from the  *)
(* undo log are the same: state() returns the first, apply_new_block       *)
(* builds on the second.                                                   *)
(***************************************************************************)
TipStateIsView ==
  /\ tip_state = reconstruct_state(selected_tip(dag))
  /\ tip_stake = reconstruct_stake(selected_tip(dag))

\* What the coinbase of a block makes of an asset.
Coin(body, a) == IF body # <<>> /\ is_coinbase(body[1]) THEN AssetOut(body[1], a) ELSE 0

\* No block bonds, and all coinbases together stay within the cap.
TailIsPlain ==
  /\ \A b \in Nodes(dag) : \A tx \in ToSet(txs[b]) : tx.role = "plain"
  /\ MapThenSumSet(LAMBDA b : Coin(txs[b], Native), Nodes(dag)) <= MaxSupply

(***************************************************************************)
(* The full ledger state is every block applied in linearized order        *)
(* (ledger_state), including the side blocks after the selected tip, as    *)
(* long as no bond, cap or dropped height touches the tail (README, known  *)
(* deviations).                                                            *)
(***************************************************************************)
LedgerStateIsReplay ==
  /\ TailIsPlain
  /\ FallbackExact
  /\ ToSet(Tail(linearize(dag))) \ dag.node[selected_tip(dag)].past \subseteq NonFinal
  => ledger_state = Replay(linearize(dag)).utxo

(***************************************************************************)
(* The undo log answers for every block that may be built upon, and right; *)
(* and so does what the node shows of the tip and of the blocks beside it. *)
(***************************************************************************)
ViewsExact == StateAvailable /\ ViewIsReplay /\ TipStateIsView /\ LedgerStateIsReplay

(***************************************************************************)
(* The running totals count every block of the view once: what was minted  *)
(* and what was burned.  The native value of the tip's view is what was    *)
(* minted less all fees, and never more than the cap.                      *)
(***************************************************************************)
SupplyExact ==
  /\ FallbackExact =>
       \A b \in Nodes(dag) :
         LET replay == ReplayPast(b)
         IN  block_minted[b] = replay.minted /\ block_fees[b] = replay.burned
  /\ LET tip == selected_tip(dag)
     IN  /\ supply = [native_minted |-> block_minted[tip],
                      fees_burned |-> block_fees[tip]]
         /\ FallbackExact => NativeTotal(tip_state) + ReplayPast(tip).fees
                               = supply.native_minted
         /\ supply.native_minted <= MaxSupply

(***************************************************************************)
(* Every native coin that is unspent in a view, or was burned by the fees  *)
(* paid in it, was minted in it, and never more than the cap: whatever is  *)
(* merged, fails, is folded or reorganised away, and even if transaction   *)
(* ids repeat, no view holds more than MAX_SUPPLY.                         *)
(***************************************************************************)
SupplyCapped ==
  /\ \A b \in Nodes(dag) : block_minted[b] <= MaxSupply
  /\ \A b \in NonFinal :
       LET view == reconstruct_state(b)
       IN  view # NoView => NativeTotal(view) + block_fees[b] <= block_minted[b]
  /\ NativeTotal(tip_state) + supply.fees_burned <= supply.native_minted
  /\ supply.native_minted <= MaxSupply

(***************************************************************************)
(* In every view a bonded outpoint is unspent and worth what it backs: a   *)
(* registry that counts value already spent elects producers on it.        *)
(***************************************************************************)
FrozenUnspent ==
  \A b \in NonFinal :
    LET utxo   == reconstruct_state(b)
        frozen == reconstruct_stake(b).frozen
    IN  \A op \in DOMAIN frozen :
          op \in DOMAIN utxo /\ utxo[op].output.value = frozen[op].value

(***************************************************************************)
(* In every view the total bonded to a key is the sum of its bonds,        *)
(* although both are updated by deltas, composed and applied.              *)
(***************************************************************************)
LockedExact ==
  \A b \in NonFinal :
    LET stake == reconstruct_stake(b)
        Backing(k) == {op \in DOMAIN stake.frozen : stake.frozen[op].key = k}
    IN  \A k \in DOMAIN stake.locked \cup {stake.frozen[op].key : op \in DOMAIN stake.frozen} :
          stake_of(stake, k)
            = MapThenSumSet(LAMBDA op : stake.frozen[op].value, Backing(k))

(***************************************************************************)
(* The registry of every view is backed by the outputs of that view: bond by *)
(* bond, and in the totals producers are elected by.                       *)
(***************************************************************************)
RegistryBacked == FrozenUnspent /\ LockedExact

\* The number a script's n-th opcode pops, when time checks lead up to it.
Asked(lock, in, n) ==
  IF \A i \in 1 .. n : lock.script[i].op \in {"CLTV", "CSV"}
  THEN in.witness[Len(in.witness) + 1 - n].of ELSE 0

\* The output that in spends, made by maker at height g, is old enough at h.
Aged(tx, in, maker, g, h) ==
  LET lock == maker.outs[in.op[2]].lock
  IN  /\ tx.sequence \notin {0, FinalSequence} => h >= g + tx.sequence
      /\ is_coinbase(maker) /\ g > 0 => h >= g + CoinbaseMaturity
      /\ lock.kind = "htlc" /\ in.path = "refund" => h >= lock.after
      /\ lock.kind = "vault" => h >= lock.after /\ h >= g + lock.csv
      /\ lock.kind = "script" =>
           \A n \in DOMAIN lock.script :
             LET asked == Asked(lock, in, n)
             IN  IF lock.script[n].op = "CLTV" THEN asked <= h
                 ELSE asked > 0 /\ tx.sequence # FinalSequence => h >= g + asked

Maker(op, all) == CHOOSE tx \in all : tx.id = op[1]

\* The heights of the blocks that hold a transaction.
MadeAt(id, blocks) ==
  {TrueHeight(x) : x \in {y \in blocks : \E i \in DOMAIN txs[y] : txs[y][i].id = id}}

(***************************************************************************)
(* Time locks hold in every view: an unspent output was made at the chain  *)
(* height of a block that holds its transaction, and by then every output  *)
(* that transaction spends had aged, since the block that made it, as long *)
(* as coinbase maturity, its vault and the sequence ask; a refund comes    *)
(* after its timeout.  A script that begins with time checks is not opened *)
(* before the times its witness gives, unless the sequence is final.       *)
(* Merged blocks are applied at their own heights.                         *)
(***************************************************************************)
TimeLocksHold ==
  FallbackExact =>
    \A b \in NonFinal :
      LET utxo   == reconstruct_state(b)
          blocks == dag.node[b].past \cup {b}
          all    == UNION {ToSet(txs[x]) : x \in blocks}
      IN  \A op \in DOMAIN utxo :
            LET tx == Maker(op, all)
            IN  /\ utxo[op].height \in MadeAt(tx.id, blocks)
                /\ \A in \in ToSet(tx.ins) :
                     LET maker == Maker(in.op, all)
                     IN  \E g \in MadeAt(maker.id, blocks) :
                           Aged(tx, in, maker, g, utxo[op].height)

AssetTotal(utxo, a) ==
  MapThenSumSet(LAMBDA op : utxo[op].output.value,
                {op \in DOMAIN utxo : utxo[op].output.asset = a})

\* What the coinbases of these blocks make of it.
Coined(a, blocks) == MapThenSumSet(LAMBDA x : Coin(txs[x], a), blocks)

(***************************************************************************)
(* No view holds more of an asset than the coinbases of its past made:     *)
(* "Coinbase can mint any asset (for initial distribution).  Regular       *)
(* transactions must conserve assets (no minting)" (apply_coinbase).       *)
(***************************************************************************)
AssetsConserved ==
  \A b \in NonFinal :
    LET utxo == reconstruct_state(b)
    IN  utxo # NoView => \A a \in {utxo[op].output.asset : op \in DOMAIN utxo} :
          AssetTotal(utxo, a) <= Coined(a, dag.node[b].past \cup {b})

(***************************************************************************)
(* Whatever order blocks are merged in, what a view holds was spent in time *)
(* and conserved.                                                          *)
(***************************************************************************)
SpendsObeyRules == TimeLocksHold /\ AssetsConserved

=============================================================================
