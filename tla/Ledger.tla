------------------------------- MODULE Ledger -------------------------------
(***************************************************************************)
(* The ledger of one node (ledger.rs): a DAG of blocks of transactions,    *)
(* and for every block the net effect (delta) on the UTXO set and on the   *)
(* stake registry that separates its view from its selected parent's.  The *)
(* view of a block is rebuilt from these deltas when a block builds on it; *)
(* only the selected tip's is kept.  Below the finality score deltas are   *)
(* folded into their children and dropped.                                 *)
(*                                                                         *)
(* Insert is apply_new_block, atomic as the node calls it under its lock.  *)
(* A refused block leaves the ledger as it is (all its work is on copies), *)
(* so it is no step.  Hybrid admission, payload and block pruning are off. *)
(***************************************************************************)
EXTENDS DagOps, Transactions

CONSTANTS Id,             \* block ids
          Work,           \* the values block.work() may take
          Payload(_, _),  \* the transaction lists a block of this id may carry,
                          \* given those of the blocks there are
          GenesisTxs,     \* genesis_txs, a single coinbase
          FinalityDepth,  \* finality_depth
          NoFinality,     \* finality_depth = u64::MAX: finality disabled
          GenesisSubsidy, \* schedule.genesis_subsidy
          HalvingEra,     \* schedule.halving_era
          NoView,         \* no view: None, or the panic of apply_stake_delta
          MaxParents      \* bound: parents of one block

\* An id is 256 bits compared as a number; k, a work and an amount are unsigned.
ASSUME NumbersAssumption ==
  /\ K \in Nat /\ Genesis \in Nat /\ Id \subseteq Nat /\ Work \subseteq Nat
  /\ MaxSupply \in Nat /\ UnbondMaturity \in Nat
  /\ {"asset", "multisig"} \subseteq DOMAIN Activation
  /\ \A k \in DOMAIN Activation : Activation[k] \in Nat
  /\ FinalityDepth \in Nat \/ FinalityDepth = NoFinality

ASSUME NoBlockAssumption == NoBlock \notin Id \cup {Genesis}

ASSUME GenesisAssumption ==
  Len(GenesisTxs) = 1 /\ is_coinbase(GenesisTxs[1]) /\ IsTxList(GenesisTxs)

VARIABLES dag,
          txs,          \* block -> its transactions
          tip_state, tip_stake,  \* the selected tip's view
          deltas, stake_deltas, heights,  \* for the blocks that are not final
          block_minted, block_fees,       \* what each block's view sums up to
          supply        \* [native_minted, fees_burned] at the selected tip

vars == <<dag, txs, tip_state, tip_stake, deltas, stake_deltas, heights,
          block_minted, block_fees, supply>>

\* HalvingSchedule::subsidy_at: three quarters of the last era's, each era.
subsidy_at(height) ==
  LET s[era \in 0 .. height \div HalvingEra] ==
        IF era = 0 THEN GenesisSubsidy ELSE (s[era - 1] * 3) \div 4
  IN  s[height \div HalvingEra]

\* No activation score reaches u64::MAX, the score genesis is applied at.
Ungated == 1 + Max({Activation[k] : k \in DOMAIN Activation})

-----------------------------------------------------------------------------
\* The score below which blocks are final; 0 when nothing is.
finality_score(d) ==
  IF FinalityDepth = NoFinality THEN 0
  ELSE Max({0, d.node[selected_tip(d)].blue_score - FinalityDepth})

is_final(d, b) == d.node[b].blue_score < finality_score(d)

\* The deltas from which the view of b is rebuilt: its selected chain, from
\* the deepest block whose own selected parent is not final.
ViewPath(d, b) ==
  LET Open == {x \in Nodes(d) : ~is_final(d, x)}
      walk[x \in Nodes(d)] ==
        IF d.node[x].sp \in Open THEN Append(walk[d.node[x].sp], x) ELSE <<x>>
  IN  walk[b]

\* None when a delta on the path is missing.
reconstruct_state(b) ==
  LET path == ViewPath(dag, b)
  IN  IF ~ToSet(path) \subseteq DOMAIN deltas THEN NoView
      ELSE FoldLeft(LAMBDA s, x : apply_delta(deltas[x], s),
                    [op \in {} |-> 0], path)

reconstruct_stake(b) ==
  LET path == ViewPath(dag, b)
      Step(s, x) == IF s = NoView \/ ~stake_delta_applies(stake_deltas[x], s)
                    THEN NoView ELSE apply_stake_delta(stake_deltas[x], s)
  IN  IF ~ToSet(path) \subseteq DOMAIN stake_deltas THEN NoView
      ELSE FoldLeft(Step, NoStake, path)

\* Mutant of chain_height_of: blue score instead of height.
BlueScoreHeight(b) == dag.node[b].blue_score

\* The height of b from the nearest known one below it on its selected chain,
\* and, as merged_height in apply_new_block, its blue score if none is known.
chain_height_of(b) ==
  LET chain == ChainTo(dag, b)
      known == {i \in DOMAIN chain : chain[i] \in DOMAIN heights}
  IN  IF known = {} THEN dag.node[b].blue_score
      ELSE heights[chain[Max(known)]] + Len(chain) - Max(known)

HeightOr0(b) == IF b \in DOMAIN heights THEN heights[b] ELSE 0

-----------------------------------------------------------------------------
\* A merged block, at its own height, in the view that merges it.
MergedOutcome(view, b, h) ==
  apply_block_inner(view.utxo, view.stake, txs[b], subsidy_at(h),
                    view.minted, h, dag.node[b].blue_score)

\* Mutant of CountedIn: what merged blocks mint and burn is not counted.
Uncounted(view, r) == [view EXCEPT !.utxo = r.utxo, !.stake = r.stake]

\* A merged block adds to the view when it applies there.  When it does not,
\* only the registry can have changed.
CountedIn(view, r) ==
  [utxo |-> r.utxo, stake |-> r.stake, minted |-> view.minted + r.minted,
   fees |-> view.fees + burned(r.fees)]

ApplyMerged(view, b) == CountedIn(view, MergedOutcome(view, b, chain_height_of(b)))

\* The pre-state of a block: its selected parent's view, then its mergeset.
MergedView(s, merge) ==
  FoldLeft(ApplyMerged,
           [utxo |-> reconstruct_state(s), stake |-> reconstruct_stake(s),
            minted |-> block_minted[s], fees |-> block_fees[s]],
           merge)

-----------------------------------------------------------------------------
\* One iteration of the loop in prune: the deltas of b go into the blocks it
\* is the selected parent of.  (DropDelta, its mutant, loses them.)
DropDelta(d, log, b) ==
  [deltas  |-> RemoveAll(log.deltas, {b}),
   stake   |-> RemoveAll(log.stake, {b}),
   heights |-> RemoveAll(log.heights, {b})]

FoldDelta(d, log, b) ==
  LET Left    == DOMAIN log.deltas \ {b}
      IsChild(c) == d.node[c].sp = b
  IN  [deltas  |-> [c \in Left |->
                      IF IsChild(c) THEN compose_delta(log.deltas[b], log.deltas[c])
                      ELSE log.deltas[c]],
       stake   |-> [c \in Left |->
                      IF IsChild(c)
                      THEN compose_stake_delta(log.stake[b], log.stake[c])
                      ELSE log.stake[c]],
       heights |-> RemoveAll(log.heights, {b})]

Stale(d, log) == {b \in DOMAIN log.deltas : is_final(d, b)}

\* Blocks of the same score are folded in any order.
Deepest(d, log) ==
  CHOOSE b \in Stale(d, log) :
    \A a \in Stale(d, log) : d.node[b].blue_score <= d.node[a].blue_score

\* Deepest first.
prune(d, log) ==
  FoldLeft(LAMBDA l, i : FoldDelta(d, l, Deepest(d, l)), log,
           [i \in 1 .. Cardinality(Stale(d, log)) |-> i])

-----------------------------------------------------------------------------
AtGenesis(x) == [b \in {Genesis} |-> x]

\* A map with one entry more.
Put(f, id, x) == [b \in DOMAIN f \cup {id} |-> IF b = id THEN x ELSE f[b]]

Init ==
  LET cb    == GenesisTxs[1]
      state == Created(cb, 0, TRUE)
  IN  /\ coinbase_valid([op \in {} |-> 0], cb, MaxSupply, 0, Ungated)
      /\ dag = NewDag(1)
      /\ txs = AtGenesis(GenesisTxs)
      /\ tip_state = state /\ tip_stake = NoStake
      /\ deltas = AtGenesis(diff_utxo([op \in {} |-> 0], state))
      /\ stake_deltas = AtGenesis(diff_stake(NoStake, NoStake))
      /\ heights = AtGenesis(0)
      /\ block_minted = AtGenesis(AssetOut(cb, Native))
      /\ block_fees = AtGenesis(0)
      /\ supply = [native_minted |-> AssetOut(cb, Native), fees_burned |-> 0]

\* The materialised value after inserting id: the new one if id is the tip.
TipView(d, id, new, old) == IF selected_tip(d) = id THEN new ELSE old

\* The end of apply_new_block: block id with the transactions body has been
\* wired into the DAG, giving d; s is its selected parent, pre the merged view
\* it was applied to, own the outcome.
Record(id, s, body, d, pre, own) ==
  LET minted == pre.minted + own.minted
      fees   == pre.fees + burned(own.fees)
      log    == prune(d,
        [deltas  |-> Put(deltas, id, diff_utxo(reconstruct_state(s), own.utxo)),
         stake   |-> Put(stake_deltas, id, diff_stake(reconstruct_stake(s), own.stake)),
         heights |-> Put(heights, id, HeightOr0(s) + 1)])
  IN  /\ own.ok
      /\ minted <= MaxSupply
      /\ dag' = d
      /\ txs' = Put(txs, id, body)
      /\ tip_state' = TipView(d, id, own.utxo, tip_state)
      /\ tip_stake' = TipView(d, id, own.stake, tip_stake)
      /\ supply' = TipView(d, id, [native_minted |-> minted, fees_burned |-> fees],
                           supply)
      /\ deltas' = log.deltas
      /\ stake_deltas' = log.stake
      /\ heights' = log.heights
      /\ block_minted' = Put(block_minted, id, minted)
      /\ block_fees' = Put(block_fees, id, fees)

\* The block's own transactions, on the merged view, at its height.
OwnOutcome(s, body, pre) ==
  apply_block_inner(pre.utxo, pre.stake, body, subsidy_at(HeightOr0(s) + 1),
                    pre.minted, HeightOr0(s) + 1, dag.node[s].blue_score + 1)

Connect(id, s, body, d, pre) == Record(id, s, body, d, pre, OwnOutcome(s, body, pre))

\* apply_new_block.
Insert(id, ps, w, body) ==
  /\ Cardinality(ps) <= MaxParents
  /\ Admissible(dag, id, ps, NoPruning)
  /\ \E s \in ps :
       /\ s = Heaviest(dag, ps)
       /\ ~is_final(dag, s)
       /\ reconstruct_state(s) # NoView  \* it panics otherwise
       /\ reconstruct_stake(s) # NoView
       /\ Connect(id, s, body, insert(dag, id, ps, w, NoPruning),
                  MergedView(s, mergeset_ordered(dag, s, ps)))

Next == \E id \in Id, ps \in SUBSET Nodes(dag), w \in Work :
          \E body \in Payload(id, txs) : Insert(id, ps, w, body)

Spec == Init /\ [][Next]_vars

-----------------------------------------------------------------------------
\* ledger_state: the tail after the selected tip, each block on a fresh
\* registry and counting no supply minted before it.
\* (TailAtTip, a mutant, takes the height of the tip for all of them.)
TailAtTip(state, b) ==
  LET h == HeightOr0(selected_tip(dag))
  IN  apply_block_inner(state, NoStake, txs[b], subsidy_at(h), 0, h,
                        dag.node[b].blue_score).utxo

ApplyTail(state, b) ==
  apply_block_inner(state, NoStake, txs[b], subsidy_at(HeightOr0(b)), 0,
                    HeightOr0(b), dag.node[b].blue_score).utxo

ledger_state ==
  LET order == linearize(dag)
      at    == CHOOSE i \in DOMAIN order : order[i] = selected_tip(dag)
  IN  FoldLeft(ApplyTail, tip_state, SubSeq(order, at + 1, Len(order)))

=============================================================================
