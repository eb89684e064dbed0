------------------------------- MODULE Restore -------------------------------
(***************************************************************************)
(* A ledger is written to a snapshot or to a finality checkpoint and read  *)
(* back (write_snapshot, write_checkpoint and their readers in ledger.rs,  *)
(* and the block snapshot of kovanica-dag they contain).  Reading inserts  *)
(* the stored blocks one by one, in the linearized order they were written *)
(* in; when one is refused, reading fails as a whole.                      *)
(*                                                                         *)
(* The restored DAG of a checkpoint begins with the checkpoint block,      *)
(* which is called Genesis here; a stored block whose parents are replaced *)
(* gets a new id, Rewired(b).                                              *)
(***************************************************************************)
EXTENDS Hybrid

CONSTANT Rewired(_)

VARIABLES phase,   \* "live", "reading", "read" or "refused"
          image,   \* what was written: [kind, first, blocks, minted, burned]
          left     \* blocks of the image not yet inserted

rvars == <<hvars, phase, image, left>>

\* The fields encode_block stores of a block.
StoredBlock(b) ==
  [id |-> b, parents |-> dag.node[b].parents, work |-> dag.node[b].work,
   body |-> txs[b], ts |-> stamp[b].ts, key |-> stamp[b].key, output |-> stamp[b].output]

Stored(order) == [i \in DOMAIN order |-> StoredBlock(order[i])]

\* The entries UtxoSet::encode and StakeState::encode store of a view.
StoredUtxo(utxo) ==
  [op \in DOMAIN utxo |->
     [output |-> utxo[op].output, height |-> utxo[op].height, coinbase |-> utxo[op].coinbase]]

StoredStake(stake) ==
  [frozen |-> [op \in DOMAIN stake.frozen |->
                 [key |-> stake.frozen[op].key, height |-> stake.frozen[op].height,
                  value |-> stake.frozen[op].value]],
   locked |-> stake.locked]

\* What a reader of the image is to find again.
Views ==
  [b \in NonFinal |->
     [utxo |-> StoredUtxo(reconstruct_state(b)), stake |-> StoredStake(reconstruct_stake(b)),
      minted |-> block_minted[b], fees |-> block_fees[b],
      height |-> heights[b], score |-> dag.node[b].blue_score]]

Original == [dag |-> dag, views |-> Views, supply |-> supply, seen |-> staked_seen]

-----------------------------------------------------------------------------
\* write_snapshot: every block, genesis first.
WriteSnapshot ==
  /\ phase = "live" /\ image.kind = "none"
  /\ image' = [kind |-> "snapshot", first |-> Genesis, blocks |-> Stored(Tail(linearize(dag))),
               original |-> Original]
  /\ UNCHANGED <<hvars, phase, left>>

\* write_checkpoint takes the first block of the order that is not below the
\* finality score, and after it every block above that score.
CheckpointBlock ==
  LET order == linearize(dag)
      high  == {i \in DOMAIN order : ~is_final(dag, order[i])}
  IN  order[Min(high)]

Segment == SelectSeq(linearize(dag), LAMBDA b : dag.node[b].blue_score > finality_score(dag))

WriteCheckpoint ==
  /\ phase = "live" /\ image.kind = "none"
  /\ finality_score(dag) > 0   \* FinalityDisabled, FinalityNotActive otherwise
  /\ image' = [kind |-> "checkpoint", first |-> CheckpointBlock, blocks |-> Stored(Segment),
               original |-> Original]
  /\ UNCHANGED <<hvars, phase, left>>

-----------------------------------------------------------------------------
\* read_snapshot_impl: a new ledger of the stored genesis block.
ReadSnapshot ==
  /\ phase = "live" /\ image.kind = "snapshot"
  /\ phase' = "reading" /\ left' = image.blocks
  /\ LET cb == GenesisTxs[1]  state == Created(cb, 0, TRUE)
     IN  /\ dag' = NewDag(1)
         /\ txs' = Genesis :> GenesisTxs
         /\ tip_state' = state /\ tip_stake' = NoStake
         /\ deltas' = Genesis :> diff_utxo([op \in {} |-> 0], state)
         /\ stake_deltas' = Genesis :> diff_stake(NoStake, NoStake)
         /\ heights' = Genesis :> 0
         /\ block_minted' = Genesis :> AssetOut(cb, Native)
         /\ block_fees' = Genesis :> 0
         /\ supply' = [native_minted |-> AssetOut(cb, Native), fees_burned |-> 0]
  /\ stamp' = Genesis :> stamp[Genesis]
  /\ staked_seen' = {}
  /\ UNCHANGED <<hybrid, image>>

\* read_checkpoint_impl: the checkpoint block, without payload and, in memory,
\* without VRF fields, is the genesis of a new DAG, and its view is stored as
\* the delta from nothing.  The supply is filled in at the end.
ReadCheckpoint ==
  /\ phase = "live" /\ image.kind = "checkpoint"
  /\ phase' = "reading" /\ left' = image.blocks
  /\ LET cp   == image.first
         view == image.original.views[cp]
     IN  /\ dag' = NewDag(image.original.dag.node[cp].work)
         /\ txs' = Genesis :> <<>>
         /\ tip_state' = view.utxo /\ tip_stake' = view.stake
         /\ deltas' = Genesis :> diff_utxo([op \in {} |-> 0], view.utxo)
         /\ stake_deltas' = Genesis :> diff_stake(NoStake, view.stake)
         /\ heights' = Genesis :> view.height
         /\ block_minted' = Genesis :> 0 /\ block_fees' = Genesis :> 0
         /\ supply' = [native_minted |-> 0, fees_burned |-> 0]
         /\ stamp' = Genesis :> [hash |-> cp, ts |-> stamp[cp].ts, key |-> NoKey, output |-> 0]
  /\ staked_seen' = {}
  /\ UNCHANGED <<hybrid, image>>

\* A stored parent as the restored ledger knows it: the checkpoint block takes
\* the place of those that are missing.
Mapped(p) == IF p # Genesis /\ p \in Nodes(dag) THEN p ELSE Genesis

Kept(blk) == \A p \in blk.parents : p = image.first \/ Mapped(p) # Genesis

ReplayId(blk) == IF Kept(blk) THEN blk.id ELSE Rewired(blk.id)

\* What Admit, Insert and Record ask of a block.
Acceptable(blk) ==
  LET ps  == {Mapped(p) : p \in blk.parents}
      s   == Heaviest(dag, ps)
      pre == MergedView(s, mergeset_ordered(dag, s, ps))
      own == OwnOutcome(s, blk.body, pre)
  IN  /\ Admissible(dag, ReplayId(blk), ps, NoPruning)
      /\ ~is_final(dag, s)
      /\ hybrid => hybrid_admit(ps, s, blk.work, blk.ts, blk.key, blk.output)
      /\ own.ok /\ pre.minted + own.minted <= MaxSupply

\* insert_raw_block and, on remapped parents, insert_prepared_block.
InsertStored(blk) ==
  Admit(ReplayId(blk), ReplayId(blk), {Mapped(p) : p \in blk.parents},
        blk.work, blk.body, blk.ts, blk.key, blk.output)

ReplayNext ==
  /\ phase = "reading" /\ left # <<>>
  /\ InsertStored(Head(left))
  /\ left' = Tail(left)
  /\ UNCHANGED <<phase, image>>

Refused ==
  /\ phase = "reading" /\ left # <<>>
  /\ ~Acceptable(Head(left))
  /\ phase' = "refused"
  /\ UNCHANGED <<hvars, image, left>>

\* Mutant of Reconciled: the totals of the blocks replayed only.
OwnTotals(total, base) == total

\* The totals of the replayed blocks are raised by what the tip's lack of the
\* stored ones.
Reconciled(total, base) == total + base

Finish ==
  /\ phase = "reading" /\ left = <<>>
  /\ phase' = "read"
  /\ IF image.kind = "checkpoint"
     THEN LET tip    == selected_tip(dag)
              was    == image.original.supply
              minted == Max({0, was.native_minted - block_minted[tip]})
              burnt  == Max({0, was.fees_burned - block_fees[tip]})
          IN  /\ supply' = was
              /\ block_minted' = [b \in DOMAIN block_minted |-> Reconciled(block_minted[b], minted)]
              /\ block_fees' = [b \in DOMAIN block_fees |-> Reconciled(block_fees[b], burnt)]
     ELSE UNCHANGED <<supply, block_minted, block_fees>>
  /\ UNCHANGED <<dag, txs, tip_state, tip_stake, deltas, stake_deltas, heights,
                 hybrid, stamp, staked_seen, image, left>>

RestoreInit ==
  /\ HybridInit
  /\ phase = "live" /\ image = [kind |-> "none"] /\ left = <<>>

\* A block arrives or is made before anything is written.
Live ==
  /\ phase = "live" /\ image.kind = "none"
  /\ \E id \in Id, ps \in SUBSET Nodes(dag) : \E body \in Payload(id, txs) :
       \/ \E w \in Work : InsertMined(id, ps, w, body)
       \/ \E key \in Keys : InsertStaked(id, ps, body, key)
  /\ UNCHANGED <<phase, image, left>>

Done == phase \in {"read", "refused"} /\ UNCHANGED rvars

RestoreNext ==
  \/ Live
  \/ WriteSnapshot \/ WriteCheckpoint
  \/ ReadSnapshot \/ ReadCheckpoint
  \/ ReplayNext \/ Refused \/ Finish \/ Done

RestoreSpec == RestoreInit /\ [][RestoreNext]_rvars

-----------------------------------------------------------------------------
\* When a block's turn comes in the stored order, its selected parent is not
\* final under the tip the blocks before it make.
ReplaysAboveFinality ==
  LET node  == image.original.dag.node
      order == image.blocks
      Top(i) == Max({0} \cup {node[order[j].id].blue_score : j \in 1 .. i - 1})
  IN  \A i \in DOMAIN order :
        node[node[order[i].id].sp].blue_score + FinalityDepth >= Top(i)

(***************************************************************************)
(* A snapshot restores the very ledger it was written from, DAG, views,    *)
(* supply and the record of staked blocks ("the restored ledger is         *)
(* identical to the original"), although the blocks are inserted in        *)
(* another order than they came in; unless one of them now comes after     *)
(* its parent has become final (README, known deviations).                 *)
(***************************************************************************)
SnapshotRestores ==
  image.kind = "snapshot" /\ ReplaysAboveFinality =>
    /\ phase # "refused"
    /\ phase = "read" => Original = image.original

\* Nothing above the checkpoint block hangs on a block that is not stored.
CleanCut ==
  LET ids == {image.blocks[i].id : i \in DOMAIN image.blocks}
  IN  /\ image.first \notin ids
      /\ \A i \in DOMAIN image.blocks : image.blocks[i].parents \subseteq ids \cup {image.first}

(***************************************************************************)
(* A checkpoint restores the view, the height and the running totals of    *)
(* every block from the checkpoint block on, and the supply, so that the   *)
(* same blocks are valid next as in the ledger that wrote it; provided the *)
(* finality score cuts the DAG at one block and admission is not hybrid    *)
(* (README, known deviations).                                             *)
(***************************************************************************)
CheckpointRestores ==
  image.kind = "checkpoint" /\ CleanCut /\ ~hybrid =>
    /\ phase # "refused"
    /\ phase = "read" =>
         LET was  == image.original
             base == was.views[image.first].score
             Was(b) == was.views[IF b = Genesis THEN image.first ELSE b]
         IN  /\ supply = was.supply
             /\ \A b \in Nodes(dag) : Views[b] = [Was(b) EXCEPT !.score = @ - base]

=============================================================================
