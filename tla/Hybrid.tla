------------------------------- MODULE Hybrid -------------------------------
(***************************************************************************)
(* The ledger with hybrid admission (Ledger::set_hybrid): a block enters   *)
(* by proof of work, pinned to the retargeting policy, or because its      *)
(* maker's key drew a winning VRF output over the epoch's beacon, in       *)
(* proportion to what the selected parent's view has bonded to it.         *)
(*                                                                         *)
(* A VRF is a fixed function from keys and beacons to outputs, and a proof *)
(* verifies when the output is that function's; a mined block always meets *)
(* the target of its work.  Legacy parent-tip inputs (use_epoch_beacon     *)
(* off) are left out.                                                      *)
(***************************************************************************)
EXTENDS LedgerProps, Difficulty

CONSTANTS Keys,           \* VRF keys
          NoKey,          \* a block without VRF fields
          Draw(_, _),     \* the output of a key for a beacon
          OutputSpace,    \* outputs are 0 .. OutputSpace - 1, 2^64 in the code
          EPOCH_LENGTH,   \* DEFAULT_EPOCH_LENGTH
          RATE_NUM, RATE_DEN, STAKE_NOMINAL_WORK,  \* of HybridConfig
          Time(_)         \* the timestamp a block is given by its maker

VARIABLES hybrid,       \* hybrid admission is on
          stamp,        \* block -> [hash, ts, key, output]: the rest of its header
          staked_seen   \* the (key, selected parent) pairs of accepted staked blocks
                        \* whose selected parent is not final

hvars == <<vars, hybrid, stamp, staked_seen>>

Times == [b \in DOMAIN stamp |-> stamp[b].ts]

\* epoch_beacon: the first block down the selected chain from sp that lies
\* before sp's epoch, genesis in the first one, with its own VRF output.
BoundaryOf(sp) ==
  LET threshold == (dag.node[sp].blue_score \div EPOCH_LENGTH) * EPOCH_LENGTH
      before    == SelectSeq(ChainTo(dag, sp), LAMBDA b : dag.node[b].blue_score < threshold)
  IN  IF before = <<>> THEN Genesis ELSE before[Len(before)]

\* Mutant of epoch_beacon: the epoch of the tip a node has when it checks.
BeaconOfTip(sp) ==
  LET b == BoundaryOf(selected_tip(dag)) IN <<stamp[b].hash, stamp[b].output>>

epoch_beacon(sp) ==
  LET b == BoundaryOf(sp) IN <<stamp[b].hash, stamp[b].output>>

\* The prover's and the verifier's side of the function.
vrf_prove(key, input) == Draw(key, input)
vrf_verify(key, input, output) == output = Draw(key, input)

\* The share of the output space that mine of total wins; the largest output
\* never wins.
eligibility_threshold(mine, total) ==
  IF total = 0 \/ mine = 0 THEN 0
  ELSE Min({((((mine * OutputSpace) \div total) * RATE_NUM) \div RATE_DEN), OutputSpace - 1})

TotalStake(stake) == MapThenSumSet(LAMBDA k : stake.locked[k], DOMAIN stake.locked)

\* The staked path of hybrid_admit.
AdmitStaked(s, w, key, output) ==
  LET stake == reconstruct_stake(s)
  IN  /\ vrf_verify(key, epoch_beacon(s), output)
      /\ output < eligibility_threshold(stake_of(stake, key), TotalStake(stake))
      /\ w = STAKE_NOMINAL_WORK
      /\ <<key, s>> \notin staked_seen

\* The proof-of-work path: blocks from before hybrid mode claim a work of 1.
AdmitWork(ps, w) ==
  LET expected == work_target_with(dag, Times, ps)
  IN  w = expected \/ (w = 1 /\ expected > 1)

hybrid_admit(ps, s, w, ts, key, output) ==
  /\ \A p \in ps : ts >= stamp[p].ts
  /\ IF key # NoKey THEN AdmitStaked(s, w, key, output) ELSE AdmitWork(ps, w)

-----------------------------------------------------------------------------
HybridInit ==
  /\ Init
  /\ hybrid \in BOOLEAN
  /\ stamp = Genesis :> [hash |-> Genesis, ts |-> 0, key |-> NoKey, output |-> 0]
  /\ staked_seen = {}

\* The last lines of prune: pairs whose selected parent is final are forgotten.
Remembered(d, seen) == {p \in seen : ~is_final(d, p[2])}

\* apply_new_block with hybrid_admit; without hybrid mode a block has no VRF
\* fields (those of a received one are dropped, which changes its id).
Admit(id, hash, ps, w, body, ts, key, output) ==
  LET s == Heaviest(dag, ps)
  IN  /\ ~is_final(dag, s)
      /\ key # NoKey => hybrid
      /\ hybrid => hybrid_admit(ps, s, w, ts, key, output)
      /\ Insert(id, ps, w, body)
      /\ stamp' = (id :> [hash |-> hash, ts |-> ts, key |-> key, output |-> output]) @@ stamp
      /\ LET new == IF key = NoKey THEN {} ELSE {<<key, s>>}
         IN  staked_seen' = Remembered(dag', staked_seen \cup new)
      /\ UNCHANGED hybrid

\* insert: a block mined here or elsewhere, with the work its maker claims.
InsertMined(id, ps, w, body) ==
  /\ Admissible(dag, id, ps, NoPruning)
  /\ Admit(id, id, ps, w, body, Time(id), NoKey, 0)

\* try_insert_staked, insert_with_vrf: the maker's key draws for the beacon of
\* the selected parent.
InsertStaked(id, ps, body, key) ==
  /\ Admissible(dag, id, ps, NoPruning)
  /\ Admit(id, id, ps, STAKE_NOMINAL_WORK, body, Time(id), key,
           vrf_prove(key, epoch_beacon(Heaviest(dag, ps))))

=============================================================================
