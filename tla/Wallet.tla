------------------------------- MODULE Wallet -------------------------------
(***************************************************************************)
(* What the node builds for its wallets (node.rs): coin selection and the  *)
(* transactions of transfers, CoinJoins, HTLCs, vaults, multisig spends    *)
(* and bonds.  A builder reads a node [utxo, stake, score, pool, next,     *)
(* scripts]: ledger_state, the registry and the blue score of the selected *)
(* tip, the pending transactions, the number the next transaction gets and *)
(* the multisig addresses it knows the script of.                          *)
(*                                                                         *)
(* A builder gives the set of the transactions it may return, one or none  *)
(* (an error).  They have no number yet: two of them are equal when their  *)
(* sighashes are.  Addresses are the locks of Transactions, and between    *)
(* outputs of one value the order of their outpoints decides, here the     *)
(* order they were made in.                                                *)
(***************************************************************************)
EXTENDS Transactions

CONSTANTS MinFee,         \* min_fee, paid once by every builder
          Miner, Subsidy  \* who is paid by the blocks of this node, and how much

KeyLock(k) == [kind |-> "key", owner |-> {k}, other |-> {k}, after |-> 0, csv |-> 0]
Pay(value, asset, lock) == [value |-> value, asset |-> asset, lock |-> lock]

Input(op, path, by) == [op |-> op, path |-> path, by |-> by]

\* Transaction::unsigned, and the signature its owner attaches to each input.
Unsigned(ins, outs) ==
  [id |-> 0, ins |-> ins, outs |-> outs, role |-> "plain", key |-> "none",
   lock_time |-> 0, sequence |-> 0]

SignedBy(k, ops) == [i \in DOMAIN ops |-> Input(ops[i], "sign", {k})]

Value(n, op) == n.utxo[op].output.value

Total(n, ops) == FoldLeft(LAMBDA sum, op : sum + Value(n, op), 0, ops)

\* evict_mempool: what lost an input leaves the pool, and as an orphan does
\* not come back.
evict_mempool(n) ==
  [n EXCEPT !.pool = {tx \in @ : Spent(tx) \subseteq DOMAIN n.utxo}]

\* submit_tx: an orphan is accepted, and never becomes pending; a transaction
\* that is pending already stays what it is.
submit_tx(n, tx) ==
  IF ~Spent(tx) \subseteq DOMAIN n.utxo \/ \E t \in n.pool : [t EXCEPT !.id = 0] = tx
  THEN n
  ELSE [n EXCEPT !.pool = @ \cup {[tx EXCEPT !.id = n.next]}, !.next = @ + 1]

-----------------------------------------------------------------------------
\* Mutant of MatureOnly: coin selection takes coinbases of any age.
AnyAge(n, ops) == ops

\* The coinbases a builder takes: judged at the tip, not at the next block.
MatureOnly(n, ops) ==
  {op \in ops : n.utxo[op].coinbase =>
                  n.utxo[op].height <= Max({0, n.score - CoinbaseMaturity})}

utxos_of(n, lock) == {op \in DOMAIN n.utxo : n.utxo[op].output.lock = lock}

OfAsset(n, lock, asset) ==
  {op \in utxos_of(n, lock) : n.utxo[op].output.asset = asset}

\* Of any asset, frozen or not.
spendable_utxos_of(n, lock) == MatureOnly(n, utxos_of(n, lock))

Earlier(a, b) == a[1] < b[1] \/ (a[1] = b[1] /\ a[2] < b[2])

LargestFirst(n, ops) ==
  SetToSortSeq(ops, LAMBDA a, b :
    Value(n, a) > Value(n, b) \/ (Value(n, a) = Value(n, b) /\ Earlier(a, b)))

\* The shortest prefix of the coins, largest first, that covers `need': the
\* set of it, or the empty set when all of them do not.
Covering(n, ops, need) ==
  LET coins  == LargestFirst(n, ops)
      enough == {k \in DOMAIN coins : Total(n, SubSeq(coins, 1, k)) >= need}
  IN  IF enough = {} THEN {} ELSE {SubSeq(coins, 1, Min(enough))}

Change(value, asset, lock) == IF value > 0 THEN <<Pay(value, asset, lock)>> ELSE <<>>

\* build_transfer_with_outputs: the fee is taken in the asset that is sent.
Transfer(n, from, target) ==
  LET need == target.value + MinFee
  IN  {Unsigned(SignedBy(from, picks),
                <<target>> \o Change(Total(n, picks) - need, target.asset, KeyLock(from))) :
         picks \in Covering(n, MatureOnly(n, OfAsset(n, KeyLock(from), target.asset)), need)}

prepare_transfer_asset(n, from, amount, to, asset) ==
  IF amount = 0 THEN {} ELSE Transfer(n, from, Pay(amount, asset, to))

\* The signature fits when the transfer, prepared again and of native coins,
\* comes to the transaction that was signed.
submit_signed(n, from, amount, to, signed) ==
  {submit_tx(n, tx) : tx \in {signed} \cap prepare_transfer_asset(n, from, amount, to, Native)}

-----------------------------------------------------------------------------
\* A participant [from, outs, asset] of a CoinJoin pays for its own outputs
\* and one fee, and gets its own change.
Join(n, acc, p) ==
  LET need == FoldLeft(LAMBDA sum, o : sum + o.value, 0, p.outs) + MinFee
  IN  {[ins  |-> joined.ins \o SignedBy(p.from, picks),
        outs |-> joined.outs \o p.outs
                 \o Change(Total(n, picks) - need, p.asset, KeyLock(p.from))] :
         joined \in acc,
         picks \in Covering(n, MatureOnly(n, OfAsset(n, KeyLock(p.from), p.asset)), need)}

coinjoin_prepare(n, participants) ==
  {Unsigned(joined.ins, joined.outs) :
     joined \in FoldLeft(LAMBDA acc, p : Join(n, acc, p),
                         {[ins |-> <<>>, outs |-> <<>>]}, participants)}

\* The owner of every input is looked up again.
coinjoin_submit(n, tx) ==
  IF Spent(tx) \subseteq DOMAIN n.utxo THEN {submit_tx(n, tx)} ELSE {}

\* The fee input of an asset HTLC: of whatever age, frozen or not.
FeeCoin(n, k) ==
  LET coins == LargestFirst(n, OfAsset(n, KeyLock(k), Native))
  IN  {op \in {coins[i] : i \in DOMAIN coins \cap {1}} : Value(n, op) >= MinFee}

\* The fee of a native HTLC comes out of its value.
build_htlc_spend(n, k, op, lock, path, to) ==
  IF op \notin utxos_of(n, lock) THEN {}
  ELSE IF n.utxo[op].output.asset = Native
  THEN IF Value(n, op) < MinFee THEN {}
       ELSE {Unsigned(<<Input(op, path, {k})>>, <<Pay(Value(n, op) - MinFee, Native, to)>>)}
  ELSE {Unsigned(<<Input(op, path, {k}), Input(f, "sign", {k})>>,
                 <<Pay(Value(n, op), n.utxo[op].output.asset, to)>>
                 \o Change(Value(n, f) - MinFee, Native, KeyLock(k))) :
          f \in FeeCoin(n, k)}

create_vault(n, k, amount, lock) == prepare_transfer_asset(n, k, amount, lock, Native)

release_vault(n, k, op, lock, to) ==
  IF op \notin utxos_of(n, lock) \/ Value(n, op) < MinFee THEN {}
  ELSE {Unsigned(<<Input(op, "sign", {k})>>, <<Pay(Value(n, op) - MinFee, Native, to)>>)}

create_multisig_address(n, address) == [n EXCEPT !.scripts = @ \cup {address}]

\* One coin of the address must cover it all; nobody has signed yet.
build_multisig_spend(n, address, outs) ==
  LET need  == FoldLeft(LAMBDA sum, o : sum + o.value, 0, outs) + MinFee
      coins == LargestFirst(n, utxos_of(n, address))
  IN  IF outs = <<>> \/ address \notin n.scripts \/ coins = <<>> THEN {}
      ELSE IF Value(n, coins[1]) < need THEN {}
      ELSE {Unsigned(<<Input(coins[1], "sign", {})>>,
                     outs \o Change(Value(n, coins[1]) - need, Native, address))}

\* combine_multisig_sigs: exactly as many signatures as the script asks for,
\* each by another key of it.
combine_multisig_sigs(address, tx, signers) ==
  IF Cardinality(signers) = address.after /\ signers \subseteq address.owner
  THEN {[tx EXCEPT !.ins[1].by = signers]} ELSE {}

-----------------------------------------------------------------------------
BondsOf(n, vrf) == {op \in DOMAIN n.stake.frozen : n.stake.frozen[op].key = vrf}

\* The next height at which a bond of vrf unlocks, if one still has to.
pending_unbond_height(n, vrf) ==
  LET heights == {n.stake.frozen[op].height + UnbondMaturity : op \in BondsOf(n, vrf)}
      later   == {h \in heights : h > n.score}
  IN  IF later = {} THEN {} ELSE {Min(later)}

Ripe(n, op) == n.stake.frozen[op].height + UnbondMaturity <= n.score + 1

\* The oldest ripe bonds that cover the amount; there is no fee.
unbond_with(n, k, vrf, amount) ==
  LET ripe   == {op \in BondsOf(n, vrf) : Ripe(n, op)}
      Bonded(op) == n.stake.frozen[op].height
      oldest == SetToSortSeq(ripe, LAMBDA a, b :
                  Bonded(a) < Bonded(b) \/ (Bonded(a) = Bonded(b) /\ Earlier(a, b)))
      enough == {i \in DOMAIN oldest : Total(n, SubSeq(oldest, 1, i)) >= amount}
      picks  == SubSeq(oldest, 1, Min(enough))
  IN  IF amount = 0 \/ ~BondsOf(n, vrf) \subseteq utxos_of(n, KeyLock(k)) \/ enough = {}
      THEN {}
      ELSE {[Unsigned(SignedBy(k, picks),
                      <<Pay(amount, Native, KeyLock(k))>>
                      \o Change(Total(n, picks) - amount, Native, KeyLock(k)))
               EXCEPT !.role = "unbond"]}

BondCoins(n, k) ==
  {op \in spendable_utxos_of(n, KeyLock(k)) : ~is_frozen(n.stake, op)}

\* The coin of exactly this size that bond_stake looks for, and else the
\* transaction that splits the largest above it.
ExactCoin(n, k, amount) == {op \in BondCoins(n, k) : Value(n, op) = amount}

LargestAbove(n, k, amount) ==
  LET above == {op \in BondCoins(n, k) : Value(n, op) > amount}
  IN  {op \in above : \A p \in above : Value(n, p) <= Value(n, op)}

\* Mutant of split_coin: the change comes first.
SplitChangeFirst(n, k, amount) ==
  {Unsigned(SignedBy(k, <<op>>),
            Change(Max({0, Value(n, op) - amount - MinFee}), Native, KeyLock(k))
            \o <<Pay(amount, Native, KeyLock(k))>>) :
     op \in LargestAbove(n, k, amount)}

split_coin(n, k, amount) ==
  {Unsigned(SignedBy(k, <<op>>),
            <<Pay(amount, Native, KeyLock(k))>>
            \o Change(Max({0, Value(n, op) - amount - MinFee}), Native, KeyLock(k))) :
     op \in LargestAbove(n, k, amount)}

bond_tx(k, vrf, op, amount) ==
  [Unsigned(SignedBy(k, <<op>>), <<Pay(amount, Native, KeyLock(k))>>)
     EXCEPT !.role = "bond", !.key = vrf]

-----------------------------------------------------------------------------
Valid(n, tx) ==
  regular_valid(n.utxo, n.stake, [tx EXCEPT !.id = n.next], n.score + 1, n.score + 1)

\* A block of these transactions on all tips; an error when the set is empty.
Insert(n, txs) ==
  LET done == apply_block_inner(n.utxo, n.stake, txs, Subsidy, 0, n.score + 1, n.score + 1)
  IN  IF done.ok
      THEN {evict_mempool([n EXCEPT !.utxo = done.utxo, !.stake = done.stake,
                                    !.score = @ + 1, !.next = @ + 1])}
      ELSE {}

\* insert_tx_block: the one transaction is mined at once, or refused.
insert_tx_block(n, tx) == Insert(n, <<[tx EXCEPT !.id = n.next]>>)

Coinbase(n, value) ==
  IF value = 0 THEN <<>>
  ELSE <<[Unsigned(<<>>, <<Pay(value, Native, KeyLock(Miner))>>) EXCEPT !.id = n.next]>>

\* Mutant of issuance_txs_for: the producer claims all the fees.
ClaimAllFees(n, fees) == Coinbase(n, Subsidy + fees)

\* The subsidy and the producer's share of the fees.
issuance_txs_for(n, fees) == Coinbase(n, Subsidy + fee_share(fees))

\* Pending transactions are tried one by one, in the order of their hashes, on
\* a working copy of the state; those it can apply are chosen.
Chosen(n, order) ==
  LET Try(acc, tx) ==
        LET after == apply_regular(acc.state, tx, n.score + 1, n.score + 1)
        IN  IF after.ok THEN [state |-> after, txs |-> Append(acc.txs, tx)] ELSE acc
      start == [ok |-> TRUE, utxo |-> n.utxo, stake |-> n.stake, fees |-> 0]
  IN  FoldLeft(Try, [state |-> start, txs |-> <<>>], order).txs

fee_of(n, tx) == AssetIn(n.utxo, tx, Native) - AssetOut(tx, Native)

\* The block of mining_template_for.
Template(n, order) ==
  LET chosen == Chosen(n, order)
      fees   == FoldLeft(LAMBDA sum, tx : sum + fee_of(n, tx), 0, chosen)
  IN  issuance_txs_for(n, fees) \o chosen

\* What is chosen leaves the pool, all of its inputs being spent.
produce_block(n, order) ==
  IF Chosen(n, order) = <<>> THEN {} ELSE Insert(n, Template(n, order))

produce_empty(n) == Insert(n, issuance_txs_for(n, 0))

-----------------------------------------------------------------------------
\* bond_stake submits a transaction and expects the next block to be made:
\* when none is, it panics, and the node stays as it was then.
Seal(n, tx) ==
  LET m == submit_tx(n, tx)
      made == UNION {produce_block(m, order) : order \in SetToSeqs(m.pool)}
  IN  {[node |-> p, ok |-> TRUE] : p \in made}
      \cup {[node |-> m, ok |-> FALSE] :
              order \in {o \in SetToSeqs(m.pool) : produce_block(m, o) = {}}}

\* The coin of the right size is there, or is split off in a block before.
bond_stake(n, k, vrf, amount) ==
  IF ExactCoin(n, k, amount) # {}
  THEN UNION {Seal(n, bond_tx(k, vrf, op, amount)) : op \in ExactCoin(n, k, amount)}
  ELSE UNION {IF s.ok THEN Seal(s.node, bond_tx(k, vrf, <<n.next, 1>>, amount)) ELSE {s} :
                s \in UNION {Seal(n, tx) : tx \in split_coin(n, k, amount)}}

=============================================================================
