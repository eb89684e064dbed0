---------------------------- MODULE Transactions ----------------------------
(***************************************************************************)
(* The state transition of one block of transactions (ledger.rs):          *)
(* apply_regular, apply_coinbase and apply_block_inner.                    *)
(*                                                                         *)
(*   a lock   [kind, owner, other, after, csv], an Address and, for an     *)
(*            HTLC, a vault or a multisig, its template: the keys of owner *)
(*            redeem or own, those of other are refunded, after is the     *)
(*            timeout, the unlock height or the threshold; that of a       *)
(*            script v2 address is [kind, script];                         *)
(*   an output  [value, asset, lock];                                      *)
(*   an input   [op, path, by]: the outpoint, which path of the lock its   *)
(*            witness takes, and whose signatures it holds (the hash of a  *)
(*            template, a preimage or a script matches: only the signers   *)
(*            and the path can be wrong here); one that shows a script,    *)
(*            path "run", also has the elements its stack starts with,     *)
(*            [op, path, by, witness];                                     *)
(*   a tx     [id, ins, outs, role, key, lock_time, sequence]: role is     *)
(*            what the tag makes of it, "plain", "bond" or "unbond", and   *)
(*            key what a bond backs; a coinbase has no inputs;             *)
(*   an entry [output, height, coinbase] of the UTXO set.                  *)
(*                                                                         *)
(* Values are small, so the overflow checks of the code are left out.      *)
(***************************************************************************)
EXTENDS StateDelta, SequencesExt

CONSTANTS CoinbaseMaturity,  \* COINBASE_MATURITY
          MaxSupply,         \* MAX_SUPPLY
          Activation         \* lock kind or "asset" -> its activation score

Script == INSTANCE ScriptV2

Native == "native"
FeeDen == 4  \* FEE_PRODUCER_DEN: a quarter of the fees goes to the producer

burned(fees) == fees - fees \div FeeDen

is_coinbase(tx) == tx.ins = <<>>

\* What a witness puts on the stack: a sequence, of unsigned numbers.
IsStack(s) == s \in Seq(ToSet(s)) /\ \A i \in DOMAIN s : s[i].kind = "number" => s[i].of \in Nat

\* The numbers of a transaction, and those of a block, are unsigned.
IsTx(tx) == /\ tx.ins \in Seq(ToSet(tx.ins)) /\ tx.outs \in Seq(ToSet(tx.outs))
            /\ tx.lock_time \in Nat /\ tx.sequence \in Nat
            /\ \A i \in DOMAIN tx.outs :
                 LET o == tx.outs[i]
                 IN  o.value \in Nat /\ (o.lock.kind = "script" => o.lock.script \in Seq(ToSet(o.lock.script)))
            /\ \A i \in DOMAIN tx.ins : tx.ins[i].path = "run" => IsStack(tx.ins[i].witness)
IsTxList(q) == q \in Seq(ToSet(q)) /\ \A tx \in ToSet(q) : IsTx(tx)

Spent(tx) == {tx.ins[i].op : i \in DOMAIN tx.ins}

AssetOut(tx, a) ==
  MapThenSumSet(LAMBDA i : tx.outs[i].value,
                {i \in DOMAIN tx.outs : tx.outs[i].asset = a})

AssetIn(utxo, tx, a) ==
  MapThenSumSet(LAMBDA op : utxo[op].output.value,
                {op \in Spent(tx) : utxo[op].output.asset = a})

\* The entries add_outputs makes of a transaction's outputs.
Created(tx, height, coinbase) ==
  [op \in {<<tx.id, i>> : i \in DOMAIN tx.outs} |->
     [output |-> tx.outs[op[2]], height |-> height, coinbase |-> coinbase]]

\* add_outputs fails with OutputAlreadyExists otherwise.
AllNew(utxo, tx) == \A i \in DOMAIN tx.outs : <<tx.id, i>> \notin DOMAIN utxo

\* The activation rules, for an output made or spent at this blue score.
Active(score, output) ==
  /\ output.lock.kind \in DOMAIN Activation => score > Activation[output.lock.kind]
  /\ output.asset # Native => score > Activation["asset"]

-----------------------------------------------------------------------------
Mature(e, height) ==
  e.coinbase /\ e.height > 0 => height >= e.height + CoinbaseMaturity

\* What the witness must show, by the version of the address.
KeyPath(in, l) == in.path = "sign" /\ in.by = l.owner

MultisigPath(in, l) ==
  in.by \subseteq l.owner /\ Cardinality(in.by) = l.after

ScriptPath(in, l, tx) ==
  /\ in.path = "run"
  /\ Script!Parses(l.script) /\ Script!execute(l.script, in.witness, tx.lock_time, tx.sequence)

HtlcPath(in, l, height) ==
  \/ in.path = "redeem" /\ in.by = l.owner
  \/ in.path = "refund" /\ in.by = l.other /\ height >= l.after

VaultPath(in, e, height) ==
  LET l == e.output.lock
  IN  in.by = l.owner /\ height >= l.after /\ height >= e.height + l.csv

StealthPath(in, l) == in.path = "sign" /\ in.by = l.owner

Unlocks(tx, in, e, height) ==
  LET l == e.output.lock
  IN  \/ l.kind = "key" /\ KeyPath(in, l)
      \/ l.kind = "multisig" /\ MultisigPath(in, l)
      \/ l.kind = "script" /\ ScriptPath(in, l, tx)
      \/ l.kind = "htlc" /\ HtlcPath(in, l, height)
      \/ l.kind = "vault" /\ VaultPath(in, e, height)
      \/ l.kind = "stealth" /\ StealthPath(in, l)

\* A sequence that is not final asks the output to have aged.  FinalSequence
\* stands for u32::MAX and for those with the disable flag: they are at least
\* whatever a script's CSV asks for, and ask for no age themselves.
FinalSequence == 99
SequenceAged(tx, e, height) ==
  tx.sequence \in {0, FinalSequence} \/ height >= e.height + tx.sequence

\* A witness of more than one element, as a template's or a script's with what
\* satisfies it, waits for the activation of multisig whatever the lock.
Composite(in, l) ==
  l.kind \in {"multisig", "htlc", "vault"} \/ (in.path = "run" /\ in.witness # <<>>)

WitnessActive(score, in, l) == Composite(in, l) => score > Activation["multisig"]

InputValid(utxo, tx, in, height, score) ==
  /\ in.op \in DOMAIN utxo
  /\ LET e == utxo[in.op]
     IN  /\ Mature(e, height)
         /\ WitnessActive(score, in, e.output.lock)
         /\ Active(score, e.output)
         /\ SequenceAged(tx, e, height)
         /\ Unlocks(tx, in, e, height)

Conserved(utxo, tx) ==
  \A a \in {tx.outs[i].asset : i \in DOMAIN tx.outs} :
    AssetOut(tx, a) <= AssetIn(utxo, tx, a)

\* Mutant of StakeRules: frozen outpoints may be spent by any transaction.
StakeRulesWithoutFreeze(utxo, stake, tx, height) ==
  tx.role = "unbond" => \A op \in Spent(tx) : check_unbond(stake, op, height)

\* A frozen outpoint is spent by an unbond only, an unbond spends matured
\* frozen outpoints only, and a bond pays one output back to its one owner.
StakeRules(utxo, stake, tx, height) ==
  /\ IF tx.role = "unbond"
     THEN \A op \in Spent(tx) : check_unbond(stake, op, height)
     ELSE \A op \in Spent(tx) : ~is_frozen(stake, op)
  /\ tx.role = "bond" =>
       /\ Len(tx.outs) = 1
       /\ \A op \in Spent(tx) : utxo[op].output.lock = tx.outs[1].lock

regular_valid(utxo, stake, tx, height, score) ==
  /\ tx.ins # <<>> /\ tx.outs # <<>>
  /\ tx.lock_time <= height
  /\ \A i \in DOMAIN tx.outs : tx.outs[i].value > 0 /\ Active(score, tx.outs[i])
  /\ Cardinality(Spent(tx)) = Len(tx.ins)
  /\ \A i \in DOMAIN tx.ins : InputValid(utxo, tx, tx.ins[i], height, score)
  /\ Conserved(utxo, tx)
  /\ StakeRules(utxo, stake, tx, height)
  /\ AllNew(RemoveAll(utxo, Spent(tx)), tx)

StakeAfter(stake, tx, height) ==
  CASE tx.role = "bond" ->
         freeze(stake, <<tx.id, 1>>,
                [key |-> tx.key, height |-> height, value |-> tx.outs[1].value])
    [] tx.role = "unbond" -> UnfreezeAll(stake, Spent(tx))
    [] OTHER -> stake

-----------------------------------------------------------------------------
\* apply_regular on the loop's accumulator: a failure keeps what the block's
\* earlier transactions did, and nothing after it is applied.
apply_regular(acc, tx, height, score) ==
  IF ~acc.ok \/ ~regular_valid(acc.utxo, acc.stake, tx, height, score)
  THEN [acc EXCEPT !.ok = FALSE]
  ELSE [ok    |-> TRUE,
        utxo  |-> InsertAll(RemoveAll(acc.utxo, Spent(tx)),
                            Created(tx, height, FALSE)),
        stake |-> StakeAfter(acc.stake, tx, height),
        fees  |-> acc.fees + AssetIn(acc.utxo, tx, Native) - AssetOut(tx, Native)]

coinbase_valid(utxo, cb, allowed, minted, score) ==
  /\ \A i \in DOMAIN cb.outs :
       /\ cb.outs[i].value > 0
       /\ cb.outs[i].lock.kind = "multisig" => Active(score, cb.outs[i])
  /\ AssetOut(cb, Native) <= allowed
  /\ minted + AssetOut(cb, Native) <= MaxSupply
  /\ AllNew(utxo, cb)

\* The regular transactions of a block, on a copy of the UTXO set but on the
\* registry itself.
apply_regulars(utxo, stake, txs, height, score) ==
  FoldLeft(LAMBDA acc, tx : apply_regular(acc, tx, height, score),
           [ok |-> TRUE, utxo |-> utxo, stake |-> stake, fees |-> 0], txs)

fee_share(fees) == fees \div FeeDen

\* How a block ends once its regular transactions have run; cb holds its
\* coinbase, if it has one.  When something fails the UTXO set is untouched;
\* the registry keeps what the transactions before it did.
Settle(run, cb, utxo, subsidy, minted, height, score) ==
  IF /\ run.ok
     /\ \A c \in cb : coinbase_valid(run.utxo, c, subsidy + fee_share(run.fees),
                                    minted, score)
  THEN [ok     |-> TRUE,
        utxo   |-> FoldSet(LAMBDA c, u : InsertAll(u, Created(c, height, TRUE)),
                           run.utxo, cb),
        stake  |-> run.stake,
        fees   |-> run.fees,
        minted |-> MapThenSumSet(LAMBDA c : AssetOut(c, Native), cb)]
  ELSE [ok |-> FALSE, utxo |-> utxo, stake |-> run.stake, fees |-> 0, minted |-> 0]

\* apply_block_inner: `minted' is what its view has minted before.
apply_block_inner(utxo, stake, txs, subsidy, minted, height, score) ==
  LET cb == {txs[i] : i \in {j \in DOMAIN txs : j = 1 /\ is_coinbase(txs[j])}}
  IN  Settle(apply_regulars(utxo, stake, IF cb = {} THEN txs ELSE Tail(txs),
                            height, score),
             cb, utxo, subsidy, minted, height, score)

=============================================================================
