------------------------------ MODULE MCLedger ------------------------------
(***************************************************************************)
(* The transactions the ledger is checked with.  Genesis pays two outputs  *)
(* to A.  The coinbase of a block carries its timestamp, so that of each   *)
(* block is its own transaction, unless two miners agree on the time.      *)
(***************************************************************************)
EXTENDS LedgerProps

Key(k) == [kind |-> "key", owner |-> {k}, other |-> {k}, after |-> 0, csv |-> 0]
Pays(k, v) == [value |-> v, asset |-> Native, lock |-> Key(k)]
Signs(op, k) == [op |-> op, path |-> "sign", by |-> {k}]

Transfer(id, ins, outs) ==
  [id |-> id, ins |-> ins, outs |-> outs, role |-> "plain", key |-> "none",
   lock_time |-> 0, sequence |-> 0]
Coinbase(time, v) == Transfer(<<"cb", time>>, <<>>, <<Pays("M", v)>>)

MCGenesisTxs == << Transfer(<<"g", 0>>, <<>>, <<Pays("A", 8), Pays("A", 4)>>) >>
\* Every lock kind is active from the first block on.
NoActivation == [k \in {"asset", "multisig", "script", "stealth", "htlc", "vault"} |-> 0]

G(i) == << <<"g", 0>>, i >>

\* A spends its first output with a fee, or without one; B and the miner of
\* block 1 spend what they got.
Pay     == Transfer(<<"pay", 0>>, <<Signs(G(1), "A")>>, <<Pays("B", 4)>>)
Again   == Transfer(<<"again", 0>>, <<Signs(G(1), "A")>>, <<Pays("C", 8)>>)
Forward == Transfer(<<"fwd", 0>>, <<Signs(<< <<"pay", 0>>, 1 >>, "B")>>,
                    <<Pays("C", 2), Pays("B", 2)>>)
Reap    == Transfer(<<"reap", 0>>, <<Signs(<< <<"cb", 1>>, 1 >>, "M")>>,
                    <<Pays("C", 2)>>)

TransferBodies(id) ==
  { <<>>, <<Coinbase(id, 4), Pay>>, <<Again>>, <<Coinbase(id, 3), Forward>>,
    <<Reap>> }

\* Fewer, for longer histories: each lineage spends A's first output once.
ShortBodies(id) ==
  {<<Coinbase(id, 3)>>} \cup {<<Coinbase(i, 3), Pay>> : i \in {id} \cap {1, 2}}
                        \cup {<<Again>> : i \in {id} \cap 1 .. 4}

\* A bonds its second output or spends it, and takes the bond back.
Bond   == [Transfer(<<"bond", 0>>, <<Signs(G(2), "A")>>, <<Pays("A", 3)>>)
             EXCEPT !.role = "bond", !.key = "V"]
Bond1  == [Transfer(<<"bond", 1>>, <<Signs(G(1), "A")>>, <<Pays("A", 8)>>)
             EXCEPT !.role = "bond", !.key = "V"]
Unbond == [Transfer(<<"unbond", 0>>, <<Signs(<< <<"bond", 0>>, 1 >>, "A")>>,
                    <<Pays("A", 3)>>) EXCEPT !.role = "unbond"]
Take   == [Unbond EXCEPT !.id = <<"take", 0>>, !.role = "plain"]
Spend2 == Transfer(<<"spend", 0>>, <<Signs(G(2), "A")>>, <<Pays("C", 4)>>)

StakeBodies(id) == { <<>>, <<Bond>>, <<Bond1>>, <<Unbond>>, <<Take>>, <<Spend2>> }

\* A locks its first output for B, who redeems it two blocks later or lets A
\* have it back at height 3, and a part of it in a script that checks both
\* times; A puts the second one in a vault, or tries to turn its native value
\* into tokens; the miner of block 1 spends its coinbase.
Lock(kind, owner, other, after, csv) ==
  [kind |-> kind, owner |-> {owner}, other |-> {other}, after |-> after, csv |-> csv]
Timed == [kind |-> "script", script |-> <<[op |-> "CLTV"], [op |-> "CSV"], [op |-> "VERIFY"]>>]
LockGenesisTxs ==
  << Transfer(<<"g", 0>>, <<>>, <<Pays("A", 8), Pays("A", 4),
       [value |-> 2, asset |-> "token", lock |-> Key("A")]>>) >>

Htlc   == Transfer(<<"htlc", 0>>, <<Signs(G(1), "A")>>,
                   <<[Pays("B", 6) EXCEPT !.lock = Lock("htlc", "B", "A", 3, 0)],
                     [Pays("B", 2) EXCEPT !.lock = Timed]>>)
Redeem == [Transfer(<<"redeem", 0>>,
                    <<[op |-> << <<"htlc", 0>>, 1 >>, path |-> "redeem", by |-> {"B"}]>>,
                    <<Pays("B", 6)>>) EXCEPT !.sequence = 2]
Refund == Transfer(<<"refund", 0>>,
                   <<[op |-> << <<"htlc", 0>>, 1 >>, path |-> "refund", by |-> {"A"}]>>,
                   <<Pays("A", 6)>>)
RunScript(lock_time, sequence) ==
  [Transfer(<<"run", lock_time>>,
            <<[op |-> << <<"htlc", 0>>, 2 >>, path |-> "run", by |-> {"B"},
               witness |-> <<Script!Key("B"), Script!Sig("B"),
                             Script!Number(sequence), Script!Number(4)>>]>>,
            <<Pays("C", 2)>>) EXCEPT !.lock_time = lock_time, !.sequence = sequence]
Vault  == Transfer(<<"vault", 0>>, <<Signs(G(2), "A")>>,
                   <<[Pays("A", 4) EXCEPT !.lock = Lock("vault", "A", "A", 2, 2)]>>)
Open   == Transfer(<<"open", 0>>, <<Signs(<< <<"vault", 0>>, 1 >>, "A")>>,
                   <<Pays("A", 4)>>)
Mix    == Transfer(<<"mix", 0>>, <<Signs(G(2), "A"), Signs(G(3), "A")>>,
                   <<[Pays("A", 4) EXCEPT !.asset = "token"], Pays("A", 1)>>)
LockBodies(id) ==
  { <<Htlc, Vault>>, <<Redeem>>, <<Refund>>, <<Open>>, <<Mix>>, <<Reap>>, <<RunScript(4, 1)>>, <<RunScript(0, 1)>> }
    \cup {<<Coinbase(i, 3)>> : i \in {id} \cap {1, 2}}

\* HTLCs and tokens become active after blue score 1.
LockActivation == [k \in {"asset", "multisig", "script", "stealth", "htlc", "vault"} |->
                     IF k \in {"asset", "htlc"} THEN 1 ELSE 0]

-----------------------------------------------------------------------------
\* State bound: blocks are inserted in ascending id order, and those of one
\* history take their bodies from one family, of two that a run tries.
OneFamily(id, made, F(_)) ==
  IF id = Cardinality(DOMAIN made) /\ \A b \in DOMAIN made \ {Genesis} : made[b] \in F(b)
  THEN F(id) ELSE {}

ShortHistories(id, made) ==
  IF id > 4 THEN {}
  ELSE OneFamily(id, made, TransferBodies) \cup OneFamily(id, made, StakeBodies)
\* In the long histories two blocks have the same body only if it is Again's.
LongHistories(id, made) ==
  LET used == {made[b] : b \in DOMAIN made} \ {<<Again>>}
  IN  (OneFamily(id, made, ShortBodies) \cup OneFamily(id, made, LockBodies)) \ used
BasicPayload(id, made) == ShortHistories(id, made) \cup LongHistories(id, made)

=============================================================================
