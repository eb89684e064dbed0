----------------------------- MODULE MCRestore -----------------------------
(***************************************************************************)
(* Two keys bond what genesis paid to A, one of them twice as much; some   *)
(* blocks mint.  Blocks are made in ascending id order, the fourth one by  *)
(* a clock that runs behind.                                               *)
(***************************************************************************)
EXTENDS Restore

Lock(k) == [kind |-> "key", owner |-> {k}, other |-> {k}, after |-> 0, csv |-> 0]
Pays(k, v) == [value |-> v, asset |-> Native, lock |-> Lock(k)]
Spends(id, ins, outs) ==
  [id |-> id, ins |-> ins, outs |-> outs, role |-> "plain", key |-> "none",
   lock_time |-> 0, sequence |-> 0]
Signs(op, k) == [op |-> op, path |-> "sign", by |-> {k}]
G(i) == << <<"g", 0>>, i >>

MCGenesisTxs == << Spends(<<"g", 0>>, <<>>, <<Pays("A", 8), Pays("A", 4)>>) >>
NoActivation == [k \in {"asset", "multisig", "script", "stealth", "htlc", "vault"} |-> 0]

Coinbase(id) == Spends(<<"cb", id>>, <<>>, <<Pays("M", 3)>>)
BondOf(key, i, v) ==
  [Spends(<<"bond", key>>, <<Signs(G(i), "A")>>, <<Pays("A", v)>>)
     EXCEPT !.role = "bond", !.key = key]
Pay == Spends(<<"pay", 0>>, <<Signs(G(2), "A")>>, <<Pays("B", 3)>>)

\* The bonds come first; later blocks mint, the third one also pays with what
\* W has not bonded.
MCPayload(id, made) ==
  IF id # Cardinality(DOMAIN made) THEN {}
  ELSE CASE id = 1 -> {<<BondOf("V", 1, 8), BondOf("W", 2, 4)>>, <<BondOf("V", 1, 8)>>}
         [] id = 3 /\ Len(made[1]) = 1 -> {<<Coinbase(id), Pay>>}
         [] OTHER  -> {<<Coinbase(id)>>}

MCTime(id) == <<1, 2, 4, 3, 5, 6>>[id]

MCDraw(key, beacon) == (beacon[1] + beacon[2] + (IF key = "V" THEN 0 ELSE 2)) % 3

MCRewired(b) == 10 + b

\* Bound: the blocks of work 2, so that there may be five blocks.
FewHeavy ==
  LET Heavy == {b \in Nodes(dag) : dag.node[b].work > 1}
  IN  phase = "live" => Heavy \subseteq {2}

=============================================================================
