----------------------------- MODULE WalletNode -----------------------------
(***************************************************************************)
(* A node and its clients: the HTTP wallet API of the explorer             *)
(* (explorer.rs), the phone library (light_node.rs), and the two parties   *)
(* of an atomic swap (atomic_swap.rs).  Every call holds the node's lock   *)
(* from its first read to its last write; what a client holds between two  *)
(* calls, a transfer to sign, a CoinJoin or a multisig spend, is a draft,  *)
(* and blocks and other calls come in between.                             *)
(*                                                                         *)
(* The chain is a line here: reorganisations are the matter of Ledger.     *)
(* A behaviour starts with one of the Scenarios: the calls its clients     *)
(* will make, each once and in any order, and the swaps they may agree on. *)
(***************************************************************************)
EXTENDS Wallet

CONSTANTS Scenarios,  \* [utxo, calls, swaps]: genesis, calls, whether a swap
          Sessions,   \* parameters a swap may have
          NoSession,
          MaxScore,   \* no block is mined on one of this score
          Lag         \* blocks of others between two looks of Bob, at most

VARIABLES node,
          todo,    \* calls to make
          drafts,  \* what clients hold: [call, tx, signers]
          swap     \* the session, the outpoints of its HTLCs and how they ended
vars == <<node, todo, drafts, swap>>

Done(c) == todo' = todo \ {c}

\* What others mine, Bob sees after at most Lag blocks; he looks often enough.
Mined ==
  IF swap.session = NoSession THEN UNCHANGED swap
  ELSE LET waited == swap.waited + node'.score - node.score
       IN  waited <= Lag /\ swap' = [swap EXCEPT !.waited = waited]

-----------------------------------------------------------------------------
\* The calls that mine their transaction at once.
Built(n, c) ==
  CASE c.op = "send"    -> prepare_transfer_asset(n, c.from, c.amount, c.to, c.asset)
    [] c.op = "stealth" -> Transfer(n, c.from, Pay(c.amount, Native, c.to))
    [] c.op = "vault"   -> create_vault(n, c.from, c.amount, c.to)
    [] c.op = "release" -> UNION {release_vault(n, c.from, op, c.lock, c.to) :
                                    op \in utxos_of(n, c.lock)}
    [] c.op = "unbond"  -> unbond_with(n, c.from, c.key, c.amount)
    [] OTHER            -> {}

Send(c) ==
  /\ node' \in UNION {insert_tx_block(node, tx) : tx \in Built(node, c)}
  /\ Mined
  /\ Done(c) /\ UNCHANGED drafts

BondStake(c) ==
  /\ c.op = "bond"
  /\ \E outcome \in bond_stake(node, c.from, c.key, c.amount) : node' = outcome.node
  /\ Mined
  /\ Done(c) /\ UNCHANGED drafts

\* What a client asks for and signs later.
Drafted(n, c) ==
  CASE c.op = "prepare"  -> prepare_transfer_asset(n, c.from, c.amount, c.to, c.asset)
    [] c.op = "coinjoin" -> coinjoin_prepare(n, c.participants)
    [] c.op = "multisig" -> build_multisig_spend(n, c.address, c.outs)
    [] OTHER             -> {}

Hand(c) ==
  /\ \E tx \in Drafted(node, c) :
       drafts' = drafts \cup {[call |-> c, tx |-> tx, signers |-> {}]}
  /\ Done(c) /\ UNCHANGED <<node, swap>>

PrepareTransfer(c) == c.op = "prepare" /\ Hand(c)
CoinjoinPrepare(c) == c.op = "coinjoin" /\ Hand(c)
MultisigBuild(c) == c.op = "multisig" /\ Hand(c)

MultisigCreate(c) ==
  /\ c.op = "create"
  /\ node' = create_multisig_address(node, c.address)
  /\ Done(c) /\ UNCHANGED <<drafts, swap>>

SubmitSigned(d) ==
  /\ d.call.op = "prepare"
  /\ node' \in submit_signed(node, d.call.from, d.call.amount, d.call.to, d.tx)
  /\ drafts' = drafts \ {d}
  /\ UNCHANGED <<todo, swap>>

CoinjoinSubmit(d) ==
  /\ d.call.op = "coinjoin"
  /\ node' \in coinjoin_submit(node, d.tx)
  /\ drafts' = drafts \ {d}
  /\ UNCHANGED <<todo, swap>>

MultisigSign(d, k) ==
  /\ d.call.op = "multisig" /\ k \in d.call.signers \ d.signers
  /\ drafts' = (drafts \ {d}) \cup {[d EXCEPT !.signers = @ \cup {k}]}
  /\ UNCHANGED <<node, todo, swap>>

MultisigCombine(d) ==
  /\ d.call.op = "multisig" /\ d.signers # {}
  /\ \E tx \in combine_multisig_sigs(d.call.address, d.tx, d.signers) :
       drafts' = (drafts \ {d}) \cup {[d EXCEPT !.tx = tx, !.signers = {}]}
  /\ UNCHANGED <<node, todo, swap>>

MultisigSubmit(d) ==
  /\ d.call.op = "multisig" /\ d.tx.ins[1].by # {}
  /\ node' = submit_tx(node, d.tx)
  /\ drafts' = drafts \ {d}
  /\ UNCHANGED <<todo, swap>>

-----------------------------------------------------------------------------
\* Mutant of SwapSession_new: equal timeouts are let through.
LaxSession(s) == s.timeout_b <= s.timeout_a

\* SwapSession::new refuses a session whose timeouts are in the wrong order.
SwapSession_new(s) == s.timeout_b < s.timeout_a

Htlc(recipient, sender, timeout) ==
  [kind |-> "htlc", owner |-> {recipient}, other |-> {sender}, after |-> timeout, csv |-> 0]
htlc_a(s) == Htlc("B", "A", s.timeout_a)
\* Mutant of htlc_b: the roles of htlc_a.
SameRoles(s) == Htlc("B", "A", s.timeout_b)

htlc_b(s) == Htlc("A", "B", s.timeout_b)

Session == swap.session

\* create_htlc by k: the funding transaction is mined, its first output is
\* the HTLC.
create_htlc(k, amount, asset, lock) ==
  /\ node' \in UNION {insert_tx_block(node, tx) :
                        tx \in prepare_transfer_asset(node, k, amount, lock, asset)}
  /\ UNCHANGED <<todo, drafts>>

\* redeem_htlc and refund_htlc by k.
SpendHtlc(k, ops, lock, path) ==
  /\ node' \in UNION {UNION {insert_tx_block(node, tx) :
                               tx \in build_htlc_spend(node, k, op, lock, path, KeyLock(k))} :
                        op \in ops}
  /\ UNCHANGED <<todo, drafts>>

\* The HTLC at the funding outpoint, while it is there.
Locked(ops) == ops # {} /\ ops \subseteq DOMAIN node.utxo

\* Alice does as she likes, in any order and at any time.
AliceFunds ==
  /\ Session # NoSession /\ swap.a = {} /\ swap.waited < Lag
  /\ create_htlc("A", Session.amount_a, Session.asset_a, htlc_a(Session))
  /\ swap' = [swap EXCEPT !.a = {<<node.next, 1>>}, !.waited = @ + 1]

AliceRedeems ==
  /\ Session # NoSession /\ Locked(swap.b) /\ swap.waited < Lag
  /\ SpendHtlc("A", swap.b, htlc_b(Session), "redeem")
  /\ swap' = [swap EXCEPT !.b_end = "redeemed", !.waited = @ + 1]

AliceRefunds ==
  /\ Session # NoSession /\ Locked(swap.a) /\ swap.waited < Lag
  /\ SpendHtlc("A", swap.a, htlc_a(Session), "refund")
  /\ swap' = [swap EXCEPT !.a_end = "refunded", !.waited = @ + 1]

\* Bob funds his part once he has seen Alice's (verify_against), when his own
\* refund is not due at his very next look.
BobFunds ==
  /\ Session # NoSession /\ swap.b = {} /\ Locked(swap.a)
  /\ node.score + 2 < Session.timeout_b
  /\ create_htlc("B", Session.amount_b, Session.asset_b, htlc_b(Session))
  /\ swap' = [swap EXCEPT !.b = {<<node.next, 1>>}, !.waited = 0]

\* scan_for_htlc_redeem has found the preimage in Alice's witness.
BobRedeems ==
  /\ Session # NoSession /\ swap.b_end = "redeemed" /\ Locked(swap.a)
  /\ SpendHtlc("B", swap.a, htlc_a(Session), "redeem")
  /\ swap' = [swap EXCEPT !.a_end = "redeemed", !.waited = 0]

BobRefunds ==
  /\ Session # NoSession /\ Locked(swap.b)
  /\ SpendHtlc("B", swap.b, htlc_b(Session), "refund")
  /\ swap' = [swap EXCEPT !.b_end = "refunded", !.waited = 0]

\* He looks, and there is nothing to do.
BobWaits ==
  /\ swap.waited > 0
  /\ ~ENABLED BobFunds /\ ~ENABLED BobRedeems /\ ~ENABLED BobRefunds
  /\ swap' = [swap EXCEPT !.waited = 0]
  /\ UNCHANGED <<node, todo, drafts>>

Bob == BobFunds \/ BobRedeems \/ BobRefunds \/ BobWaits

-----------------------------------------------------------------------------
ProduceBlock ==
  /\ node.score < MaxScore
  /\ \E order \in SetToSeqs(node.pool) : node' \in produce_block(node, order)
  /\ Mined
  /\ UNCHANGED <<todo, drafts>>

ProduceEmpty ==
  /\ node.score < MaxScore
  /\ node' \in produce_empty(node)
  /\ Mined
  /\ UNCHANGED <<todo, drafts>>

Init ==
  \E scenario \in Scenarios :
    /\ node = [utxo |-> scenario.utxo, stake |-> NoStake, score |-> 0, pool |-> {}, next |-> 1,
               scripts |-> {}]
    /\ todo = scenario.calls
    /\ drafts = {}
    /\ \E s \in {x \in Sessions : SwapSession_new(x)} \cup {NoSession} :
         /\ scenario.swaps <=> s # NoSession
         /\ swap = [session |-> s, a |-> {}, b |-> {}, a_end |-> "open", b_end |-> "open",
                    waited |-> 0]

Next ==
  \/ \E c \in todo : \/ Send(c) \/ BondStake(c) \/ MultisigCreate(c)
                     \/ PrepareTransfer(c) \/ CoinjoinPrepare(c) \/ MultisigBuild(c)
  \/ \E d \in drafts : \/ SubmitSigned(d) \/ CoinjoinSubmit(d)
                       \/ MultisigCombine(d) \/ MultisigSubmit(d)
                       \/ \E k \in {"A", "B", "C"} : MultisigSign(d, k)
  \/ AliceFunds \/ AliceRedeems \/ AliceRefunds
  \/ Bob
  \/ ProduceBlock \/ ProduceEmpty

\* Blocks keep coming, and Bob keeps looking.
Fairness == WF_vars(ProduceEmpty) /\ WF_vars(Bob)

Spec == Init /\ [][Next]_vars /\ Fairness

-----------------------------------------------------------------------------
SpendsFrozen(n, tx) == \E op \in Spent(tx) : is_frozen(n.stake, op)

\* What is signed as a call says.
Ready(c, tx) ==
  IF c.op = "multisig" THEN combine_multisig_sigs(c.address, tx, c.signers) ELSE {tx}

\* The fees a call takes, of whatever asset.
FeesOf(c) ==
  CASE c.op = "unbond"   -> 0
    [] c.op = "coinjoin" -> MinFee * Len(c.participants)
    [] OTHER             -> MinFee

Paid(n, tx) ==
  Total(n, SetToSeq(Spent(tx))) - FoldLeft(LAMBDA sum, o : sum + o.value, 0, tx.outs)

(***************************************************************************)
(* Whatever a call would build now, but the release of a vault before its  *)
(* time, the ledger takes in the next block, and it costs the sender       *)
(* exactly its fees: coin selection judges maturity by the tip, the ledger *)
(* by the block.  The exception is a transaction that spends bonded coins, *)
(* which coin selection does not tell from others.                         *)
(***************************************************************************)
BuiltIsAccepted ==
  \A c \in {d \in todo : d.op # "release"} :
    \A drawn \in Built(node, c) \cup Drafted(node, c) : \A tx \in Ready(c, drawn) :
      \/ c.op # "unbond" /\ SpendsFrozen(node, tx)
      \/ Valid(node, tx) /\ Paid(node, tx) = FeesOf(c)

(***************************************************************************)
(* bond_stake, called while nothing is pending, gets its split and its     *)
(* bond into blocks ("sealing both the sizing split (if needed) and the    *)
(* bond transaction in mined PoW blocks") and freezes exactly the amount.  *)
(***************************************************************************)
BondSealed ==
  node.pool = {} =>
    \A c \in {d \in todo : d.op = "bond"} :
      \A outcome \in bond_stake(node, c.from, c.key, c.amount) :
        /\ outcome.ok
        /\ stake_of(outcome.node.stake, c.key) = stake_of(node.stake, c.key) + c.amount

(***************************************************************************)
(* When pending_unbond_height has nothing to wait for ("every bond has     *)
(* already matured"), all that is bonded can be taken back.                *)
(***************************************************************************)
AllUnbonds ==
  \A c \in {d \in todo : d.op = "unbond"} :
    LET all == MapThenSumSet(LAMBDA op : node.stake.frozen[op].value, BondsOf(node, c.key))
    IN  pending_unbond_height(node, c.key) = {} /\ all > 0 =>
          \E tx \in unbond_with(node, c.from, c.key, all) : Valid(node, tx)

BondsHold == BondSealed /\ AllUnbonds

(***************************************************************************)
(* In whatever order the pending transactions are tried, the block that is *)
(* made of them is one the ledger takes, and none of them is left: each is *)
(* in it or has lost an input to it.  Only what spends bonded coins stays. *)
(***************************************************************************)
PoolDrains ==
  \A order \in SetToSeqs(node.pool) :
    LET after == IF Chosen(node, order) = <<>> THEN {node} ELSE produce_block(node, order)
    IN  after # {} /\ \A n \in after : \A tx \in n.pool : SpendsFrozen(n, tx)

(***************************************************************************)
(* T_B < T_A "is the safety invariant": whatever Alice does and however    *)
(* the blocks fall, as long as Bob looks every Lag blocks she does not get *)
(* both sides; and he cannot take hers before she has taken his.           *)
(***************************************************************************)
SwapSafe ==
  /\ ~(swap.a_end = "refunded" /\ swap.b_end = "redeemed")
  /\ swap.a_end = "redeemed" => swap.b_end = "redeemed"

(***************************************************************************)
(* Bob's funds are not locked forever: he gets them back or gets Alice's   *)
(* ("Fallback: Bob refunds HTLC-B after T_B").                             *)
(***************************************************************************)
BobIsPaid == swap.b # {} ~> swap.b_end = "refunded" \/ swap.a_end = "redeemed"

=============================================================================
