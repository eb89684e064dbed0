------------------------------ MODULE MCWallet ------------------------------
(***************************************************************************)
(* The clients the wallet is checked with.  A, B and C have keys, M mines. *)
(***************************************************************************)
EXTENDS WalletNode

Coins(outs) ==
  [op \in {<<0, i>> : i \in DOMAIN outs} |->
     [output |-> outs[op[2]], height |-> 0, coinbase |-> TRUE]]

Of(k, v) == Pay(v, Native, KeyLock(k))
Call(op, from, amount, asset, to) ==
  [op |-> op, from |-> from, amount |-> amount, asset |-> asset, to |-> to]

\* A pays at once and by a signature it gives later, in both assets, and the
\* miner spends what it mined.
Transfers ==
  [utxo  |-> Coins(<<Of("A", 6), Of("A", 3), Pay(4, "token", KeyLock("A")), Of("B", 2)>>),
   swaps |-> FALSE,
   calls |-> {Call("send", "A", 7, Native, KeyLock("B")),
              Call("prepare", "A", 2, Native, KeyLock("C")),
              Call("send", "A", 2, "token", KeyLock("B")),
              Call("stealth", "M", 3, Native, [KeyLock("C") EXCEPT !.kind = "stealth"]),
              Call("prepare", "M", 4, Native, KeyLock("C"))}]

\* A and B join payments, and spend from an address two of three keys open.
TwoOfThree == [kind |-> "multisig", owner |-> {"A", "B", "C"}, other |-> {}, after |-> 2, csv |-> 0]
Joint ==
  [utxo  |-> Coins(<<Of("A", 6), Of("B", 3), Of("B", 2), Pay(4, Native, TwoOfThree)>>),
   swaps |-> FALSE,
   calls |-> {[op |-> "coinjoin",
               participants |-> <<[from |-> "A", outs |-> <<Of("C", 3)>>, asset |-> Native],
                                  [from |-> "B", outs |-> <<Of("C", 3)>>, asset |-> Native]>>],
              Call("prepare", "A", 2, Native, KeyLock("C")),
              Call("send", "A", 3, Native, TwoOfThree),
              [op |-> "multisig", address |-> TwoOfThree, outs |-> <<Of("B", 2)>>,
               signers |-> {"A", "B"}],
              [op |-> "create", address |-> TwoOfThree]}]

Vault == [kind |-> "vault", owner |-> {"A"}, other |-> {"A"}, after |-> 3, csv |-> 2]
Vaults ==
  [utxo  |-> Coins(<<Of("A", 6)>>),
   swaps |-> FALSE,
   calls |-> {Call("vault", "A", 3, Native, Vault),
              [op |-> "release", from |-> "A", lock |-> Vault, to |-> KeyLock("B")],
              Call("prepare", "A", 1, Native, KeyLock("B"))}]

\* A bonds two of its coins, one of them in parts, takes part of it back and
\* pays with the rest.
Bond(amount) == [op |-> "bond", from |-> "A", key |-> "V", amount |-> amount]
Stakers ==
  [utxo  |-> Coins(<<Of("A", 6), Of("A", 2)>>),
   swaps |-> FALSE,
   calls |-> {Bond(3), Bond(2), [op |-> "unbond", from |-> "A", key |-> "V", amount |-> 4],
              Call("prepare", "A", 2, Native, KeyLock("B"))}]

\* A has native coins and B tokens, and both can pay the fee of a spend.
Swappers ==
  [utxo  |-> Coins(<<Of("A", 6), Of("A", 1), Of("B", 2), Pay(4, "token", KeyLock("B"))>>),
   swaps |-> TRUE, calls |-> {}]

MCScenarios == {Transfers, Joint, Vaults, Stakers, Swappers}

MCSessions ==
  {[timeout_a |-> a, timeout_b |-> b, amount_a |-> 3, asset_a |-> Native,
    amount_b |-> v[1], asset_b |-> v[2]] :
     a \in 4 .. 6, b \in 4 .. 6, v \in {<<2, "token">>, <<3, "token">>}}

FromGenesis == [k \in {"asset", "multisig", "script", "stealth", "htlc", "vault"} |-> 0]

=============================================================================
