----------------------------- MODULE MCMempool -----------------------------
(***************************************************************************)
(* Seven transactions: 2 conflicts with both 1 and 3, which are            *)
(* independent; 4 spends an output of 1, and 7 one of 4; 5 conflicts with  *)
(* 7 and no block may have it yet; 6 spends an output of 3 and pays too    *)
(* little.                                                                 *)
(***************************************************************************)
EXTENDS NodeMempool

MCTx == 1 .. 7

MCIns(t) == <<{"a"}, {"a", "b"}, {"b"}, {"a1"}, {"c"}, {"b1"}, {"c", "a2"}>>[t]
MCOuts(t) == <<{"a1"}, {"ab"}, {"b1"}, {"a2"}, {"c1"}, {"b2"}, {"ca"}>>[t]
MCSize(t) == <<1, 3, 1, 2, 1, 1, 2>>[t]
MCFee(t) == <<1, 9, 2, 4, 2, 0, 6>>[t]

MCGenesisOuts == {"a", "b", "c"}
MCOutpoint == MCGenesisOuts \cup UNION {MCOuts(t) : t \in MCTx}
MCMinable == MCTx \ {5}

=============================================================================
