----------------------------- MODULE MCService -----------------------------
(***************************************************************************)
(* Two payments of the faucet to one address, one built on the other; a    *)
(* block from outside, also on the first payment; and a block that this    *)
(* node mines on the second and the outside block.  An upload may bring    *)
(* the first payment back, or hold a second record that is refused.        *)
(***************************************************************************)
EXTENDS Service

MCParents == [b \in Blocks |-> <<{}, {0}, {1}, {1}, {2, 3}>>[b + 1]]
MCPays == [b \in Blocks |-> IF b \in {1, 2} THEN 1 ELSE 0]
MCBodies == {<<1, 3>>, <<3, 5>>}

=============================================================================
