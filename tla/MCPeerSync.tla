----------------------------- MODULE MCPeerSync -----------------------------
(***************************************************************************)
(* A fork of three blocks whose ids are not in topological order: 1 and 3  *)
(* are built on 2, and 3 is staked or not.                                 *)
(***************************************************************************)
EXTENDS PeerSync

MCParents == [b \in Block |-> IF b = 2 THEN {} ELSE {2}]

=============================================================================
