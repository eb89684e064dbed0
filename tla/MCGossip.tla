------------------------------ MODULE MCGossip ------------------------------
(***************************************************************************)
(* Weights for Gossip with which a duplicate bans a new peer, and a chain  *)
(* of two blocks.                                                          *)
(***************************************************************************)
EXTENDS Gossip

MCScoreDuplicate == -3
MCScoreInvalid   == -3
MCBanThreshold   == -2
MCMinScore       == -3

MCBelow(b) == {a \in Block : a < b}

=============================================================================
