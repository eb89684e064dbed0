--------------------------- MODULE Linearization ----------------------------
(***************************************************************************)
(* The total order over the blocks (crates/kovanica-dag/src/ordering.rs),  *)
(* checked on every DAG the archive node can build.  linearize recomputes  *)
(* selected chain and mergesets from the DAG as it is when called, which   *)
(* holds more blocks than when a mergeset was coloured; the ledger relies  *)
(* on the order it applied earlier still being the one that is returned.   *)
(***************************************************************************)
EXTENDS Replicas

(***************************************************************************)
(* The order of a block is a listing of its past: along a selected chain   *)
(* the mergesets and the chain blocks cover the past of the last block,    *)
(* and no block of that past is listed twice.                              *)
(***************************************************************************)
OrderCoversPast ==
  \A b \in Nodes(archive) :
     LET order == OrderOf(archive, b)
     IN  /\ ToSet(order) = archive.node[b].past \cup {b}
         /\ Len(order) = Cardinality(archive.node[b].past) + 1

(***************************************************************************)
(* linearize lists every block exactly once and every block after all of   *)
(* its parents, side branches that the selected tip has not merged         *)
(* included (ordering.rs, doc of linearize).                               *)
(***************************************************************************)
LinearizeIsTopological ==
  LET order == linearize(archive)
  IN  /\ ToSet(order) = Nodes(archive)
      /\ Len(order) = Cardinality(Nodes(archive))
      /\ \A i \in DOMAIN order :
           archive.node[order[i]].parents \subseteq {order[j] : j \in 1 .. i - 1}

(***************************************************************************)
(* The order of the whole DAG and that of every block list what they are   *)
(* about, completely and once.                                             *)
(***************************************************************************)
OrderExact == OrderCoversPast /\ LinearizeIsTopological

(***************************************************************************)
(* Extending the selected chain reorders nothing before the old selected   *)
(* tip: what was listed up to it stays a prefix of the order.              *)
(***************************************************************************)
OrderGrowsAtTheEnd ==
  archive'.node[selected_tip(archive')].sp = selected_tip(archive)
    => IsPrefix(OrderOf(archive, selected_tip(archive)), linearize(archive'))

(***************************************************************************)
(* At every time the order is complete and topological, and it grows only  *)
(* behind the selected tip (what the ledger has applied keeps its place).  *)
(***************************************************************************)
OrderSound == []OrderExact /\ [][OrderGrowsAtTheEnd]_archive

=============================================================================
