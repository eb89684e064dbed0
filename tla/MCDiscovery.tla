---------------------------- MODULE MCDiscovery ----------------------------
(***************************************************************************)
(* Three nodes, two of them in the same part of the id space as seen from  *)
(* the first, and two seeds beside them that are no nodes.  Bounds:        *)
(* MaxEdges connections in all, MaxStrikes failures on record, MaxWaiting  *)
(* buckets with somebody in the cache.                                     *)
(***************************************************************************)
EXTENDS Discovery

CONSTANTS MaxEdges, MaxStrikes, MaxWaiting

Edges == FoldSet(LAMBDA n, acc : acc + Cardinality(peers[n]), 0, Live)

Strikes == FoldSet(LAMBDA n, acc : acc +
             FoldSet(LAMBDA c, sum : sum + c.failed, 0, InBuckets(table[n])), 0, Live)

Waiting == Cardinality({<<n, i>> \in Live \X Buckets : table[n][i].cache # <<>>})

Few == Edges <= MaxEdges /\ Strikes <= MaxStrikes /\ Waiting <= MaxWaiting

=============================================================================
