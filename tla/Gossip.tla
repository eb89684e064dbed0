------------------------------- MODULE Gossip -------------------------------
(***************************************************************************)
(* The in-process gossip mesh (p2p.rs): nodes announce blocks and          *)
(* transactions to their peers, receivers relay them once, and hellos      *)
(* spread the peer sets.  One P2pHardening serves the whole mesh.          *)
(*                                                                         *)
(* The mesh is one record, because a tick delivers the whole queue in      *)
(* order, each delivery appending to the next queue (every envelope is due *)
(* at the tick after it was queued).  An item is a block or a transaction; *)
(* of the nodes the mesh sees only whether they take it: a block needs all *)
(* the blocks below it.                                                    *)
(*                                                                         *)
(* Three fields are history: `lost' says that an envelope was refused by   *)
(* the rate limit or for a ban; `late' has the edges over which a flood    *)
(* may have passed already, or that synchronised blocks have not taken;    *)
(* `quiet' counts ticks since the last call from outside, of which there   *)
(* have been `calls'.                                                      *)
(***************************************************************************)
EXTENDS Hardening, Sequences, SequencesExt

CONSTANTS Block, Tx,  \* items
          Below(_),   \* the blocks below a block
          MaxTick,    \* bound on the clock of one process
          MaxCalls,   \* bound on calls from outside
          MaxQuiet    \* bound on quiet

\* Names are numbers because the maps are walked in the order of the names.
ASSUME GossipAssumption ==
  /\ Name \in SUBSET Nat /\ IsFiniteSet(Name)
  /\ \A b \in Block : Below(b) \subseteq Block
  /\ MaxQuiet \in Nat

VARIABLE mesh
vars == <<mesh>>

Item == Block \cup Tx
Needs(i) == IF i \in Block THEN Below(i) ELSE {}

\* add: what the mesh knows of nodes that hold the items in `has'.
Fresh(h, has) ==
  [peers |-> [n \in Name |-> {}], queue |-> <<>>, seen |-> [n \in Name |-> {}],
   has |-> has, h |-> h, lost |-> FALSE, late |-> {}, quiet |-> 0,
   calls |-> 0]

-----------------------------------------------------------------------------
IsHello(e) == e.kind = "hello"
IsItem(e)  == e.kind = "item"

\* The estimated bytes of an envelope, in units.
BytesOf(e) == IF IsHello(e) THEN 1 + Cardinality(e.body) ELSE 2

enqueue(m, e) ==
  IF e.from = e.to THEN m
  ELSE IF Allowed(m.h, e.from, BytesOf(e))
       THEN [m EXCEPT !.queue = Append(@, e),
                      !.h = check_rate_limit(@, e.from, BytesOf(e))]
       ELSE [m EXCEPT !.lost = TRUE,
                      !.h = check_rate_limit(@, e.from, BytesOf(e))]

\* The peers of a node are walked in order.
InOrder(S) ==
  [i \in 1 .. Cardinality(S) |-> CHOOSE x \in S : Cardinality({y \in S : y < x}) = i - 1]

Send(m, kind, from, targets, body) ==
  FoldLeft(LAMBDA acc, to : enqueue(acc, [kind |-> kind, from |-> from, to |-> to, body |-> body]),
           m, InOrder(targets))

\* enqueue_hello, to each of the targets.
Hellos(m, from, targets) == Send(m, "hello", from, targets, m.peers[from])

SendItem(m, from, targets, i) == Send(m, "item", from, targets, {i})

\* New edges after something was announced may miss it.
WithPeers(m, n, new) ==
  [m EXCEPT !.peers[n] = @ \cup new,
            !.late = IF \A x \in Name : m.seen[x] = {} THEN @
                     ELSE @ \cup ({n} \X (new \ m.peers[n]))]

-----------------------------------------------------------------------------
\* Mutant of HelloTargets: the advertised nodes are not greeted.
ReplyOnly(m, e) == {e.from} \ m.peers[e.to]

\* Who hears from the receiver of a hello: the sender if it is new, and the
\* advertised nodes that are.
HelloTargets(m, e) == ({e.from} \cup (e.body \ {e.to})) \ m.peers[e.to]

on_hello(m, e) ==
  LET targets == HelloTargets(m, e)
      reply   == targets \cap {e.from}
      known   == WithPeers(m, e.to, {e.from} \cup (e.body \ {e.to}))
  IN  Hellos(Hellos(known, e.to, reply), e.to, targets \ reply)

Unseen(m, n, i) == i \notin m.seen[n]

\* Mutant of RelayTargets: nothing goes on once the node has it.
RelayNobody(m, e) == {}

RelayTargets(m, e) == m.peers[e.to] \ {e.from}

Takes(m, n, i) == Needs(i) \subseteq m.has[n]

\* receive_block or submit_tx, and the relay: only what the node takes, or
\* has already, goes on.
Process(m, e, i) ==
  IF Takes(m, e.to, i)
  THEN SendItem([m EXCEPT !.has[e.to] = @ \cup {i}], e.to, RelayTargets(m, e), i)
  ELSE m

\* on_block and on_tx of the mesh.  An item is seen from here on, even if its
\* sender turns out to be banned or the node does not take it.
on_item_from(m, e, i) ==
  LET marked == [m EXCEPT !.seen[e.to] = @ \cup {i}, !.h = on_item(@, e.from, i, TRUE)]
  IN  IF ~Unseen(m, e.to, i) THEN m
      ELSE IF is_banned(marked.h, e.from) THEN [marked EXCEPT !.lost = TRUE]
      ELSE Process(marked, e, i)

deliver(m, e) ==
  IF IsHello(e) THEN on_hello(m, e)
  ELSE on_item_from(m, e, CHOOSE i \in e.body : TRUE)

-----------------------------------------------------------------------------
Init == mesh = Fresh(NewHardening, [n \in Name |-> {}])

\* A call from outside, which turns the mesh into m.
Call(m) ==
  /\ mesh.calls < MaxCalls
  /\ mesh' = [m EXCEPT !.calls = mesh.calls + 1, !.quiet = 0]

Connect(from, to) ==
  /\ from # to
  /\ to \notin mesh.peers[from]
  /\ Call(Hellos(WithPeers(mesh, from, {to}), from, {to}))

\* produce, send, send_to, pool or submit_signed, and the announcement.  A
\* block is built on all the tips of its node.
Announce(n, i) ==
  /\ \A x \in Name : i \notin mesh.has[x]
  /\ i \in Block => Needs(i) = mesh.has[n] \cap Block
  /\ Call(SendItem([mesh EXCEPT
                      !.has[n] = @ \cup {i}, !.seen[n] = @ \cup {i}],
                   n, mesh.peers[n], i))

\* sync_headers_first: the receiver takes all blocks and announces none.
SyncHeadersFirst(from, to) ==
  /\ ~(mesh.has[from] \cap Block \subseteq mesh.has[to])
  /\ Call([mesh EXCEPT !.has[to] = @ \cup (mesh.has[from] \cap Block), !.late = @ \cup ({to} \X Name)])

\* Bound: only a peer that is not banned is banned, and the other way round.
BanPeer(p, ticks) ==
  /\ ~is_banned(mesh.h, p)
  /\ Call([mesh EXCEPT !.h = ban_for(@, p, ticks)])

UnbanPeer(p) ==
  /\ is_banned(mesh.h, p)
  /\ Call([mesh EXCEPT !.h = unban(@, p)])

\* with_bans_path in a new process, to which the same nodes are added.
Restart == Call([Fresh(load_bans(mesh.h.file), mesh.has) EXCEPT !.late = Name \X Name])

Tick ==
  /\ mesh.h.tick < MaxTick
  /\ mesh' = FoldLeft(deliver,
                      [mesh EXCEPT !.queue = <<>>, !.h = tick(@),
                                   !.quiet = Min({@ + 1, MaxQuiet})],
                      mesh.queue)

Next ==
  \/ \E a, b \in Name : Connect(a, b) \/ SyncHeadersFirst(a, b)
  \/ \E n \in Name, i \in Item : Announce(n, i)
  \/ \E p \in Name : UnbanPeer(p) \/ \E ticks \in {0, 2} : BanPeer(p, ticks)
  \/ Tick
  \/ Restart

Spec == Init /\ [][Next]_vars

-----------------------------------------------------------------------------
(***************************************************************************)
(* A flood carries everything everywhere: in an idle mesh that refused     *)
(* nothing, what a node has was offered over all its edges that were there *)
(* in time; and if all were, no neighbour lacks it.  In particular no      *)
(* block then reached a node before the blocks it is built on, for it      *)
(* would have been seen and never taken; and at no time has a node a block *)
(* without those.                                                          *)
(***************************************************************************)
Floods ==
  /\ \A n \in Name : \A i \in mesh.has[n] : Needs(i) \subseteq mesh.has[n]
  /\ mesh.queue = <<>> /\ ~mesh.lost =>
       \A n \in Name : \A x \in mesh.peers[n] :
         /\ <<n, x>> \notin mesh.late => mesh.has[n] \subseteq mesh.seen[x]
         /\ mesh.late = {} => mesh.has[n] \subseteq mesh.has[x]

(***************************************************************************)
(* Hellos close missing edges: when none was refused, the peers of an idle *)
(* mesh know each other, and so do peers of peers.                         *)
(***************************************************************************)
EdgesClose ==
  mesh.queue = <<>> /\ ~mesh.lost =>
    \A n \in Name : \A x \in mesh.peers[n] :
      mesh.peers[x] \cup {x} = mesh.peers[n] \cup {n}

(***************************************************************************)
(* "Honest meshes drain in O(diameter) ticks" (drain): hellos and floods   *)
(* die out, also in the middle of bans and unbans.                         *)
(***************************************************************************)
DrainsSoon == mesh.quiet = MaxQuiet => mesh.queue = <<>>

(***************************************************************************)
(* No peer has more envelopes waiting than the rate limit of one window,   *)
(* although windows change while the queue is delivered.                   *)
(***************************************************************************)
QueueBounded ==
  \A n \in Name :
    Cardinality({k \in DOMAIN mesh.queue : mesh.queue[k].from = n}) <= MaxMessages

(***************************************************************************)
(* Envelopes pile up neither at one peer nor over time, and when they are  *)
(* gone the peer graph is closed.                                          *)
(***************************************************************************)
MeshSettles == QueueBounded /\ DrainsSoon /\ EdgesClose

(***************************************************************************)
(* While a manual ban lasts, nothing gets into a node that only banned     *)
(* peers have sent it, not even by a relay in the same tick.               *)
(***************************************************************************)
BannedUnheard ==
  [][Tick => \A n \in Name : \A i \in mesh'.has[n] \ mesh.has[n] :
       \E k \in DOMAIN mesh.queue :
         /\ IsItem(mesh.queue[k]) /\ mesh.queue[k].to = n /\ mesh.queue[k].body = {i}
         /\ LET p == mesh.queue[k].from
            IN  mesh'.h.ban[p] = NotBanned]_vars

(***************************************************************************)
(* Every ban, by hand or by score, survives the process: the file is       *)
(* written whenever somebody becomes banned, also when a timed ban ends    *)
(* with the score still too low.                                           *)
(***************************************************************************)
BansSurviveRestart ==
  [][Restart => \A p \in Name : is_banned(mesh.h, p) => is_banned(mesh'.h, p)]_vars

(***************************************************************************)
(* A ban is a ban, in the middle of a delivery round and after a restart.  *)
(***************************************************************************)
BansHold == BannedUnheard /\ BansSurviveRestart

=============================================================================
