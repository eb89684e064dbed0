----------------------------- MODULE Discovery -----------------------------
(***************************************************************************)
(* Peer discovery (dht.rs, the DHT methods of p2p.rs, dns_seed.rs).  There *)
(* are two Kademlia routing tables for a node.  The one the mesh keeps for *)
(* it (Mesh.dht_tables) learns contacts from connections and bootstraps,   *)
(* lookups go through it, and it names the nodes to connect to.  The one   *)
(* the node has itself (Node.dht_routing_table) learns what DNS seeds      *)
(* answer and is given to those who ask over a relay session.  No code     *)
(* moves a contact from one to the other: a behaviour has tables of one    *)
(* kind, and the actions that use them.                                    *)
(*                                                                         *)
(* A node is named by its NodeId, a number of BITS bits.  Addresses and    *)
(* the times contacts were seen are left out: the lists are kept in the    *)
(* order of use, and no decision reads a time.                             *)
(***************************************************************************)
EXTENDS Bitwise, SequencesExt

CONSTANTS BITS,       \* 256
          Live,       \* the ids of the nodes of the mesh
          Seeds,      \* ids made of the addresses DNS seeds answer with
          Fallbacks,  \* and of the configured fallback addresses
          MAX_ADDRS,  \* DnsSeedConfig.max_addrs
          K,          \* contacts of a bucket
          ALPHA,      \* concurrency of a lookup
          ROUNDS,     \* 10
          STRIKES,    \* 3
          TargetPeers \* target_peer_count

ASSUME DiscoveryAssumption ==
  /\ {BITS, K, ALPHA, ROUNDS, STRIKES, MAX_ADDRS, TargetPeers} \subseteq Nat \ {0}
  /\ Live \cup Seeds \cup Fallbacks \subseteq 0 .. 2^BITS - 1

VARIABLES keeper, \* whose tables they are, the "mesh"'s or each "node"'s own
          table,  \* node -> bucket -> [contacts, cache], most recent first
          peers   \* node -> the nodes it announces to

vars == <<keeper, table, peers>>

Buckets == 0 .. BITS - 1
Fresh(id) == [id |-> id, failed |-> 0]  \* PeerContact::new, and touch()
Names(contacts) == {contacts[i].id : i \in DOMAIN contacts}
Without(contacts, id) == SelectSeq(contacts, LAMBDA c : c.id # id)
Find(contacts, id) == CHOOSE c \in ToSet(contacts) : c.id = id
FirstN(s, n) == SubSeq(s, 1, Min({n, Len(s)}))
is_dead(c) == c.failed >= STRIKES
is_full(b) == Len(b.contacts) >= K

distance(a, b) == a ^^ b

\* The leading zero bits of the distance; a # b.
bucket_index(a, b) ==
  CHOOSE i \in Buckets : 2^(BITS - 1 - i) <= distance(a, b) /\ distance(a, b) < 2^(BITS - i)

-----------------------------------------------------------------------------
\* Mutant of the next: the newcomer takes the place of the last contact.
NewContactEvicts(b, c) == [b EXCEPT !.contacts = FirstN(<<c>> \o @, K)]

\* A full bucket keeps its contacts; the newcomer waits in the cache.
NewContact(b, c) ==
  IF is_full(b) THEN [b EXCEPT !.cache = FirstN(<<c>> \o @, K)]
  ELSE [b EXCEPT !.contacts = <<c>> \o @]

\* KBucket::update_contact.  A new contact keeps the failures it comes with.
update_bucket(b, c) ==
  CASE c.id \in Names(b.contacts) ->
         [b EXCEPT !.contacts = <<Fresh(c.id)>> \o Without(@, c.id)]
    [] c.id \in Names(b.cache) /\ ~is_full(b) ->
         [contacts |-> <<Fresh(c.id)>> \o b.contacts, cache |-> Without(b.cache, c.id)]
    [] c.id \in Names(b.cache) /\ is_full(b) ->
         [b EXCEPT !.cache = <<Fresh(c.id)>> \o Without(@, c.id)]
    [] OTHER -> NewContact(b, c)

\* The cached contacts that fill up the bucket, each in front of the last.
Refill(b) ==
  LET n == Min({K - Len(b.contacts), Len(b.cache)})
      promoted == [i \in 1 .. n |-> Fresh(b.cache[n + 1 - i].id)]
  IN  [contacts |-> promoted \o b.contacts, cache |-> SubSeq(b.cache, n + 1, Len(b.cache))]

\* A third strike takes a contact out; one cached contact takes its place.
Struck(b, id) ==
  IF b.cache = <<>> THEN [b EXCEPT !.contacts = Without(@, id)]
  ELSE [contacts |-> <<Fresh(Head(b.cache).id)>> \o Without(b.contacts, id),
        cache    |-> Tail(b.cache)]

Strike(c) == [c EXCEPT !.failed = @ + 1]

\* KBucket::mark_failed.
mark_failed(b, id) ==
  IF id \in Names(b.contacts)
  THEN LET c == Strike(Find(b.contacts, id))
       IN  IF is_dead(c) THEN Struck(b, id)
           ELSE [b EXCEPT !.contacts = Without(@, id) \o <<c>>]
  ELSE IF id \in Names(b.cache)
  THEN LET c == Strike(Find(b.cache, id))
       IN  [b EXCEPT !.cache = Without(@, id) \o (IF is_dead(c) THEN <<>> ELSE <<c>>)]
  ELSE b

\* KBucket::prune_dead.
prune_dead(b) ==
  Refill([contacts |-> SelectSeq(b.contacts, LAMBDA c : ~is_dead(c)),
          cache    |-> SelectSeq(b.cache, LAMBDA c : ~is_dead(c))])

-----------------------------------------------------------------------------
EmptyTable == [i \in Buckets |-> [contacts |-> <<>>, cache |-> <<>>]]

\* RoutingTable::update_contact.
update_contact(t, n, c) ==
  IF c.id = n THEN t ELSE [t EXCEPT ![bucket_index(n, c.id)] = update_bucket(@, c)]

UpdateAll(t, n, contacts) == FoldLeft(LAMBDA s, c : update_contact(s, n, c), t, contacts)

InBuckets(t) == UNION {ToSet(t[i].contacts) \cup ToSet(t[i].cache) : i \in Buckets}

Nearer(a, b, target) == distance(a, target) < distance(b, target)

\* RoutingTable::closest_peers: contacts and cached ones alike.
closest_peers(t, target, count) ==
  FirstN(SetToSortSeq(InBuckets(t), LAMBDA c, d : Nearer(c.id, d.id, target)), count)

-----------------------------------------------------------------------------
\* A NodeLookup is [known, queried]; its shortlist is known in order.
Shortlist(look, target) ==
  SetToSortSeq(look.known, LAMBDA a, b : Nearer(a, b, target))

\* NodeLookup::is_complete
is_complete(look, target) ==
  ToSet(FirstN(Shortlist(look, target), K)) \subseteq look.queried

\* NodeLookup::next_candidates
next_candidates(look, target) ==
  ToSet(FirstN(SelectSeq(Shortlist(look, target), LAMBDA x : x \notin look.queried), ALPHA))

\* Mutant of Answers: a node that is asked gives what is nearest to itself.
AnswersOfOwn(target, x) == Names(closest_peers(table[x], x, K))

\* The contacts in the Nodes message of node x, as handle_dht_msg sends it.
Answers(target, x) == Names(closest_peers(table[x], target, K))

\* A round: candidates that are nodes of the mesh answer, the others do not.
Round(look, target) ==
  LET asked == next_candidates(look, target)
  IN  IF is_complete(look, target) THEN look
      ELSE [known   |-> look.known \cup UNION {Answers(target, x) : x \in asked \cap Live},
            queried |-> look.queried \cup asked]

\* Mesh::dht_find_node
dht_find_node(n, target) ==
  LET start == [known |-> Answers(target, n), queried |-> {}]
      end   == FoldLeft(LAMBDA look, i : Round(look, target), start,
                        [i \in 1 .. ROUNDS |-> i])
  IN  FirstN(Shortlist(end, target), K)

-----------------------------------------------------------------------------
Init ==
  /\ keeper \in {"mesh", "node"}
  /\ table = [n \in Live |-> EmptyTable]
  /\ peers = [n \in Live |-> {}]

\* What connect(from, to) makes of [table, peers]: a new edge, and each end
\* registers the other.
Connected(net, from, to) ==
  IF from = to \/ to \in net.peers[from] THEN net
  ELSE [table |-> [net.table EXCEPT ![from] = update_contact(@, from, Fresh(to)),
                                    ![to]   = update_contact(@, to, Fresh(from))],
        peers |-> [net.peers EXCEPT ![from] = @ \cup {to}]]

Net == [table |-> table, peers |-> peers]

Becomes(net) == table' = net.table /\ peers' = net.peers /\ UNCHANGED keeper

Connect(from, to) ==
  /\ keeper = "mesh" /\ from # to
  /\ Becomes(Connected(Net, from, to))

\* Mesh::dht_bootstrap: the seed, then what it knows near us.
Bootstrap(from, seed) ==
  LET near == SelectSeq(closest_peers(table[seed], from, K), LAMBDA c : c.id # from)
  IN  /\ keeper = "mesh" /\ from # seed
      /\ table' = [table EXCEPT ![from] = UpdateAll(@, from, <<Fresh(seed)>> \o near)]
      /\ UNCHANGED <<keeper, peers>>

\* DnsSeedResolver::resolve_all; the order is that of a hash.
resolve_all(answers) ==
  LET found == IF answers = {} THEN Fallbacks ELSE answers
  IN  FirstN(SetToSortSeq(found, LAMBDA a, b : a > b), MAX_ADDRS)

\* tick_dht and Node::dht_bootstrap, every five minutes.
DnsBootstrap(n) ==
  /\ keeper = "node"
  /\ \E answers \in SUBSET Seeds :
       LET ids == resolve_all(answers)
       IN  table' = [table EXCEPT ![n] = UpdateAll(@, n, [i \in DOMAIN ids |-> Fresh(ids[i])])]
  /\ UNCHANGED <<keeper, peers>>

\* RoutingTable::mark_failed: a caller of the library got no answer.
MarkFailed(n, id) ==
  /\ id # n
  /\ table' = [table EXCEPT ![n][bucket_index(n, id)] = mark_failed(@, id)]
  /\ UNCHANGED <<keeper, peers>>

\* RoutingTable::prune_unresponsive.
prune_unresponsive(t) == [i \in Buckets |-> prune_dead(t[i])]

\* prune_unreachable_peers, which nothing but tests calls, prunes the tables of
\* the mesh; tick_dht, every two minutes, those the nodes have.
Prune(ns) ==
  /\ table' = [n \in Live |-> IF n \in ns THEN prune_unresponsive(table[n]) ELSE table[n]]
  /\ UNCHANGED <<keeper, peers>>

PruneUnreachable == keeper = "mesh" /\ Prune(Live)

PruneOwn(n) == keeper = "node" /\ Prune({n})

\* tick_dht goes on with replenish_peers_from_dht: node by node in the order of
\* their names; the nearest known nodes that are no peers yet, as many as are
\* missing.
ReplenishOne(net, n) ==
  LET known   == closest_peers(net.table[n], n, Cardinality(InBuckets(net.table[n])))
      new     == SelectSeq([i \in DOMAIN known |-> known[i].id],
                           LAMBDA x : x \in Live \ net.peers[n])
      missing == Max({0, TargetPeers - Cardinality(net.peers[n])})
  IN  FoldLeft(LAMBDA s, x : Connected(s, n, x), net, FirstN(new, missing))

Replenish ==
  /\ keeper = "mesh"
  /\ Becomes(FoldLeft(ReplenishOne, Net, SetToSortSeq(Live, LAMBDA a, b : a < b)))

\* add_with_dht and init_dht_routing_table: a node is registered again, with
\* empty tables.
Restart(n) ==
  /\ table' = [table EXCEPT ![n] = EmptyTable]
  /\ UNCHANGED <<keeper, peers>>

Next ==
  \/ \E a, b \in Live : Connect(a, b) \/ Bootstrap(a, b)
  \/ \E n \in Live : DnsBootstrap(n) \/ PruneOwn(n) \/ Restart(n)
  \/ \E n \in Live, id \in Live \cup Seeds \cup Fallbacks : MarkFailed(n, id)
  \/ PruneUnreachable \/ Replenish

Spec == Init /\ [][Next]_vars

-----------------------------------------------------------------------------
(***************************************************************************)
(* However contacts come and go, a table files each known id once, in the  *)
(* bucket of its distance, never itself, within the limits; and a bucket   *)
(* with room left keeps nobody waiting in its cache.                       *)
(***************************************************************************)
TablesSound ==
  \A n \in Live, i \in Buckets :
    LET b   == table[n][i]
        all == b.contacts \o b.cache
    IN  /\ Len(b.contacts) <= K /\ Len(b.cache) <= K
        /\ Cardinality(Names(all)) = Len(all)
        /\ \A id \in Names(all) : id # n /\ bucket_index(n, id) = i
        /\ b.cache # <<>> => is_full(b)
        /\ \A c \in ToSet(all) : ~is_dead(c)

(***************************************************************************)
(* "Established contacts claim bucket slots before unknown newcomers ...   *)
(* the basis of eclipse resistance" (connect): whoever introduces whom, a  *)
(* contact leaves its bucket only by failing to answer, or with the whole  *)
(* table.                                                                  *)
(***************************************************************************)
EstablishedStays ==
  [][\A n \in Live, i \in Buckets :
       \A c \in ToSet(table[n][i].contacts) :
         \/ c.id \in Names(table'[n][i].contacts)
         \/ c.failed = STRIKES - 1 /\ MarkFailed(n, c.id)
         \/ Restart(n)]_vars

(***************************************************************************)
(* A table is well formed, and its first comers keep their places.         *)
(***************************************************************************)
TablesHold == []TablesSound /\ EstablishedStays

\* Every node knows a node in each part of the id space there is one in, and
\* nobody who is gone.
TablesCover ==
  \A n \in Live :
    /\ \A c \in InBuckets(table[n]) : c.id \in Live
    /\ \A x \in Live \ {n} : table[n][bucket_index(n, x)].contacts # <<>>

(***************************************************************************)
(* When the tables cover the id space, a lookup finds every node of the    *)
(* mesh, from everywhere, although nobody knows all of them.               *)
(***************************************************************************)
LookupFinds ==
  TablesCover =>
    \A n \in Live : \A x \in Live \ {n} : x \in ToSet(dht_find_node(n, x))

=============================================================================
