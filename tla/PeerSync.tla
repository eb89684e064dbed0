------------------------------ MODULE PeerSync ------------------------------
(***************************************************************************)
(* Two explorers that list each other as peers and synchronise over TCP:   *)
(* tick_p2p, sync_peers, boot_persist and persist_all of explorer.rs and   *)
(* the two ends of the exchanges of net.rs.                                *)
(*                                                                         *)
(* An explorer is one thread: while it waits for its peer in sync_peers,   *)
(* or serves one connection, it accepts no other, mines nothing and ticks  *)
(* no clock.  pc[n] says what n is doing:                                  *)
(*   "idle"            between ticks;                                      *)
(*   "wantInventory", "wantHeaders", "wantBodies"                          *)
(*                     client of headers-first, waiting for that message;  *)
(*   "redial"          client about to fall back to the full dump;         *)
(*   "wantDump"        client of the full dump, waiting for it;            *)
(*   "readInventory", "readGetHeaders", "readGetBodies"                    *)
(*                     server of headers-first, waiting for that message;  *)
(*   "readDump"        server of the full dump that has written its own;   *)
(*   "down"            crashed.                                            *)
(*                                                                         *)
(* conn[n] is the connection n opened last.  A client that gives up before *)
(* it was accepted leaves data in the backlog that changes nothing when it *)
(* is served later, so the connection is dropped with it; and n dials      *)
(* again only when the server has let go of the last connection.           *)
(***************************************************************************)
EXTENDS SyncWire

CONSTANTS Node, NoConn,
          InitiallyBehind,   \* the nodes whose clocks are slow at first
          Early,             \* the blocks dated too far ahead of slow clocks
          MaxSlow,           \* bound: timeouts although the peer would answer
          MaxCrashes         \* bound: crashes

ASSUME SyncAssumption ==
  /\ Cardinality(Node) = 2
  /\ Parents \in [Block -> SUBSET Block]
  /\ \A b \in Block : Parents[b] \subseteq Block \ {b}

VARIABLES blocks,   \* node -> the blocks its ledger has, genesis apart
          durable,  \* node -> the blocks its log on disk has
          pc,       \* node -> what it is doing
          conn,     \* node -> the connection it opened, or NoConn
          todo,     \* node -> headers whose bodies are still to be asked for
          stats,    \* node -> [applied, errors] of this sync_headers_first
          mine,     \* node -> the dump it took before reading the peer's
          booting,  \* the nodes in the sync_peers of boot_persist
          behind,   \* the nodes whose clock is still slow
          slow, crashes

vars == <<blocks, durable, pc, conn, todo, stats, mine, booting, behind, slow, crashes>>
client == <<todo, stats, mine>>
world  == <<behind, slow, crashes>>

Peer(n) == CHOOSE p \in Node : p # n

NoStats == [applied |-> {}, errors |-> {}]
Refuses(n) == IF n \in behind THEN Early ELSE {}

Init ==
  /\ blocks = [n \in Node |-> {}] /\ durable = blocks
  /\ pc = [n \in Node |-> "idle"] /\ conn = [n \in Node |-> NoConn]
  /\ todo = [n \in Node |-> <<>>] /\ stats = [n \in Node |-> NoStats]
  /\ mine = [n \in Node |-> <<>>]
  /\ booting = Node /\ behind = InitiallyBehind
  /\ slow = 0 /\ crashes = 0

-----------------------------------------------------------------------------
\* A connection: what is under way in each direction, whether the server has
\* accepted it, and which ends are still open.
NewConn == [toServer |-> <<>>, toClient |-> <<>>, accepted |-> FALSE,
            clientOpen |-> TRUE, serverOpen |-> TRUE]

\* The client sends f; the server sends f.  A write to a closed end is lost.
Upload(c, f)   == IF c.serverOpen THEN [c EXCEPT !.toServer = Append(@, f)] ELSE c
Download(c, f) == IF c.clientOpen THEN [c EXCEPT !.toClient = Append(@, f)] ELSE c

ClientCloses(c) ==
  IF c.accepted /\ c.serverOpen THEN [c EXCEPT !.clientOpen = FALSE, !.toClient = <<>>]
                                ELSE NoConn
ServerCloses(c) ==
  IF c.clientOpen THEN [c EXCEPT !.serverOpen = FALSE, !.toServer = <<>>] ELSE NoConn

ClientStates == {"wantInventory", "wantHeaders", "wantBodies", "wantDump"}
ServerStates == {"readInventory", "readGetHeaders", "readGetBodies", "readDump"}

-----------------------------------------------------------------------------
\* sync_peers ends: what was received is persisted.
RoundEnds(n, c) ==
  /\ pc' = [pc EXCEPT ![n] = "idle"] /\ conn' = [conn EXCEPT ![n] = c]
  /\ durable' = [durable EXCEPT ![n] = blocks'[n]]
  /\ todo' = [todo EXCEPT ![n] = <<>>] /\ stats' = [stats EXCEPT ![n] = NoStats]
  /\ mine' = [mine EXCEPT ![n] = <<>>]
  /\ booting' = booting \ {n}

\* sync_headers_first failed or applied nothing: the full dump is tried next.
FallsBack(n) ==
  /\ pc' = [pc EXCEPT ![n] = "redial"]
  /\ conn' = [conn EXCEPT ![n] = ClientCloses(@)]
  /\ todo' = [todo EXCEPT ![n] = <<>>] /\ stats' = [stats EXCEPT ![n] = NoStats]
  /\ UNCHANGED <<durable, mine, booting>>

\* The client goes on waiting for the answer to f.
Asks(n, f, state) ==
  /\ conn' = [conn EXCEPT ![n] = Upload([@ EXCEPT !.toClient = Tail(@)], f)]
  /\ pc' = [pc EXCEPT ![n] = state]
  /\ UNCHANGED <<durable, mine, booting>>

\* Every 250 ticks, and first of all at boot: connect and send the inventory.
StartRound(n) ==
  /\ pc[n] = "idle" /\ conn[n] = NoConn /\ pc[Peer(n)] # "down"
  /\ conn' = [conn EXCEPT ![n] = Upload(NewConn, encode_inventory(blocks[n]))]
  /\ pc' = [pc EXCEPT ![n] = "wantInventory"]
  /\ UNCHANGED <<blocks, durable, client, booting, world>>

\* The peer refuses the connection, for both protocols.
PeerIsDown(n) ==
  /\ pc[n] \in {"idle", "redial"} /\ conn[n] = NoConn /\ pc[Peer(n)] = "down"
  /\ UNCHANGED <<blocks, world>>
  /\ RoundEnds(n, NoConn)

Incoming(n) == conn[n].toClient # <<>>
Received(n) == Head(conn[n].toClient)

RecvInventory(n) ==
  /\ pc[n] = "wantInventory" /\ Incoming(n)
  /\ UNCHANGED <<blocks, world>>
  /\ LET f == Received(n)
         missing == SelectSeq(f.items, LAMBDA b : b \notin blocks[n])
     IN  CASE ~decode_inventory(f) -> FallsBack(n)
           [] decode_inventory(f) /\ missing = <<>> ->
                RoundEnds(n, ClientCloses(conn[n]))
           [] OTHER -> /\ Asks(n, encode_getheaders(missing), "wantHeaders")
                       /\ UNCHANGED <<todo, stats>>

\* The bodies of the first chunk are asked for; no header at all ends the sync.
RecvHeaders(n) ==
  /\ pc[n] = "wantHeaders" /\ Incoming(n)
  /\ UNCHANGED <<blocks, world>>
  /\ LET f == Received(n)
     IN  CASE ~decode_headers(f) -> FallsBack(n)
           [] decode_headers(f) /\ f.items = <<>> ->
                RoundEnds(n, ClientCloses(conn[n]))
           [] OTHER ->
                \E order \in topo_sort_headers(f.items) :
                  /\ todo' = [todo EXCEPT ![n] = order]
                  /\ Asks(n, encode_getbodies(FirstChunk(order)), "wantBodies")
                  /\ UNCHANGED stats

\* A chunk of bodies is applied and the next one asked for.  At the end the
\* round is over unless nothing was applied although something was refused.
RecvBodies(n) ==
  /\ pc[n] = "wantBodies" /\ Incoming(n)
  /\ UNCHANGED world
  /\ LET f    == Received(n)
         r    == ReceiveBodies(blocks[n], stats[n].errors, Refuses(n), f.items)
         got  == stats[n].applied \cup (ToSet(f.items) \ r.errors)
         left == AfterChunk(todo[n])
     IN  IF ~decode_bodies(f) THEN UNCHANGED blocks /\ FallsBack(n)
         ELSE /\ blocks' = [blocks EXCEPT ![n] = r.have]
              /\ CASE left # <<>> ->
                        /\ Asks(n, encode_getbodies(FirstChunk(left)), "wantBodies")
                        /\ todo' = [todo EXCEPT ![n] = left]
                        /\ stats' = [stats EXCEPT ![n] = [applied |-> got, errors |-> r.errors]]
                   [] left = <<>> /\ got = {} /\ r.errors # {} -> FallsBack(n)
                   [] OTHER -> RoundEnds(n, ClientCloses(conn[n]))

\* pull_blocks_timeout: connect, take our own dump, and wait for the peer's.
Redial(n) ==
  /\ pc[n] = "redial" /\ conn[n] = NoConn /\ pc[Peer(n)] # "down"
  /\ conn' = [conn EXCEPT ![n] = NewConn]
  /\ mine' = [mine EXCEPT ![n] = Linearized(blocks[n])]
  /\ pc' = [pc EXCEPT ![n] = "wantDump"]
  /\ UNCHANGED <<blocks, durable, todo, stats, booting, world>>

\* The peer's dump is applied up to the first refusal; our own goes back when
\* nothing was refused.
RecvDump(n) ==
  /\ pc[n] = "wantDump" /\ Incoming(n)
  /\ UNCHANGED world
  /\ LET f == Received(n)
         r == apply_decoded(blocks[n], Refuses(n), f.items)
         answered == IF r.ok THEN Upload(conn[n], encode_records(mine[n])) ELSE conn[n]
     IN  IF decode_records(f)
         THEN /\ blocks' = [blocks EXCEPT ![n] = r.have]
              /\ RoundEnds(n, ClientCloses(answered))
         ELSE UNCHANGED blocks /\ RoundEnds(n, ClientCloses(conn[n]))

-----------------------------------------------------------------------------
\* The peer of n holds the connection of n and is working on it.
Attended(n) == conn[n] # NoConn /\ conn[n].accepted /\ conn[n].serverOpen

\* Mutant of the next: a read without a timeout.
ServerGone(n) == ~conn[n].serverOpen

(***************************************************************************)
(* A read of the client n fails: the server closed the connection, or      *)
(* nothing came within the timeout.  Nothing can come from a peer that     *)
(* waits for something else; and since a server turns to the full dump     *)
(* only when its own read has timed out, after the same 800 ms, a client   *)
(* of the dump may always give up first, except at boot, when it has 3 s.  *)
(* Any other timeout means that the network was slow.                      *)
(***************************************************************************)
Unanswered(n) ==
  \/ ~conn[n].serverOpen
  \/ ~conn[n].accepted /\ pc[Peer(n)] # "idle"
  \/ pc[n] = "wantDump" /\ n \notin booting

ReadFails(n) ==
  /\ UNCHANGED blocks
  /\ IF pc[n] = "wantDump" THEN RoundEnds(n, ClientCloses(conn[n])) ELSE FallsBack(n)

GiveUp(n) ==
  /\ pc[n] \in ClientStates /\ ~Incoming(n) /\ Unanswered(n)
  /\ ReadFails(n) /\ UNCHANGED world

GiveUpSlow(n) ==
  /\ pc[n] \in ClientStates /\ ~Incoming(n) /\ ~Unanswered(n)
  /\ ReadFails(n)
  /\ slow < MaxSlow /\ slow' = slow + 1
  /\ UNCHANGED <<behind, crashes>>

-----------------------------------------------------------------------------
\* The server s of the connection that c opened.
Serves(s, c, state) == s = Peer(c) /\ pc[s] = state /\ Attended(c)
Pending(c) == conn[c].toServer # <<>>
Asked(c)   == Head(conn[c].toServer)

\* The server stays in the exchange: f goes out, the request is consumed.
Answers(s, c, f, state) ==
  /\ conn' = [conn EXCEPT ![c] = Download([@ EXCEPT !.toServer = Tail(@)], f)]
  /\ pc' = [pc EXCEPT ![s] = state]
  /\ UNCHANGED <<blocks, durable, client, booting, world>>

\* serve_headers_first failed: serve_exchange writes the full dump on the same
\* stream and waits for one.
TurnsToDump(s, c, left) ==
  /\ conn' = [conn EXCEPT ![c] =
                Download([@ EXCEPT !.toServer = left], encode_records(Linearized(blocks[s])))]
  /\ pc' = [pc EXCEPT ![s] = "readDump"]
  /\ UNCHANGED <<blocks, durable, client, booting, world>>

Accept(s, c) ==
  /\ s = Peer(c) /\ pc[s] = "idle" /\ s \notin booting
  /\ conn[c] # NoConn /\ ~conn[c].accepted /\ conn[c].serverOpen
  /\ conn' = [conn EXCEPT ![c].accepted = TRUE]
  /\ pc' = [pc EXCEPT ![s] = "readInventory"]
  /\ UNCHANGED <<blocks, durable, client, booting, world>>

ServeInventory(s, c) ==
  /\ Serves(s, c, "readInventory") /\ Pending(c)
  /\ IF decode_inventory(Asked(c))
     THEN Answers(s, c, encode_inventory(blocks[s]), "readGetHeaders")
     ELSE TurnsToDump(s, c, Tail(conn[c].toServer))

ServeHeaders(s, c) ==
  /\ Serves(s, c, "readGetHeaders") /\ Pending(c)
  /\ IF decode_getheaders(Asked(c))
     THEN Answers(s, c, encode_headers(HeadersFor(blocks[s], Asked(c).items)), "readGetBodies")
     ELSE TurnsToDump(s, c, Tail(conn[c].toServer))

ServeBodies(s, c) ==
  /\ Serves(s, c, "readGetBodies") /\ Pending(c)
  /\ IF decode_getbodies(Asked(c))
     THEN Answers(s, c, encode_bodies(BodiesFor(blocks[s], Asked(c).items)), "readGetBodies")
     ELSE TurnsToDump(s, c, Tail(conn[c].toServer))

\* The server lets go of the connection; `persist' when it calls persist_all.
HangsUp(s, c, persist) ==
  /\ pc' = [pc EXCEPT ![s] = "idle"]
  /\ conn' = [conn EXCEPT ![c] = ServerCloses(@)]
  /\ durable' = IF persist THEN [durable EXCEPT ![s] = blocks'[s]] ELSE durable
  /\ UNCHANGED <<client, booting, world>>

\* A read of the server fails: the client closed the connection, or sends
\* nothing because it waits for the dump.  While bodies are served that is the
\* regular end; elsewhere serve_exchange is tried, and ends with no records.
ServerReadFails(s, c) ==
  /\ s = Peer(c) /\ pc[s] \in ServerStates /\ Attended(c) /\ ~Pending(c)
  /\ ~conn[c].clientOpen \/ (pc[s] = "readInventory" /\ pc[c] = "wantDump")
  /\ CASE pc[s] = "readGetBodies" -> UNCHANGED blocks /\ HangsUp(s, c, TRUE)
       [] pc[s] = "readDump"      -> UNCHANGED blocks /\ HangsUp(s, c, FALSE)
       [] OTHER                   -> TurnsToDump(s, c, <<>>)

\* The client's dump is applied up to the first refusal.  Nothing is persisted
\* when one was refused, even though others were applied.
ServeDump(s, c) ==
  /\ Serves(s, c, "readDump") /\ Pending(c)
  /\ LET f == Asked(c)
         r == apply_decoded(blocks[s], Refuses(s), f.items)
     IN  IF decode_records(f)
         THEN /\ blocks' = [blocks EXCEPT ![s] = r.have]
              /\ HangsUp(s, c, r.ok /\ f.items # <<>>)
         ELSE UNCHANGED blocks /\ HangsUp(s, c, FALSE)

-----------------------------------------------------------------------------
\* A block is mined between two ticks, and persisted at once.  Whoever mines a
\* block dates it by its own clock.
Mine(n, b) ==
  /\ pc[n] = "idle" /\ n \notin booting
  /\ b \notin UNION {blocks[m] : m \in Node}
  /\ Parents[b] \subseteq blocks[n] /\ b \notin Refuses(n)
  /\ blocks' = [blocks EXCEPT ![n] = @ \cup {b}]
  /\ durable' = [durable EXCEPT ![n] = blocks'[n]]
  /\ UNCHANGED <<pc, conn, client, booting, world>>

ClockCatchesUp(n) ==
  /\ n \in behind /\ behind' = behind \ {n}
  /\ UNCHANGED <<blocks, durable, pc, conn, client, booting, slow, crashes>>

\* The process ends: its connections break and only the log is left.
Crash(n) ==
  /\ pc[n] # "down" /\ crashes < MaxCrashes
  /\ crashes' = crashes + 1
  /\ pc' = [pc EXCEPT ![n] = "down"]
  /\ blocks' = [blocks EXCEPT ![n] = durable[n]]
  /\ conn' = [c \in Node |->
                CASE conn[c] = NoConn -> NoConn
                  [] conn[c] # NoConn /\ c = n -> ClientCloses(conn[c])
                  [] OTHER -> ServerCloses(conn[c])]
  /\ todo' = [todo EXCEPT ![n] = <<>>] /\ stats' = [stats EXCEPT ![n] = NoStats]
  /\ mine' = [mine EXCEPT ![n] = <<>>]
  /\ UNCHANGED <<durable, booting, behind, slow>>

\* boot_persist: the log is loaded, and sync_peers runs before anything else.
Restart(n) ==
  /\ pc[n] = "down"
  /\ pc' = [pc EXCEPT ![n] = "idle"]
  /\ booting' = booting \cup {n}
  /\ UNCHANGED <<blocks, durable, conn, client, world>>

-----------------------------------------------------------------------------
ClientStep(n) ==
  \/ PeerIsDown(n)   \/ RecvInventory(n) \/ RecvHeaders(n) \/ RecvBodies(n)
  \/ Redial(n)       \/ RecvDump(n)      \/ GiveUp(n)

ServerStep(s, c) ==
  \/ ServeInventory(s, c) \/ ServeHeaders(s, c) \/ ServeBodies(s, c)
  \/ ServerReadFails(s, c) \/ ServeDump(s, c)

Next ==
  \/ \E n \in Node : \/ StartRound(n) \/ ClientStep(n) \/ GiveUpSlow(n)
                     \/ ClockCatchesUp(n) \/ Crash(n) \/ Restart(n)
  \/ \E n \in Node, b \in Block : Mine(n, b)
  \/ \E s, c \in Node : Accept(s, c) \/ ServerStep(s, c)

(***************************************************************************)
(* Each process goes on with what it is doing and is restarted by its      *)
(* supervisor; a clock that is slow catches up.  A read ends after its     *)
(* timeout (strong fairness of GiveUp).  The periods of the two            *)
(* processes are not locked to each other, so not every dial finds the     *)
(* peer busy (strong fairness of a dial to an idle peer), nor dialling     *)
(* just before it accepts (strong fairness of accepting a first dial).     *)
(* Nothing is assumed about mining, crashes and slow timeouts.             *)
(***************************************************************************)
Fairness ==
  /\ \A n \in Node : /\ SF_vars(StartRound(n) /\ pc[Peer(n)] = "idle")
                     /\ WF_vars(StartRound(n))
                     /\ WF_vars(ClientStep(n)) /\ SF_vars(GiveUp(n))
                     /\ WF_vars(Restart(n))    /\ WF_vars(ClockCatchesUp(n))
  /\ \A s, c \in Node : /\ WF_vars(ServerStep(s, c)) /\ WF_vars(Accept(s, c))
                        /\ SF_vars(Accept(s, c) /\ pc[c] = "wantInventory")

Spec == Init /\ [][Next]_vars /\ Fairness

-----------------------------------------------------------------------------
(***************************************************************************)
(* The bodies of a headers-first sync apply in the order in which they are *)
(* asked for: one is refused only because it is staked, because the clock  *)
(* is slow, or because one of its parents was refused in the same sync.    *)
(***************************************************************************)
BodiesApplyInOrder ==
  \A n \in Node :
    pc[n] = "wantBodies" /\ Incoming(n) /\ decode_bodies(Received(n)) =>
      LET errors == ReceiveBodies(blocks[n], stats[n].errors, Refuses(n),
                                  Received(n).items).errors
      IN  \A b \in errors \ stats[n].errors :
            b \in Staked \cup Refuses(n) \/ Parents[b] \cap errors # {}

(***************************************************************************)
(* Every exchange ends, whoever breaks off, crashes or dials back in the   *)
(* meantime: no explorer is kept from its loop for ever.                   *)
(***************************************************************************)
ExchangesEnd ==
  \A n \in Node : pc[n] \in ClientStates \cup ServerStates
                    ~> pc[n] \in {"idle", "down"}

(***************************************************************************)
(* The two ledgers end up with the same blocks, up to staked blocks and    *)
(* what is built on them, which headers-first refuses, unless the two      *)
(* processes collide for ever: dials are 10 s apart and a round that       *)
(* collides takes 1.6 s, so again and again neither is busy.               *)
(***************************************************************************)
NotAlwaysColliding == []<>(\A n \in Node : pc[n] = "idle")

Plain == {b \in Block : ({b} \cup PastOf(b)) \cap Staked = {}}

CatchesUp ==
  NotAlwaysColliding =>
    <>[](\A n, m \in Node : blocks[n] \cap Plain = blocks[m] \cap Plain)

=============================================================================
