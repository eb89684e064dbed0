---------------------------- MODULE GossipProofs ----------------------------
(***************************************************************************)
(* Proofs about the gossip mesh: bans hold, floods reach everybody, the    *)
(* queue of a tick is bounded and the peer graph closes.                   *)
(*                                                                         *)
(* A tick delivers the whole queue, and each delivery appends to the next  *)
(* one.  What waits is therefore one sequence: the rest of the queue that  *)
(* is delivered, then the queue that is filled (Rest).  The invariant is   *)
(* about the mesh and what waits, holds after every single delivery, and   *)
(* is at both ends of a tick one about the mesh and its queue.             *)
(***************************************************************************)
EXTENDS Gossip, FiniteSetTheorems, TLAPS

\* The three loops of the mesh: a tick, and what one node sends to its targets.
DeliverBody(c, d, acc, e) == deliver(acc, e)
SendBody(c, d, acc, to) ==
  enqueue(acc, [kind |-> c.kind, from |-> c.from, to |-> to, body |-> c.body])
NoSummand(c, x) == 0

Ticks == INSTANCE LoopProofs WITH op <- DeliverBody, val <- NoSummand
Sends == INSTANCE LoopProofs WITH op <- SendBody, val <- NoSummand

-----------------------------------------------------------------------------
Hello == {e \in [kind : {"hello"}, from : Name, to : Name, body : SUBSET Name] : e.from # e.to}
Message ==
  {e \in [kind : {"item"}, from : Name, to : Name, body : {{i} : i \in Item}] : e.from # e.to}
Envelope == Hello \cup Message

Limits == [messages : 0 .. MaxMessages, bytes : Nat, start : Nat]

HardType ==
  [tick : Nat, rate : [Name -> Limits], known : [Name -> SUBSET Item], score : [Name -> Int],
   ban : [Name -> {NotBanned} \cup Nat], file : UNION {[S -> Nat] : S \in SUBSET Name}]

MeshType ==
  [peers : [Name -> SUBSET Name], queue : Seq(Envelope), seen : [Name -> SUBSET Item],
   has : [Name -> SUBSET Item], h : HardType, lost : BOOLEAN,
   late : SUBSET (Name \X Name), quiet : Nat, calls : Nat]

\* What a peer has queued is counted in its window.
WindowFits(m) ==
  \A n \in Name :
    Cardinality({k \in DOMAIN m.queue : m.queue[k].from = n})
      <= CurrentRate(m.h, n).messages

\* Whoever is banned is in the file.
Filed(h) ==
  \A p \in Name : is_banned(h, p) =>
    p \in DOMAIN h.file /\ (h.file[p] = Forever \/ 0 < h.file[p])

-----------------------------------------------------------------------------
\* Item i waits in s for x, at one of the places ks.
WaitsAt(s, ks, x, i) == \E k \in ks : IsItem(s[k]) /\ s[k].to = x /\ s[k].body = {i}
Waits(s, x, i) == WaitsAt(s, DOMAIN s, x, i)

\* A hello from n waits for x; one from anybody that names y waits for x.
Greets(s, n, x) == \E k \in DOMAIN s : IsHello(s[k]) /\ s[k].from = n /\ s[k].to = x
Names(s, x, y) == \E k \in DOMAIN s : IsHello(s[k]) /\ s[k].to = x /\ y \in s[k].body

\* What a node has can stand without anything it lacks.
Closed(m) == \A n \in Name : \A i \in m.has[n] : Needs(i) \subseteq m.has[n]

\* Who has an item, or sends it, has it on its way to all its peers.
Offered(m, s) ==
  \A n \in Name : \A x \in m.peers[n] : \A i \in m.has[n] :
    m.lost \/ <<n, x>> \in m.late \/ i \in m.seen[x] \/ Waits(s, x, i)

\* With nothing refused or late, all that is seen is taken.
Taken(m) == m.lost \/ m.late # {} \/ \A n \in Name : m.seen[n] \subseteq m.has[n]

\* With nothing refused or late, no block waits before those below it.
InStep(m, s) ==
  m.lost \/ m.late # {} \/
  \A k \in DOMAIN s : IsItem(s[k]) =>
    \A i \in s[k].body : \A j \in Needs(i) :
      j \in m.has[s[k].to] \/ WaitsAt(s, 1 .. k - 1, s[k].to, j)

SenderSaw(m, s) == \A k \in DOMAIN s : IsItem(s[k]) => s[k].body \subseteq m.seen[s[k].from]

\* Before anything is announced nobody has anything, or its edges are late.
FirstSeen(m) ==
  \A n \in Name : m.has[n] = {} \/ (\E x \in Name : m.seen[x] # {}) \/ {n} \X Name \subseteq m.late

Flooding(m, s) ==
  Closed(m) /\ Offered(m, s) /\ Taken(m) /\ InStep(m, s) /\ SenderSaw(m, s) /\ FirstSeen(m)

\* An edge is answered, or its hello waits.
Answered(m, s) ==
  \A n \in Name : \A x \in m.peers[n] : m.lost \/ n \in m.peers[x] \/ Greets(s, n, x)

\* Of two peers of a node one knows the other, or a hello that says so waits.
Introduced(m, s) ==
  \A n \in Name : \A x, y \in m.peers[n] :
    \/ m.lost \/ x = y \/ y \in m.peers[x] \/ x \in m.peers[y]
    \/ Names(s, x, y) \/ Names(s, y, x)

Closing(m, s) == Answered(m, s) /\ Introduced(m, s)

\* The mesh m, with s waiting; nobody is a peer of itself.
Sound(m, s) ==
  /\ m \in MeshType /\ s \in Seq(Envelope) /\ \A n \in Name : n \notin m.peers[n]
  /\ WindowFits(m) /\ Filed(m.h) /\ Flooding(m, s) /\ Closing(m, s)

Inv == Sound(mesh, mesh.queue)

-----------------------------------------------------------------------------
(***************************************************************************)
(* The hardening: types, the bans and their file.                          *)
(***************************************************************************)

LEMMA OfTwo ==
  ASSUME NEW a \in Int, NEW b \in Int
  PROVE  Max({a, b}) \in {a, b} /\ Min({a, b}) \in {a, b}
<1>1. \E x \in {a, b} : \A y \in {a, b} : x >= y
  OBVIOUS
<1>2. \E x \in {a, b} : \A y \in {a, b} : x <= y
  OBVIOUS
<1> DEFINE S == {a, b}
<1> HIDE DEF S
<1>3. Max(S) \in S
  BY <1>1, Zenon DEF Max, S
<1>4. Min(S) \in S
  BY <1>2, Zenon DEF Min, S
<1> QED
  BY <1>3, <1>4 DEF S

LEMMA MinOfTwo ==
  ASSUME NEW a \in Int, NEW b \in Int
  PROVE  Min({a, b}) <= a
<1>1. \E x \in {a, b} : \A y \in {a, b} : x <= y
  OBVIOUS
<1> DEFINE S == {a, b}
<1>2. a \in S
  OBVIOUS
<1> HIDE DEF S
<1>3. \A y \in S : Min(S) <= y
  BY <1>1, Zenon DEF Min, S
<1> QED
  BY <1>2, <1>3 DEF S

\* A rate-limited message changes the sender's window and nothing else.
LEMMA RateType ==
  ASSUME NEW h \in HardType, NEW p \in Name, NEW b \in Nat
  PROVE  LET r == check_rate_limit(h, p, b)
         IN  /\ r \in HardType
             /\ r = [h EXCEPT !.rate[p] = r.rate[p]]
             /\ CurrentRate(h, p) \in Limits /\ CurrentRate(r, p) = r.rate[p]
             /\ r.rate[p].messages =
                  CurrentRate(h, p).messages + (IF Allowed(h, p, b) THEN 1 ELSE 0)
<1>1. CurrentRate(h, p) \in Limits
  BY HardeningAssumption DEF CurrentRate, HardType, Limits, FreshRate
<1> DEFINE c == CurrentRate(h, p)
           new == IF WithinLimits(c, b)
                  THEN [c EXCEPT !.bytes = @ + b, !.messages = @ + 1] ELSE c
           r == check_rate_limit(h, p, b)
<1>2. r = [h EXCEPT !.rate[p] = new]
  BY DEF check_rate_limit
<1>3. c.start = h.tick \/ ~(h.tick >= c.start + Window)
  BY DEF CurrentRate, FreshRate
<1>4. new \in Limits /\ new.start = c.start
      /\ new.messages = c.messages + (IF Allowed(h, p, b) THEN 1 ELSE 0)
  <2> c \in Limits
    BY <1>1
  <2>0. Allowed(h, p, b) <=> WithinLimits(c, b)
    BY DEF Allowed
  <2> HIDE DEF c
  <2>1. CASE WithinLimits(c, b)
    <3>1. c.messages + 1 \in 0 .. MaxMessages /\ c.bytes + b \in Nat
      BY <2>1, HardeningAssumption DEF WithinLimits, Limits
    <3> QED
      BY <2>0, <2>1, <3>1 DEF Limits
  <2>2. CASE ~WithinLimits(c, b)
    BY <2>0, <2>2, HardeningAssumption DEF Limits
  <2> QED
    BY <2>1, <2>2
<1> HIDE DEF new
<1>5. r \in HardType /\ r.rate[p] = new /\ r.tick = h.tick
  BY <1>2, <1>4 DEF HardType
<1>6. CurrentRate(r, p) = r.rate[p]
  <2>1. ~(r.tick >= r.rate[p].start + Window)
    <3> c.start \in Nat /\ h.tick \in Nat
      BY <1>1 DEF HardType, Limits
    <3> QED
      BY <1>3, <1>4, <1>5, HardeningAssumption
  <2> QED
    BY <2>1 DEF CurrentRate
<1>7. r = [h EXCEPT !.rate[p] = r.rate[p]]
  BY <1>2, <1>5
<1> QED
  BY <1>1, <1>4, <1>5, <1>6, <1>7


\* What is saved is everybody who is banned, and nothing else changes.
LEMMA SaveHolds ==
  ASSUME NEW h \in HardType
  PROVE  /\ save_bans(h) \in HardType /\ Filed(save_bans(h))
         /\ save_bans(h) = [h EXCEPT !.file = save_bans(h).file]
<1> DEFINE B == {q \in Name : is_banned(h, q)}
           f == [p \in B |-> IF h.ban[p] = NotBanned THEN Forever ELSE h.ban[p]]
           s == save_bans(h)
<1>1. f \in [B -> Nat] /\ B \in SUBSET Name
  BY DEF HardType, NotBanned, Forever
<1>2. s = [h EXCEPT !.file = f]
  BY DEF save_bans
<1>3. \A p \in B : f[p] = Forever \/ 0 < f[p]
  BY DEF HardType, NotBanned, Forever
<1> HIDE DEF f
<1>4. s \in HardType
  BY <1>1, <1>2 DEF HardType
<1>5. s.file = f /\ s.score = h.score /\ s.ban = h.ban /\ s.tick = h.tick
  BY <1>2 DEF HardType
<1>6. \A p \in Name : is_banned(s, p) => p \in B
  BY <1>5 DEF is_banned, Barred
<1>7. DOMAIN s.file = B
  BY <1>1, <1>5
<1>8. Filed(s)
  BY <1>3, <1>5, <1>6, <1>7 DEF Filed
<1>9. s = [h EXCEPT !.file = s.file]
  BY <1>2, <1>5
<1> QED
  BY <1>4, <1>8, <1>9

\* Somebody is unbanned, or the file is written.
LEMMA FiledStays ==
  ASSUME NEW h \in HardType, Filed(h), NEW g \in HardType, g.file = h.file,
         \A p \in Name : is_banned(g, p) => is_banned(h, p)
  PROVE  Filed(g)
BY DEF Filed

\* An item changes its sender's score and what it is known to have announced,
\* and the file; it never changes who is banned by hand, or until when.
LEMMA ItemScored ==
  ASSUME NEW h \in HardType, Filed(h), NEW p \in Name, NEW i \in Item
  PROVE  LET r == on_item(h, p, i, TRUE)
         IN  /\ r \in HardType /\ Filed(r)
             /\ r.tick = h.tick /\ r.rate = h.rate /\ r.ban = h.ban
<1> DEFINE delta == CASE ~TRUE -> ScoreInvalid
                      [] TRUE /\ i \in h.known[p] -> ScoreDuplicate
                      [] TRUE /\ i \notin h.known[p] -> ScoreValid
           s == Max({MinScore, Min({MaxScore, h.score[p] + delta})})
           k == h.known[p] \cup {i}
           g == [h EXCEPT !.score[p] = s, !.known[p] = k]
           r == on_item(h, p, i, TRUE)
<1>1. r = SaveIfBanned(is_banned(h, p), g, p)
  BY DEF on_item
<1>2. s \in Int
  <2>1. delta \in Int
    BY HardeningAssumption
  <2> HIDE DEF delta
  <2>2. h.score[p] + delta \in Int
    BY <2>1 DEF HardType
  <2> DEFINE t == h.score[p] + delta
             u == Min({MaxScore, t})
  <2> HIDE DEF t
  <2>3. u \in Int
    BY <2>2, OfTwo, HardeningAssumption DEF t
  <2> HIDE DEF u
  <2>4. Max({MinScore, u}) \in Int
    BY <2>3, OfTwo, HardeningAssumption
  <2> QED
    BY <2>4 DEF u, t
<1>3. k \in SUBSET Item
  BY DEF HardType
<1> HIDE DEF s, k
<1>4. g \in HardType
  BY <1>2, <1>3 DEF HardType
<1>5. /\ g.tick = h.tick /\ g.rate = h.rate /\ g.ban = h.ban /\ g.file = h.file
      /\ \A q \in Name : q # p => g.score[q] = h.score[q]
  BY DEF HardType
<1>6. \A q \in Name : q # p => (is_banned(g, q) <=> is_banned(h, q))
  BY <1>5 DEF is_banned, Barred
<1> HIDE DEF g, r
<1>7. CASE is_banned(g, p) /\ ~is_banned(h, p)
  <2>1. r = save_bans(g)
    BY <1>1, <1>7 DEF SaveIfBanned
  <2>2. r \in HardType /\ Filed(r) /\ r = [g EXCEPT !.file = r.file]
    BY <1>4, <2>1, SaveHolds
  <2>3. r.tick = g.tick /\ r.rate = g.rate /\ r.ban = g.ban
    BY <1>4, <2>2 DEF HardType
  <2> QED
    BY <1>5, <2>2, <2>3 DEF r
<1>8. CASE ~(is_banned(g, p) /\ ~is_banned(h, p))
  <2>1. r = g
    BY <1>1, <1>8 DEF SaveIfBanned
  <2>2. \A q \in Name : is_banned(g, q) => is_banned(h, q)
    BY <1>6, <1>8
  <2>3. Filed(g)
    BY <1>4, <1>5, <2>2, FiledStays
  <2> QED
    BY <1>4, <1>5, <2>1, <2>3 DEF r
<1> QED
  BY <1>7, <1>8

\* After the clock has moved, the bans that are left are permanent or later.
LEMMA TickExpires ==
  ASSUME NEW h \in HardType, Filed(h)
  PROVE  LET t == tick(h)
         IN  /\ t \in HardType /\ Filed(t)
             /\ \A p \in Name : t.ban[p] = NotBanned \/ Barred(t, p)
<1> DEFINE now == h.tick + 1
           expired == {p \in Name : h.ban[p] > Forever /\ now >= h.ban[p]}
           ban == [p \in Name |-> IF p \in expired THEN NotBanned ELSE h.ban[p]]
           later == [h EXCEPT !.tick = now, !.ban = ban]
           t == tick(h)
<1>1. t = IF expired = {} THEN later ELSE save_bans(later)
  BY DEF tick
<1>2. now \in Nat /\ ban \in [Name -> {NotBanned} \cup Nat]
  BY DEF HardType
<1>3. \A p \in Name : ban[p] = NotBanned \/ ban[p] = Forever \/ now < ban[p]
  BY <1>2 DEF HardType, NotBanned, Forever
<1>4. expired = {} => ban = h.ban
  BY DEF HardType
<1>5. \A p \in Name : now < ban[p] => h.tick < ban[p]
  BY <1>2 DEF HardType, NotBanned
<1> HIDE DEF now, ban
<1>6. later \in HardType /\ later.tick = now /\ later.ban = ban
      /\ later.file = h.file /\ later.score = h.score
  BY <1>2 DEF HardType
<1> HIDE DEF later, expired, t
<1>7. CASE expired = {}
  <2>1. \A p \in Name : is_banned(later, p) => is_banned(h, p)
    BY <1>4, <1>5, <1>6, <1>7 DEF is_banned, Barred
  <2>2. Filed(later)
    BY <1>6, <2>1, FiledStays
  <2> QED
    BY <1>1, <1>3, <1>6, <1>7, <2>2 DEF Barred, t
<1>8. CASE expired # {}
  <2>1. t = save_bans(later)
    BY <1>1, <1>8
  <2>2. t \in HardType /\ Filed(t) /\ t = [later EXCEPT !.file = t.file]
    BY <1>6, <2>1, SaveHolds
  <2>3. t.tick = now /\ t.ban = ban
    BY <1>6, <2>2 DEF HardType
  <2> QED
    BY <1>3, <2>2, <2>3 DEF Barred, t
<1> QED
  BY <1>7, <1>8

\* The calls from outside keep the types, and write the file.
LEMMA CallsSave ==
  ASSUME NEW h \in HardType, NEW p \in Name, NEW g, NEW ticks \in Nat,
         g = ban_for(h, p, ticks) \/ g = unban(h, p)
  PROVE  g \in HardType /\ Filed(g) /\ g.tick = h.tick /\ g.rate = h.rate
<1> DEFINE until == IF ticks = 0 THEN Forever ELSE h.tick + ticks
           b == [h EXCEPT !.ban[p] = until]
           u == [h EXCEPT !.ban[p] = NotBanned, !.score[p] = 0]
<1>1. until \in Nat
  BY DEF HardType, Forever
<1> HIDE DEF until
<1>2. b \in HardType /\ b.tick = h.tick /\ b.rate = h.rate
  BY <1>1 DEF HardType
<1>3. u \in HardType /\ u.tick = h.tick /\ u.rate = h.rate
  <2>1. [h.ban EXCEPT ![p] = NotBanned] \in [Name -> {NotBanned} \cup Nat]
    BY DEF HardType
  <2>2. [h.score EXCEPT ![p] = 0] \in [Name -> Int]
    BY DEF HardType
  <2> QED
    BY <2>1, <2>2 DEF HardType
<1>4. g = save_bans(b) \/ g = save_bans(u)
  BY DEF ban_for, unban, until
<1> HIDE DEF b, u
<1>5. PICK x \in {b, u} : g = save_bans(x)
  BY <1>4
<1>6. x \in HardType /\ x.tick = h.tick /\ x.rate = h.rate
  BY <1>2, <1>3
<1>7. g \in HardType /\ Filed(g) /\ g = [x EXCEPT !.file = g.file]
  BY <1>5, <1>6, SaveHolds
<1>8. g.tick = x.tick /\ g.rate = x.rate
  BY <1>6, <1>7 DEF HardType
<1> QED
  BY <1>6, <1>7, <1>8

\* A new process bans whom the file bans.
LEMMA LoadBans ==
  ASSUME NEW h \in HardType, Filed(h)
  PROVE  LET g == load_bans(h.file)
         IN  /\ g \in HardType /\ Filed(g)
             /\ \A p \in Name : g.rate[p] = FreshRate /\ (is_banned(h, p) => is_banned(g, p))
<1> DEFINE f == h.file
           ban == [p \in Name |-> IF p \in DOMAIN f /\ (f[p] = Forever \/ 0 < f[p])
                                  THEN f[p] ELSE NotBanned]
           g == load_bans(f)
<1>1. PICK S \in SUBSET Name : f \in [S -> Nat]
  BY DEF HardType
<1>2. ban \in [Name -> {NotBanned} \cup Nat]
  BY <1>1
<1> HIDE DEF f, ban
<1>3. g = [NewHardening EXCEPT !.file = f, !.ban = ban]
  BY DEF load_bans, ban
<1>4. FreshRate \in Limits
  BY HardeningAssumption DEF FreshRate, Limits
<1> HIDE DEF g
<1>5. g \in HardType /\ g.file = f /\ g.ban = ban /\ g.tick = 0
      /\ \A p \in Name : g.rate[p] = FreshRate /\ g.score[p] = 0
  <2>1. g = [tick |-> 0, rate |-> [p \in Name |-> FreshRate], known |-> [p \in Name |-> {}],
             score |-> [p \in Name |-> 0], ban |-> ban, file |-> f]
    BY <1>3 DEF NewHardening
  <2> QED
    BY <1>1, <1>2, <1>4, <2>1 DEF HardType
<1>6. Filed(g)
  <2>1. ASSUME NEW p \in Name, is_banned(g, p)
        PROVE  p \in DOMAIN f /\ (f[p] = Forever \/ 0 < f[p])
    <3>1. ~(g.score[p] <= BanThreshold)
      BY <1>5, HardeningAssumption
    <3>2. ban[p] = Forever \/ 0 < ban[p]
      BY <1>5, <2>1, <3>1 DEF is_banned, Barred
    <3>3. ban[p] # NotBanned
      BY <3>2 DEF NotBanned, Forever
    <3> QED
      BY <3>3 DEF ban
  <2> QED
    BY <1>5, <2>1 DEF Filed
<1>7. ASSUME NEW p \in Name, is_banned(h, p) PROVE is_banned(g, p)
  <2>1. p \in DOMAIN f /\ (f[p] = Forever \/ 0 < f[p])
    BY <1>7 DEF Filed, f
  <2>2. ban[p] = f[p]
    BY <2>1 DEF ban
  <2> QED
    BY <1>5, <2>1, <2>2 DEF is_banned, Barred
<1> QED
  BY <1>5, <1>6, <1>7 DEF g, f


-----------------------------------------------------------------------------
(***************************************************************************)
(* The walk over a set of peers, and what is sent to them.                 *)
(***************************************************************************)

\* The names below x in S, of which the walk has been to all when it is at x.
Lower(S, x) == {y \in S : y < x}

LEMMA LowerIsPlace ==
  ASSUME NEW S \in SUBSET Name
  PROVE  LET n == Cardinality(S)
         IN  /\ n \in Nat
             /\ \A x \in S : Cardinality(Lower(S, x)) \in 0 .. n - 1
             /\ \A i \in 0 .. n - 1 : \E x \in S : Cardinality(Lower(S, x)) = i
             /\ \A x, y \in S : Cardinality(Lower(S, x)) = Cardinality(Lower(S, y)) => x = y
<1> DEFINE n == Cardinality(S)
<1>1. IsFiniteSet(S) /\ n \in Nat
  BY GossipAssumption, FS_Subset, FS_CardinalityType
<1>2. \A x \in S : x \in Nat
  BY GossipAssumption
<1>3. ASSUME NEW x \in S, NEW T \in SUBSET S, \A y \in S : y <= x => y \in T
      PROVE  Cardinality(Lower(S, x)) \in Nat /\ Cardinality(Lower(S, x)) < Cardinality(T)
  <2> DEFINE L == Lower(S, x)
  <2>1. L \in SUBSET T /\ x \notin L /\ x \in T /\ L \cup {x} \in SUBSET T /\ L \in SUBSET S
    BY <1>2, <1>3 DEF Lower
  <2> HIDE DEF L
  <2>2. IsFiniteSet(T) /\ IsFiniteSet(L) /\ Cardinality(L) \in Nat /\ Cardinality(T) \in Nat
    BY <1>1, <2>1, FS_Subset, FS_CardinalityType
  <2>3. Cardinality(L \cup {x}) = Cardinality(L) + 1
    BY <2>1, <2>2, FS_AddElement
  <2>4. Cardinality(L \cup {x}) <= Cardinality(T)
    BY <2>1, <2>2, FS_Subset
  <2> QED
    BY <2>2, <2>3, <2>4 DEF L
<1>4. ASSUME NEW x \in S PROVE Cardinality(Lower(S, x)) \in 0 .. n - 1
  <2>1. Cardinality(Lower(S, x)) \in Nat /\ Cardinality(Lower(S, x)) < n
    BY <1>3
  <2> QED
    BY <1>1, <2>1
<1>5. ASSUME NEW x \in S, NEW y \in S, x < y
      PROVE  Cardinality(Lower(S, x)) # Cardinality(Lower(S, y))
  <2>1. \A z \in S : z <= x => z \in Lower(S, y)
    BY <1>2, <1>5 DEF Lower
  <2>2. Lower(S, y) \in SUBSET S
    BY DEF Lower
  <2>3. Cardinality(Lower(S, x)) < Cardinality(Lower(S, y))
    BY <1>3, <2>1, <2>2
  <2>4. Cardinality(Lower(S, x)) \in Nat /\ Cardinality(Lower(S, y)) \in Nat
    BY <1>3
  <2> QED
    BY <2>3, <2>4
<1>6. ASSUME NEW x \in S, NEW y \in S, Cardinality(Lower(S, x)) = Cardinality(Lower(S, y))
      PROVE  x = y
  BY <1>2, <1>5, <1>6
<1>7. ASSUME NEW i \in 0 .. n - 1 PROVE \E x \in S : Cardinality(Lower(S, x)) = i
  <2> DEFINE f == [x \in S |-> Cardinality(Lower(S, x))]
             I == 0 .. n - 1
  <2>1. f \in Injection(S, I)
    <3>1. f \in [S -> I]
      BY <1>4
    <3> QED
      BY <1>6, <3>1 DEF Injection, IsInjective
  <2>2. IsFiniteSet(I) /\ Cardinality(I) = n
    <3>1. \A k \in Int : IsFiniteSet(0 .. k) /\ Cardinality(0 .. k) = IF 0 > k THEN 0 ELSE k - 0 + 1
      BY FS_Interval
    <3>2. n - 1 \in Int /\ n \in Nat
      BY <1>1
    <3> QED
      BY <3>1, <3>2
  <2>3. n = Cardinality(S)
    BY DEF n
  <2> HIDE DEF I, f
  <2>4. f \in Surjection(S, I)
    BY <2>1, <2>2, <2>3, FS_Injection
  <2>5. \E x \in S : f[x] = i
    BY <2>4 DEF Surjection, I
  <2> QED
    BY <2>5 DEF f
<1> HIDE DEF n
<1> QED
  BY <1>1, <1>4, <1>6, <1>7 DEF n

\* The walk over S comes to its members, all of them.
LEMMA WalkIsAll ==
  ASSUME NEW S \in SUBSET Name
  PROVE  LET n == Cardinality(S)
             q == InOrder(S)
         IN  /\ n \in Nat /\ DOMAIN q = 1 .. n
             /\ \A i \in 1 .. n : q[i] \in S
             /\ \A x \in S : \E i \in 1 .. n : q[i] = x
<1> DEFINE n == Cardinality(S)
           q == [i \in 1 .. n |-> CHOOSE x \in S : Cardinality(Lower(S, x)) = i - 1]
<1>1. /\ n \in Nat
      /\ \A x \in S : Cardinality(Lower(S, x)) \in 0 .. n - 1
      /\ \A i \in 0 .. n - 1 : \E x \in S : Cardinality(Lower(S, x)) = i
      /\ \A x, y \in S : Cardinality(Lower(S, x)) = Cardinality(Lower(S, y)) => x = y
  BY LowerIsPlace
<1>2. InOrder(S) = q
  BY Zenon DEF InOrder, Lower
<1> HIDE DEF n
<1>3. ASSUME NEW i \in 1 .. n PROVE q[i] \in S /\ Cardinality(Lower(S, q[i])) = i - 1
  <2>1. i - 1 \in 0 .. n - 1
    BY <1>1
  <2>2. \E x \in S : Cardinality(Lower(S, x)) = i - 1
    BY <1>1, <2>1
  <2> QED
    BY <2>2
<1>4. DOMAIN q = 1 .. n
  OBVIOUS
<1> HIDE DEF q
<1>5. ASSUME NEW x \in S PROVE \E i \in 1 .. n : q[i] = x
  <2> DEFINE c == Cardinality(Lower(S, x))
  <2>1. c \in 0 .. n - 1
    BY <1>1
  <2> HIDE DEF c
  <2>2. c + 1 \in 1 .. n /\ (c + 1) - 1 = c
    BY <1>1, <2>1
  <2>3. q[c + 1] \in S /\ Cardinality(Lower(S, q[c + 1])) = c
    BY <1>3, <2>2
  <2>4. q[c + 1] = x
    BY <1>1, <2>3 DEF c
  <2> QED
    BY <2>2, <2>4
<1> QED
  BY <1>1, <1>2, <1>3, <1>4, <1>5 DEF n


\* t continues s; what it continues it with.
Grows(s, t) == Len(s) <= Len(t) /\ \A k \in 1 .. Len(s) : t[k] = s[k]
After(s, t) == {t[k] : k \in Len(s) + 1 .. Len(t)}

\* r is m after the envelopes of E were offered to its queue: those that the
\* rate limit admits are appended, and any other is a loss.
Sent(m, r, E) ==
  /\ r \in MeshType
  /\ r.peers = m.peers /\ r.seen = m.seen /\ r.has = m.has /\ r.late = m.late
  /\ r.quiet = m.quiet /\ r.h.tick = m.h.tick /\ r.h.ban = m.h.ban
  /\ (Filed(m.h) => Filed(r.h)) /\ (WindowFits(m) => WindowFits(r)) /\ (m.lost => r.lost)
  /\ Grows(m.queue, r.queue) /\ After(m.queue, r.queue) \subseteq E
  /\ (r.lost \/ E \subseteq After(m.queue, r.queue))

\* Growing twice is growing.
LEMMA GrowsOn ==
  ASSUME NEW X, NEW s \in Seq(X), NEW t \in Seq(X), NEW u \in Seq(X), Grows(s, t), Grows(t, u)
  PROVE  Grows(s, u) /\ After(s, u) = After(s, t) \cup After(t, u)
<1> DEFINE a == Len(s)
           b == Len(t)
           c == Len(u)
<1>1. a \in Nat /\ b \in Nat /\ c \in Nat /\ a <= b /\ b <= c
  BY DEF Grows
<1>2. (\A k \in 1 .. a : t[k] = s[k]) /\ \A k \in 1 .. b : u[k] = t[k]
  BY DEF Grows
<1>3. After(s, u) = {u[k] : k \in a + 1 .. c} /\ After(t, u) = {u[k] : k \in b + 1 .. c}
      /\ After(s, t) = {t[k] : k \in a + 1 .. b}
  BY DEF After
<1>4. (Grows(s, u)) <=> (a <= c /\ \A k \in 1 .. a : u[k] = s[k])
  BY DEF Grows
<1> HIDE DEF a, b, c
<1>5. Grows(s, u)
  BY <1>1, <1>2, <1>4
<1>6. After(s, t) = {u[k] : k \in a + 1 .. b}
  BY <1>1, <1>2, <1>3
<1>7. a + 1 .. c = (a + 1 .. b) \cup (b + 1 .. c)
  BY <1>1
<1> QED
  BY <1>3, <1>5, <1>6, <1>7

LEMMA GrowsByNothing ==
  ASSUME NEW X, NEW s \in Seq(X), NEW t \in Seq(X), Grows(s, t), After(s, t) = {}
  PROVE  t = s
<1>1. /\ Len(s) \in Nat /\ Len(t) \in Nat /\ Len(s) <= Len(t)
      /\ \A k \in 1 .. Len(s) : t[k] = s[k]
  BY DEF Grows
<1>2. ~(Len(s) < Len(t))
  <2> SUFFICES ASSUME Len(s) < Len(t) PROVE FALSE
    OBVIOUS
  <2>1. Len(t) \in Len(s) + 1 .. Len(t)
    BY <1>1
  <2> QED
    BY <2>1 DEF After
<1>3. Len(t) = Len(s)
  BY <1>1, <1>2
<1> QED
  BY <1>1, <1>3

LEMMA SentOn ==
  ASSUME NEW m \in MeshType, NEW r, NEW u, NEW E, NEW F, Sent(m, r, E), Sent(r, u, F)
  PROVE  Sent(m, u, E \cup F)
<1>1. m.queue \in Seq(Envelope) /\ r.queue \in Seq(Envelope) /\ u.queue \in Seq(Envelope)
  BY DEF Sent, MeshType
<1>2. Grows(m.queue, r.queue) /\ Grows(r.queue, u.queue)
  BY DEF Sent
<1>3. /\ Grows(m.queue, u.queue)
      /\ After(m.queue, u.queue) = After(m.queue, r.queue) \cup After(r.queue, u.queue)
  BY <1>1, <1>2, GrowsOn
<1> QED
  BY <1>3 DEF Sent

LEMMA SentNothing ==
  ASSUME NEW m \in MeshType
  PROVE  Sent(m, m, {})
<1>1. m.queue \in Seq(Envelope)
  BY DEF MeshType
<1>2. Grows(m.queue, m.queue) /\ After(m.queue, m.queue) = {}
  BY <1>1 DEF Grows, After
<1> QED
  BY <1>2 DEF Sent

\* One envelope: it is appended and counted, or lost.
LEMMA EnqueueSends ==
  ASSUME NEW m \in MeshType, NEW e \in Envelope
  PROVE  Sent(m, enqueue(m, e), {e})
<1> DEFINE p == e.from
           b == BytesOf(e)
           g == check_rate_limit(m.h, p, b)
           ok == Allowed(m.h, p, b)
           q == IF ok THEN Append(m.queue, e) ELSE m.queue
           r == enqueue(m, e)
           old(n) == {k \in DOMAIN m.queue : m.queue[k].from = n}
           new(n) == {k \in DOMAIN q : q[k].from = n}
<1>1. p \in Name /\ p # e.to
  BY DEF Envelope, Hello, Message
<1>2. b \in Nat
  <2>1. CASE IsHello(e)
    <3>1. e.body \in SUBSET Name
      BY <2>1 DEF Envelope, Hello, Message, IsHello
    <3>2. IsFiniteSet(e.body) /\ Cardinality(e.body) \in Nat
      BY <3>1, GossipAssumption, FS_Subset, FS_CardinalityType
    <3> QED
      BY <2>1, <3>2 DEF BytesOf
  <2>2. CASE ~IsHello(e)
    BY <2>2 DEF BytesOf
  <2> QED
    BY <2>1, <2>2
<1>3. m.h \in HardType /\ m.queue \in Seq(Envelope)
  BY DEF MeshType
<1>4. r = [m EXCEPT !.queue = q, !.h = g, !.lost = IF ok THEN m.lost ELSE TRUE]
  BY <1>1 DEF enqueue, MeshType
<1> HIDE DEF b
<1>5. /\ g \in HardType /\ g = [m.h EXCEPT !.rate[p] = g.rate[p]]
      /\ CurrentRate(m.h, p) \in Limits /\ CurrentRate(g, p) = g.rate[p]
      /\ g.rate[p].messages = CurrentRate(m.h, p).messages + (IF ok THEN 1 ELSE 0)
  BY <1>1, <1>2, <1>3, RateType
<1>6. q \in Seq(Envelope) /\ Grows(m.queue, q) /\ After(m.queue, q) = IF ok THEN {e} ELSE {}
  <2>1. CASE ok
    <3>1. q = Append(m.queue, e)
      BY <2>1
    <3>2. /\ q \in Seq(Envelope) /\ Len(q) = Len(m.queue) + 1 /\ Len(m.queue) \in Nat
          /\ q[Len(m.queue) + 1] = e /\ \A k \in 1 .. Len(m.queue) : q[k] = m.queue[k]
      BY <1>3, <3>1
    <3> HIDE DEF q
    <3>3. Len(m.queue) + 1 .. Len(q) = {Len(m.queue) + 1}
      BY <3>2
    <3> QED
      BY <2>1, <3>2, <3>3 DEF Grows, After
  <2>2. CASE ~ok
    BY <1>3, <2>2 DEF Grows, After
  <2> QED
    BY <2>1, <2>2
<1>7. /\ g.tick = m.h.tick /\ g.ban = m.h.ban /\ g.score = m.h.score /\ g.file = m.h.file
      /\ \A n \in Name \ {p} : g.rate[n] = m.h.rate[n]
  BY <1>1, <1>3, <1>5 DEF HardType
<1>8. Filed(m.h) => Filed(g)
  BY <1>7 DEF Filed, is_banned, Barred
<1> HIDE DEF g, q, r
<1>9. /\ r \in MeshType /\ r.peers = m.peers /\ r.seen = m.seen /\ r.has = m.has
      /\ r.quiet = m.quiet
      /\ r.late = m.late /\ r.h = g /\ r.queue = q /\ r.lost = IF ok THEN m.lost ELSE TRUE
  <2> DEFINE lost == IF ok THEN m.lost ELSE TRUE
  <2>1. lost \in BOOLEAN
    BY DEF MeshType
  <2> HIDE DEF lost, ok
  <2>2. r = [m EXCEPT !.queue = q, !.h = g, !.lost = lost]
    BY <1>4 DEF lost, ok
  <2>3. /\ r \in MeshType /\ r.peers = m.peers /\ r.seen = m.seen /\ r.has = m.has
        /\ r.late = m.late /\ r.h = g /\ r.queue = q /\ r.lost = lost /\ r.quiet = m.quiet
    BY <1>5, <1>6, <2>1, <2>2 DEF MeshType
  <2> QED
    BY <2>3 DEF lost, ok
<1>10. ASSUME NEW n \in Name, WindowFits(m)
       PROVE  Cardinality(new(n)) <= CurrentRate(g, n).messages
  <2> DEFINE L == Len(m.queue)
  <2>1. L \in Nat /\ DOMAIN m.queue = 1 .. L /\ old(n) \in SUBSET (1 .. L)
    BY <1>3
  <2>2. IsFiniteSet(old(n)) /\ Cardinality(old(n)) \in Nat
    <3>1. IsFiniteSet(1 .. L)
      <4>1. \A k \in Nat : IsFiniteSet(1 .. k)
        BY FS_Interval
      <4> QED
        BY <2>1, <4>1
    <3> HIDE DEF L
    <3> QED
      BY <2>1, <3>1, FS_Subset, FS_CardinalityType
  <2>3. Cardinality(old(n)) <= CurrentRate(m.h, n).messages
    BY <1>10 DEF WindowFits
  <2>4. CASE n = p /\ ok
    <3>1. DOMAIN q = 1 .. L + 1 /\ q[L + 1] = e /\ \A k \in 1 .. L : q[k] = m.queue[k]
      BY <1>3, <2>4 DEF q
    <3>2. new(n) = old(n) \cup {L + 1} /\ L + 1 \notin old(n)
      BY <2>1, <2>4, <3>1
    <3>3. Cardinality(new(n)) = Cardinality(old(n)) + 1
      <4> HIDE DEF L
      <4> DEFINE O == old(n)
                 x == L + 1
      <4> HIDE DEF O, x
      <4>1. Cardinality(O \cup {x}) = Cardinality(O) + 1
        BY <2>2, <3>2, FS_AddElement DEF O, x
      <4> QED
        BY <3>2, <4>1 DEF O, x
    <3>4. CurrentRate(g, n).messages = CurrentRate(m.h, n).messages + 1
      BY <1>5, <2>4
    <3>5. CurrentRate(m.h, n).messages \in Int
      BY <1>5, <2>4, HardeningAssumption DEF Limits
    <3> HIDE DEF new, old, L
    <3> QED
      BY <2>2, <2>3, <3>3, <3>4, <3>5
  <2>5. CASE n = p /\ ~ok
    <3>1. new(n) = old(n)
      BY <2>5 DEF q
    <3>2. CurrentRate(g, n).messages = CurrentRate(m.h, n).messages
      <4>1. CurrentRate(m.h, n).messages \in Int
        BY <1>5, <2>5, HardeningAssumption DEF Limits
      <4> QED
        BY <1>5, <2>5, <4>1
    <3> QED
      BY <2>3, <3>1, <3>2
  <2>6. CASE n # p
    <3>1. new(n) = old(n)
      <4>1. CASE ok
        <5>1. DOMAIN q = 1 .. L + 1 /\ q[L + 1] = e /\ \A k \in 1 .. L : q[k] = m.queue[k]
          BY <1>3, <4>1 DEF q
        <5> QED
          BY <2>1, <2>6, <5>1
      <4>2. CASE ~ok
        BY <4>2 DEF q
      <4> QED
        BY <4>1, <4>2
    <3>2. CurrentRate(g, n) = CurrentRate(m.h, n)
      BY <1>7, <2>6 DEF CurrentRate
    <3> QED
      BY <2>3, <3>1, <3>2
  <2> QED
    BY <2>4, <2>5, <2>6
<1>11. WindowFits(m) => WindowFits(r)
  BY <1>9, <1>10 DEF WindowFits
<1> QED
  BY <1>6, <1>7, <1>8, <1>9, <1>11 DEF Sent, r


\* The envelopes of one kind and body from a node to its targets.
Envelopes(kind, from, T, body) ==
  {[kind |-> kind, from |-> from, to |-> x, body |-> body] : x \in T \ {from}}

\* A walk sends to every target but the sender itself.
LEMMA SendReaches ==
  ASSUME NEW m \in MeshType, NEW kind, NEW from, NEW T \in SUBSET Name, NEW body,
         Envelopes(kind, from, T, body) \subseteq Envelope
  PROVE  Sent(m, Send(m, kind, from, T, body), Envelopes(kind, from, T, body))
<1> DEFINE n == Cardinality(T)
           q == InOrder(T)
           c == [kind |-> kind, from |-> from, body |-> body]
           Upto(i) == {q[j] : j \in 1 .. i}
           Es(i) == Envelopes(kind, from, Upto(i), body)
<1>1. /\ n \in Nat /\ DOMAIN q = 1 .. n
      /\ \A i \in 1 .. n : q[i] \in T
      /\ \A x \in T : \E i \in 1 .. n : q[i] = x
  BY WalkIsAll
<1>2. Send(m, kind, from, T, body) = Sends!Run(c, 0, m, q)
  BY DEF Send, Sends!Run, FoldLeft, Sends!MapThenFoldSet, MapThenFoldSet, SendBody,
         Sends!Max, Max
<1> HIDE DEF n, q, c
<1>3. PICK f : Sends!IsLoop(c, 0, m, n, q, f) /\ Sends!Run(c, 0, m, q) = f[n]
  BY <1>1, Sends!LoopRuns
<1> DEFINE Good == {i \in 0 .. n : Sent(m, f[i], Es(i))}
<1>4. 0 \in Good
  <2>1. f[0] = m
    BY <1>1, <1>3 DEF Sends!IsLoop
  <2>2. Es(0) = {}
    BY DEF Envelopes
  <2>3. 0 \in 0 .. n
    BY <1>1
  <2> HIDE DEF Es
  <2>4. Sent(m, f[0], Es(0))
    BY <2>1, <2>2, SentNothing
  <2> QED
    BY <2>3, <2>4
<1>5. ASSUME NEW i \in 1 .. n, i - 1 \in Good PROVE i \in Good
  <2> DEFINE j == i - 1
             x == q[i]
             e == [kind |-> kind, from |-> from, to |-> x, body |-> body]
  <2>1. j \in 0 .. n /\ i \in 0 .. n /\ i # 0 /\ Sent(m, f[j], Es(j)) /\ x \in T
    BY <1>1, <1>5
  <2>2. f[i] = enqueue(f[j], e)
    BY <1>3, <2>1 DEF Sends!IsLoop, SendBody, c
  <2>3. Upto(i) = Upto(j) \cup {x}
    <3>1. 1 .. i = (1 .. j) \cup {i}
      BY <1>1
    <3> HIDE DEF j
    <3> QED
      BY <3>1
  <2>4. f[j] \in MeshType
    BY <2>1 DEF Sent
  <2> HIDE DEF j, Upto
  <2>5. CASE x = from
    <3>1. f[i] = f[j]
      BY <2>2, <2>5 DEF enqueue
    <3>2. Es(i) = Es(j)
      BY <2>3, <2>5 DEF Envelopes
    <3> QED
      BY <2>1, <3>1, <3>2
  <2>6. CASE x # from
    <3>1. Es(i) = Es(j) \cup {e}
      BY <2>3, <2>6 DEF Envelopes
    <3>2. e \in Envelope
      BY <2>1, <2>6 DEF Envelopes
    <3> HIDE DEF e
    <3>3. Sent(f[j], f[i], {e})
      BY <2>2, <2>4, <3>2, EnqueueSends
    <3>4. Sent(m, f[i], Es(j) \cup {e})
      <4> DEFINE E == Es(j)
                 F == {e}
      <4> HIDE DEF E, F
      <4>1. Sent(m, f[j], E) /\ Sent(f[j], f[i], F)
        BY <2>1, <3>3 DEF E, F
      <4>2. Sent(m, f[i], E \cup F)
        BY <4>1, SentOn
      <4> QED
        BY <4>2 DEF E, F
    <3> QED
      BY <2>1, <3>1, <3>4
  <2> QED
    BY <2>5, <2>6
<1> HIDE DEF Good
<1>6. \A i \in 0 .. n : i \in Good
  BY <1>1, <1>4, <1>5, Sends!NatUpTo
<1>7. n \in Good
  BY <1>1, <1>6
<1>8. Upto(n) = T
  BY <1>1
<1> HIDE DEF Upto
<1> QED
  BY <1>2, <1>3, <1>7, <1>8 DEF Good


-----------------------------------------------------------------------------
(***************************************************************************)
(* What each kind of change does to what waits.                            *)
(***************************************************************************)

\* What waits still does when more is appended.
LEMMA StillWaits ==
  ASSUME NEW s \in Seq(Envelope), NEW t \in Seq(Envelope), Grows(s, t)
  PROVE  /\ \A x, i : Waits(s, x, i) => Waits(t, x, i)
         /\ \A n, x : Greets(s, n, x) => Greets(t, n, x)
         /\ \A x, y : Names(s, x, y) => Names(t, x, y)
         /\ \A k \in 1 .. Len(s) + 1 : \A x, i :
              WaitsAt(s, 1 .. k - 1, x, i) <=> WaitsAt(t, 1 .. k - 1, x, i)
<1>1. /\ DOMAIN s = 1 .. Len(s) /\ DOMAIN t = 1 .. Len(t) /\ Len(s) \in Nat /\ Len(t) \in Nat
      /\ Len(s) <= Len(t) /\ \A k \in 1 .. Len(s) : t[k] = s[k] /\ k \in DOMAIN t
  BY DEF Grows
<1>2. \A x, i : Waits(s, x, i) => Waits(t, x, i)
  BY <1>1 DEF Waits, WaitsAt
<1>3. \A n, x : Greets(s, n, x) => Greets(t, n, x)
  BY <1>1 DEF Greets
<1>4. \A x, y : Names(s, x, y) => Names(t, x, y)
  BY <1>1 DEF Names
<1>5. ASSUME NEW k \in 1 .. Len(s) + 1, NEW x, NEW i
      PROVE  WaitsAt(s, 1 .. k - 1, x, i) <=> WaitsAt(t, 1 .. k - 1, x, i)
  <2>1. \A l \in 1 .. k - 1 : t[l] = s[l]
    BY <1>1
  <2> QED
    BY <2>1 DEF WaitsAt
<1> QED
  BY <1>2, <1>3, <1>4, <1>5

\* An envelope of t is one of s, or new.
LEMMA OldOrNew ==
  ASSUME NEW s \in Seq(Envelope), NEW t \in Seq(Envelope), Grows(s, t)
  PROVE  /\ \A k \in DOMAIN t : \/ k \in DOMAIN s /\ t[k] = s[k]
                                \/ k \in Len(s) + 1 .. Len(t) /\ t[k] \in After(s, t)
         /\ \A e \in After(s, t) : \E k \in DOMAIN t : k \in Len(s) + 1 .. Len(t) /\ t[k] = e
<1>1. /\ DOMAIN s = 1 .. Len(s) /\ DOMAIN t = 1 .. Len(t) /\ Len(s) \in Nat /\ Len(t) \in Nat
      /\ Len(s) <= Len(t) /\ \A k \in 1 .. Len(s) : t[k] = s[k]
  BY DEF Grows
<1>2. ASSUME NEW k \in DOMAIN t, k \notin DOMAIN s
      PROVE  k \in Len(s) + 1 .. Len(t) /\ t[k] \in After(s, t)
  <2>1. k \in Len(s) + 1 .. Len(t)
    BY <1>1, <1>2
  <2> QED
    BY <2>1 DEF After
<1>3. ASSUME NEW e \in After(s, t)
      PROVE  \E k \in DOMAIN t : k \in Len(s) + 1 .. Len(t) /\ t[k] = e
  <2>1. PICK k \in Len(s) + 1 .. Len(t) : t[k] = e
    BY DEF After
  <2> QED
    BY <1>1, <2>1
<1> QED
  BY <1>1, <1>2, <1>3

\* u is m after node n took item i, with all it needs.
Took(m, n, i, u) ==
  /\ u \in MeshType /\ WindowFits(u) /\ Filed(u.h) /\ Needs(i) \subseteq m.has[n]
  /\ u.peers = m.peers /\ u.late = m.late /\ u.lost = m.lost
  /\ u.has = [m.has EXCEPT ![n] = @ \cup {i}] /\ u.seen = [m.seen EXCEPT ![n] = @ \cup {i}]

\* A node takes an item and offers it to its peers that have not seen it.
LEMMA TakeAndOffer ==
  ASSUME NEW m, NEW s, Sound(m, s), NEW n \in Name, NEW i \in Item, NEW u, Took(m, n, i, u),
         NEW T \in SUBSET m.peers[n], \A y \in m.peers[n] \ T : i \in m.seen[y],
         NEW r, Sent(u, r, Envelopes("item", n, T, {i})),
         NEW t \in Seq(Envelope), Grows(s, t), After(s, t) = After(u.queue, r.queue)
  PROVE  Sound(r, t)
<1> DEFINE E == Envelopes("item", n, T, {i})
<1>1. /\ r \in MeshType /\ r.peers = m.peers /\ r.late = m.late /\ (m.lost => r.lost)
      /\ WindowFits(r) /\ Filed(r.h) /\ After(s, t) \subseteq E
      /\ (r.lost \/ E \subseteq After(s, t))
      /\ r.has = [m.has EXCEPT ![n] = @ \cup {i}] /\ r.seen = [m.seen EXCEPT ![n] = @ \cup {i}]
  BY DEF Sent, Took
<1>2. /\ s \in Seq(Envelope) /\ m \in MeshType /\ \A x \in Name : x \notin m.peers[x]
      /\ Flooding(m, s) /\ Closing(m, s)
  BY DEF Sound
<1>3. /\ \A x \in Name : /\ r.has[x] = (IF x = n THEN m.has[x] \cup {i} ELSE m.has[x])
                         /\ r.seen[x] = (IF x = n THEN m.seen[x] \cup {i} ELSE m.seen[x])
      /\ \A x \in Name : m.peers[x] \in SUBSET Name
  BY <1>1, <1>2 DEF MeshType
<1>4. /\ \A k \in DOMAIN t : \/ k \in DOMAIN s /\ t[k] = s[k]
                             \/ k \in Len(s) + 1 .. Len(t) /\ t[k] \in E
      /\ \A e \in After(s, t) : \E k \in DOMAIN t : k \in Len(s) + 1 .. Len(t) /\ t[k] = e
  <2>1. /\ \A k \in DOMAIN t : \/ k \in DOMAIN s /\ t[k] = s[k]
                               \/ k \in Len(s) + 1 .. Len(t) /\ t[k] \in After(s, t)
        /\ \A e \in After(s, t) : \E k \in DOMAIN t : k \in Len(s) + 1 .. Len(t) /\ t[k] = e
    BY <1>2, OldOrNew
  <2> HIDE DEF E
  <2> QED
    BY <1>1, <2>1
<1>5. \A e \in E : IsItem(e) /\ e.from = n /\ e.to \in T \ {n} /\ e.body = {i}
  BY DEF Envelopes, IsItem
<1>6. ASSUME NEW y \in T PROVE r.lost \/ Waits(t, y, i)
  <2> SUFFICES ASSUME ~r.lost PROVE Waits(t, y, i)
    OBVIOUS
  <2>1. y # n
    BY <1>2, <1>3
  <2> DEFINE e == [kind |-> "item", from |-> n, to |-> y, body |-> {i}]
  <2>2. e \in E
    BY <2>1 DEF Envelopes
  <2>3. e.kind = "item" /\ e.to = y /\ e.body = {i}
    OBVIOUS
  <2> HIDE DEF e, E
  <2>4. PICK k \in DOMAIN t : t[k] = e
    BY <1>1, <1>4, <2>2
  <2> QED
    BY <2>3, <2>4 DEF Waits, WaitsAt, IsItem
<1>7. /\ \A x, j : Waits(s, x, j) => Waits(t, x, j)
      /\ \A a, x : Greets(s, a, x) => Greets(t, a, x)
      /\ \A x, y : Names(s, x, y) => Names(t, x, y)
      /\ \A k \in 1 .. Len(s) + 1 : \A x, j :
           WaitsAt(s, 1 .. k - 1, x, j) <=> WaitsAt(t, 1 .. k - 1, x, j)
  BY <1>2, StillWaits
<1> HIDE DEF E
<1>8. Closed(r)
  <2>1. /\ \A x \in Name : \A j \in m.has[x] : Needs(j) \subseteq m.has[x]
        /\ Needs(i) \subseteq m.has[n]
    BY <1>2 DEF Flooding, Closed, Took
  <2> QED
    BY <1>3, <2>1 DEF Closed
<1>9. Offered(r, t)
  <2>1. ASSUME NEW a \in Name, NEW x \in r.peers[a], NEW j \in r.has[a]
        PROVE  r.lost \/ <<a, x>> \in r.late \/ j \in r.seen[x] \/ Waits(t, x, j)
    <3>1. x \in Name /\ x \in m.peers[a]
      BY <1>1, <1>3
    <3>2. CASE j \in m.has[a]
      <4>1. m.lost \/ <<a, x>> \in m.late \/ j \in m.seen[x] \/ Waits(s, x, j)
        BY <1>2, <3>1, <3>2 DEF Flooding, Offered
      <4>2. j \in m.seen[x] => j \in r.seen[x]
        BY <1>3, <3>1
      <4> QED
        BY <1>1, <1>7, <4>1, <4>2
    <3>3. CASE j \notin m.has[a]
      <4>1. a = n /\ j = i
        BY <1>3, <3>3
      <4>2. CASE x \in T
        BY <1>6, <4>1, <4>2
      <4>3. CASE x \notin T
        BY <1>3, <3>1, <4>1, <4>3
      <4> QED
        BY <4>2, <4>3
    <3> QED
      BY <3>2, <3>3
  <2> QED
    BY <2>1 DEF Offered
<1>10. Taken(r)
  BY <1>1, <1>2, <1>3 DEF Flooding, Taken
<1>11. InStep(r, t)
  <2> SUFFICES ASSUME ~r.lost, r.late = {}, NEW k \in DOMAIN t, IsItem(t[k]),
                      NEW b \in t[k].body, NEW j \in Needs(b)
               PROVE  j \in r.has[t[k].to] \/ WaitsAt(t, 1 .. k - 1, t[k].to, j)
    BY DEF InStep
  <2>1. ~m.lost /\ m.late = {} /\ \A x \in Name : m.seen[x] \subseteq m.has[x]
    BY <1>1, <1>2 DEF Flooding, Taken
  <2>2. CASE k \in DOMAIN s /\ t[k] = s[k]
    <3>1. j \in m.has[t[k].to] \/ WaitsAt(s, 1 .. k - 1, t[k].to, j)
      BY <1>2, <2>1, <2>2 DEF Flooding, InStep
    <3>2. k \in 1 .. Len(s) + 1
      BY <1>2, <2>2
    <3>3. t[k].to \in Name
      BY <2>2, <1>2 DEF Envelope, Hello, Message
    <3> QED
      BY <1>3, <1>7, <3>1, <3>2, <3>3
  <2>3. CASE k \in Len(s) + 1 .. Len(t) /\ t[k] \in E
    <3>1. b = i /\ t[k].to \in T
      BY <1>5, <2>3
    <3> DEFINE y == t[k].to
    <3>2. y \in Name /\ y \in m.peers[n] /\ j \in m.has[n]
      BY <1>3, <3>1 DEF Took
    <3> HIDE DEF y
    <3>3. j \in m.seen[y] \/ Waits(s, y, j)
      BY <1>2, <2>1, <3>2 DEF Flooding, Offered
    <3>4. CASE j \in m.seen[y]
      BY <1>3, <2>1, <3>2, <3>4 DEF y
    <3>5. CASE Waits(s, y, j)
      <4>1. PICK l \in DOMAIN s : IsItem(s[l]) /\ s[l].to = y /\ s[l].body = {j}
        BY <3>5 DEF Waits, WaitsAt
      <4>2. l \in 1 .. Len(s) /\ Len(s) \in Nat /\ t[l] = s[l]
        BY <1>2, <4>1 DEF Grows
      <4>3. l \in 1 .. k - 1
        <5>1. k \in Int /\ k >= Len(s) + 1
          BY <2>3, <4>2
        <5> QED
          BY <4>2, <5>1
      <4> QED
        BY <4>1, <4>2, <4>3 DEF WaitsAt, y
    <3> QED
      BY <3>3, <3>4, <3>5
  <2> QED
    BY <1>4, <2>2, <2>3
<1>12. SenderSaw(r, t)
  <2> SUFFICES ASSUME NEW k \in DOMAIN t, IsItem(t[k])
               PROVE  t[k].body \subseteq r.seen[t[k].from]
    BY DEF SenderSaw
  <2>1. CASE k \in DOMAIN s /\ t[k] = s[k]
    <3>1. t[k].from \in Name
      BY <1>2, <2>1 DEF Envelope, Hello, Message
    <3>2. t[k].body \subseteq m.seen[t[k].from]
      BY <1>2, <2>1 DEF Flooding, SenderSaw
    <3> QED
      BY <1>3, <3>1, <3>2
  <2>2. CASE t[k] \in E
    BY <1>3, <1>5, <2>2
  <2> QED
    BY <1>4, <2>1, <2>2
<1>13. FirstSeen(r)
  <2>1. r.seen[n] # {}
    BY <1>3
  <2> QED
    BY <2>1 DEF FirstSeen
<1>14. Closing(r, t)
  <2>1. Answered(r, t)
    BY <1>1, <1>2, <1>7 DEF Closing, Answered
  <2>2. Introduced(r, t)
    BY <1>1, <1>2, <1>7 DEF Closing, Introduced
  <2> QED
    BY <2>1, <2>2 DEF Closing
<1> QED
  BY <1>1, <1>2, <1>8, <1>9, <1>10, <1>11, <1>12, <1>13, <1>14 DEF Sound, Flooding


\* A node that gets new peers greets them, and names its peers to them.
LEMMA GreetNewPeers ==
  ASSUME NEW m, NEW s, Sound(m, s), NEW n \in Name, NEW N \in SUBSET Name, n \notin N,
         NEW r, Sent(WithPeers(m, n, N), r,
                     Envelopes("hello", n, N \ m.peers[n], m.peers[n] \cup N)),
         NEW t \in Seq(Envelope), Grows(s, t), After(s, t) = After(m.queue, r.queue)
  PROVE  Sound(r, t) /\ r.peers = [m.peers EXCEPT ![n] = @ \cup N]
<1> DEFINE E == Envelopes("hello", n, N \ m.peers[n], m.peers[n] \cup N)
           u == WithPeers(m, n, N)
<1>1. /\ s \in Seq(Envelope) /\ m \in MeshType /\ \A x \in Name : x \notin m.peers[x]
      /\ Flooding(m, s) /\ Closing(m, s) /\ WindowFits(m) /\ Filed(m.h)
  BY DEF Sound
<1>2. /\ u.peers = [m.peers EXCEPT ![n] = @ \cup N] /\ u.has = m.has /\ u.seen = m.seen
      /\ u.lost = m.lost /\ u.queue = m.queue /\ u.h = m.h
      /\ u.late = IF \A x \in Name : m.seen[x] = {} THEN m.late
                  ELSE m.late \cup ({n} \X (N \ m.peers[n]))
  BY <1>1 DEF WithPeers, MeshType
<1>3. WindowFits(u)
  BY <1>1, <1>2 DEF WindowFits
<1> HIDE DEF u
<1>4. /\ r \in MeshType /\ r.has = m.has /\ r.seen = m.seen /\ (m.lost => r.lost)
      /\ WindowFits(r) /\ Filed(r.h) /\ After(s, t) \subseteq E
      /\ (r.lost \/ E \subseteq After(s, t))
      /\ r.peers = [m.peers EXCEPT ![n] = @ \cup N] /\ r.late = u.late
  BY <1>1, <1>2, <1>3 DEF Sent, u
<1>5. /\ \A x \in Name : r.peers[x] = IF x = n THEN m.peers[x] \cup N ELSE m.peers[x]
      /\ \A x \in Name : m.peers[x] \in SUBSET Name /\ r.peers[x] \in SUBSET Name
      /\ m.late \subseteq r.late
  BY <1>1, <1>2, <1>4 DEF MeshType
<1>6. /\ \A k \in DOMAIN t : \/ k \in DOMAIN s /\ t[k] = s[k]
                             \/ k \in Len(s) + 1 .. Len(t) /\ t[k] \in E
      /\ \A e \in After(s, t) : \E k \in DOMAIN t : k \in Len(s) + 1 .. Len(t) /\ t[k] = e
  <2>1. /\ \A k \in DOMAIN t : \/ k \in DOMAIN s /\ t[k] = s[k]
                               \/ k \in Len(s) + 1 .. Len(t) /\ t[k] \in After(s, t)
        /\ \A e \in After(s, t) : \E k \in DOMAIN t : k \in Len(s) + 1 .. Len(t) /\ t[k] = e
    BY <1>1, OldOrNew
  <2> HIDE DEF E
  <2> QED
    BY <1>4, <2>1
<1>7. \A e \in E : /\ IsHello(e) /\ ~IsItem(e) /\ e.from = n
                   /\ e.to \in N \ m.peers[n] /\ e.body = m.peers[n] \cup N
  BY DEF Envelopes, IsItem, IsHello
<1>8. ASSUME NEW x \in N \ m.peers[n]
      PROVE  r.lost \/ (Greets(t, n, x) /\ \A y \in m.peers[n] \cup N : Names(t, x, y))
  <2> SUFFICES ASSUME ~r.lost
               PROVE  Greets(t, n, x) /\ \A y \in m.peers[n] \cup N : Names(t, x, y)
    OBVIOUS
  <2> DEFINE B == m.peers[n] \cup N
             e == [kind |-> "hello", from |-> n, to |-> x, body |-> B]
  <2>1. x \in (N \ m.peers[n]) \ {n}
    OBVIOUS
  <2> HIDE DEF B
  <2>2. e \in E
    BY <2>1 DEF Envelopes, B
  <2>3. e.kind = "hello" /\ e.from = n /\ e.to = x /\ e.body = B
    OBVIOUS
  <2> HIDE DEF e, E
  <2>4. PICK k \in DOMAIN t : t[k] = e
    BY <1>4, <1>6, <2>2
  <2>5. Greets(t, n, x)
    BY <2>3, <2>4 DEF Greets, IsHello
  <2>6. \A y \in B : Names(t, x, y)
    BY <2>3, <2>4 DEF Names, IsHello
  <2> QED
    BY <2>5, <2>6 DEF B
<1>9. /\ \A x, j : Waits(s, x, j) => Waits(t, x, j)
      /\ \A a, x : Greets(s, a, x) => Greets(t, a, x)
      /\ \A x, y : Names(s, x, y) => Names(t, x, y)
      /\ \A k \in 1 .. Len(s) + 1 : \A x, j :
           WaitsAt(s, 1 .. k - 1, x, j) <=> WaitsAt(t, 1 .. k - 1, x, j)
  BY <1>1, StillWaits
<1> HIDE DEF E
<1>10. FirstSeen(r)
  BY <1>1, <1>4, <1>5 DEF Flooding, FirstSeen
<1>11. Closed(r) /\ Taken(r)
  BY <1>1, <1>4, <1>5 DEF Flooding, Closed, Taken
<1>12. Offered(r, t)
  <2> SUFFICES ASSUME NEW a \in Name, NEW x \in r.peers[a], NEW j \in r.has[a]
               PROVE  r.lost \/ <<a, x>> \in r.late \/ j \in r.seen[x] \/ Waits(t, x, j)
    BY DEF Offered
  <2>1. x \in Name
    BY <1>5
  <2>2. CASE x \in m.peers[a]
    <3>1. m.lost \/ <<a, x>> \in m.late \/ j \in m.seen[x] \/ Waits(s, x, j)
      BY <1>1, <1>4, <2>2 DEF Flooding, Offered
    <3> QED
      BY <1>4, <1>5, <1>9, <3>1
  <2>3. CASE x \notin m.peers[a]
    <3>1. a = n /\ x \in N \ m.peers[n]
      BY <1>5, <2>3
    <3>2. CASE \A y \in Name : m.seen[y] = {}
      <4>1. {n} \X Name \subseteq m.late
        BY <1>1, <1>4, <3>1, <3>2 DEF Flooding, FirstSeen
      <4> QED
        BY <1>5, <2>1, <3>1, <4>1
    <3>3. CASE ~ \A y \in Name : m.seen[y] = {}
      BY <1>2, <1>4, <3>1, <3>3
    <3> QED
      BY <3>2, <3>3
  <2> QED
    BY <2>2, <2>3
<1>13. InStep(r, t)
  <2> SUFFICES ASSUME ~r.lost, r.late = {}, NEW k \in DOMAIN t, IsItem(t[k]),
                      NEW b \in t[k].body, NEW j \in Needs(b)
               PROVE  j \in r.has[t[k].to] \/ WaitsAt(t, 1 .. k - 1, t[k].to, j)
    BY DEF InStep
  <2>1. k \in DOMAIN s /\ t[k] = s[k] /\ k \in 1 .. Len(s) + 1
    <3>1. k \in DOMAIN s /\ t[k] = s[k]
      BY <1>6, <1>7
    <3> QED
      BY <1>1, <3>1
  <2>2. m.late = {} /\ ~m.lost
    BY <1>4, <1>5
  <2>3. j \in m.has[t[k].to] \/ WaitsAt(s, 1 .. k - 1, t[k].to, j)
    BY <1>1, <2>1, <2>2 DEF Flooding, InStep
  <2> QED
    BY <1>4, <1>9, <2>1, <2>3
<1>14. SenderSaw(r, t)
  BY <1>1, <1>4, <1>6, <1>7 DEF Flooding, SenderSaw
<1>15. Answered(r, t)
  <2> SUFFICES ASSUME NEW a \in Name, NEW x \in r.peers[a]
               PROVE  r.lost \/ a \in r.peers[x] \/ Greets(t, a, x)
    BY DEF Answered
  <2>1. x \in Name
    BY <1>5
  <2>2. CASE x \in m.peers[a]
    <3>1. m.lost \/ a \in m.peers[x] \/ Greets(s, a, x)
      BY <1>1, <2>2 DEF Closing, Answered
    <3> QED
      BY <1>4, <1>5, <1>9, <2>1, <3>1
  <2>3. CASE x \notin m.peers[a]
    <3>1. a = n /\ x \in N \ m.peers[n]
      BY <1>5, <2>3
    <3> QED
      BY <1>8, <3>1
  <2> QED
    BY <2>2, <2>3
<1>16. Introduced(r, t)
  <2>1. ASSUME NEW x \in r.peers[n] \ m.peers[n], NEW y \in r.peers[n]
        PROVE  r.lost \/ Names(t, x, y)
    BY <1>5, <1>8
  <2> SUFFICES ASSUME NEW a \in Name, NEW x \in r.peers[a], NEW y \in r.peers[a]
               PROVE  \/ r.lost \/ x = y \/ y \in r.peers[x] \/ x \in r.peers[y]
                      \/ Names(t, x, y) \/ Names(t, y, x)
    BY DEF Introduced
  <2>2. x \in Name /\ y \in Name
    BY <1>5
  <2>3. CASE x \in m.peers[a] /\ y \in m.peers[a]
    <3>1. \/ m.lost \/ x = y \/ y \in m.peers[x] \/ x \in m.peers[y]
          \/ Names(s, x, y) \/ Names(s, y, x)
      BY <1>1, <2>3 DEF Closing, Introduced
    <3> QED
      BY <1>4, <1>5, <1>9, <2>2, <3>1
  <2>4. CASE ~(x \in m.peers[a] /\ y \in m.peers[a])
    <3>1. a = n
      BY <1>5, <2>4
    <3> QED
      BY <2>1, <2>4, <3>1
  <2> QED
    BY <2>3, <2>4
<1>17. \A x \in Name : x \notin r.peers[x]
  BY <1>1, <1>5
<1> QED
  BY <1>4, <1>10, <1>11, <1>12, <1>13, <1>14, <1>15, <1>16, <1>17 DEF Sound, Flooding, Closing


\* What a delivered envelope was for.
Done(m, e) ==
  \/ IsHello(e) /\ {e.from} \cup (e.body \ {e.to}) \subseteq m.peers[e.to]
  \/ IsItem(e) /\ e.body \subseteq m.seen[e.to]

\* The first envelope may go when it has done its work.
LEMMA DropDone ==
  ASSUME NEW m, NEW s, Sound(m, s), Len(s) # 0, Done(m, s[1]),
         NEW t \in Seq(Envelope), Len(t) = Len(s) - 1, \A k \in 1 .. Len(t) : t[k] = s[k + 1]
  PROVE  Sound(m, t)
<1>1. /\ s \in Seq(Envelope) /\ m \in MeshType /\ \A x \in Name : x \notin m.peers[x]
      /\ Flooding(m, s) /\ Closing(m, s) /\ WindowFits(m) /\ Filed(m.h)
  BY DEF Sound
<1>2. /\ Len(s) \in Nat /\ DOMAIN s = 1 .. Len(s) /\ DOMAIN t = 1 .. Len(s) - 1
      /\ \A k \in DOMAIN t : t[k] = s[k + 1] /\ k + 1 \in DOMAIN s
  BY <1>1
<1>3. \A k \in DOMAIN s : k = 1 \/ (k - 1 \in DOMAIN t /\ t[k - 1] = s[k])
  BY <1>2
<1>4. s[1] \in Envelope /\ 1 \in DOMAIN s
  BY <1>1, <1>2
<1>5. \A x, i : Waits(s, x, i) => i \in m.seen[x] \/ Waits(t, x, i)
  <2> SUFFICES ASSUME NEW x, NEW i, NEW k \in DOMAIN s,
                      IsItem(s[k]), s[k].to = x, s[k].body = {i}
               PROVE  i \in m.seen[x] \/ Waits(t, x, i)
    BY DEF Waits, WaitsAt
  <2>1. CASE k = 1
    BY <2>1 DEF Done, IsHello, IsItem
  <2>2. CASE k # 1
    BY <1>3, <2>2 DEF Waits, WaitsAt
  <2> QED
    BY <2>1, <2>2
<1>6. \A a, x : Greets(s, a, x) => a \in m.peers[x] \/ Greets(t, a, x)
  BY <1>3 DEF Greets, Done, IsHello, IsItem
<1>7. \A x, y : Names(s, x, y) => x = y \/ y \in m.peers[x] \/ Names(t, x, y)
  BY <1>3 DEF Names, Done, IsHello, IsItem
<1>8. Offered(m, t)
  BY <1>1, <1>5 DEF Flooding, Offered
<1>9. InStep(m, t)
  <2> SUFFICES ASSUME ~m.lost, m.late = {}, NEW k \in DOMAIN t, IsItem(t[k]),
                      NEW b \in t[k].body, NEW j \in Needs(b)
               PROVE  j \in m.has[t[k].to] \/ WaitsAt(t, 1 .. k - 1, t[k].to, j)
    BY DEF InStep
  <2> DEFINE x == t[k].to
  <2>1. k + 1 \in DOMAIN s /\ s[k + 1] = t[k] /\ (k + 1) - 1 = k /\ k \in Nat
    BY <1>2
  <2>2. x \in Name
    BY DEF Envelope, Hello, Message
  <2>3. j \in m.has[x] \/ WaitsAt(s, 1 .. k, x, j)
    BY <1>1, <2>1 DEF Flooding, InStep
  <2>4. m.seen[x] \subseteq m.has[x]
    BY <1>1, <2>2 DEF Flooding, Taken
  <2> HIDE DEF x
  <2>5. CASE WaitsAt(s, 1 .. k, x, j)
    <3>1. PICK l \in 1 .. k : IsItem(s[l]) /\ s[l].to = x /\ s[l].body = {j}
      BY <2>5 DEF WaitsAt
    <3>2. CASE l = 1
      <4>1. j \in m.seen[x]
        BY <3>1, <3>2 DEF Done, IsHello, IsItem
      <4> QED
        BY <2>4, <4>1 DEF x
    <3>3. CASE l # 1
      <4>1. l - 1 \in 1 .. k - 1 /\ l \in DOMAIN s
        BY <1>2, <2>1, <3>3
      <4>2. t[l - 1] = s[l]
        BY <1>3, <3>3, <4>1
      <4> QED
        BY <3>1, <4>1, <4>2 DEF WaitsAt, x
    <3> QED
      BY <3>2, <3>3
  <2> QED
    BY <2>3, <2>5 DEF x
<1>10. SenderSaw(m, t)
  BY <1>1, <1>2 DEF Flooding, SenderSaw
<1>11. \A n \in Name : m.peers[n] \in SUBSET Name
  BY <1>1 DEF MeshType
<1>12. Answered(m, t)
  BY <1>1, <1>6 DEF Closing, Answered
<1>13. Introduced(m, t)
  BY <1>1, <1>7 DEF Closing, Introduced
<1> QED
  BY <1>1, <1>8, <1>9, <1>10, <1>12, <1>13 DEF Sound, Flooding, Closing

\* With nothing refused or late, the first item can be taken.
LEMMA FirstIsTaken ==
  ASSUME NEW m, NEW s, Sound(m, s), Len(s) # 0, IsItem(s[1]),
         NEW i \in s[1].body, ~Takes(m, s[1].to, i)
  PROVE  m.lost \/ m.late # {}
<1>1. s \in Seq(Envelope) /\ InStep(m, s)
  BY DEF Sound, Flooding
<1>2. 1 \in DOMAIN s /\ 1 .. 1 - 1 = {}
  BY <1>1
<1>3. PICK j \in Needs(i) : j \notin m.has[s[1].to]
  BY DEF Takes
<1>4. ~WaitsAt(s, 1 .. 1 - 1, s[1].to, j)
  BY <1>2 DEF WaitsAt
<1> QED
  BY <1>1, <1>2, <1>3, <1>4 DEF InStep

\* A node sees an item and does not take it: something is lost or late.
LEMMA SeenOnly ==
  ASSUME NEW m, NEW s, Sound(m, s), NEW n \in Name, NEW i \in Item,
         NEW u \in MeshType, WindowFits(u), Filed(u.h),
         u.peers = m.peers, u.late = m.late, u.has = m.has, m.lost => u.lost,
         u.seen = [m.seen EXCEPT ![n] = @ \cup {i}], u.lost \/ u.late # {}
  PROVE  Sound(u, s)
<1>1. /\ s \in Seq(Envelope) /\ m \in MeshType /\ \A x \in Name : x \notin m.peers[x]
      /\ Flooding(m, s) /\ Closing(m, s)
  BY DEF Sound
<1>2. \A x \in Name : m.seen[x] \subseteq u.seen[x] /\ m.peers[x] \in SUBSET Name
  BY <1>1 DEF MeshType
<1>3. Closed(u) /\ Taken(u) /\ InStep(u, s)
  BY <1>1 DEF Flooding, Closed, Taken, InStep
<1>4. Offered(u, s)
  BY <1>1, <1>2 DEF Flooding, Offered
<1>5. SenderSaw(u, s)
  <2>1. \A k \in DOMAIN s : s[k].from \in Name
    BY <1>1 DEF Envelope, Hello, Message
  <2> QED
    BY <1>1, <1>2, <2>1 DEF Flooding, SenderSaw
<1>6. FirstSeen(u)
  BY <1>1, <1>2 DEF Flooding, FirstSeen
<1>7. Closing(u, s)
  BY <1>1 DEF Closing, Answered, Introduced
<1> QED
  BY <1>1, <1>3, <1>4, <1>5, <1>6, <1>7 DEF Sound, Flooding

\* The hardening, the clock and the counters have no say in what waits.
LEMMA HardeningOnly ==
  ASSUME NEW m, NEW s, Sound(m, s), NEW u \in MeshType, WindowFits(u), Filed(u.h),
         u.peers = m.peers, u.late = m.late, u.has = m.has, u.lost = m.lost, u.seen = m.seen
  PROVE  Sound(u, s)
BY DEF Sound, Flooding, Closed, Offered, Taken, InStep, SenderSaw, FirstSeen, Closing, Answered,
       Introduced


-----------------------------------------------------------------------------
(***************************************************************************)
(* One delivery.                                                           *)
(***************************************************************************)

\* r has all that was waiting with m, and more at the end.
Onward(m, s, r) ==
  /\ r.queue \in Seq(Envelope) /\ Grows(m.queue, r.queue)
  /\ \A t \in Seq(Envelope) :
       Grows(s, t) /\ After(s, t) = After(m.queue, r.queue) => Sound(r, t)

\* The deliverer takes the envelope's item, and only from who is not barred.
Gains(m, e, r) ==
  /\ r.h.tick = m.h.tick /\ r.h.ban = m.h.ban
  /\ \A n \in Name : \A i \in r.has[n] \ m.has[n] :
       IsItem(e) /\ e.to = n /\ e.body = {i} /\ ~Barred(m.h, e.from)

\* Who knows whom, and who has seen what.
Edges(m)  == {p \in Name \X Name : p[2] \in m.peers[p[1]]}
Sights(m) == {p \in Name \X Item : p[2] \in m.seen[p[1]]}

\* Nothing is forgotten, and nothing is sent unless something was learnt.
Spreads(m, r) ==
  /\ r.quiet = m.quiet /\ Edges(m) \subseteq Edges(r) /\ Sights(m) \subseteq Sights(r)
  /\ r.queue = m.queue \/ Edges(r) # Edges(m) \/ Sights(r) # Sights(m)

LEMMA SpreadsOn ==
  ASSUME NEW m, NEW r, NEW u, Spreads(m, r), Spreads(r, u)
  PROVE  Spreads(m, u)
BY DEF Spreads

\* A node saw an item for the first time.
LEMMA SightSpreads ==
  ASSUME NEW m \in MeshType, NEW n \in Name, NEW i \in Item, i \notin m.seen[n], NEW r,
         r.peers = m.peers, r.quiet = m.quiet, r.seen = [m.seen EXCEPT ![n] = @ \cup {i}]
  PROVE  Spreads(m, r)
<1>1. \A x \in Name : r.seen[x] = IF x = n THEN m.seen[x] \cup {i} ELSE m.seen[x]
  BY DEF MeshType
<1>2. Edges(r) = Edges(m)
  BY DEF Edges
<1>3. Sights(m) \subseteq Sights(r)
  BY <1>1 DEF Sights
<1>4. <<n, i>> \in Sights(r) /\ <<n, i>> \notin Sights(m)
  BY <1>1 DEF Sights
<1> QED
  BY <1>2, <1>3, <1>4 DEF Spreads

\* A node has new peers, or sends nothing.
LEMMA PeersSpread ==
  ASSUME NEW m \in MeshType, NEW n \in Name, NEW N \in SUBSET Name, NEW r,
         r.seen = m.seen, r.quiet = m.quiet, r.peers = [m.peers EXCEPT ![n] = @ \cup N],
         N \subseteq m.peers[n] => r.queue = m.queue
  PROVE  Spreads(m, r)
<1>1. \A x \in Name : r.peers[x] = IF x = n THEN m.peers[x] \cup N ELSE m.peers[x]
  BY DEF MeshType
<1>2. Sights(r) = Sights(m)
  BY DEF Sights
<1>3. Edges(m) \subseteq Edges(r)
  BY <1>1 DEF Edges
<1>4. ASSUME NEW x \in N, x \notin m.peers[n]
      PROVE  Edges(r) # Edges(m)
  <2>1. <<n, x>> \in Edges(r) /\ <<n, x>> \notin Edges(m)
    BY <1>1, <1>4 DEF Edges
  <2> QED
    BY <2>1
<1> QED
  BY <1>2, <1>3, <1>4 DEF Spreads

\* New peers are peers, and nothing else but the late edges changes.
LEMMA PeersAdded ==
  ASSUME NEW m \in MeshType, NEW n \in Name, NEW N \in SUBSET Name
  PROVE  LET u == WithPeers(m, n, N)
         IN  /\ u \in MeshType /\ u.peers = [m.peers EXCEPT ![n] = @ \cup N] /\ u.has = m.has
             /\ u.h = m.h /\ u.queue = m.queue /\ u.seen = m.seen /\ u.quiet = m.quiet
<1> DEFINE u == WithPeers(m, n, N)
           l == IF \A x \in Name : m.seen[x] = {} THEN m.late
                ELSE m.late \cup ({n} \X (N \ m.peers[n]))
           p == [m.peers EXCEPT ![n] = @ \cup N]
<1>1. l \in SUBSET (Name \X Name) /\ p \in [Name -> SUBSET Name]
  BY DEF MeshType
<1>2. u = [m EXCEPT !.peers = p, !.late = l]
  BY DEF WithPeers
<1> HIDE DEF l, p, u
<1> QED
  BY <1>1, <1>2 DEF MeshType, p, u

\* The new peers of a node are greeted by it, the sender of a hello first.
LEMMA NewPeersGreeted ==
  ASSUME NEW m, NEW s, Sound(m, s), NEW n \in Name, NEW N \in SUBSET Name, n \notin N,
         NEW R \in SUBSET (N \ m.peers[n]), NEW r,
         r = Hellos(Hellos(WithPeers(m, n, N), n, R), n, (N \ m.peers[n]) \ R)
  PROVE  /\ Onward(m, s, r) /\ r.peers = [m.peers EXCEPT ![n] = @ \cup N]
         /\ r.has = m.has /\ r.h.tick = m.h.tick /\ r.h.ban = m.h.ban
         /\ r.seen = m.seen /\ r.quiet = m.quiet
         /\ (N \subseteq m.peers[n] => r.queue = m.queue)
<1> DEFINE u == WithPeers(m, n, N)
           B == m.peers[n] \cup N
           T == N \ m.peers[n]
           a == Hellos(u, n, R)
           E(S) == Envelopes("hello", n, S, B)
<1>1. m \in MeshType /\ s \in Seq(Envelope)
  BY DEF Sound
<1>2. /\ u \in MeshType /\ u.peers = [m.peers EXCEPT ![n] = @ \cup N] /\ u.has = m.has
      /\ u.h = m.h /\ u.queue = m.queue /\ u.seen = m.seen /\ u.quiet = m.quiet
  BY <1>1, PeersAdded
<1>3. u.peers[n] = B /\ B \in SUBSET Name
  BY <1>1, <1>2 DEF MeshType
<1> HIDE DEF u, B
<1>4. \A S \in SUBSET Name : E(S) \subseteq Envelope
  BY <1>3 DEF Envelopes, Envelope, Hello
<1> HIDE DEF E
<1>5. Sent(u, a, E(R))
  <2>1. R \in SUBSET Name
    OBVIOUS
  <2> QED
    BY <1>2, <1>3, <1>4, <2>1, SendReaches DEF Hellos, E
<1>6. a.peers = u.peers /\ a \in MeshType
  BY <1>5 DEF Sent
<1>7. r = Hellos(a, n, T \ R)
  BY DEF u
<1> HIDE DEF a
<1>8. Sent(a, r, E(T \ R))
  <2> DEFINE S == T \ R
  <2>1. S \in SUBSET Name
    OBVIOUS
  <2> HIDE DEF S
  <2>2. Sent(a, Hellos(a, n, S), E(S))
    BY <1>3, <1>4, <1>6, <2>1, SendReaches DEF Hellos, E
  <2> QED
    BY <1>7, <2>2 DEF S
<1>9. E(R) \cup E(T \ R) = E(T)
  BY DEF E, Envelopes
<1>10. Sent(u, r, E(T))
  <2> DEFINE F == E(R)
             G == E(T \ R)
  <2> HIDE DEF F, G
  <2>1. Sent(u, r, F \cup G)
    BY <1>2, <1>5, <1>8, SentOn DEF F, G
  <2> QED
    BY <1>9, <2>1 DEF F, G
<1>11. ASSUME NEW t \in Seq(Envelope), Grows(s, t), After(s, t) = After(m.queue, r.queue)
       PROVE  Sound(r, t)
  BY <1>10, <1>11, GreetNewPeers DEF u, E, B
<1>12. /\ Grows(m.queue, r.queue) /\ r.has = m.has /\ r.peers = u.peers
       /\ r.h.tick = m.h.tick /\ r.h.ban = m.h.ban /\ r.queue \in Seq(Envelope)
       /\ r.seen = m.seen /\ r.quiet = m.quiet
  BY <1>2, <1>10 DEF Sent, MeshType
<1>13. ASSUME N \subseteq m.peers[n] PROVE r.queue = m.queue
  <2>1. E(T) = {}
    BY <1>13 DEF E, Envelopes
  <2>2. After(m.queue, r.queue) = {}
    BY <1>2, <1>10, <2>1 DEF Sent
  <2>3. m.queue \in Seq(Envelope)
    BY <1>1 DEF MeshType
  <2> QED
    BY <1>12, <2>2, <2>3, GrowsByNothing
<1> QED
  BY <1>2, <1>11, <1>12, <1>13 DEF Onward

\* A delivered hello has made its sender and those it names peers.
LEMMA HelloDelivered ==
  ASSUME NEW m, NEW s, Sound(m, s), NEW e \in Hello
  PROVE  LET r == deliver(m, e)
         IN  Onward(m, s, r) /\ Done(r, e) /\ Gains(m, e, r) /\ Spreads(m, r)
<1> DEFINE n == e.to
           N == {e.from} \cup (e.body \ {n})
           R == (N \ m.peers[n]) \cap {e.from}
           r == deliver(m, e)
<1>1. n \in Name /\ N \in SUBSET Name /\ n \notin N /\ IsHello(e)
  BY DEF Hello, IsHello
<1>2. m \in MeshType
  BY DEF Sound
<1>3. r = Hellos(Hellos(WithPeers(m, n, N), n, R), n, (N \ m.peers[n]) \ R)
  BY <1>1 DEF deliver, on_hello, HelloTargets
<1>4. R \in SUBSET (N \ m.peers[n])
  OBVIOUS
<1> HIDE DEF n, N, R, r
<1>5. /\ Onward(m, s, r) /\ r.peers = [m.peers EXCEPT ![n] = @ \cup N]
      /\ r.has = m.has /\ r.h.tick = m.h.tick /\ r.h.ban = m.h.ban
      /\ r.seen = m.seen /\ r.quiet = m.quiet /\ (N \subseteq m.peers[n] => r.queue = m.queue)
  BY <1>1, <1>3, <1>4, NewPeersGreeted
<1>6. N \subseteq r.peers[n]
  BY <1>1, <1>2, <1>5 DEF MeshType
<1>7. Spreads(m, r)
  BY <1>1, <1>2, <1>5, PeersSpread
<1> QED
  BY <1>1, <1>5, <1>6, <1>7 DEF Done, Gains, n, N, r

\* A node takes an item and relays it.
LEMMA Relayed ==
  ASSUME NEW m, NEW s, Sound(m, s), NEW n \in Name, NEW i \in Item, Takes(m, n, i),
         NEW h \in HardType, Filed(h), h.tick = m.h.tick, h.rate = m.h.rate, h.ban = m.h.ban,
         NEW T \in SUBSET m.peers[n], \A y \in m.peers[n] \ T : i \in m.seen[y],
         NEW u, u.has = [m.has EXCEPT ![n] = @ \cup {i}],
         u.seen = [m.seen EXCEPT ![n] = @ \cup {i}], u.h = h, u.peers = m.peers,
         u.late = m.late, u.lost = m.lost, u.queue = m.queue, u \in MeshType,
         NEW r, r = SendItem(u, n, T, i)
  PROVE  /\ Onward(m, s, r) /\ r.has = u.has /\ r.seen = u.seen
         /\ r.peers = u.peers /\ r.quiet = u.quiet
         /\ r.h.tick = m.h.tick /\ r.h.ban = m.h.ban
<1>1. m \in MeshType /\ WindowFits(m) /\ \A x \in Name : x \notin m.peers[x]
  BY DEF Sound
<1>2. T \in SUBSET Name
  BY <1>1 DEF MeshType
<1> DEFINE E == Envelopes("item", n, T, {i})
<1>3. E \subseteq Envelope
  BY <1>2 DEF Envelopes, Envelope, Message
<1>4. Sent(u, r, E)
  <2> HIDE DEF E
  <2> QED
    BY <1>2, <1>3, SendReaches DEF SendItem, E
<1>5. WindowFits(u)
  BY <1>1 DEF WindowFits, CurrentRate
<1>6. Needs(i) \subseteq m.has[n]
  BY DEF Takes
<1>7. ASSUME NEW t \in Seq(Envelope), Grows(s, t), After(s, t) = After(m.queue, r.queue)
      PROVE  Sound(r, t)
  <2>1. Filed(u.h) /\ After(s, t) = After(u.queue, r.queue)
    BY <1>7
  <2>2. Sent(u, r, Envelopes("item", n, T, {i}))
    BY <1>4
  <2>3. Took(m, n, i, u)
    BY <1>5, <1>6, <2>1 DEF Took
  <2> HIDE DEF E
  <2> QED
    BY <1>7, <2>1, <2>2, <2>3, TakeAndOffer
<1> HIDE DEF E
<1>8. /\ Grows(m.queue, r.queue) /\ r.has = u.has /\ r.seen = u.seen
      /\ r.peers = u.peers /\ r.quiet = u.quiet
      /\ r.h.tick = m.h.tick /\ r.h.ban = m.h.ban /\ r.queue \in Seq(Envelope)
  BY <1>4 DEF Sent, MeshType
<1> QED
  BY <1>7, <1>8 DEF Onward

\* Without new envelopes what waits is the same.
LEMMA NothingSent ==
  ASSUME NEW m, NEW s, NEW r, Sound(r, s), Sound(m, s), r.queue = m.queue
  PROVE  Onward(m, s, r)
<1>1. m.queue \in Seq(Envelope) /\ s \in Seq(Envelope)
  BY DEF Sound, MeshType
<1>2. Grows(m.queue, m.queue) /\ After(m.queue, m.queue) = {}
  BY <1>1 DEF Grows, After
<1>3. ASSUME NEW t \in Seq(Envelope), Grows(s, t), After(s, t) = {} PROVE t = s
  BY <1>1, <1>3, GrowsByNothing
<1> QED
  BY <1>1, <1>2, <1>3 DEF Onward


\* A delivered item is seen; it is taken from who is not banned, if all it
\* needs is there, and then relayed to all peers but its sender.
LEMMA ItemDelivered ==
  ASSUME NEW m, NEW s, Sound(m, s), Len(s) # 0, NEW e \in Message, s[1] = e
  PROVE  LET r == deliver(m, e)
         IN  Onward(m, s, r) /\ Done(r, e) /\ Gains(m, e, r) /\ Spreads(m, r)
<1> DEFINE n == e.to
           f == e.from
           r == deliver(m, e)
<1>1. n \in Name /\ f \in Name /\ n # f /\ IsItem(e) /\ ~IsHello(e)
  BY DEF Message, IsItem, IsHello
<1>2. PICK i \in Item : e.body = {i}
  BY DEF Message
<1>3. r = on_item_from(m, e, i)
  BY <1>1, <1>2 DEF deliver
<1>4. /\ m \in MeshType /\ m.h \in HardType /\ Filed(m.h) /\ s \in Seq(Envelope)
      /\ WindowFits(m) /\ \A x \in Name : x \notin m.peers[x]
  BY DEF Sound, MeshType
<1> DEFINE h == on_item(m.h, f, i, TRUE)
           v == [m EXCEPT !.seen[n] = @ \cup {i}, !.h = h]
<1>5. h \in HardType /\ Filed(h) /\ h.tick = m.h.tick /\ h.rate = m.h.rate /\ h.ban = m.h.ban
  BY <1>1, <1>4, ItemScored
<1>6. r = IF ~Unseen(m, n, i) THEN m
          ELSE IF is_banned(v.h, f) THEN [v EXCEPT !.lost = TRUE] ELSE Process(v, e, i)
  BY <1>3 DEF on_item_from
<1> HIDE DEF h
<1>7. /\ v \in MeshType /\ v.h = h /\ v.seen = [m.seen EXCEPT ![n] = @ \cup {i}]
      /\ v.has = m.has /\ v.peers = m.peers /\ v.queue = m.queue /\ v.late = m.late
      /\ v.lost = m.lost /\ v.quiet = m.quiet
  <2>1. [m.seen EXCEPT ![n] = @ \cup {i}] \in [Name -> SUBSET Item]
    BY <1>1, <1>4 DEF MeshType
  <2> QED
    BY <1>4, <1>5, <2>1 DEF MeshType
<1>8. WindowFits(v)
  BY <1>4, <1>5, <1>7 DEF WindowFits, CurrentRate
<1>9. i \in v.seen[n]
  BY <1>1, <1>4, <1>7 DEF MeshType
<1> HIDE DEF v, r
<1>13. ASSUME Unseen(m, n, i), r.peers = m.peers, r.quiet = m.quiet, r.seen = v.seen
       PROVE  Spreads(m, r)
  <2>1. i \notin m.seen[n] /\ r.seen = [m.seen EXCEPT ![n] = @ \cup {i}]
    BY <1>7, <1>13 DEF Unseen
  <2> HIDE DEF n
  <2> QED
    BY <1>1, <1>4, <1>13, <2>1, SightSpreads
<1>10. CASE ~Unseen(m, n, i)
  <2>1. r = m
    BY <1>6, <1>10
  <2>2. Onward(m, s, m)
    BY NothingSent
  <2>3. Spreads(m, m)
    BY DEF Spreads
  <2> QED
    BY <1>1, <1>2, <1>10, <2>1, <2>2, <2>3 DEF Done, Gains, Unseen, r
<1>11. CASE Unseen(m, n, i) /\ is_banned(v.h, f)
  <2>1. r = [v EXCEPT !.lost = TRUE]
    BY <1>6, <1>11
  <2>2. /\ r \in MeshType /\ r.h = v.h /\ r.seen = v.seen /\ r.has = m.has /\ r.peers = m.peers
        /\ r.queue = m.queue /\ r.late = m.late /\ r.lost = TRUE /\ r.quiet = m.quiet
    BY <1>7, <2>1 DEF MeshType
  <2>3. WindowFits(r)
    BY <1>8, <1>7, <2>2 DEF WindowFits
  <2>4. Sound(r, s)
    BY <1>1, <1>5, <1>7, <2>2, <2>3, SeenOnly
  <2>5. Onward(m, s, r)
    BY <2>2, <2>4, NothingSent
  <2>6. Spreads(m, r)
    BY <1>11, <1>13, <2>2
  <2> QED
    BY <1>1, <1>2, <1>5, <1>7, <1>9, <2>2, <2>5, <2>6 DEF Done, Gains, r
<1>12. CASE Unseen(m, n, i) /\ ~is_banned(v.h, f)
  <2>1. r = Process(v, e, i)
    BY <1>6, <1>12
  <2>2. ~Barred(m.h, f)
    BY <1>5, <1>7, <1>12 DEF is_banned, Barred
  <2>3. Takes(v, n, i) <=> Takes(m, n, i)
    BY <1>7 DEF Takes
  <2>4. CASE Takes(m, n, i)
    <3> DEFINE u == [v EXCEPT !.has[n] = @ \cup {i}]
               T == m.peers[n] \ {f}
    <3>1. r = SendItem(u, n, T, i)
      <4>1. RelayTargets(u, e) = T
        BY <1>7 DEF RelayTargets, MeshType
      <4>2. r = SendItem(u, n, RelayTargets(v, e), i)
        BY <2>1, <2>3, <2>4 DEF Process
      <4>3. RelayTargets(v, e) = T
        BY <1>7 DEF RelayTargets
      <4> QED
        BY <4>2, <4>3
    <3>2. [v.has EXCEPT ![n] = @ \cup {i}] \in [Name -> SUBSET Item]
      BY <1>1, <1>7 DEF MeshType
    <3>3. /\ u \in MeshType /\ u.h = h /\ u.seen = v.seen
          /\ u.has = [m.has EXCEPT ![n] = @ \cup {i}] /\ u.peers = m.peers
          /\ u.queue = m.queue /\ u.late = m.late /\ u.lost = m.lost /\ u.quiet = m.quiet
      BY <1>7, <3>2 DEF MeshType
    <3> HIDE DEF u
    <3>4. i \in m.seen[f]
      <4>1. SenderSaw(m, s) /\ 1 \in DOMAIN s
        BY <1>4 DEF Sound, Flooding
      <4> QED
        BY <1>1, <1>2, <4>1 DEF SenderSaw
    <3>5. T \in SUBSET m.peers[n] /\ \A y \in m.peers[n] \ T : i \in m.seen[y]
      BY <3>4
    <3> HIDE DEF T
    <3>6. /\ Onward(m, s, r) /\ r.has = u.has /\ r.seen = u.seen
          /\ r.h.tick = m.h.tick /\ r.h.ban = m.h.ban
          /\ r.peers = u.peers /\ r.quiet = u.quiet
      <4> HIDE DEF n
      <4> QED
        BY <1>1, <1>5, <1>7, <2>4, <3>1, <3>3, <3>5, Relayed
    <3>7. Done(r, e)
      BY <1>1, <1>2, <1>9, <3>3, <3>6 DEF Done
    <3>8. Gains(m, e, r)
      <4>1. \A x \in Name : r.has[x] = IF x = n THEN m.has[x] \cup {i} ELSE m.has[x]
        <5>1. m.has \in [Name -> SUBSET Item]
          BY <1>4 DEF MeshType
        <5>2. r.has = [m.has EXCEPT ![n] = m.has[n] \cup {i}] /\ n \in Name
          BY <1>1, <3>3, <3>6
        <5> QED
          BY <5>1, <5>2
      <4> QED
        BY <1>1, <1>2, <2>2, <3>6, <4>1 DEF Gains
    <3>9. Spreads(m, r)
      BY <1>12, <1>13, <3>3, <3>6
    <3> QED
      BY <3>6, <3>7, <3>8, <3>9 DEF r
  <2>5. CASE ~Takes(m, n, i)
    <3>1. r = v
      BY <2>1, <2>3, <2>5 DEF Process
    <3>2. m.lost \/ m.late # {}
      BY <1>1, <1>2, <2>5, FirstIsTaken
    <3>3. Sound(v, s)
      BY <1>1, <1>5, <1>7, <1>8, <3>2, SeenOnly
    <3>4. Onward(m, s, v)
      BY <1>7, <3>3, NothingSent
    <3>5. Spreads(m, r)
      BY <1>7, <1>12, <1>13, <3>1
    <3> QED
      BY <1>1, <1>2, <1>5, <1>7, <1>9, <3>1, <3>4, <3>5 DEF Done, Gains, r
  <2> QED
    BY <2>4, <2>5
<1> QED
  BY <1>10, <1>11, <1>12


-----------------------------------------------------------------------------
(***************************************************************************)
(* A tick.                                                                 *)
(***************************************************************************)

\* What waits when k envelopes of q are delivered and w is the next queue.
Rest(q, k, w) ==
  [j \in 1 .. (Len(q) - k) + Len(w) |-> IF j <= Len(q) - k THEN q[k + j]
                                        ELSE w[j - (Len(q) - k)]]

LEMMA RestEnds ==
  ASSUME NEW q \in Seq(Envelope), NEW w \in Seq(Envelope)
  PROVE  Rest(q, 0, <<>>) = q /\ Rest(q, Len(q), w) = w
<1>1. Rest(q, 0, <<>>) = [j \in 1 .. Len(q) |-> q[j]]
  BY DEF Rest
<1>2. Rest(q, Len(q), w) = [j \in 1 .. Len(w) |-> w[j]]
  BY DEF Rest
<1> QED
  BY <1>1, <1>2

\* Delivering one envelope: first the queue grows, then the envelope goes.
LEMMA RestMoves ==
  ASSUME NEW q \in Seq(Envelope), NEW w \in Seq(Envelope), NEW v \in Seq(Envelope),
         NEW k \in 1 .. Len(q), Grows(w, v)
  PROVE  LET s == Rest(q, k - 1, w)
             t == Rest(q, k - 1, v)
             u == Rest(q, k, v)
         IN  /\ s \in Seq(Envelope) /\ t \in Seq(Envelope) /\ u \in Seq(Envelope)
             /\ Len(s) # 0 /\ s[1] = q[k] /\ Grows(s, t) /\ After(s, t) = After(w, v)
             /\ Len(t) # 0 /\ t[1] = q[k] /\ Len(u) = Len(t) - 1
             /\ \A j \in 1 .. Len(u) : u[j] = t[j + 1]
<1> DEFINE n == Len(q)
           a == Len(w)
           b == Len(v)
           s == Rest(q, k - 1, w)
           t == Rest(q, k - 1, v)
           u == Rest(q, k, v)
           d == (n - k) + 1
<1>1. /\ n \in Nat /\ a \in Nat /\ b \in Nat /\ a <= b /\ k \in 1 .. n
      /\ (\A j \in 1 .. n : q[j] \in Envelope) /\ (\A j \in 1 .. a : w[j] \in Envelope)
      /\ (\A j \in 1 .. b : v[j] \in Envelope) /\ \A j \in 1 .. a : v[j] = w[j]
  BY DEF Grows
<1>2. n - (k - 1) = d /\ d \in Nat \ {0} /\ n - k = d - 1
  BY <1>1
<1>3. /\ s = [j \in 1 .. d + a |-> IF j <= d THEN q[(k - 1) + j] ELSE w[j - d]]
      /\ t = [j \in 1 .. d + b |-> IF j <= d THEN q[(k - 1) + j] ELSE v[j - d]]
      /\ u = [j \in 1 .. (d - 1) + b |-> IF j <= d - 1 THEN q[k + j] ELSE v[j - (d - 1)]]
  BY <1>2 DEF Rest
<1>4. After(w, v) = {v[j] : j \in a + 1 .. b}
  BY DEF After
<1> HIDE DEF n, a, b, s, t, u
<1>5. \A j \in 1 .. d : (k - 1) + j \in 1 .. n
  BY <1>1
<1> HIDE DEF d
<1>6. ASSUME NEW x \in Seq(Envelope), NEW c \in Nat, c = Len(x)
      PROVE  [j \in 1 .. d + c |-> IF j <= d THEN q[(k - 1) + j] ELSE x[j - d]] \in Seq(Envelope)
  <2> DEFINE y == [j \in 1 .. d + c |-> IF j <= d THEN q[(k - 1) + j] ELSE x[j - d]]
  <2>1. ASSUME NEW j \in 1 .. d + c PROVE y[j] \in Envelope
    <3>1. CASE j <= d
      <4>1. j \in 1 .. d
        BY <1>2, <3>1
      <4> QED
        BY <1>1, <1>5, <3>1, <4>1
    <3>2. CASE ~(j <= d)
      <4>1. j - d \in 1 .. c
        BY <1>2, <3>2
      <4> QED
        BY <1>6, <3>2, <4>1
    <3> QED
      BY <3>1, <3>2
  <2>2. d + c \in Nat
    BY <1>2
  <2>3. y \in [1 .. d + c -> Envelope]
    BY <2>1
  <2> HIDE DEF y
  <2>4. y \in Seq(Envelope)
    BY <2>2, <2>3
  <2> QED
    BY <2>4 DEF y
<1>7. s \in Seq(Envelope) /\ t \in Seq(Envelope)
  BY <1>1, <1>3, <1>6 DEF a, b
<1>8. Len(s) = d + a /\ Len(t) = d + b
  BY <1>1, <1>2, <1>3
<1>9. Len(s) # 0 /\ Len(t) # 0 /\ s[1] = q[k] /\ t[1] = q[k]
  <2>1. 1 \in 1 .. d + a /\ 1 \in 1 .. d + b /\ 1 <= d /\ (k - 1) + 1 = k /\ d + a # 0 /\ d + b # 0
    BY <1>1, <1>2
  <2> QED
    BY <1>3, <1>8, <2>1
<1>10. Grows(s, t)
  <2>1. d + a <= d + b
    BY <1>1, <1>2
  <2>2. ASSUME NEW j \in 1 .. d + a PROVE t[j] = s[j]
    <3>1. j \in 1 .. d + b
      BY <1>1, <1>2
    <3>2. CASE j <= d
      BY <1>3, <3>1, <3>2
    <3>3. CASE ~(j <= d)
      <4>1. j - d \in 1 .. a
        BY <1>1, <1>2, <3>3
      <4> QED
        BY <1>1, <1>3, <3>1, <3>3, <4>1
    <3> QED
      BY <3>2, <3>3
  <2> QED
    BY <1>8, <2>1, <2>2 DEF Grows
<1>11. After(s, t) = After(w, v)
  <2>1. After(s, t) = {t[j] : j \in (d + a) + 1 .. d + b}
    BY <1>8 DEF After
  <2>2. ASSUME NEW j \in (d + a) + 1 .. d + b PROVE j - d \in a + 1 .. b /\ t[j] = v[j - d]
    <3>1. j - d \in a + 1 .. b /\ j \in 1 .. d + b /\ ~(j <= d)
      BY <1>1, <1>2
    <3> QED
      BY <1>3, <3>1
  <2>3. ASSUME NEW i \in a + 1 .. b PROVE i + d \in (d + a) + 1 .. d + b /\ t[i + d] = v[i]
    <3>1. i + d \in (d + a) + 1 .. d + b /\ (i + d) - d = i
      BY <1>1, <1>2
    <3> QED
      BY <2>2, <3>1
  <2>4. After(s, t) \subseteq After(w, v)
    BY <1>4, <2>1, <2>2
  <2>5. After(w, v) \subseteq After(s, t)
    BY <1>4, <2>1, <2>3
  <2> QED
    BY <2>4, <2>5
<1>12. (d - 1) + b \in Nat /\ (d - 1) + b = (d + b) - 1
  BY <1>1, <1>2
<1>13. ASSUME NEW j \in 1 .. (d - 1) + b PROVE j + 1 \in 1 .. d + b /\ u[j] = t[j + 1]
  <2>1. j + 1 \in 1 .. d + b /\ j \in 1 .. (d - 1) + b
        /\ (j <= d - 1 <=> j + 1 <= d) /\ (k - 1) + (j + 1) = k + j /\ (j + 1) - d = j - (d - 1)
    BY <1>1, <1>2
  <2>2. t[j + 1] = IF j + 1 <= d THEN q[(k - 1) + (j + 1)] ELSE v[(j + 1) - d]
    BY <1>3, <2>1
  <2>3. u[j] = IF j <= d - 1 THEN q[k + j] ELSE v[j - (d - 1)]
    BY <1>3, <2>1
  <2> QED
    BY <2>1, <2>2, <2>3
<1>14. u \in Seq(Envelope) /\ Len(u) = (d - 1) + b
  <2> DEFINE l == (d - 1) + b
  <2>1. \A j \in 1 .. d + b : t[j] \in Envelope
    BY <1>7, <1>8
  <2>2. \A j \in 1 .. l : u[j] \in Envelope
    BY <1>13, <2>1
  <2>3. DOMAIN u = 1 .. l /\ u = [j \in 1 .. l |-> u[j]]
    BY <1>3
  <2>4. l \in Nat
    BY <1>12
  <2> HIDE DEF l
  <2>5. u \in [1 .. l -> Envelope]
    BY <2>2, <2>3
  <2>6. u \in Seq(Envelope) /\ Len(u) = l
    BY <2>4, <2>5
  <2> QED
    BY <2>6 DEF l
<1>15. Len(u) = Len(t) - 1 /\ \A j \in 1 .. Len(u) : u[j] = t[j + 1]
  BY <1>8, <1>12, <1>13, <1>14
<1> QED
  BY <1>7, <1>9, <1>10, <1>11, <1>14, <1>15 DEF s, t, u


\* What a tick starts from: the clock has moved, and the next queue is empty.
Started(m, b) ==
  /\ Sound(b, m.queue) /\ b.queue = <<>> /\ b.has = m.has
  /\ b.peers = m.peers /\ b.seen = m.seen /\ b.quiet \in 0 .. m.quiet + 1
  /\ \A p \in Name : b.h.ban[p] = NotBanned \/ Barred(b.h, p)

LEMMA TickStarts ==
  ASSUME NEW m, Sound(m, m.queue)
  PROVE  Started(m, [m EXCEPT !.queue = <<>>, !.h = tick(@), !.quiet = Min({@ + 1, MaxQuiet})])
<1> DEFINE h == tick(m.h)
           x == Min({m.quiet + 1, MaxQuiet})
           b == [m EXCEPT !.queue = <<>>, !.h = h, !.quiet = x]
<1>1. m \in MeshType /\ m.h \in HardType /\ Filed(m.h)
  BY DEF Sound, MeshType
<1>2. h \in HardType /\ Filed(h) /\ \A p \in Name : h.ban[p] = NotBanned \/ Barred(h, p)
  BY <1>1, TickExpires
<1>3. x \in 0 .. m.quiet + 1
  <2> DEFINE c == m.quiet + 1
  <2>1. c \in Nat
    BY <1>1 DEF MeshType
  <2>4. Min({c, MaxQuiet}) <= c
    <3>1. c \in Int /\ MaxQuiet \in Int
      BY <2>1, GossipAssumption
    <3> HIDE DEF c
    <3> QED
      BY <3>1, MinOfTwo
  <2> HIDE DEF c
  <2>2. Min({c, MaxQuiet}) \in {c, MaxQuiet}
    BY <2>1, GossipAssumption, OfTwo
  <2>3. Min({c, MaxQuiet}) \in 0 .. c
    BY <2>1, <2>2, <2>4, GossipAssumption
  <2> QED
    BY <2>3 DEF c
<1> HIDE DEF h, x
<1>4. /\ b \in MeshType /\ b.h = h /\ b.queue = <<>> /\ b.peers = m.peers /\ b.late = m.late
      /\ b.has = m.has /\ b.lost = m.lost /\ b.seen = m.seen /\ b.quiet = x
  <2>1. <<>> \in Seq(Envelope)
    OBVIOUS
  <2>2. x \in Nat
    BY <1>3
  <2> QED
    BY <1>1, <1>2, <2>1, <2>2 DEF MeshType
<1> HIDE DEF b
<1>5. WindowFits(b)
  <2> SUFFICES ASSUME NEW n \in Name
               PROVE  Cardinality({k \in DOMAIN b.queue : b.queue[k].from = n})
                        <= CurrentRate(b.h, n).messages
    BY DEF WindowFits
  <2>1. {k \in DOMAIN b.queue : b.queue[k].from = n} = {}
    BY <1>4
  <2>2. CurrentRate(b.h, n).messages \in Nat
    <3>1. b.h.rate[n] \in Limits
      BY <1>2, <1>4 DEF HardType
    <3> QED
      BY <3>1, HardeningAssumption DEF CurrentRate, FreshRate, Limits
  <2> QED
    BY <2>1, <2>2, FS_EmptySet
<1>6. Sound(b, m.queue)
  BY <1>2, <1>4, <1>5, HardeningOnly
<1> QED
  BY <1>2, <1>3, <1>4, <1>6 DEF Started, b, h, x

\* The item i reached n from who is not barred, as one of the first k of q.
From(h, q, k, n, i) ==
  \E l \in 1 .. k : /\ IsItem(q[l]) /\ q[l].to = n /\ q[l].body = {i}
                    /\ ~Barred(h, q[l].from)

\* One delivery keeps the mesh sound with what still waits.
LEMMA DeliverOne ==
  ASSUME NEW q \in Seq(Envelope), NEW k \in 1 .. Len(q), NEW m,
         Sound(m, Rest(q, k - 1, m.queue))
  PROVE  LET r == deliver(m, q[k])
         IN  Sound(r, Rest(q, k, r.queue)) /\ Gains(m, q[k], r) /\ Spreads(m, r)
<1> DEFINE e == q[k]
           r == deliver(m, e)
           s == Rest(q, k - 1, m.queue)
           t == Rest(q, k - 1, r.queue)
           u == Rest(q, k, r.queue)
<1>1. m.queue \in Seq(Envelope) /\ e \in Envelope
  BY DEF Sound, MeshType
<1>2. s \in Seq(Envelope) /\ Len(s) # 0 /\ s[1] = e
  <2> DEFINE w == m.queue
  <2>1. w \in Seq(Envelope) /\ Grows(w, w)
    BY <1>1 DEF Grows
  <2> HIDE DEF w
  <2>2. LET a == Rest(q, k - 1, w) IN a \in Seq(Envelope) /\ Len(a) # 0 /\ a[1] = q[k]
    BY <2>1, RestMoves
  <2> QED
    BY <2>2 DEF w
<1>3. Sound(m, s)
  OBVIOUS
<1> HIDE DEF s, r, e
<1>4. Onward(m, s, r) /\ Done(r, e) /\ Gains(m, e, r) /\ Spreads(m, r)
  <2>1. CASE e \in Hello
    BY <1>3, <2>1, HelloDelivered DEF r
  <2>2. CASE e \in Message
    BY <1>2, <1>3, <2>2, ItemDelivered DEF r
  <2> QED
    BY <1>1, <2>1, <2>2 DEF Envelope
<1>5. r.queue \in Seq(Envelope) /\ Grows(m.queue, r.queue)
  BY <1>4 DEF Onward
<1>6. /\ t \in Seq(Envelope) /\ u \in Seq(Envelope) /\ Grows(s, t)
      /\ After(s, t) = After(m.queue, r.queue) /\ Len(t) # 0 /\ t[1] = e
      /\ Len(u) = Len(t) - 1 /\ \A j \in 1 .. Len(u) : u[j] = t[j + 1]
  <2> DEFINE w == m.queue
             v == r.queue
  <2>1. w \in Seq(Envelope) /\ v \in Seq(Envelope) /\ Grows(w, v)
    BY <1>1, <1>5
  <2> HIDE DEF w, v
  <2>2. LET a == Rest(q, k - 1, w)
            b == Rest(q, k - 1, v)
            c == Rest(q, k, v)
        IN  /\ b \in Seq(Envelope) /\ c \in Seq(Envelope) /\ Grows(a, b)
            /\ After(a, b) = After(w, v) /\ Len(b) # 0 /\ b[1] = q[k]
            /\ Len(c) = Len(b) - 1 /\ \A j \in 1 .. Len(c) : c[j] = b[j + 1]
    BY <2>1, RestMoves
  <2> QED
    BY <2>2 DEF w, v, s, e
<1> HIDE DEF t, u
<1>7. Sound(r, t)
  BY <1>4, <1>6 DEF Onward
<1>8. Sound(r, u)
  <2>1. Done(r, t[1])
    BY <1>4, <1>6
  <2> QED
    BY <1>6, <1>7, <2>1, DropDone
<1> QED
  BY <1>4, <1>8 DEF r, u, e

\* A tick leaves the mesh sound, and lets nothing in from who is barred.
LEMMA TickDelivers ==
  ASSUME NEW m, NEW b, NEW q \in Seq(Envelope), q = m.queue, Started(m, b)
  PROVE  LET r == FoldLeft(deliver, b, q)
         IN  /\ Sound(r, r.queue) /\ r.h.ban = b.h.ban /\ Spreads(b, r) /\ (q = <<>> => r = b)
             /\ \A n \in Name : \A i \in r.has[n] \ m.has[n] : From(b.h, q, Len(q), n, i)
<1> DEFINE n == Len(q)
<1>1. n \in Nat /\ DOMAIN q = 1 .. n
  OBVIOUS
<1>2. FoldLeft(deliver, b, q) = Ticks!Run(0, 0, b, q)
  BY DEF Ticks!Run, FoldLeft, Ticks!MapThenFoldSet, MapThenFoldSet, DeliverBody,
         Ticks!Max, Max
<1>3. PICK f : Ticks!IsLoop(0, 0, b, n, q, f) /\ Ticks!Run(0, 0, b, q) = f[n]
  BY <1>1, Ticks!LoopRuns
<1> DEFINE Fine(j) == /\ Sound(f[j], Rest(q, j, f[j].queue))
                      /\ f[j].h.tick = b.h.tick /\ f[j].h.ban = b.h.ban /\ Spreads(b, f[j])
                      /\ \A x \in Name : \A i \in f[j].has[x] \ m.has[x] : From(b.h, q, j, x, i)
           Good == {j \in 0 .. n : Fine(j)}
<1>4. 0 \in Good
  <2>1. f[0] = b
    BY <1>1, <1>3 DEF Ticks!IsLoop
  <2>2. Rest(q, 0, b.queue) = q
    BY RestEnds DEF Started
  <2>3. Spreads(b, f[0])
    BY <2>1 DEF Spreads
  <2>4. Fine(0)
    BY <2>1, <2>2, <2>3 DEF Started
  <2> HIDE DEF Fine
  <2> QED
    BY <1>1, <2>4
<1>5. ASSUME NEW k \in 1 .. n, k - 1 \in Good PROVE k \in Good
  <2> DEFINE j == k - 1
  <2>1. j \in 0 .. n /\ k \in 0 .. n /\ k # 0
    BY <1>1
  <2>2. Fine(j)
    BY <1>5
  <2>3. f[k] = deliver(f[j], q[k])
    BY <1>3, <2>1 DEF Ticks!IsLoop, DeliverBody
  <2>4. Sound(f[k], Rest(q, k, f[k].queue)) /\ Gains(f[j], q[k], f[k]) /\ Spreads(f[j], f[k])
    <3>1. Sound(f[j], Rest(q, k - 1, f[j].queue)) /\ k \in 1 .. Len(q)
      BY <2>2
    <3> HIDE DEF j, n, Good, Fine
    <3> QED
      BY <2>3, <3>1, DeliverOne
  <2>5. ASSUME NEW x \in Name, NEW i \in f[k].has[x] \ m.has[x]
        PROVE  From(b.h, q, k, x, i)
    <3>1. CASE i \in f[j].has[x]
      <4>1. From(b.h, q, j, x, i)
        BY <2>2, <3>1
      <4>2. 1 .. j \subseteq 1 .. k
        BY <1>1
      <4> QED
        BY <4>1, <4>2 DEF From
    <3>2. CASE i \notin f[j].has[x]
      <4>1. IsItem(q[k]) /\ q[k].to = x /\ q[k].body = {i} /\ ~Barred(f[j].h, q[k].from)
        BY <2>4, <3>2 DEF Gains
      <4>2. ~Barred(b.h, q[k].from)
        BY <2>2, <4>1 DEF Barred
      <4>3. k \in 1 .. k
        BY <1>1
      <4> QED
        BY <4>1, <4>2, <4>3 DEF From
    <3> QED
      BY <3>1, <3>2
  <2>6. f[k].h.tick = b.h.tick /\ f[k].h.ban = b.h.ban
    BY <2>2, <2>4 DEF Gains
  <2>7. Spreads(b, f[k])
    BY <2>2, <2>4, SpreadsOn
  <2> HIDE DEF j
  <2>8. Fine(k)
    BY <2>4, <2>5, <2>6, <2>7
  <2> HIDE DEF Fine
  <2> QED
    BY <2>1, <2>8
<1> HIDE DEF Good
<1>6. n \in Good
  <2>1. \A j \in 0 .. n : j \in Good
    <3> HIDE DEF n
    <3> QED
      BY <1>1, <1>4, <1>5, Ticks!NatUpTo
  <2> QED
    BY <1>1, <2>1
<1>7. Fine(n)
  BY <1>6 DEF Good
<1>8. f[n].queue \in Seq(Envelope)
  BY <1>7 DEF Sound, MeshType
<1>9. Rest(q, n, f[n].queue) = f[n].queue
  BY <1>8, RestEnds
<1>10. q = <<>> => f[n] = b
  BY <1>3 DEF Ticks!IsLoop
<1> QED
  BY <1>2, <1>3, <1>7, <1>9, <1>10


-----------------------------------------------------------------------------
(***************************************************************************)
(* The calls from outside, and the theorems.                               *)
(***************************************************************************)

\* A call counts itself.
LEMMA CallKeeps ==
  ASSUME Inv, NEW m, Sound(m, m.queue), Call(m)
  PROVE  Inv' /\ mesh'.h = m.h
<1> DEFINE c == mesh.calls + 1
           r == [m EXCEPT !.calls = c, !.quiet = 0]
<1>1. c \in Nat
  BY DEF Inv, Sound, MeshType
<1>2. mesh' = r
  BY DEF Call
<1>3. m \in MeshType /\ WindowFits(m) /\ Filed(m.h)
  BY DEF Sound
<1> HIDE DEF c
<1>4. /\ r \in MeshType /\ r.h = m.h /\ r.queue = m.queue /\ r.peers = m.peers
      /\ r.late = m.late /\ r.has = m.has /\ r.lost = m.lost /\ r.seen = m.seen
  BY <1>1, <1>3 DEF MeshType
<1> HIDE DEF r
<1>5. WindowFits(r)
  BY <1>3, <1>4 DEF WindowFits
<1>6. Sound(r, m.queue)
  BY <1>3, <1>4, <1>5, HardeningOnly
<1> QED
  BY <1>2, <1>4, <1>6 DEF Inv

\* A new process starts sound.
LEMMA FreshIsSound ==
  ASSUME NEW r \in MeshType, r.queue = <<>>, Filed(r.h), \A p \in Name : r.h.rate[p] = FreshRate,
         Closed(r), \A n \in Name : r.peers[n] = {} /\ r.seen[n] = {},
         \A n \in Name : r.has[n] = {} \/ {n} \X Name \subseteq r.late
  PROVE  Sound(r, r.queue)
<1>1. r.queue \in Seq(Envelope) /\ DOMAIN r.queue = {}
  OBVIOUS
<1>2. WindowFits(r)
  <2> SUFFICES ASSUME NEW n \in Name
               PROVE  Cardinality({k \in DOMAIN r.queue : r.queue[k].from = n})
                        <= CurrentRate(r.h, n).messages
    BY DEF WindowFits
  <2> DEFINE S == {k \in DOMAIN r.queue : r.queue[k].from = n}
  <2>1. S = {}
    BY <1>1
  <2>2. CurrentRate(r.h, n).messages = 0
    BY DEF CurrentRate, FreshRate
  <2> HIDE DEF S
  <2>3. Cardinality(S) <= CurrentRate(r.h, n).messages
    BY <2>1, <2>2, FS_EmptySet
  <2> QED
    BY <2>3 DEF S
<1>3. Offered(r, r.queue) /\ Taken(r) /\ InStep(r, r.queue)
  BY <1>1 DEF Offered, Taken, InStep
<1>4. SenderSaw(r, r.queue) /\ FirstSeen(r)
  BY <1>1 DEF SenderSaw, FirstSeen
<1>5. Answered(r, r.queue) /\ Introduced(r, r.queue)
  BY DEF Answered, Introduced
<1> QED
  BY <1>1, <1>2, <1>3, <1>4, <1>5 DEF Sound, Flooding, Closing

LEMMA InitIsSound ==
  ASSUME Init
  PROVE  Inv
<1> DEFINE h == NewHardening
           has == [n \in Name |-> {}]
           r == Fresh(h, has)
<1>1. /\ h.rate = [p \in Name |-> FreshRate] /\ h.score = [p \in Name |-> 0]
      /\ h.ban = [p \in Name |-> NotBanned] /\ h.tick = 0
  BY DEF NewHardening
<1>2. h \in HardType
  <2> DEFINE f == [p \in {} |-> Forever]
             rate == [p \in Name |-> FreshRate]
  <2>1. FreshRate \in Limits
    BY HardeningAssumption DEF FreshRate, Limits
  <2>2. f \in [{} -> Nat]
    OBVIOUS
  <2>3. f \in UNION {[S -> Nat] : S \in SUBSET Name}
    BY <2>2
  <2>4. rate \in [Name -> Limits]
    BY <2>1
  <2> HIDE DEF f, rate
  <2>5. h = [tick |-> 0, rate |-> rate, known |-> [p \in Name |-> {}],
             score |-> [p \in Name |-> 0], ban |-> [p \in Name |-> NotBanned], file |-> f]
    BY DEF NewHardening, f, rate
  <2> HIDE DEF h
  <2> QED
    BY <2>3, <2>4, <2>5 DEF HardType
<1>3. \A p \in Name : ~is_banned(h, p)
  BY <1>1, HardeningAssumption DEF is_banned, Barred, NotBanned, Forever
<1> HIDE DEF h
<1>4. Filed(h)
  BY <1>3 DEF Filed
<1>5. has \in [Name -> SUBSET Item]
  OBVIOUS
<1>6. /\ r \in MeshType /\ r.queue = <<>> /\ r.h = h /\ r.has = has
      /\ \A n \in Name : r.peers[n] = {} /\ r.seen[n] = {}
  <2> HIDE DEF has
  <2> QED
    BY <1>2, <1>5 DEF Fresh, MeshType
<1>7. \A n \in Name : r.has[n] = {}
  BY <1>6
<1> HIDE DEF has, r
<1>8. Closed(r)
  BY <1>7 DEF Closed
<1>9. Sound(r, r.queue)
  BY <1>1, <1>4, <1>6, <1>7, <1>8, FreshIsSound
<1> QED
  BY <1>9 DEF Init, Inv, h, has, r

LEMMA RestartIsSound ==
  ASSUME Inv, Restart
  PROVE  Inv' /\ \A p \in Name : is_banned(mesh.h, p) => is_banned(mesh'.h, p)
<1> DEFINE h == load_bans(mesh.h.file)
           late == Name \X Name
           r == [Fresh(h, mesh.has) EXCEPT !.late = late]
<1>1. mesh \in MeshType /\ mesh.h \in HardType /\ Filed(mesh.h) /\ Closed(mesh)
  BY DEF Inv, Sound, MeshType, Flooding
<1>2. /\ h \in HardType /\ Filed(h)
      /\ \A p \in Name : h.rate[p] = FreshRate /\ (is_banned(mesh.h, p) => is_banned(h, p))
  BY <1>1, LoadBans
<1>3. late \in SUBSET (Name \X Name) /\ \A n \in Name : {n} \X Name \subseteq late
  OBVIOUS
<1>4. Call(r)
  BY DEF Restart
<1> HIDE DEF h, late
<1>5. /\ r \in MeshType /\ r.queue = <<>> /\ r.h = h /\ r.has = mesh.has /\ r.late = late
      /\ \A n \in Name : r.peers[n] = {} /\ r.seen[n] = {}
  <2> DEFINE x == Fresh(h, mesh.has)
  <2>1. mesh.has \in [Name -> SUBSET Item]
    BY <1>1 DEF MeshType
  <2>2. /\ x \in MeshType /\ x.queue = <<>> /\ x.h = h /\ x.has = mesh.has
        /\ \A n \in Name : x.peers[n] = {} /\ x.seen[n] = {}
    BY <1>2, <2>1 DEF Fresh, MeshType
  <2> HIDE DEF x
  <2>3. r = [x EXCEPT !.late = late]
    BY DEF x
  <2> QED
    BY <1>3, <2>2, <2>3 DEF MeshType
<1> HIDE DEF r
<1>6. Closed(r)
  BY <1>1, <1>5 DEF Closed
<1>7. Sound(r, r.queue)
  BY <1>2, <1>3, <1>5, <1>6, FreshIsSound
<1>8. Inv' /\ mesh'.h = h
  BY <1>4, <1>5, <1>7, CallKeeps
<1> QED
  BY <1>2, <1>8

LEMMA ConnectIsSound ==
  ASSUME Inv, NEW from \in Name, NEW to \in Name, Connect(from, to)
  PROVE  Inv'
<1> DEFINE N == {to}
           u == WithPeers(mesh, from, N)
           B == mesh.peers[from] \cup N
           r == Hellos(u, from, N)
<1>1. mesh \in MeshType /\ Sound(mesh, mesh.queue)
  BY DEF Inv, Sound
<1>2. from \notin N /\ N \in SUBSET Name /\ N \ mesh.peers[from] = N /\ Call(r)
  BY DEF Connect
<1> HIDE DEF N, r
<1>3. u \in MeshType /\ u.peers = [mesh.peers EXCEPT ![from] = @ \cup N] /\ u.queue = mesh.queue
  BY <1>1, <1>2, PeersAdded
<1> HIDE DEF u
<1>4. u.peers[from] = B /\ B \in SUBSET Name
  BY <1>1, <1>2, <1>3 DEF MeshType
<1> HIDE DEF B
<1> DEFINE E == Envelopes("hello", from, N, B)
<1>5. E \subseteq Envelope
  BY <1>2, <1>4 DEF Envelopes, Envelope, Hello
<1> HIDE DEF E
<1>6. Sent(u, r, E)
  BY <1>2, <1>3, <1>4, <1>5, SendReaches DEF Hellos, E, r
<1>7. r.queue \in Seq(Envelope) /\ Grows(mesh.queue, r.queue)
  BY <1>3, <1>6 DEF Sent, MeshType
<1>8. Sent(WithPeers(mesh, from, N), r,
           Envelopes("hello", from, N \ mesh.peers[from], mesh.peers[from] \cup N))
  BY <1>2, <1>6 DEF E, B, u
<1>9. Sound(r, r.queue)
  BY <1>1, <1>2, <1>7, <1>8, GreetNewPeers
<1> QED
  BY <1>2, <1>9, CallKeeps

LEMMA AnnounceIsSound ==
  ASSUME Inv, NEW n \in Name, NEW i \in Item, Announce(n, i)
  PROVE  Inv'
<1> DEFINE u == [mesh EXCEPT !.has[n] = @ \cup {i}, !.seen[n] = @ \cup {i}]
           T == mesh.peers[n]
           r == SendItem(u, n, T, i)
           E == Envelopes("item", n, T, {i})
<1>1. mesh \in MeshType /\ Sound(mesh, mesh.queue) /\ WindowFits(mesh) /\ Filed(mesh.h)
  BY DEF Inv, Sound
<1>2. Call(r) /\ Needs(i) \subseteq mesh.has[n]
  BY DEF Announce, Needs
<1>3. T \in SUBSET Name
  BY <1>1 DEF MeshType
<1>4. /\ [mesh.has EXCEPT ![n] = @ \cup {i}] \in [Name -> SUBSET Item]
      /\ [mesh.seen EXCEPT ![n] = @ \cup {i}] \in [Name -> SUBSET Item]
  BY <1>1 DEF MeshType
<1>5. /\ u \in MeshType /\ u.h = mesh.h /\ u.queue = mesh.queue /\ u.peers = mesh.peers
      /\ u.late = mesh.late /\ u.lost = mesh.lost
      /\ u.has = [mesh.has EXCEPT ![n] = @ \cup {i}]
      /\ u.seen = [mesh.seen EXCEPT ![n] = @ \cup {i}]
  BY <1>1, <1>4 DEF MeshType
<1> HIDE DEF u
<1>6. WindowFits(u)
  BY <1>1, <1>5 DEF WindowFits
<1>7. Took(mesh, n, i, u)
  BY <1>1, <1>2, <1>5, <1>6 DEF Took
<1>8. E \subseteq Envelope
  BY <1>3 DEF Envelopes, Envelope, Message
<1>9. Sent(u, r, E)
  <2> HIDE DEF E, T
  <2> QED
    BY <1>3, <1>5, <1>8, SendReaches DEF SendItem, E
<1>10. /\ r.queue \in Seq(Envelope) /\ Grows(mesh.queue, r.queue)
       /\ After(mesh.queue, r.queue) = After(u.queue, r.queue)
  BY <1>5, <1>9 DEF Sent, MeshType
<1>11. Sound(r, r.queue)
  <2>1. T \in SUBSET mesh.peers[n] /\ mesh.peers[n] \ T = {}
    OBVIOUS
  <2> HIDE DEF r, T
  <2> QED
    BY <1>1, <1>7, <1>9, <1>10, <2>1, TakeAndOffer
<1> HIDE DEF r
<1> QED
  BY <1>2, <1>11, CallKeeps

\* Synchronised blocks are not announced, so the receiver's edges are late.
LEMMA SyncIsSound ==
  ASSUME Inv, NEW from \in Name, NEW to \in Name, SyncHeadersFirst(from, to)
  PROVE  Inv'
<1> DEFINE m == mesh
           s == mesh.queue
           has == [m.has EXCEPT ![to] = @ \cup (m.has[from] \cap Block)]
           late == m.late \cup ({to} \X Name)
           u == [m EXCEPT !.has = has, !.late = late]
<1>1. /\ m \in MeshType /\ s \in Seq(Envelope) /\ \A x \in Name : x \notin m.peers[x]
      /\ Flooding(m, s) /\ Closing(m, s) /\ WindowFits(m) /\ Filed(m.h)
  BY DEF Inv, Sound
<1>2. Call(u)
  BY <1>1 DEF SyncHeadersFirst, MeshType
<1>3. /\ has \in [Name -> SUBSET Item] /\ late \in SUBSET (Name \X Name)
      /\ m.late \subseteq late /\ {to} \X Name \subseteq late /\ <<to, to>> \in late
      /\ \A x \in Name : has[x] = IF x = to THEN m.has[to] \cup (m.has[from] \cap Block)
                                  ELSE m.has[x]
  BY <1>1 DEF MeshType
<1> HIDE DEF has, late
<1>4. /\ u \in MeshType /\ u.h = m.h /\ u.queue = s /\ u.peers = m.peers /\ u.has = has
      /\ u.late = late /\ u.lost = m.lost /\ u.seen = m.seen
  BY <1>1, <1>3 DEF MeshType
<1> HIDE DEF u
<1>5. WindowFits(u) /\ Filed(u.h)
  BY <1>1, <1>4 DEF WindowFits
<1>6. Closed(u)
  <2> SUFFICES ASSUME NEW n \in Name, NEW i \in has[n] PROVE Needs(i) \subseteq has[n]
    BY <1>4 DEF Closed
  <2>1. \A x \in Name : \A j \in m.has[x] : Needs(j) \subseteq m.has[x]
    BY <1>1 DEF Flooding, Closed
  <2>2. Needs(i) \subseteq Block
    BY GossipAssumption DEF Needs
  <2>3. CASE i \in m.has[n]
    BY <1>3, <2>1, <2>3
  <2>4. CASE i \notin m.has[n]
    <3>1. n = to /\ i \in m.has[from]
      BY <1>3, <2>4
    <3> QED
      BY <1>3, <2>1, <2>2, <3>1
  <2> QED
    BY <2>3, <2>4
<1>7. u.late # {}
  BY <1>3, <1>4
<1>8. Taken(u) /\ InStep(u, s)
  BY <1>7 DEF Taken, InStep
<1>9. Offered(u, s)
  <2> SUFFICES ASSUME NEW n \in Name, NEW x \in m.peers[n], NEW i \in has[n]
               PROVE  m.lost \/ <<n, x>> \in late \/ i \in m.seen[x] \/ Waits(s, x, i)
    BY <1>4 DEF Offered
  <2>1. x \in Name
    BY <1>1 DEF MeshType
  <2>2. CASE n = to
    BY <1>3, <2>1, <2>2
  <2>3. CASE n # to
    BY <1>1, <1>3, <2>3 DEF Flooding, Offered
  <2> QED
    BY <2>2, <2>3
<1>10. SenderSaw(u, s)
  BY <1>1, <1>4 DEF Flooding, SenderSaw
<1>11. FirstSeen(u)
  <2> SUFFICES ASSUME NEW n \in Name
               PROVE  has[n] = {} \/ (\E x \in Name : m.seen[x] # {}) \/ {n} \X Name \subseteq late
    BY <1>4 DEF FirstSeen
  <2>1. CASE n = to
    BY <1>3, <2>1
  <2>2. CASE n # to
    <3>1. m.has[n] = {} \/ (\E x \in Name : m.seen[x] # {}) \/ {n} \X Name \subseteq m.late
      BY <1>1 DEF Flooding, FirstSeen
    <3> QED
      BY <1>3, <2>2, <3>1
  <2> QED
    BY <2>1, <2>2
<1>12. Closing(u, s)
  BY <1>1, <1>4 DEF Closing, Answered, Introduced
<1>13. Sound(u, u.queue)
  BY <1>1, <1>4, <1>5, <1>6, <1>8, <1>9, <1>10, <1>11, <1>12 DEF Sound, Flooding
<1> QED
  BY <1>2, <1>13, CallKeeps

LEMMA BansAreSound ==
  ASSUME Inv, NEW p \in Name, NEW ticks \in Nat, BanPeer(p, ticks) \/ UnbanPeer(p)
  PROVE  Inv'
<1>1. mesh \in MeshType /\ mesh.h \in HardType /\ WindowFits(mesh) /\ Sound(mesh, mesh.queue)
  BY DEF Inv, Sound, MeshType
<1>2. PICK g : /\ g = ban_for(mesh.h, p, ticks) \/ g = unban(mesh.h, p)
               /\ Call([mesh EXCEPT !.h = g])
  BY DEF BanPeer, UnbanPeer
<1>3. g \in HardType /\ Filed(g) /\ g.tick = mesh.h.tick /\ g.rate = mesh.h.rate
  BY <1>1, <1>2, CallsSave
<1> DEFINE u == [mesh EXCEPT !.h = g]
<1>4. /\ u \in MeshType /\ u.h = g /\ u.queue = mesh.queue /\ u.peers = mesh.peers
      /\ u.late = mesh.late /\ u.has = mesh.has /\ u.lost = mesh.lost /\ u.seen = mesh.seen
  BY <1>1, <1>3 DEF MeshType
<1> HIDE DEF u
<1>5. WindowFits(u)
  BY <1>1, <1>3, <1>4 DEF WindowFits, CurrentRate
<1>6. Sound(u, u.queue)
  BY <1>1, <1>3, <1>4, <1>5, HardeningOnly
<1> QED
  BY <1>2, <1>6, CallKeeps DEF u


\* While a manual ban lasts, a tick lets nothing in that only the banned sent.
Unheard ==
  \A n \in Name : \A i \in mesh'.has[n] \ mesh.has[n] :
    \E k \in DOMAIN mesh.queue :
      /\ IsItem(mesh.queue[k]) /\ mesh.queue[k].to = n /\ mesh.queue[k].body = {i}
      /\ LET p == mesh.queue[k].from
         IN  mesh'.h.ban[p] = NotBanned

LEMMA TickIsSound ==
  ASSUME Inv, Tick
  PROVE  Inv' /\ Unheard
<1> DEFINE m == mesh
           q == mesh.queue
           b == [m EXCEPT !.queue = <<>>, !.h = tick(@), !.quiet = Min({@ + 1, MaxQuiet})]
           r == FoldLeft(deliver, b, q)
<1>1. Sound(m, q) /\ q \in Seq(Envelope)
  BY DEF Inv, Sound
<1>2. Started(m, b)
  BY <1>1, TickStarts
<1>3. mesh' = r
  BY DEF Tick
<1> HIDE DEF b
<1>4. /\ Sound(r, r.queue) /\ r.h.ban = b.h.ban
      /\ \A n \in Name : \A i \in r.has[n] \ m.has[n] : From(b.h, q, Len(q), n, i)
  BY <1>1, <1>2, TickDelivers
<1> HIDE DEF r
<1>5. ASSUME NEW n \in Name, NEW i \in mesh'.has[n] \ mesh.has[n]
      PROVE  \E k \in DOMAIN q : /\ IsItem(q[k]) /\ q[k].to = n /\ q[k].body = {i}
                                 /\ mesh'.h.ban[q[k].from] = NotBanned
  <2>1. PICK k \in 1 .. Len(q) : /\ IsItem(q[k]) /\ q[k].to = n /\ q[k].body = {i}
                                 /\ ~Barred(b.h, q[k].from)
    BY <1>3, <1>4, <1>5 DEF From
  <2>2. k \in DOMAIN q /\ q[k].from \in Name
    BY <1>1 DEF Envelope, Hello, Message
  <2>3. b.h.ban[q[k].from] = NotBanned
    BY <1>2, <2>1, <2>2 DEF Started
  <2> QED
    BY <1>3, <1>4, <2>1, <2>2, <2>3
<1> QED
  BY <1>3, <1>4, <1>5 DEF Inv, Unheard

LEMMA NextIsSound ==
  ASSUME Inv, [Next]_vars
  PROVE  /\ Inv' /\ (Tick => Unheard)
         /\ (Restart => \A p \in Name : is_banned(mesh.h, p) => is_banned(mesh'.h, p))
<1>1. Tick => Inv' /\ Unheard
  BY TickIsSound
<1>2. Restart => Inv' /\ \A p \in Name : is_banned(mesh.h, p) => is_banned(mesh'.h, p)
  BY RestartIsSound
<1>3. ASSUME NEW a \in Name, NEW b \in Name, Connect(a, b) \/ SyncHeadersFirst(a, b) PROVE Inv'
  BY <1>3, ConnectIsSound, SyncIsSound
<1>4. ASSUME NEW n \in Name, NEW i \in Item, Announce(n, i) PROVE Inv'
  BY <1>4, AnnounceIsSound
<1>5. ASSUME NEW p \in Name, UnbanPeer(p) \/ \E ticks \in {0, 2} : BanPeer(p, ticks) PROVE Inv'
  BY <1>5, BansAreSound
<1>6. UNCHANGED vars => Inv'
  BY DEF vars, Inv
<1>7. Inv'
  BY <1>1, <1>2, <1>3, <1>4, <1>5, <1>6 DEF Next
<1> QED
  BY <1>1, <1>2, <1>7

(***************************************************************************)
(* The invariant holds between ticks, in every behaviour of the mesh.      *)
(***************************************************************************)
THEOREM MeshIsSound == Spec => []Inv
<1>1. Init => Inv
  BY InitIsSound
<1>2. Inv /\ [Next]_vars => Inv'
  BY NextIsSound
<1> QED
  BY <1>1, <1>2, PTL DEF Spec

(***************************************************************************)
(* Floods: in an idle mesh that refused nothing, what a node has was       *)
(* offered over all its edges that were there in time, and if all were, no *)
(* neighbour lacks it; and no node ever has a block without those below.   *)
(***************************************************************************)
THEOREM FloodsReach == Spec => []Floods
<1>1. Inv => Floods
  <2> SUFFICES ASSUME Inv PROVE Floods
    OBVIOUS
  <2>1. mesh \in MeshType /\ Flooding(mesh, mesh.queue)
    BY DEF Inv, Sound
  <2>2. \A n \in Name : \A i \in mesh.has[n] : Needs(i) \subseteq mesh.has[n]
    BY <2>1 DEF Flooding, Closed
  <2>3. ASSUME mesh.queue = <<>>, ~mesh.lost, NEW n \in Name, NEW x \in mesh.peers[n],
               NEW i \in mesh.has[n]
        PROVE  <<n, x>> \in mesh.late \/ i \in mesh.seen[x]
    <3>1. ~Waits(mesh.queue, x, i)
      BY <2>3 DEF Waits, WaitsAt
    <3> QED
      BY <2>1, <2>3, <3>1 DEF Flooding, Offered
  <2>4. ASSUME ~mesh.lost, mesh.late = {}, NEW n \in Name, NEW x \in mesh.peers[n]
        PROVE  mesh.seen[x] \subseteq mesh.has[x]
    <3>1. x \in Name
      BY <2>1 DEF MeshType
    <3> QED
      BY <2>1, <2>4, <3>1 DEF Flooding, Taken
  <2>5. ASSUME mesh.queue = <<>>, ~mesh.lost, NEW n \in Name, NEW x \in mesh.peers[n]
        PROVE  /\ <<n, x>> \notin mesh.late => mesh.has[n] \subseteq mesh.seen[x]
               /\ mesh.late = {} => mesh.has[n] \subseteq mesh.has[x]
    <3>1. <<n, x>> \notin mesh.late => mesh.has[n] \subseteq mesh.seen[x]
      BY <2>3, <2>5
    <3>2. mesh.late = {} => mesh.seen[x] \subseteq mesh.has[x]
      BY <2>4, <2>5
    <3> QED
      BY <3>1, <3>2
  <2> QED
    BY <2>2, <2>5 DEF Floods
<1> QED
  BY <1>1, MeshIsSound, PTL

\* No rate limit's worth of waiting envelopes is exceeded, and an idle mesh
\* that refused nothing is a set of cliques: peers know each other, and so do
\* peers of peers.
THEOREM MeshIsBounded == Spec => [](QueueBounded /\ EdgesClose)
<1>1. Inv => QueueBounded
  <2> SUFFICES ASSUME Inv, NEW n \in Name
               PROVE  Cardinality({k \in DOMAIN mesh.queue : mesh.queue[k].from = n})
                        <= MaxMessages
    BY DEF QueueBounded
  <2> DEFINE c == Cardinality({k \in DOMAIN mesh.queue : mesh.queue[k].from = n})
             S == {k \in DOMAIN mesh.queue : mesh.queue[k].from = n}
  <2>1. mesh.h \in HardType /\ mesh.queue \in Seq(Envelope)
    BY DEF Inv, Sound, MeshType
  <2>2. c <= CurrentRate(mesh.h, n).messages
    BY DEF Inv, Sound, WindowFits
  <2>3. CurrentRate(mesh.h, n).messages \in 0 .. MaxMessages
    <3>1. mesh.h.rate[n] \in Limits
      BY <2>1 DEF HardType
    <3> QED
      BY <3>1, HardeningAssumption DEF CurrentRate, FreshRate, Limits
  <2>4. c \in Nat
    <3>1. S \in SUBSET (1 .. Len(mesh.queue)) /\ Len(mesh.queue) \in Nat
      BY <2>1
    <3>2. IsFiniteSet(1 .. Len(mesh.queue))
      <4>1. \A k \in Nat : IsFiniteSet(1 .. k)
        BY FS_Interval
      <4> QED
        BY <3>1, <4>1
    <3> HIDE DEF S
    <3>3. Cardinality(S) \in Nat
      BY <3>1, <3>2, FS_Subset, FS_CardinalityType
    <3> QED
      BY <3>3 DEF S
  <2> HIDE DEF c
  <2>5. c <= MaxMessages
    BY <2>2, <2>3, <2>4, HardeningAssumption
  <2> QED
    BY <2>5 DEF c
<1>2. Inv => EdgesClose
  <2> SUFFICES ASSUME Inv, mesh.queue = <<>>, ~mesh.lost, NEW n \in Name, NEW x \in mesh.peers[n]
               PROVE  mesh.peers[x] \cup {x} = mesh.peers[n] \cup {n}
    BY DEF EdgesClose
  <2>1. /\ mesh \in MeshType /\ Closing(mesh, mesh.queue)
        /\ \A a \in Name : a \notin mesh.peers[a]
    BY DEF Inv, Sound
  <2>2. \A a \in Name : mesh.peers[a] \in SUBSET Name
    BY <2>1 DEF MeshType
  <2>3. \A a \in Name : \A b \in mesh.peers[a] : b \in Name /\ a \in mesh.peers[b]
    BY <2>1, <2>2 DEF Closing, Answered, Greets
  <2>4. \A a \in Name : \A b, c \in mesh.peers[a] :
          b = c \/ c \in mesh.peers[b] \/ b \in mesh.peers[c]
    BY <2>1 DEF Closing, Introduced, Names
  <2>5. \A a \in Name : \A b \in mesh.peers[a] :
          mesh.peers[a] \cup {a} \subseteq mesh.peers[b] \cup {b}
    BY <2>2, <2>3, <2>4
  <2> QED
    BY <2>3, <2>5
<1> QED
  BY <1>1, <1>2, MeshIsSound, PTL

\* What there is to learn: every tick that queues something learns something.
Learnt(m) == Cardinality(Edges(m)) + Cardinality(Sights(m))

Draining == mesh.queue = <<>> \/ mesh.quiet <= Learnt(mesh)

\* The pairs that a node can learn.
LEMMA LearntFinite ==
  ASSUME IsFiniteSet(Item), NEW m
  PROVE  /\ IsFiniteSet(Edges(m)) /\ IsFiniteSet(Sights(m))
         /\ Cardinality(Edges(m)) \in Nat /\ Cardinality(Sights(m)) \in Nat
         /\ Learnt(m) <= Cardinality(Name) * (Cardinality(Name) + Cardinality(Item))
<1>1. IsFiniteSet(Name)
  BY GossipAssumption
<1>2. /\ IsFiniteSet(Name \X Name) /\ IsFiniteSet(Name \X Item)
      /\ Cardinality(Name \X Name) = Cardinality(Name) * Cardinality(Name)
      /\ Cardinality(Name \X Item) = Cardinality(Name) * Cardinality(Item)
  BY <1>1, FS_Product
<1>3. Edges(m) \subseteq Name \X Name /\ Sights(m) \subseteq Name \X Item
  BY DEF Edges, Sights
<1>4. /\ IsFiniteSet(Edges(m)) /\ Cardinality(Edges(m)) <= Cardinality(Name \X Name)
      /\ IsFiniteSet(Sights(m)) /\ Cardinality(Sights(m)) <= Cardinality(Name \X Item)
  BY <1>2, <1>3, FS_Subset
<1>5. /\ Cardinality(Edges(m)) \in Nat /\ Cardinality(Sights(m)) \in Nat
      /\ Cardinality(Name) \in Nat /\ Cardinality(Item) \in Nat
  BY <1>1, <1>4, FS_CardinalityType
<1> DEFINE n == Cardinality(Name)
           i == Cardinality(Item)
           a == Cardinality(Edges(m))
           b == Cardinality(Sights(m))
<1>6. a <= n * n /\ b <= n * i
  BY <1>2, <1>4
<1>7. a \in Nat /\ b \in Nat /\ n \in Nat /\ i \in Nat
  BY <1>5
<1> HIDE DEF n, i, a, b
<1>8. n * (n + i) = n * n + n * i /\ n * n \in Nat /\ n * i \in Nat
  BY <1>7
<1>9. a + b <= n * (n + i)
  BY <1>6, <1>7, <1>8
<1> QED
  BY <1>4, <1>7, <1>9 DEF Learnt, n, i, a, b

\* Whoever learns something knows more.
LEMMA LearntGrows ==
  ASSUME IsFiniteSet(Item), NEW m, NEW r, Edges(m) \subseteq Edges(r), Sights(m) \subseteq Sights(r),
         Edges(r) # Edges(m) \/ Sights(r) # Sights(m)
  PROVE  Learnt(m) + 1 <= Learnt(r)
<1>1. /\ IsFiniteSet(Edges(r)) /\ IsFiniteSet(Sights(r))
      /\ Cardinality(Edges(r)) \in Nat /\ Cardinality(Sights(r)) \in Nat
      /\ Cardinality(Edges(m)) \in Nat /\ Cardinality(Sights(m)) \in Nat
  BY LearntFinite
<1>2. /\ Cardinality(Edges(m)) <= Cardinality(Edges(r))
      /\ (Edges(m) # Edges(r) => Cardinality(Edges(m)) < Cardinality(Edges(r)))
  <2> DEFINE S == Edges(m)
             T == Edges(r)
  <2>1. IsFiniteSet(T) /\ S \in SUBSET T
    BY <1>1
  <2> HIDE DEF S, T
  <2>2. /\ Cardinality(S) <= Cardinality(T)
        /\ (Cardinality(S) = Cardinality(T) => S = T)
    BY <2>1, FS_Subset
  <2> QED
    BY <1>1, <2>2 DEF S, T
<1>3. /\ Cardinality(Sights(m)) <= Cardinality(Sights(r))
      /\ (Sights(m) # Sights(r) => Cardinality(Sights(m)) < Cardinality(Sights(r)))
  <2> DEFINE S == Sights(m)
             T == Sights(r)
  <2>1. IsFiniteSet(T) /\ S \in SUBSET T
    BY <1>1
  <2> HIDE DEF S, T
  <2>2. /\ Cardinality(S) <= Cardinality(T)
        /\ (Cardinality(S) = Cardinality(T) => S = T)
    BY <2>1, FS_Subset
  <2> QED
    BY <1>1, <2>2 DEF S, T
<1> QED
  BY <1>1, <1>2, <1>3 DEF Learnt

\* A tick in which something was queued learnt something; a call starts anew.
LEMMA NextDrains ==
  ASSUME IsFiniteSet(Item), Inv, Draining, [Next]_vars
  PROVE  Draining'
<1>1. CASE Tick
  <2> DEFINE q == mesh.queue
             b == [mesh EXCEPT !.queue = <<>>, !.h = tick(@), !.quiet = Min({@ + 1, MaxQuiet})]
             r == FoldLeft(deliver, b, q)
  <2>1. mesh' = r
    BY <1>1 DEF Tick
  <2>2. Sound(mesh, q) /\ q \in Seq(Envelope) /\ mesh.quiet \in Nat
    BY DEF Inv, Sound, MeshType
  <2>3. Started(mesh, b)
    BY <2>2, TickStarts
  <2> HIDE DEF b
  <2>4. Spreads(b, r) /\ (q = <<>> => r = b)
    BY <2>2, <2>3, TickDelivers
  <2> HIDE DEF r
  <2>5. /\ b.queue = <<>> /\ Edges(b) = Edges(mesh) /\ Sights(b) = Sights(mesh)
        /\ b.quiet \in 0 .. mesh.quiet + 1
    BY <2>3 DEF Started, Edges, Sights
  <2>6. ASSUME r.queue # <<>> PROVE r.quiet <= Learnt(r)
    <3>1. q # <<>> /\ (Edges(r) # Edges(mesh) \/ Sights(r) # Sights(mesh))
      BY <2>4, <2>5, <2>6 DEF Spreads
    <3>2. Learnt(mesh) + 1 <= Learnt(r)
      BY <2>4, <2>5, <3>1, LearntGrows DEF Spreads
    <3>3. mesh.quiet <= Learnt(mesh)
      BY <3>1 DEF Draining
    <3>4. Learnt(mesh) \in Nat /\ Learnt(r) \in Nat
      BY LearntFinite DEF Learnt
    <3>5. r.quiet \in 0 .. mesh.quiet + 1
      BY <2>4, <2>5 DEF Spreads
    <3> QED
      BY <2>2, <3>2, <3>3, <3>4, <3>5
  <2> QED
    BY <2>1, <2>6 DEF Draining
<1>2. ASSUME NEW m, Call(m) PROVE Draining'
  <2>1. mesh' \in MeshType
    BY NextIsSound DEF Inv, Sound
  <2>2. "quiet" \in DOMAIN mesh'
    BY <2>1 DEF MeshType
  <2>3. "quiet" \in DOMAIN [m EXCEPT !.calls = mesh.calls + 1]
    BY <1>2, <2>2 DEF Call
  <2>4. mesh'.quiet = 0
    BY <1>2, <2>3 DEF Call
  <2> QED
    BY <2>4, LearntFinite DEF Draining, Learnt
<1>3. CASE UNCHANGED vars
  BY <1>3 DEF vars, Draining, Learnt, Edges, Sights
<1>4. CASE Next /\ ~Tick
  BY <1>2, <1>4 DEF Next, Connect, SyncHeadersFirst, Announce, BanPeer, UnbanPeer, Restart
<1> QED
  BY <1>1, <1>3, <1>4

(***************************************************************************)
(* The mesh settles: what is queued is bounded, an idle mesh is closed,    *)
(* and hellos and floods die out.  Nothing is sent unless a node learns of *)
(* a peer or sees an item, so that the queue is empty after as many ticks  *)
(* as there is to learn, also in the middle of bans, unbans and losses     *)
(* ("honest meshes drain", drain).                                         *)
(***************************************************************************)
THEOREM MeshDrains ==
  ASSUME IsFiniteSet(Item),
         Cardinality(Name) * (Cardinality(Name) + Cardinality(Item)) < MaxQuiet
  PROVE  Spec => []MeshSettles
<1>1. Inv => MaxQuiet \in Nat /\ mesh.quiet \in Nat
  BY GossipAssumption DEF Inv, Sound, MeshType
<1>2. Init => Draining
  BY DEF Init, Fresh, Draining
<1>3. Inv /\ Draining /\ [Next]_vars => Draining'
  BY NextDrains
<1>4. Inv /\ Draining => DrainsSoon
  <2> SUFFICES ASSUME Inv, Draining, mesh.quiet = MaxQuiet, mesh.queue # <<>> PROVE FALSE
    BY DEF DrainsSoon
  <2> DEFINE a == Cardinality(Name)
             b == Cardinality(Name) + Cardinality(Item)
  <2>1. MaxQuiet <= Learnt(mesh) /\ Learnt(mesh) <= a * b
    BY LearntFinite DEF Draining
  <2>2. Learnt(mesh) \in Nat
    BY LearntFinite DEF Learnt
  <2>3. a \in Nat /\ b \in Nat
    BY GossipAssumption, FS_CardinalityType
  <2>4. a * b < MaxQuiet
    OBVIOUS
  <2> HIDE DEF a, b
  <2>5. a * b \in Nat
    BY <2>3
  <2> QED
    BY <1>1, <2>1, <2>2, <2>4, <2>5
<1>5. QueueBounded /\ EdgesClose /\ DrainsSoon => MeshSettles
  BY DEF MeshSettles
<1> QED
  BY <1>2, <1>3, <1>4, <1>5, MeshIsSound, MeshIsBounded, PTL DEF Spec

(***************************************************************************)
(* A ban is a ban: while it lasts a tick lets nothing in that only banned  *)
(* peers sent, not even by a relay in the same tick, and whoever is banned *)
(* when the process ends is banned in the next.                            *)
(***************************************************************************)
THEOREM BansAreHeld == Spec => BansHold
<1>1. Inv /\ [Next]_vars => [Tick => Unheard]_vars
  BY NextIsSound
<1>2. Inv /\ [Next]_vars =>
        [Restart => \A p \in Name : is_banned(mesh.h, p) => is_banned(mesh'.h, p)]_vars
  BY NextIsSound
<1>3. [][Tick => Unheard]_vars => BannedUnheard
  BY PTL DEF BannedUnheard, Unheard
<1>4. [][Restart => \A p \in Name : is_banned(mesh.h, p) => is_banned(mesh'.h, p)]_vars
        => BansSurviveRestart
  BY PTL DEF BansSurviveRestart
<1> QED
  BY <1>1, <1>2, <1>3, <1>4, MeshIsSound, PTL DEF Spec, BansHold


=============================================================================
