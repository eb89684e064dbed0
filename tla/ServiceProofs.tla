--------------------------- MODULE ServiceProofs ---------------------------
(***************************************************************************)
(* Proofs about Store and about Service, for every set of blocks with any  *)
(* parents, any faucet addresses, payments and cap, and any number of      *)
(* crashes and failing writes.                                             *)
(*                                                                         *)
(* The store.  Records are only ever added at the end of a log, so what a  *)
(* log holds is a sequence of pieces that is extended or, by create, begun *)
(* anew.  Pieces that are no records change neither what is logged nor     *)
(* whether it can be inserted (InsertPiece); the records written and those *)
(* still pending are together those that were pending before               *)
(* (SplitPending).  Durability needs in addition that a log without torn   *)
(* pieces can be read and holds what was acknowledged, also while the      *)
(* process is down (AckedOnDisk).                                          *)
(*                                                                         *)
(* The server.  A step of the server is one of Store's or leaves the store *)
(* alone (StoreStep), so what Store promises holds under the server.  The  *)
(* faucet: what is paid on disk, or in a block that others fetched, is     *)
(* counted in the file, what is paid in memory in the map, and each write  *)
(* of the file that is lost costs one cap (Books).  Answers: what an open log lacks is at risk, and a request *)
(* forgets nothing else (Vouched).                                         *)
(***************************************************************************)
EXTENDS Service, FiniteSetTheorems, SequenceTheorems, TLAPS

\* An untorn log that somebody relies on can be read and has what is relied on.
AckedOnDisk ==
    /\ up /\ ~log => acked = {}
    /\ acked # {} /\ ~Torn(file) => Readable(file) /\ acked \subseteq Logged(file)

IInv == TypeOK /\ LogCovers /\ AckedOnDisk

-----------------------------------------------------------------------------
(***************************************************************************)
(* Kinds of pieces, and sequences of records.                              *)
(***************************************************************************)
LEMMA PieceKinds ==
    /\ Header \in Pieces /\ Header.kind # "record"
    /\ TornLength \in Pieces /\ TornLength.kind # "record"
    /\ TornBody \in Pieces /\ TornBody.kind # "record"
    /\ \A b \in Blocks : /\ Record(b) \in Pieces
                         /\ Record(b).kind = "record" /\ Record(b).block = b
                         /\ Record(b) # TornLength /\ Record(b) # TornBody
    /\ \A p \in Pieces : p.kind = "record" => p.block \in Blocks
<1>1. /\ Header \in Pieces /\ Header.kind # "record"
      /\ TornLength \in Pieces /\ TornLength.kind # "record"
      /\ TornBody \in Pieces /\ TornBody.kind # "record"
  BY DEF Header, TornLength, TornBody, Pieces
<1>2. ASSUME NEW b \in Blocks
      PROVE  /\ Record(b) \in Pieces
             /\ Record(b).kind = "record" /\ Record(b).block = b
  BY DEF Record, Pieces
<1>3. ASSUME NEW b \in Blocks
      PROVE  Record(b) # TornLength /\ Record(b) # TornBody
  BY <1>1, <1>2
<1>4. ASSUME NEW p \in Pieces, p.kind = "record" PROVE p.block \in Blocks
  <2>1. p # Header /\ p # TornLength /\ p # TornBody
    BY <1>1, <1>4
  <2>2. PICK b \in Blocks : p = Record(b)
    BY <2>1 DEF Pieces
  <2> QED
    BY <2>2, <1>2
<1> QED
  BY <1>1, <1>2, <1>3, <1>4

LEMMA CompleteIsPieces ==
    ASSUME NEW s \in Seq(Blocks)
    PROVE  /\ Complete(s) \in Seq(Pieces)
           /\ Len(Complete(s)) = Len(s)
           /\ \A i \in 1..Len(s) : /\ Complete(s)[i] = Record(s[i])
                                   /\ Complete(s)[i].kind = "record"
                                   /\ Complete(s)[i].block = s[i]
<1>1. \A i \in 1..Len(s) : s[i] \in Blocks
  OBVIOUS
<1>2. \A i \in 1..Len(s) : Record(s[i]) \in Pieces
  BY <1>1, PieceKinds
<1>3. Complete(s) \in Seq(Pieces) /\ Len(Complete(s)) = Len(s)
  BY <1>2 DEF Complete
<1>4. QED
  BY <1>1, <1>3, PieceKinds DEF Complete

(***************************************************************************)
(* A piece that is no record, put anywhere, changes neither what is logged *)
(* nor whether it can be inserted.                                         *)
(***************************************************************************)
LEMMA InsertPiece ==
    ASSUME NEW a \in Seq(Pieces), NEW b \in Seq(Pieces), NEW t \in Pieces,
           t.kind # "record"
    PROVE  /\ Logged(a \o <<t>> \o b) = Logged(a \o b)
           /\ Insertable(a \o b) => Insertable(a \o <<t>> \o b)
<1> DEFINE f == a \o b
           g == a \o <<t>> \o b
           down(i) == IF i <= Len(a) THEN i ELSE i - 1
           rise(i) == IF i <= Len(a) THEN i ELSE i + 1
<1>1. /\ f \in Seq(Pieces) /\ g \in Seq(Pieces)
      /\ Len(f) = Len(a) + Len(b) /\ Len(g) = Len(a) + 1 + Len(b)
  OBVIOUS
<1>2. \A i \in DOMAIN f : rise(i) \in DOMAIN g /\ g[rise(i)] = f[i]
  OBVIOUS
<1>3. g[Len(a) + 1] = t
  OBVIOUS
<1>4. \A i \in DOMAIN g : i # Len(a) + 1 => down(i) \in DOMAIN f /\ f[down(i)] = g[i]
  OBVIOUS
<1>5. \A i \in Places(f) : rise(i) \in Places(g) /\ g[rise(i)] = f[i]
  BY <1>2 DEF Places
<1>6. \A i \in Places(g) : down(i) \in Places(f) /\ f[down(i)] = g[i]
  BY <1>3, <1>4 DEF Places
<1>7. \A i, j \in Places(g) : j < i => down(j) < down(i)
  <2>1. \A i \in Places(g) : i \in DOMAIN g /\ i # Len(a) + 1
    BY <1>3 DEF Places
  <2>2. DOMAIN g \subseteq Int
    BY <1>1
  <2> QED
    BY <2>1, <2>2
<1>8. \A i, j \in Places(f) : j < i => rise(j) < rise(i)
  <2>1. Places(f) \subseteq Int
    BY <1>1 DEF Places
  <2> QED
    BY <2>1
<1>9. Logged(g) = Logged(f)
  <2>1. ASSUME NEW x \in Logged(g) PROVE x \in Logged(f)
    <3>1. PICK i \in Places(g) : x = g[i].block
      BY <2>1 DEF Logged
    <3>2. down(i) \in Places(f) /\ f[down(i)] = g[i]
      BY <1>6
    <3> HIDE DEF f, g, down
    <3> QED
      BY <3>1, <3>2 DEF Logged
  <2>2. ASSUME NEW x \in Logged(f) PROVE x \in Logged(g)
    <3>1. PICK i \in Places(f) : x = f[i].block
      BY <2>2 DEF Logged
    <3>2. rise(i) \in Places(g) /\ g[rise(i)] = f[i]
      BY <1>5
    <3> HIDE DEF f, g, rise
    <3> QED
      BY <3>1, <3>2 DEF Logged
  <2> QED
    BY <2>1, <2>2
<1>10. ASSUME Insertable(f) PROVE Insertable(g)
  <2> SUFFICES ASSUME NEW i \in Places(g)
               PROVE  LET before == {g[j].block : j \in {k \in Places(g) : k < i}}
                      IN  g[i].block \notin before /\ Parents[g[i].block] \subseteq before
    BY DEF Insertable
  <2> DEFINE bg == {g[j].block : j \in {k \in Places(g) : k < i}}
             bf == {f[j].block : j \in {k \in Places(f) : k < down(i)}}
  <2>1. bg \subseteq bf
    BY <1>6, <1>7
  <2>2. \A k \in Places(f) : k < down(i) => rise(k) < i
    <3>1. i \in DOMAIN g /\ i # Len(a) + 1
      BY <1>3 DEF Places
    <3>2. Places(f) \subseteq Int
      BY <1>1 DEF Places
    <3> QED
      BY <3>1, <3>2, <1>1
  <2>3. bf \subseteq bg
    BY <1>5, <2>2
  <2>4. f[down(i)].block \notin bf /\ Parents[f[down(i)].block] \subseteq bf
    BY <1>6, <1>10 DEF Insertable
  <2> QED
    BY <1>6, <2>1, <2>3, <2>4
<1> QED
  BY <1>9, <1>10

(***************************************************************************)
(* The beginning of a log that can be inserted can be, and logs no more.   *)
(***************************************************************************)
LEMMA PrefixInserts ==
    ASSUME NEW a \in Seq(Pieces), NEW b \in Seq(Pieces)
    PROVE  /\ Logged(a) \subseteq Logged(a \o b)
           /\ Insertable(a \o b) => Insertable(a)
<1> DEFINE f == a \o b
<1>1. f \in Seq(Pieces) /\ Len(f) = Len(a) + Len(b)
  OBVIOUS
<1>2. \A i \in DOMAIN a : i \in DOMAIN f /\ f[i] = a[i]
  OBVIOUS
<1>3. \A i \in DOMAIN f, j \in DOMAIN a : i < j => i \in DOMAIN a
  BY <1>1
<1> HIDE DEF f
<1>4. Places(a) \subseteq Places(f)
  BY <1>2 DEF Places
<1>5. Logged(a) \subseteq Logged(f)
  <2> SUFFICES ASSUME NEW i \in Places(a) PROVE a[i].block \in Logged(f)
    BY DEF Logged
  <2>1. i \in Places(f) /\ f[i] = a[i]
    BY <1>2, <1>4 DEF Places
  <2> QED
    BY <2>1 DEF Logged
<1>6. ASSUME Insertable(f) PROVE Insertable(a)
  <2> SUFFICES ASSUME NEW i \in Places(a)
               PROVE  LET before == {a[j].block : j \in {k \in Places(a) : k < i}}
                      IN  a[i].block \notin before /\ Parents[a[i].block] \subseteq before
    BY DEF Insertable
  <2>1. i \in Places(f) /\ f[i] = a[i]
    BY <1>2, <1>4 DEF Places
  <2>2. {k \in Places(a) : k < i} = {k \in Places(f) : k < i}
    BY <1>2, <1>3 DEF Places
  <2>3. {a[j].block : j \in {k \in Places(a) : k < i}}
          = {f[j].block : j \in {k \in Places(f) : k < i}}
    BY <1>2, <2>2 DEF Places
  <2> QED
    BY <1>6, <2>1, <2>3 DEF Insertable
<1> QED
  BY <1>5, <1>6 DEF f

(***************************************************************************)
(* One more record at the end.                                             *)
(***************************************************************************)
LEMMA AppendRecord ==
    ASSUME NEW f \in Seq(Pieces), NEW b \in Blocks
    PROVE  LET g == Append(f, Record(b)) IN
           /\ Logged(g) = Logged(f) \cup {b}
           /\ Insertable(f) /\ b \notin Logged(f) /\ Parents[b] \subseteq Logged(f)
                => Insertable(g)
<1> DEFINE g == Append(f, Record(b))
           n == Len(f) + 1
<1>1. Record(b) \in Pieces /\ Record(b).kind = "record" /\ Record(b).block = b
  BY PieceKinds
<1>2. /\ DOMAIN f = 1..Len(f) /\ DOMAIN g = 1..n /\ n \in Nat /\ Len(f) \in Nat
      /\ g[n] = Record(b)
      /\ \A i \in DOMAIN f : g[i] = f[i]
  BY <1>1
<1> HIDE DEF g
<1>3. Places(g) = Places(f) \cup {n} /\ \A i \in Places(f) : i < n /\ i \in Int
  BY <1>1, <1>2 DEF Places
<1>4. \A i \in Places(f) : g[i] = f[i]
  BY <1>2 DEF Places
<1>5. g[n].block = b
  BY <1>1, <1>2
<1> HIDE DEF n
<1>6. Logged(g) = Logged(f) \cup {b}
  BY <1>3, <1>4, <1>5 DEF Logged
<1>7. ASSUME Insertable(f), b \notin Logged(f), Parents[b] \subseteq Logged(f),
             NEW i \in Places(g)
      PROVE  LET before == {g[j].block : j \in {k \in Places(g) : k < i}}
             IN  g[i].block \notin before /\ Parents[g[i].block] \subseteq before
  <2>1. CASE i = n
    <3>1. {k \in Places(g) : k < n} = Places(f)
      BY <1>2, <1>3
    <3>2. {g[j].block : j \in {k \in Places(g) : k < i}} = Logged(f)
      BY <1>4, <2>1, <3>1 DEF Logged
    <3> QED
      BY <1>5, <1>7, <2>1, <3>2
  <2>2. CASE i \in Places(f)
    <3>1. {k \in Places(g) : k < i} = {k \in Places(f) : k < i}
      BY <1>2, <1>3, <2>2
    <3>2. {g[j].block : j \in {k \in Places(g) : k < i}}
            = {f[j].block : j \in {k \in Places(f) : k < i}}
      BY <1>4, <3>1
    <3> QED
      BY <1>4, <1>7, <2>2, <3>2 DEF Insertable
  <2> QED
    BY <1>3, <2>1, <2>2
<1> QED
  BY <1>6, <1>7 DEF Insertable, g

-----------------------------------------------------------------------------
(***************************************************************************)
(* What one write adds and what stays queued after it.                     *)
(***************************************************************************)
LEMMA CutPieces ==
    ASSUME NEW cut \in Cuts
    PROVE  /\ cut \in Seq(Pieces)
           /\ cut = <<>> \/ \E t \in Pieces : cut = <<t>> /\ t.kind # "record"
<1>1. CASE cut = <<>>
  BY <1>1
<1>2. ASSUME NEW t \in Pieces, cut = <<t>>, t.kind # "record"
      PROVE  cut \in Seq(Pieces) /\ \E u \in Pieces : cut = <<u>> /\ u.kind # "record"
  BY <1>2
<1> QED
  BY <1>1, <1>2, PieceKinds DEF Cuts

LEMMA QueueParts ==
    ASSUME NEW s \in Seq(Blocks), NEW n \in 0..Len(s)
    PROVE  /\ First(s, n) \in Seq(Blocks) /\ From(s, n + 1) \in Seq(Blocks)
           /\ Complete(s) = Complete(First(s, n)) \o Complete(From(s, n + 1))
<1>1. /\ First(s, n) \in Seq(Blocks) /\ Len(First(s, n)) = n
      /\ \A i \in 1..n : First(s, n)[i] = s[i]
  BY SubSeqProperties DEF First
<1>2. /\ From(s, n + 1) \in Seq(Blocks) /\ Len(From(s, n + 1)) = Len(s) - n
      /\ \A i \in 1..(Len(s) - n) : From(s, n + 1)[i] = s[n + i]
  BY SubSeqProperties DEF From
<1> DEFINE c == Complete(s)
           a == Complete(First(s, n))
           b == Complete(From(s, n + 1))
<1>3. /\ c \in Seq(Pieces) /\ Len(c) = Len(s)
      /\ \A i \in 1..Len(s) : c[i] = Record(s[i])
  BY CompleteIsPieces
<1>4. /\ a \in Seq(Pieces) /\ Len(a) = n
      /\ \A i \in 1..n : a[i] = Record(s[i])
  BY <1>1, CompleteIsPieces
<1>5. /\ b \in Seq(Pieces) /\ Len(b) = Len(s) - n
      /\ \A i \in 1..(Len(s) - n) : b[i] = Record(s[n + i])
  BY <1>2, CompleteIsPieces
<1> HIDE DEF a, b, c
<1>6. a \o b \in Seq(Pieces) /\ Len(a \o b) = Len(c)
  BY <1>3, <1>4, <1>5
<1>7. \A i \in 1..Len(c) : (a \o b)[i] = c[i]
  <2> SUFFICES ASSUME NEW i \in 1..Len(s) PROVE (a \o b)[i] = c[i]
    BY <1>3
  <2>1. CASE i <= n
    BY <2>1, <1>3, <1>4, <1>5
  <2>2. CASE ~(i <= n)
    <3>1. (a \o b)[i] = b[i - n] /\ i - n \in 1..(Len(s) - n)
      BY <2>2, <1>4, <1>5
    <3>2. s[n + (i - n)] = s[i]
      OBVIOUS
    <3> QED
      BY <3>1, <3>2, <1>3, <1>5
  <2> QED
    BY <2>1, <2>2
<1>8. c = a \o b
  BY <1>3, <1>6, <1>7, SeqEqual
<1> QED
  BY <1>1, <1>2, <1>8 DEF a, b, c

(***************************************************************************)
(* After any write to a log, whole or cut short, the log followed by what  *)
(* stays queued is as good as it was with all that was queued.             *)
(***************************************************************************)
LEMMA WriteKeepsCover ==
    ASSUME NEW f \in Seq(Pieces), NEW s \in Seq(Blocks), NEW w \in WriteOutcomes(s),
           Insertable(f \o Complete(s))
    PROVE  LET g == f \o Written(s, w[1], w[2])
               rest == From(s, w[1] + 1)
           IN  /\ g \in Seq(Pieces) /\ rest \in Seq(Blocks)
               /\ Insertable(g \o Complete(rest))
               /\ Logged(g \o Complete(rest)) = Logged(f \o Complete(s))
<1> DEFINE n == w[1]
           cut == w[2]
           a == Complete(First(s, n))
           b == Complete(From(s, n + 1))
           fa == f \o a
<1>1. n \in 0..Len(s) /\ cut \in Cuts
  BY DEF WriteOutcomes
<1>2. /\ From(s, n + 1) \in Seq(Blocks)
      /\ a \in Seq(Pieces) /\ b \in Seq(Pieces) /\ Complete(s) = a \o b
  BY <1>1, QueueParts, CompleteIsPieces
<1>3. cut \in Seq(Pieces)
  BY <1>1, CutPieces
<1> HIDE DEF n, cut, a, b
<1>4. fa \in Seq(Pieces) /\ f \o (a \o b) = fa \o b
  BY <1>2, ConcatAssociative, SMTT(40)
<1>5. f \o (a \o cut) = fa \o cut /\ fa \o cut \in Seq(Pieces)
  BY <1>2, <1>3, ConcatAssociative, SMTT(40)
<1> HIDE DEF fa
<1>6. CASE cut = <<>>
  <2>1. fa \o cut = fa
    BY <1>4, <1>6
  <2> QED
    BY <1>2, <1>4, <1>5, <2>1 DEF Written, n, cut, a, b
<1>7. ASSUME NEW t \in Pieces, cut = <<t>>, t.kind # "record"
      PROVE  /\ Insertable((fa \o cut) \o b)
             /\ Logged((fa \o cut) \o b) = Logged(fa \o b)
  <2>1. fa \o <<t>> \o b = (fa \o cut) \o b
    BY <1>7
  <2>2. Insertable(fa \o b)
    BY <1>2, <1>4
  <2> QED
    BY <1>2, <1>4, <1>7, <2>1, <2>2, InsertPiece
<1>8. CASE cut # <<>>
  <2>1. PICK t \in Pieces : cut = <<t>> /\ t.kind # "record"
    BY <1>1, <1>8, CutPieces
  <2>2. /\ Insertable((fa \o cut) \o b)
        /\ Logged((fa \o cut) \o b) = Logged(fa \o b)
    BY <2>1, <1>7
  <2> QED
    BY <1>2, <1>4, <1>5, <2>2 DEF Written, n, cut, a, b
<1> QED
  BY <1>6, <1>8

(***************************************************************************)
(* A log created for a set of blocks, whole or cut short.                  *)
(***************************************************************************)
LEMMA CreatedLog ==
    ASSUME NEW S \in SUBSET Blocks, NEW s \in Linearizations(S)
    PROVE  LET f == <<Header>> \o Complete(s) IN
           /\ s \in Seq(Blocks)
           /\ f \in Seq(Pieces) /\ Insertable(f) /\ Logged(f) = S
           /\ ~Torn(f)
<1>1. Cardinality(S) \in Nat
  BY BlocksAssumption, FS_Subset, FS_CardinalityType
<1>2. s \in Seq(Blocks) /\ {s[i] : i \in DOMAIN s} = S /\ Insertable(Complete(s))
  BY <1>1 DEF Linearizations
<1> DEFINE c == Complete(s)
           f == <<Header>> \o c
<1>3. /\ c \in Seq(Pieces) /\ DOMAIN c = DOMAIN s
      /\ \A i \in DOMAIN s : c[i].kind = "record" /\ c[i].block = s[i]
  BY <1>2, CompleteIsPieces
<1>4. Logged(c) = S
  BY <1>2, <1>3 DEF Logged, Places
<1>5. Header \in Pieces /\ Header.kind # "record"
  BY PieceKinds
<1>6. <<>> \o <<Header>> \o c = f /\ <<>> \o c = c /\ f \in Seq(Pieces)
  BY <1>3, <1>5
<1>7. Insertable(f) /\ Logged(f) = S
  <2> HIDE DEF c, f
  <2>1. Insertable(c)
    BY <1>2 DEF c
  <2> QED
    BY <1>3, <1>4, <1>5, <1>6, <2>1, EmptySeq, InsertPiece
<1>8. ~Torn(f)
  <2> SUFFICES ASSUME NEW i \in DOMAIN f PROVE f[i] # TornLength /\ f[i] # TornBody
    BY DEF Torn
  <2>1. CASE i = 1
    <3>1. f[i] = Header
      BY <1>3, <2>1
    <3> QED
      BY <3>1 DEF Header, TornLength, TornBody
  <2>2. CASE i # 1
    <3>1. i - 1 \in DOMAIN c /\ f[i] = c[i - 1]
      BY <1>3, <1>5, <2>2
    <3>2. i - 1 \in 1..Len(s)
      BY <1>2, <1>3, <3>1
    <3>3. s[i - 1] \in Blocks
      BY <1>2, <3>2
    <3>4. c[i - 1] = Record(s[i - 1])
      BY <1>2, <3>2, CompleteIsPieces
    <3> QED
      BY <3>1, <3>3, <3>4, PieceKinds
  <2> QED
    BY <2>1, <2>2
<1> QED
  BY <1>2, <1>6, <1>7, <1>8

LEMMA UnfinishedPieces ==
    ASSUME NEW S \in SUBSET Blocks, NEW f \in Unfinished(S)
    PROVE  f \in Seq(Pieces)
<1>1. CASE f = <<>>
  BY <1>1
<1>2. ASSUME NEW s \in Linearizations(S), NEW w \in WriteOutcomes(s),
             f = <<Header>> \o Written(s, w[1], w[2])
      PROVE  f \in Seq(Pieces)
  <2>1. s \in Seq(Blocks)
    BY <1>2, CreatedLog
  <2>2. w[1] \in 0..Len(s) /\ w[2] \in Seq(Pieces)
    BY CutPieces DEF WriteOutcomes
  <2>3. Complete(First(s, w[1])) \in Seq(Pieces)
    BY <2>1, <2>2, QueueParts, CompleteIsPieces
  <2> QED
    BY <1>2, <2>2, <2>3, PieceKinds DEF Written
<1> QED
  BY <1>1, <1>2 DEF Unfinished

-----------------------------------------------------------------------------
(***************************************************************************)
(* Readability of logs without torn pieces, and writes to the open log.    *)
(***************************************************************************)
LEMMA UntornReadable ==
    ASSUME NEW f, ~Torn(f), Insertable(f), Logged(f) # {}
    PROVE  Readable(f)
BY DEF Torn, Readable

LEMMA UntornPrefix ==
    ASSUME NEW f \in Seq(Pieces), NEW g \in Seq(Pieces), ~Torn(f \o g)
    PROVE  ~Torn(f)
<1>1. \A i \in DOMAIN f : i \in DOMAIN (f \o g) /\ (f \o g)[i] = f[i]
  OBVIOUS
<1> QED
  BY <1>1 DEF Torn

LEMMA WrittenPieces ==
    ASSUME NEW s \in Seq(Blocks), NEW w \in WriteOutcomes(s)
    PROVE  Written(s, w[1], w[2]) \in Seq(Pieces)
<1>1. w[1] \in 0..Len(s) /\ w[2] \in Cuts
  BY DEF WriteOutcomes
<1>2. Complete(First(s, w[1])) \in Seq(Pieces)
  BY <1>1, QueueParts, CompleteIsPieces
<1> QED
  BY <1>1, <1>2, CutPieces DEF Written

LEMMA OpenLogWrite ==
    ASSUME IInv, up, log, NEW w \in WriteOutcomes(pending)
    PROVE  LET g == file \o Written(pending, w[1], w[2]) IN
           /\ g \in Seq(Pieces) /\ Unappended(w[1]) \in Seq(Blocks)
           /\ Insertable(g \o Complete(Unappended(w[1])))
           /\ Logged(g \o Complete(Unappended(w[1]))) = ledger
           /\ w[1] = Len(pending) => Insertable(g) /\ Logged(g) = ledger
           /\ acked # {} /\ ~Torn(g) => Readable(g) /\ acked \subseteq Logged(g)
<1> DEFINE v == Written(pending, w[1], w[2])
           g == file \o v
           rest == Unappended(w[1])
<1>1. /\ file \in Seq(Pieces) /\ pending \in Seq(Blocks)
      /\ Insertable(file \o Complete(pending))
      /\ Logged(file \o Complete(pending)) = ledger
  BY DEF IInv, TypeOK, LogCovers
<1>2. /\ g \in Seq(Pieces) /\ rest \in Seq(Blocks)
      /\ Insertable(g \o Complete(rest))
      /\ Logged(g \o Complete(rest)) = ledger
  BY <1>1, WriteKeepsCover DEF Unappended
<1>3. v \in Seq(Pieces) /\ Complete(rest) \in Seq(Pieces)
  BY <1>1, <1>2, WrittenPieces, CompleteIsPieces
<1>4. ASSUME w[1] = Len(pending) PROVE g \o Complete(rest) = g
  <2>1. rest = <<>>
    BY <1>1, <1>4, SubSeqEmpty DEF Unappended, From
  <2>2. Complete(rest) = <<>>
    <3>1. Len(Complete(rest)) = 0
      BY <1>2, <2>1, CompleteIsPieces
    <3> QED
      BY <1>3, <3>1
  <2> HIDE DEF g, rest
  <2> QED
    BY <1>2, <2>2
<1>5. ASSUME acked # {}, ~Torn(g) PROVE Readable(g) /\ acked \subseteq Logged(g)
  <2>1. ~Torn(file)
    BY <1>1, <1>3, <1>5, UntornPrefix
  <2>2. acked \subseteq Logged(file)
    BY <1>5, <2>1 DEF IInv, AckedOnDisk
  <2>3. Logged(file) \subseteq Logged(g)
    BY <1>1, <1>3, PrefixInserts
  <2>4. Insertable(g)
    BY <1>2, <1>3, PrefixInserts
  <2> QED
    BY <1>5, <2>2, <2>3, <2>4, UntornReadable
<1> HIDE DEF g, rest
<1>6. w[1] = Len(pending) => Insertable(g) /\ Logged(g) = ledger
  BY <1>2, <1>4
<1> QED
  BY <1>2, <1>5, <1>6 DEF g, rest

LEMMA EmptyQueue ==
    ASSUME NEW f \in Seq(Pieces)
    PROVE  f \o Complete(<<>>) = f
<1>1. Complete(<<>>) \in Seq(Pieces) /\ Len(Complete(<<>>)) = 0
  BY EmptySeq, CompleteIsPieces
<1>2. Complete(<<>>) = <<>>
  BY <1>1
<1> QED
  BY <1>2

-----------------------------------------------------------------------------
(***************************************************************************)
(* The steps.                                                              *)
(***************************************************************************)
LEMMA InsertStep ==
    ASSUME IInv, NEW b \in Blocks, Insert(b)
    PROVE  IInv'
<1> USE DEF Insert, disk
<1>1. TypeOK'
  BY DEF IInv, TypeOK
<1>2. ASSUME log PROVE LogCovers'
  <2> DEFINE c == Complete(pending)
             f == file \o c
  <2>1. /\ file \in Seq(Pieces) /\ pending \in Seq(Blocks)
        /\ Insertable(f) /\ Logged(f) = ledger
    BY <1>2 DEF IInv, TypeOK, LogCovers
  <2>2. c \in Seq(Pieces) /\ Record(b) \in Pieces
    BY <2>1, CompleteIsPieces, PieceKinds
  <2>3. Complete(Append(pending, b)) = Append(c, Record(b))
    <3> DEFINE e == Complete(Append(pending, b))
               d == Append(c, Record(b))
    <3>1. /\ c \in Seq(Pieces) /\ Len(c) = Len(pending)
          /\ \A i \in 1..Len(pending) : c[i] = Record(pending[i])
      BY <2>1, CompleteIsPieces
    <3>2. /\ Append(pending, b) \in Seq(Blocks)
          /\ Len(Append(pending, b)) = Len(pending) + 1
          /\ \A i \in 1..Len(pending) : Append(pending, b)[i] = pending[i]
          /\ Append(pending, b)[Len(pending) + 1] = b
      BY <2>1
    <3>3. /\ e \in Seq(Pieces) /\ Len(e) = Len(pending) + 1
          /\ \A i \in 1..Len(pending) : e[i] = Record(pending[i])
          /\ e[Len(pending) + 1] = Record(b)
      <4> DEFINE q == Append(pending, b)
      <4>1. /\ e \in Seq(Pieces) /\ Len(e) = Len(q)
            /\ \A i \in 1..Len(q) : e[i] = Record(q[i])
        BY <3>2, CompleteIsPieces
      <4> HIDE DEF e, q
      <4>2. /\ Len(q) = Len(pending) + 1 /\ Len(pending) \in Nat
            /\ \A i \in 1..Len(pending) : q[i] = pending[i]
            /\ q[Len(pending) + 1] = b
        BY <2>1, <3>2 DEF q
      <4> QED
        BY <4>1, <4>2
    <3>4. /\ d \in Seq(Pieces) /\ Len(d) = Len(pending) + 1
          /\ \A i \in 1..Len(pending) : d[i] = c[i]
          /\ d[Len(pending) + 1] = Record(b)
      BY <2>2, <3>1
    <3> HIDE DEF c, d, e
    <3>5. \A i \in 1..Len(e) : e[i] = d[i]
      BY <2>1, <3>1, <3>3, <3>4
    <3>6. e = d
      BY <3>3, <3>4, <3>5, SeqEqual
    <3> QED
      BY <3>6 DEF c, d, e
  <2>4. file \o Append(c, Record(b)) = Append(f, Record(b)) /\ f \in Seq(Pieces)
    <3> HIDE DEF c
    <3> QED
      BY <2>1, <2>2
  <2> HIDE DEF c, f
  <2>5. b \notin Logged(f) /\ Parents[b] \subseteq Logged(f)
    BY <2>1
  <2>6. /\ Insertable(Append(f, Record(b)))
        /\ Logged(Append(f, Record(b))) = ledger \cup {b}
    BY <2>1, <2>4, <2>5, AppendRecord
  <2> QED
    BY <2>3, <2>4, <2>6 DEF LogCovers
<1>3. LogCovers'
  BY <1>2 DEF LogCovers
<1>4. AckedOnDisk'
  BY DEF IInv, AckedOnDisk
<1> QED
  BY <1>1, <1>3, <1>4 DEF IInv

LEMMA FaultType ==
    ASSUME TypeOK, NEW ok \in BOOLEAN, Fault(ok)
    PROVE  faults' \in 0..MaxFaults
BY BoundsAssumption DEF TypeOK, Fault

LEMMA FewerCrashes ==
    ASSUME TypeOK, crashes < MaxCrashes
    PROVE  crashes + 1 \in 0..MaxCrashes
BY BoundsAssumption DEF TypeOK

LEMMA EmptySeqs == <<>> \in Seq(Blocks) /\ <<>> \in Seq(Pieces)
BY EmptySeq

LEMMA PersistAppendStep ==
    ASSUME IInv, PersistAppend
    PROVE  IInv'
<1> DEFINE part(w) == file \o Written(pending, w[1], w[2])
<1>1. PICK w \in WriteOutcomes(pending) :
        LET ok == w[1] = Len(pending) IN
        /\ Fault(ok)
        /\ file' = part(w)
        /\ pending' = Unappended(w[1])
        /\ acked' = IF ok THEN ledger ELSE acked
  BY DEF PersistAppend
<1>2. up /\ log /\ UNCHANGED <<up, ledger, log, snap, crashes>>
  BY DEF PersistAppend
<1>3. /\ file' \in Seq(Pieces) /\ pending' \in Seq(Blocks)
      /\ Insertable(file' \o Complete(pending'))
      /\ Logged(file' \o Complete(pending')) = ledger
      /\ w[1] = Len(pending) => Insertable(file') /\ Logged(file') = ledger
      /\ acked # {} /\ ~Torn(file') => Readable(file') /\ acked \subseteq Logged(file')
  BY <1>1, <1>2, OpenLogWrite
<1>4. TypeOK'
  <2>1. faults' \in 0..MaxFaults
    BY <1>1, FaultType DEF IInv
  <2> QED
    BY <1>1, <1>2, <1>3, <2>1 DEF IInv, TypeOK
<1>5. LogCovers'
  BY <1>2, <1>3 DEF LogCovers
<1>6. AckedOnDisk'
  <2>1. ASSUME acked' # {}, ~Torn(file')
        PROVE  Readable(file') /\ acked' \subseteq Logged(file')
    <3>1. CASE w[1] = Len(pending)
      <4>1. acked' = ledger /\ Logged(file') = ledger /\ Insertable(file')
        BY <1>1, <1>3, <3>1
      <4> QED
        BY <2>1, <4>1, UntornReadable
    <3>2. CASE w[1] # Len(pending)
      BY <1>1, <1>3, <2>1, <3>2
    <3> QED
      BY <3>1, <3>2
  <2> QED
    BY <1>2, <2>1 DEF AckedOnDisk
<1> QED
  BY <1>4, <1>5, <1>6 DEF IInv

(***************************************************************************)
(* What the two callers of create share.                                   *)
(***************************************************************************)
LEMMA CreateStep ==
    ASSUME TypeOK, NEW S \in SUBSET Blocks, NEW ids \in Seq(Blocks),
           Create(S, ids), ledger' = S, up'
    PROVE  /\ file' \in Seq(Pieces) /\ pending' \in Seq(Blocks)
           /\ log' \in BOOLEAN /\ acked' \subseteq Blocks /\ faults' \in 0..MaxFaults
           /\ LogCovers' /\ AckedOnDisk'
<1>1. ASSUME NEW s \in Linearizations(S), file' = <<Header>> \o Complete(s),
             Fault(TRUE), log' = TRUE, pending' = <<>>, acked' = S
      PROVE  /\ file' \in Seq(Pieces) /\ pending' \in Seq(Blocks)
             /\ log' \in BOOLEAN /\ acked' \subseteq Blocks /\ faults' \in 0..MaxFaults
             /\ LogCovers' /\ AckedOnDisk'
  <2>1. /\ file' \in Seq(Pieces) /\ Insertable(file') /\ Logged(file') = S
        /\ ~Torn(file')
    BY <1>1, CreatedLog
  <2>2. faults' \in 0..MaxFaults
    BY <1>1, FaultType
  <2>3. file' \o Complete(pending') = file'
    BY <1>1, <2>1, EmptyQueue
  <2>4. LogCovers'
    BY <2>1, <2>3 DEF LogCovers
  <2>5. AckedOnDisk'
    BY <1>1, <2>1, UntornReadable DEF AckedOnDisk
  <2> QED
    BY <1>1, <2>1, <2>2, <2>4, <2>5
<1>2. ASSUME file' \in Unfinished(S), Fault(FALSE),
             log' = FALSE, pending' = ids, acked' = {}
      PROVE  /\ file' \in Seq(Pieces) /\ pending' \in Seq(Blocks)
             /\ log' \in BOOLEAN /\ acked' \subseteq Blocks /\ faults' \in 0..MaxFaults
             /\ LogCovers' /\ AckedOnDisk'
  <2>1. file' \in Seq(Pieces)
    BY <1>2, UnfinishedPieces
  <2>2. faults' \in 0..MaxFaults
    BY <1>2, FaultType
  <2> QED
    BY <1>2, <2>1, <2>2 DEF LogCovers, AckedOnDisk
<1> QED
  BY <1>1, <1>2 DEF Create

LEMMA PersistCreateStep ==
    ASSUME IInv, PersistCreate
    PROVE  IInv'
<1>1. /\ TypeOK /\ ledger \in SUBSET Blocks /\ pending \in Seq(Blocks)
      /\ Create(ledger, pending) /\ ledger' = ledger /\ up'
      /\ UNCHANGED <<up, snap, crashes>>
  BY DEF IInv, TypeOK, PersistCreate
<1>2. /\ file' \in Seq(Pieces) /\ pending' \in Seq(Blocks)
      /\ log' \in BOOLEAN /\ acked' \subseteq Blocks /\ faults' \in 0..MaxFaults
      /\ LogCovers' /\ AckedOnDisk'
  BY <1>1, CreateStep
<1>3. TypeOK'
  BY <1>1, <1>2 DEF TypeOK
<1> QED
  BY <1>2, <1>3 DEF IInv

LEMMA BootAnewStep ==
    ASSUME IInv, BootAnew
    PROVE  IInv'
<1> DEFINE S == IF snap # {} THEN snap ELSE {0}
<1>1. TypeOK /\ S \in SUBSET Blocks
  BY BlocksAssumption DEF IInv, TypeOK
<1>2. /\ Create(S, <<>>) /\ ledger' = S /\ up' = TRUE
      /\ UNCHANGED <<snap, crashes>>
  BY DEF BootAnew
<1> HIDE DEF S
<1>3. /\ file' \in Seq(Pieces) /\ pending' \in Seq(Blocks)
      /\ log' \in BOOLEAN /\ acked' \subseteq Blocks /\ faults' \in 0..MaxFaults
      /\ LogCovers' /\ AckedOnDisk'
  BY <1>1, <1>2, EmptySeq, CreateStep
<1>4. TypeOK'
  BY <1>1, <1>2, <1>3 DEF TypeOK
<1> QED
  BY <1>3, <1>4 DEF IInv

LEMMA BootFromLogStep ==
    ASSUME IInv, BootFromLog
    PROVE  IInv'
<1>1. /\ TypeOK /\ Readable(file) /\ file \in Seq(Pieces)
      /\ up' = TRUE /\ ledger' = Logged(file) /\ acked' = Logged(file)
      /\ log' = TRUE /\ pending' = <<>>
      /\ UNCHANGED <<file, snap, crashes, faults>>
  BY DEF IInv, TypeOK, BootFromLog, disk
<1>2. Logged(file) \subseteq Blocks
  <2>1. \A i \in DOMAIN file : file[i] \in Pieces
    BY <1>1
  <2> QED
    BY <2>1, PieceKinds DEF Logged, Places
<1>3. TypeOK'
  BY <1>1, <1>2 DEF TypeOK
<1>4. LogCovers'
  <2>1. file' \o Complete(pending') = file
    BY <1>1, EmptyQueue
  <2> QED
    BY <1>1, <2>1 DEF LogCovers, Readable
<1>5. AckedOnDisk'
  BY <1>1 DEF AckedOnDisk
<1> QED
  BY <1>3, <1>4, <1>5 DEF IInv

LEMMA CrashStep ==
    ASSUME IInv, Crash
    PROVE  IInv'
<1>1. /\ up /\ crashes < MaxCrashes /\ crashes' = crashes + 1
      /\ up' = FALSE /\ ledger' = {} /\ pending' = <<>> /\ log' = FALSE
      /\ file' \in UnderWay
      /\ UNCHANGED <<snap, acked, faults>>
  BY DEF Crash, Stop
<1>2. TypeOK /\ ledger \in SUBSET Blocks /\ file \in Seq(Pieces)
  BY DEF IInv, TypeOK
<1>3. CASE log
  <2>1. PICK w \in WriteOutcomes(pending) :
          file' = file \o Written(pending, w[1], w[2])
    BY <1>1, <1>3 DEF UnderWay
  <2>2. /\ file' \in Seq(Pieces)
        /\ acked # {} /\ ~Torn(file')
             => Readable(file') /\ acked \subseteq Logged(file')
    BY <1>1, <1>3, <2>1, OpenLogWrite
  <2>3. TypeOK'
    BY <1>1, <1>2, <2>2, FewerCrashes, EmptySeqs DEF TypeOK
  <2> QED
    BY <1>1, <2>2, <2>3 DEF IInv, LogCovers, AckedOnDisk
<1>4. CASE ~log
  <2>1. acked = {}
    BY <1>1, <1>4 DEF IInv, AckedOnDisk
  <2>2. file' \in Seq(Pieces)
    BY <1>1, <1>2, <1>4, UnfinishedPieces, CreatedLog DEF UnderWay
  <2>3. TypeOK'
    BY <1>1, <1>2, <2>2, FewerCrashes, EmptySeqs DEF TypeOK
  <2> QED
    BY <1>1, <2>1, <2>3 DEF IInv, LogCovers, AckedOnDisk
<1> QED
  BY <1>3, <1>4

LEMMA OtherSteps ==
    ASSUME IInv, Save \/ Load \/ Reset \/ UNCHANGED vars
    PROVE  IInv'
<1>1. CASE Save
  <2>1. faults' \in 0..MaxFaults
    BY <1>1, FaultType DEF Save, IInv
  <2>2. TypeOK'
    BY <1>1, <2>1 DEF Save, mem, IInv, TypeOK
  <2> QED
    BY <1>1, <2>2 DEF Save, mem, IInv, LogCovers, AckedOnDisk
<1>2. CASE Load
  <2>1. TypeOK'
    BY <1>2, EmptySeqs DEF Load, disk, IInv, TypeOK
  <2> QED
    BY <1>2, <2>1 DEF Load, IInv, LogCovers, AckedOnDisk
<1>3. CASE Reset
  <2>1. TypeOK'
    BY <1>3, FewerCrashes, EmptySeqs DEF Reset, Stop, IInv, TypeOK
  <2> QED
    BY <1>3, <2>1 DEF Reset, Stop, IInv, LogCovers, AckedOnDisk
<1>4. CASE UNCHANGED vars
  BY <1>4 DEF vars, mem, disk, IInv, TypeOK, LogCovers, AckedOnDisk
<1> QED
  BY <1>1, <1>2, <1>3, <1>4

-----------------------------------------------------------------------------
(***************************************************************************)
(* The inductive invariant holds of every behaviour, whatever calls fail   *)
(* or are cut short by a crash.                                            *)
(***************************************************************************)
THEOREM StoreInvariance == Spec => []IInv
<1>1. ASSUME Init PROVE IInv
  <2>1. 0 \in 0..MaxCrashes /\ 0 \in 0..MaxFaults
    BY BoundsAssumption
  <2>2. TypeOK
    BY <1>1, <2>1, EmptySeqs DEF Init, TypeOK
  <2> QED
    BY <1>1, <2>2 DEF Init, IInv, LogCovers, AckedOnDisk
<1>2. IInv /\ [Next]_vars => IInv'
  <2> SUFFICES ASSUME IInv, [Next]_vars PROVE IInv'
    OBVIOUS
  <2> QED
    BY InsertStep, PersistAppendStep, PersistCreateStep, OtherSteps,
       CrashStep, BootFromLogStep, BootAnewStep DEF Next
<1> QED
  BY <1>1, <1>2, PTL DEF Spec

(***************************************************************************)
(* Memory and disk have their types, and a process that is down has no     *)
(* memory.                                                                 *)
(***************************************************************************)
THEOREM StoreTypes == Spec => []TypeOK
BY StoreInvariance, PTL DEF IInv

(***************************************************************************)
(* While a log is open, its records followed by what is pending insert     *)
(* exactly the ledger (persist_incremental, append, create).               *)
(***************************************************************************)
THEOREM LogAlwaysCovers == Spec => []LogCovers
BY StoreInvariance, PTL DEF IInv

(***************************************************************************)
(* What a successful persist call put in the open log is in the ledger     *)
(* that load_or_genesis boots, unless a write was cut short inside a       *)
(* record.                                                                 *)
(***************************************************************************)
THEOREM AckedSurvives == Spec => DurableAcked
<1>1. IInv /\ [Next]_vars => [~up /\ up' => Torn(file) \/ acked \subseteq ledger']_vars
  <2> SUFFICES ASSUME IInv, Next, ~up, up', ~Torn(file), acked # {}
               PROVE  acked \subseteq ledger'
    OBVIOUS
  <2>1. Readable(file) /\ acked \subseteq Logged(file)
    BY DEF IInv, AckedOnDisk
  <2>2. BootFromLog
    BY <2>1 DEF Next, Insert, PersistAppend, PersistCreate, Save, Load, Crash,
                Reset, BootAnew
  <2> QED
    BY <2>1, <2>2 DEF BootFromLog
<1> QED
  BY <1>1, StoreInvariance, PTL DEF Spec, DurableAcked

-----------------------------------------------------------------------------
(***************************************************************************)
(* The server under its store.                                             *)
(***************************************************************************)
\* Blocks of this node that come back are blocks.
AwayOK == away \subseteq Spread

LEMMA AwayStep ==
    ASSUME [ServiceNext]_svars
    PROVE  /\ AwayOK => AwayOK'
           /\ away' \subseteq away \cup ledger
           /\ request.phase # "idle" => away' \subseteq away
<1>1. CASE UNCHANGED svars
  BY <1>1 DEF svars, AwayOK
<1>2. CASE ServiceNext
  <2>1. away' \subseteq Fetched
    BY <1>2 DEF ServiceNext
  <2>2. /\ Fetched \subseteq away \cup (ledger \cap Spread)
        /\ request.phase # "idle" => Fetched \subseteq away
    BY DEF Fetched, Idle
  <2> QED
    BY <2>1, <2>2 DEF AwayOK
<1> QED
  BY <1>1, <1>2

LEMMA AwayBlocks ==
    ASSUME AwayOK
    PROVE  away \subseteq Blocks /\ Abroad \subseteq Blocks
BY ServiceAssumption DEF AwayOK, Abroad

LEMMA AwayInvariance == ServiceSpec => []AwayOK
<1>1. ServiceInit => AwayOK
  BY DEF ServiceInit, AwayOK
<1>2. AwayOK /\ [ServiceNext]_svars => AwayOK'
  BY AwayStep
<1> QED
  BY <1>1, <1>2, PTL DEF ServiceSpec

LEMMA StoreStep ==
    ASSUME AwayOK, [ServiceNext]_svars
    PROVE  [Next]_vars
<1> USE DEF Next
<1>1. ASSUME NEW b \in Blocks, Produce(b) \/ Faucet(b) \/ SubmitMined(b) \/ Sync(b)
      PROVE  [Next]_vars
  BY <1>1 DEF Produce, Faucet, Produced, SubmitMined, Sync, Received
<1>2. ASSUME NEW body \in Bodies, Upload(body) PROVE [Next]_vars
  BY <1>2 DEF Upload
<1>3. ASSUME UploadNext PROVE [Next]_vars
  <2> DEFINE b == Head(request.left)
  <2>1. b \in Abroad \cup ledger /\ Received(b)
    BY <1>3 DEF UploadNext
  <2> HIDE DEF b
  <2>2. CASE UNCHANGED vars
    BY <2>2
  <2>3. CASE Insert(b)
    <3>1. b \in Blocks
      BY <2>1, <2>3, AwayBlocks DEF Insert
    <3> QED
      BY <2>3, <3>1
  <2> QED
    BY <2>1, <2>2, <2>3 DEF Received
<1>4. ASSUME UploadRefused \/ SyncEnds \/ MiningTemplate \/ SaveGiven \/ Respond
      PROVE  [Next]_vars
  BY <1>4 DEF UploadRefused, SyncEnds, MiningTemplate, SaveGiven, Respond,
              PersistAndAnswer
<1>5. ASSUME ServiceCrash \/ Boot \/ ServiceReset \/ Operator PROVE [Next]_vars
  BY <1>5 DEF ServiceCrash, Boot, ServiceReset, Operator
<1>6. ASSUME UNCHANGED svars PROVE [Next]_vars
  BY <1>6 DEF svars
<1> QED
  BY <1>1, <1>2, <1>3, <1>4, <1>5, <1>6 DEF ServiceNext, ServiceStep

(***************************************************************************)
(* The server implements its store: requests, ticks, boots and resets      *)
(* write and reread the log only as persist_incremental, save, load and    *)
(* load_or_genesis do (explorer.rs over node.rs).                          *)
(***************************************************************************)
THEOREM ServiceImplementsStore == ServiceSpec => Spec
<1>1. ServiceInit => Init
  BY DEF ServiceInit
<1> QED
  BY <1>1, AwayInvariance, StoreStep, PTL DEF ServiceSpec, Spec

(***************************************************************************)
(* Under the server too an open log and what is pending insert exactly the *)
(* ledger (persist_incremental, under every request and tick).             *)
(***************************************************************************)
THEOREM ServiceLogCovers == ServiceSpec => []LogCovers
BY ServiceImplementsStore, LogAlwaysCovers, PTL

(***************************************************************************)
(* Under the server too what a successful persist_all put in the open log  *)
(* is in the ledger of the next boot, unless a write was cut short inside  *)
(* a record.                                                               *)
(***************************************************************************)
THEOREM ServiceDurable == ServiceSpec => DurableAcked
BY ServiceImplementsStore, AckedSurvives, PTL

LEMMA StoreUnder == ServiceSpec => []IInv
BY ServiceImplementsStore, StoreInvariance, PTL

-----------------------------------------------------------------------------
(***************************************************************************)
(* What a log holds after a write.                                         *)
(***************************************************************************)
LEMMA LoggedBlocks ==
    ASSUME NEW f \in Seq(Pieces)
    PROVE  Logged(f) \subseteq Blocks
<1>1. \A i \in DOMAIN f : f[i] \in Pieces
  OBVIOUS
<1> QED
  BY <1>1, PieceKinds DEF Logged, Places

LEMMA NothingLogged == Logged(<<>>) = {}
BY DEF Logged, Places

LEMMA UnfinishedLogs ==
    ASSUME NEW S \in SUBSET Blocks, NEW f \in Unfinished(S)
    PROVE  Logged(f) \subseteq S
<1>1. CASE f = <<>>
  BY <1>1, NothingLogged
<1>2. ASSUME NEW s \in Linearizations(S), NEW w \in WriteOutcomes(s),
             f = <<Header>> \o Written(s, w[1], w[2])
      PROVE  Logged(f) \subseteq S
  <2> DEFINE rest == From(s, w[1] + 1)
  <2>1. /\ s \in Seq(Blocks) /\ Insertable(<<Header>> \o Complete(s))
        /\ Logged(<<Header>> \o Complete(s)) = S
    BY <1>2, CreatedLog
  <2>2. <<Header>> \in Seq(Pieces)
    BY PieceKinds
  <2>3. /\ f \in Seq(Pieces) /\ rest \in Seq(Blocks)
        /\ Logged(f \o Complete(rest)) = S
    BY <1>2, <2>1, <2>2, WriteKeepsCover
  <2> HIDE DEF rest
  <2> QED
    BY <2>3, CompleteIsPieces, PrefixInserts
<1> QED
  BY <1>1, <1>2 DEF Unfinished

LEMMA UnderWayLogs ==
    ASSUME IInv, up, NEW f \in UnderWay
    PROVE  /\ Logged(f) \subseteq Logged(file) \cup ledger
           /\ log => /\ Logged(file) \subseteq Logged(f)
                     /\ Insertable(f)
<1>1. /\ ledger \in SUBSET Blocks /\ file \in Seq(Pieces) /\ pending \in Seq(Blocks)
  BY DEF IInv, TypeOK
<1>2. CASE log
  <2>1. PICK w \in WriteOutcomes(pending) : f = file \o Written(pending, w[1], w[2])
    BY <1>2 DEF UnderWay
  <2>2. /\ f \in Seq(Pieces) /\ Unappended(w[1]) \in Seq(Blocks)
        /\ Insertable(f \o Complete(Unappended(w[1])))
        /\ Logged(f \o Complete(Unappended(w[1]))) = ledger
    BY <1>2, <2>1, OpenLogWrite
  <2>3. Complete(Unappended(w[1])) \in Seq(Pieces)
    BY <2>2, CompleteIsPieces
  <2>4. Logged(f) \subseteq ledger /\ Insertable(f)
    BY <2>2, <2>3, PrefixInserts
  <2>5. Logged(file) \subseteq Logged(f)
    BY <1>1, <2>1, WrittenPieces, PrefixInserts
  <2> QED
    BY <2>4, <2>5
<1>3. CASE ~log
  <2>1. CASE f = file
    BY <1>3, <2>1
  <2>2. CASE f \in Unfinished(ledger)
    BY <1>1, <1>3, <2>2, UnfinishedLogs
  <2>3. ASSUME NEW s \in Linearizations(ledger), f = <<Header>> \o Complete(s)
        PROVE  Logged(f) \subseteq ledger
    BY <1>1, <2>3, CreatedLog
  <2> QED
    BY <1>3, <2>1, <2>2, <2>3 DEF UnderWay
<1> QED
  BY <1>2, <1>3

LEMMA CreateLogs ==
    ASSUME NEW S \in SUBSET Blocks, NEW ids, Create(S, ids)
    PROVE  /\ Logged(file') \subseteq S
           /\ log' => pending' = <<>> /\ Logged(file') = S
           /\ log' \in BOOLEAN
<1>1. ASSUME NEW s \in Linearizations(S), file' = <<Header>> \o Complete(s)
      PROVE  Logged(file') = S
  BY <1>1, CreatedLog
<1>2. ASSUME file' \in Unfinished(S) PROVE Logged(file') \subseteq S
  BY <1>2, UnfinishedLogs
<1> QED
  BY <1>1, <1>2 DEF Create

\* persist_all writes blocks of the ledger only.
LEMMA PersistLogs ==
    ASSUME IInv, PersistAppend \/ PersistCreate
    PROVE  Logged(file') \subseteq Logged(file) \cup ledger
<1>1. up /\ ledger \in SUBSET Blocks
  BY DEF PersistAppend, PersistCreate, IInv, TypeOK
<1>2. CASE PersistAppend
  <2>1. log /\ \E w \in WriteOutcomes(pending) :
                 file' = file \o Written(pending, w[1], w[2])
    BY <1>2 DEF PersistAppend
  <2>2. file' \in UnderWay
    BY <2>1 DEF UnderWay
  <2> QED
    BY <1>1, <2>2, UnderWayLogs
<1>3. CASE PersistCreate
  BY <1>1, <1>3, CreateLogs DEF PersistCreate
<1> QED
  BY <1>2, <1>3

-----------------------------------------------------------------------------
(***************************************************************************)
(* Requests: a process that is down has none, and the blocks a request got *)
(* are in the ledger until it ends.                                        *)
(***************************************************************************)
RequestOK == (~up => request = Idle) /\ request.got \subseteq ledger

LEMMA RequestStep ==
    ASSUME RequestOK, [ServiceNext]_svars
    PROVE  RequestOK'
<1>1. ASSUME UNCHANGED vars PROVE up' = up /\ ledger' = ledger
  BY <1>1 DEF vars, mem
<1>2. ASSUME NEW b \in Blocks, Produce(b) \/ Faucet(b)
      PROVE  RequestOK'
  BY <1>2 DEF Produce, Faucet, Produced, Insert, Persisting, RequestOK
<1>3. ASSUME NEW b, Received(b) PROVE up' /\ b \in ledger' /\ ledger \subseteq ledger'
  BY <1>1, <1>3 DEF Received, Insert
<1>4. ASSUME NEW b \in Blocks, SubmitMined(b) \/ Sync(b)
      PROVE  RequestOK'
  <2>1. CASE SubmitMined(b)
    <3>1. Received(b) /\ request' = Persisting({b})
      BY <2>1 DEF SubmitMined
    <3> QED
      BY <1>3, <3>1 DEF Persisting, RequestOK
  <2>2. CASE Sync(b)
    BY <2>2 DEF Sync, Insert, Idle, RequestOK
  <2> QED
    BY <1>4, <2>1, <2>2
<1>5. ASSUME UploadNext PROVE RequestOK'
  <2> DEFINE b == Head(request.left)
             got == request.got \cup {b}
  <2>1. Received(b)
    BY <1>5 DEF UploadNext
  <2>2. \/ request' = Persisting(got)
        \/ request' = [phase |-> "upload", left |-> Tail(request.left), got |-> got]
    BY <1>5 DEF UploadNext
  <2>3. up' /\ got \subseteq ledger'
    BY <1>3, <2>1 DEF RequestOK
  <2> HIDE DEF got
  <2> QED
    BY <2>2, <2>3 DEF RequestOK, Persisting
<1>6. ASSUME NEW body \in Bodies, Upload(body) PROVE RequestOK'
  BY <1>1, <1>6 DEF Upload, RequestOK
<1>7. ASSUME UploadRefused \/ SyncEnds \/ ServiceCrash \/ ServiceReset
      PROVE  RequestOK'
  <2>1. request' = Idle \/ (SyncEnds /\ request' = Persisting({}))
    BY <1>7 DEF UploadRefused, SyncEnds, ServiceCrash, ServiceReset
  <2>2. SyncEnds => up /\ up' = up
    BY <1>1 DEF SyncEnds, RequestOK, Idle
  <2> QED
    BY <2>1, <2>2 DEF RequestOK, Idle, Persisting
<1>8. ASSUME MiningTemplate PROVE RequestOK'
  BY <1>1, <1>8 DEF MiningTemplate, RequestOK
<1>9. ASSUME SaveGiven PROVE RequestOK'
  BY <1>1, <1>9 DEF SaveGiven, RequestOK, Idle, Persisting
<1>10. ASSUME Respond PROVE RequestOK'
  BY <1>10 DEF Respond, RequestOK, Idle
<1>11. ASSUME Boot PROVE RequestOK'
  BY <1>11 DEF Boot, BootFromLog, BootAnew, RequestOK, Persisting
<1>12. ASSUME Operator PROVE RequestOK'
  BY <1>12 DEF Operator, RequestOK, Idle
<1>13. CASE UNCHANGED svars
  BY <1>1, <1>13 DEF svars, RequestOK
<1> QED
  BY <1>2, <1>4, <1>5, <1>6, <1>7, <1>8, <1>9, <1>10, <1>11, <1>12, <1>13
  DEF ServiceNext, ServiceStep

-----------------------------------------------------------------------------
(***************************************************************************)
(* The faucet's books.  A set of blocks is within an account g, after n    *)
(* lost writes, if it pays no address more than g says and n caps.         *)
(***************************************************************************)
Paid(a, S) == {b \in S : Pays[b] = a}
Accounts == [Addresses -> 0 .. Cap]
Within(S, g, n) == \A a \in Addresses : Cardinality(Paid(a, S)) <= g[a] + Cap * n

\* What a boot, or what others fetched, can bring back.
OnDisk == Logged(file) \cup snap \cup away
Everywhere == OnDisk \cup ledger

Books ==
  /\ given \in Accounts /\ gfile \in Accounts /\ lost \in Nat
  /\ Within(OnDisk, gfile, lost)
  /\ up => /\ \A a \in Addresses : gfile[a] <= given[a]
           /\ Within(Everywhere, given, lost)
           /\ request.phase # "save" => Within(Everywhere, gfile, lost)

LEMMA PaidFinite ==
    ASSUME NEW S \in SUBSET Blocks, NEW a
    PROVE  IsFiniteSet(Paid(a, S)) /\ Cardinality(Paid(a, S)) \in Nat
BY BlocksAssumption, FS_Subset, FS_CardinalityType DEF Paid

\* Blocks that are there already, or pay nobody, change no account.
LEMMA WithinFewer ==
    ASSUME NEW S \in SUBSET Blocks, NEW T \in SUBSET Blocks,
           \A b \in S : b \in T \/ Pays[b] = 0,
           NEW g \in Accounts, NEW n \in Nat, Within(T, g, n)
    PROVE  Within(S, g, n)
<1> SUFFICES ASSUME NEW a \in Addresses
             PROVE  Cardinality(Paid(a, S)) <= g[a] + Cap * n
  BY DEF Within
<1>1. a # 0 /\ g[a] \in Nat /\ Cap * n \in Nat
  BY ServiceAssumption DEF Accounts
<1>2. Paid(a, S) \subseteq Paid(a, T)
  BY <1>1 DEF Paid
<1>3. Cardinality(Paid(a, S)) <= Cardinality(Paid(a, T))
  BY <1>2, PaidFinite, FS_Subset
<1>4. Cardinality(Paid(a, T)) <= g[a] + Cap * n
  BY DEF Within
<1> QED
  BY <1>1, <1>3, <1>4, PaidFinite

\* An account that says more.
LEMMA WithinLarger ==
    ASSUME NEW S \in SUBSET Blocks, NEW g \in Accounts, NEW h \in Accounts,
           \A a \in Addresses : g[a] <= h[a], NEW n \in Nat, Within(S, g, n)
    PROVE  Within(S, h, n)
<1> SUFFICES ASSUME NEW a \in Addresses
             PROVE  Cardinality(Paid(a, S)) <= h[a] + Cap * n
  BY DEF Within
<1>1. g[a] \in Nat /\ h[a] \in Nat /\ g[a] <= h[a] /\ Cap * n \in Nat
  BY ServiceAssumption DEF Accounts
<1>2. Cardinality(Paid(a, S)) <= g[a] + Cap * n
  BY DEF Within
<1> QED
  BY <1>1, <1>2, PaidFinite

\* One more lost write makes up for any account.
LEMMA WithinLost ==
    ASSUME NEW S \in SUBSET Blocks, NEW g \in Accounts, NEW h \in Accounts,
           NEW n \in Nat, Within(S, g, n)
    PROVE  Within(S, h, n + 1)
<1> SUFFICES ASSUME NEW a \in Addresses
             PROVE  Cardinality(Paid(a, S)) <= h[a] + Cap * (n + 1)
  BY DEF Within
<1>1. /\ Cap \in Nat /\ Cap * n \in Nat
      /\ g[a] \in Nat /\ h[a] \in Nat /\ g[a] <= Cap
  BY ServiceAssumption DEF Accounts
<1>2. Cap * (n + 1) = Cap * n + Cap
  BY ServiceAssumption
<1>3. Cardinality(Paid(a, S)) <= g[a] + Cap * n
  BY DEF Within
<1> QED
  BY <1>1, <1>2, <1>3, PaidFinite

\* A payment that is counted.
LEMMA WithinPaid ==
    ASSUME NEW S \in SUBSET Blocks, NEW b \in Blocks, Pays[b] # 0,
           NEW g \in Accounts, NEW h \in Accounts, NEW n \in Nat,
           h = [g EXCEPT ![Pays[b]] = @ + 1], Within(S, g, n)
    PROVE  Within(S \cup {b}, h, n)
<1> SUFFICES ASSUME NEW a \in Addresses
             PROVE  Cardinality(Paid(a, S \cup {b})) <= h[a] + Cap * n
  BY DEF Within
<1>1. g[a] \in Nat /\ Cap * n \in Nat
  BY ServiceAssumption DEF Accounts
<1>2. Cardinality(Paid(a, S)) <= g[a] + Cap * n
  BY DEF Within
<1>3. IsFiniteSet(Paid(a, S)) /\ Cardinality(Paid(a, S)) \in Nat
  BY PaidFinite
<1>4. CASE Pays[b] = a
  <2>1. Paid(a, S \cup {b}) = Paid(a, S) \cup {b}
    BY <1>4 DEF Paid
  <2>2. Cardinality(Paid(a, S) \cup {b}) \in {Cardinality(Paid(a, S)),
                                               Cardinality(Paid(a, S)) + 1}
    BY <1>3, FS_AddElement
  <2>3. h[a] = g[a] + 1
    BY <1>4 DEF Accounts
  <2> DEFINE paid == Cardinality(Paid(a, S))
             more == Cardinality(Paid(a, S \cup {b}))
             caps == Cap * n
  <2>4. more \in {paid, paid + 1}
    BY <2>1, <2>2
  <2>5. paid \in Nat /\ caps \in Nat /\ g[a] \in Nat /\ paid <= g[a] + caps
    BY <1>1, <1>2, <1>3
  <2> HIDE DEF paid, more, caps
  <2>6. more <= g[a] + 1 + caps
    BY <2>4, <2>5
  <2> QED
    BY <2>3, <2>6 DEF more, caps
<1>5. CASE Pays[b] # a
  <2>1. Paid(a, S \cup {b}) = Paid(a, S)
    BY <1>5 DEF Paid
  <2>2. h[a] = g[a]
    BY <1>5 DEF Accounts
  <2> QED
    BY <1>2, <2>1, <2>2
<1> QED
  BY <1>4, <1>5

LEMMA KnownBlocks ==
    ASSUME IInv, AwayOK
    PROVE  OnDisk \in SUBSET Blocks /\ Everywhere \in SUBSET Blocks
BY LoggedBlocks, AwayBlocks DEF IInv, TypeOK, OnDisk, Everywhere

(***************************************************************************)
(* Steps of the store: no block comes from nowhere; those of this node     *)
(* that come back were there before.                                       *)
(***************************************************************************)
LEMMA NoNewPayments ==
    ASSUME IInv, Next, away' \subseteq away \cup ledger,
           \A b \in Blocks : Insert(b) => Pays[b] = 0 \/ b \in away
    PROVE  \A b \in Everywhere' : b \in Everywhere \/ Pays[b] = 0
<1> USE DEF Everywhere, OnDisk, mem, disk
<1>1. ASSUME NEW b \in Blocks, Insert(b)
      PROVE  \A c \in Everywhere' : c \in Everywhere \/ Pays[c] = 0
  BY <1>1 DEF Insert
<1>2. ASSUME PersistAppend \/ PersistCreate PROVE Everywhere' \subseteq Everywhere
  <2>1. ledger' = ledger /\ snap' = snap
    BY <1>2 DEF PersistAppend, PersistCreate
  <2> QED
    BY <1>2, <2>1, PersistLogs
<1>3. ASSUME Save \/ Load PROVE Everywhere' \subseteq Everywhere
  BY <1>3 DEF Save, Load
<1>4. ASSUME Crash PROVE Everywhere' \subseteq Everywhere
  <2>1. up /\ file' \in UnderWay /\ ledger' = {} /\ snap' = snap
    BY <1>4 DEF Crash, Stop
  <2> QED
    BY <2>1, UnderWayLogs
<1>5. ASSUME Reset PROVE Everywhere' \subseteq Everywhere
  <2>1. file' = <<>> /\ snap' = {} /\ ledger' = {}
    BY <1>5 DEF Reset, Stop
  <2> QED
    BY <2>1, NothingLogged
<1>6. ASSUME BootFromLog PROVE Everywhere' \subseteq Everywhere
  BY <1>6 DEF BootFromLog
<1>7. ASSUME BootAnew
      PROVE  \A c \in Everywhere' : c \in Everywhere \/ Pays[c] = 0
  <2> DEFINE S == IF snap # {} THEN snap ELSE {0}
  <2>1. S \in SUBSET Blocks
    BY BlocksAssumption DEF IInv, TypeOK
  <2>2. Create(S, <<>>) /\ ledger' = S /\ snap' = snap
    BY <1>7 DEF BootAnew
  <2>3. \A c \in S : c \in snap \/ Pays[c] = 0
    BY BlocksAssumption, ServiceAssumption
  <2> HIDE DEF S
  <2>4. Logged(file') \subseteq S
    BY <2>1, <2>2, CreateLogs
  <2> QED
    BY <2>2, <2>3, <2>4
<1> QED
  BY <1>1, <1>2, <1>3, <1>4, <1>5, <1>6, <1>7 DEF Next

(***************************************************************************)
(* Steps that leave the faucet's file alone.                               *)
(***************************************************************************)
LEMMA BooksKept ==
    ASSUME IInv, IInv', AwayOK, AwayOK', Books, UNCHANGED <<gfile, lost>>,
           given' \in Accounts,
           up' => \A a \in Addresses : gfile[a] <= given'[a],
           up => request.phase # "save",
           \A b \in Everywhere' : b \in Everywhere \/ Pays[b] = 0
    PROVE  Books'
<1>1. /\ Everywhere \in SUBSET Blocks /\ OnDisk' \in SUBSET Blocks
      /\ Everywhere' \in SUBSET Blocks
  <2>1. OnDisk' \in SUBSET Blocks /\ Everywhere' \in SUBSET Blocks
    BY LoggedBlocks, ServiceAssumption DEF IInv, TypeOK, AwayOK, OnDisk, Everywhere
  <2> QED
    BY <2>1, KnownBlocks
<1>2. Within(Everywhere, gfile, lost)
  <2>1. CASE up
    BY <2>1 DEF Books
  <2>2. CASE ~up
    <3>1. Everywhere = OnDisk
      BY <2>2 DEF IInv, TypeOK, Everywhere
    <3> QED
      BY <3>1 DEF Books
  <2> QED
    BY <2>1, <2>2
<1>3. gfile \in Accounts /\ lost \in Nat
  BY DEF Books
<1>4. Within(Everywhere', gfile, lost)
  BY <1>1, <1>2, <1>3, WithinFewer
<1>5. Within(OnDisk', gfile, lost)
  <2>1. \A b \in OnDisk' : b \in Everywhere' \/ Pays[b] = 0
    BY DEF Everywhere
  <2> QED
    BY <1>1, <1>3, <1>4, <2>1, WithinFewer
<1>6. up' => Within(Everywhere', given', lost)
  BY <1>1, <1>3, <1>4, WithinLarger
<1>7. gfile' = gfile /\ lost' = lost
  OBVIOUS
<1> QED
  BY <1>3, <1>4, <1>5, <1>6, <1>7 DEF Books, Within

\* A write of the file that is lost.
LEMMA BooksLost ==
    ASSUME IInv, AwayOK, Books, up, LoseBooks, OnDisk' \subseteq OnDisk,
           given' = given \/ up' = FALSE, given' \in Accounts,
           up' => Everywhere' \subseteq Everywhere
    PROVE  Books'
<1>1. /\ OnDisk \in SUBSET Blocks /\ Everywhere \in SUBSET Blocks
      /\ given \in Accounts /\ gfile \in Accounts /\ lost \in Nat
      /\ Within(OnDisk, gfile, lost) /\ Within(Everywhere, given, lost)
      /\ \A a \in Addresses : gfile[a] <= given[a]
  BY KnownBlocks DEF Books
<1>2. lost' = lost + 1
  BY DEF LoseBooks
<1>3. gfile' \in Accounts /\ \A a \in Addresses : gfile'[a] <= given[a]
  <2>1. gfile' = gfile \/ gfile' \in CutShort
    BY DEF LoseBooks
  <2>2. ASSUME gfile' \in CutShort
        PROVE  gfile' \in Accounts /\ \A a \in Addresses : gfile'[a] <= given[a]
    BY <2>2 DEF CutShort, Accounts
  <2> QED
    BY <1>1, <2>1, <2>2
<1>4. lost + 1 \in Nat
  BY <1>1
<1>5. Within(OnDisk', gfile', lost + 1)
  <2>1. Within(OnDisk, gfile', lost + 1)
    BY <1>1, <1>3, WithinLost
  <2>2. OnDisk' \in SUBSET Blocks /\ \A b \in OnDisk' : b \in OnDisk \/ Pays[b] = 0
    BY <1>1
  <2> QED
    BY <1>1, <1>3, <1>4, <2>1, <2>2, WithinFewer
<1>6. ASSUME up'
      PROVE  Within(Everywhere', gfile', lost + 1) /\ Within(Everywhere', given, lost + 1)
  <2>1. Within(Everywhere, gfile', lost + 1) /\ Within(Everywhere, given, lost + 1)
    BY <1>1, <1>3, WithinLost
  <2>2. /\ Everywhere' \in SUBSET Blocks
        /\ \A b \in Everywhere' : b \in Everywhere \/ Pays[b] = 0
    BY <1>1, <1>6
  <2> QED
    BY <1>1, <1>3, <1>4, <2>1, <2>2, WithinFewer
<1> QED
  BY <1>1, <1>2, <1>3, <1>5, <1>6 DEF Books, Within

\* save_faucet_given, when it completes.
LEMMA BooksSaved ==
    ASSUME IInv, AwayOK, Books, up, UNCHANGED <<vars, given, lost>>,
           gfile' = given, away' \subseteq away
    PROVE  Books'
<1>1. /\ OnDisk \in SUBSET Blocks /\ Everywhere \in SUBSET Blocks
      /\ given \in Accounts /\ lost \in Nat /\ Within(Everywhere, given, lost)
  BY KnownBlocks DEF Books
<1>2. OnDisk' \subseteq Everywhere /\ Everywhere' \subseteq Everywhere /\ up' = up
  BY DEF vars, mem, disk, OnDisk, Everywhere
<1>3. Within(OnDisk', given, lost) /\ Within(Everywhere', given, lost)
  <2>1. /\ OnDisk' \in SUBSET Blocks /\ Everywhere' \in SUBSET Blocks
        /\ \A b \in OnDisk' : b \in Everywhere \/ Pays[b] = 0
        /\ \A b \in Everywhere' : b \in Everywhere \/ Pays[b] = 0
    BY <1>1, <1>2
  <2> QED
    BY <1>1, <2>1, WithinFewer
<1>4. \A a \in Addresses : given[a] <= given[a]
  BY <1>1 DEF Accounts
<1> QED
  BY <1>1, <1>2, <1>3, <1>4 DEF Books, Within

\* The route faucet.
LEMMA BooksPaid ==
    ASSUME IInv, AwayOK, Books, NEW b \in Blocks, Faucet(b),
           away' \subseteq away \cup ledger
    PROVE  Books'
<1>1. /\ up /\ request.phase # "save" /\ Pays[b] # 0 /\ Pays[b] \in Addresses
      /\ given' = [given EXCEPT ![Pays[b]] = @ + 1]
      /\ given[Pays[b]] + 1 <= Cap
      /\ up' = up /\ ledger' = ledger \cup {b} /\ request'.phase = "save"
      /\ UNCHANGED <<gfile, lost, file, snap>>
  BY ServiceAssumption DEF Faucet, MayGive, Produced, Insert, Idle, disk
<1>2. /\ Everywhere \in SUBSET Blocks
      /\ given \in Accounts /\ gfile \in Accounts /\ lost \in Nat
      /\ Within(Everywhere, gfile, lost) /\ Within(Everywhere, given, lost)
      /\ \A a \in Addresses : gfile[a] <= given[a]
  BY <1>1, KnownBlocks DEF Books
<1>3. given' \in Accounts /\ \A a \in Addresses : gfile[a] <= given'[a]
  <2>1. /\ Cap \in Nat /\ given \in [Addresses -> 0 .. Cap]
        /\ gfile \in [Addresses -> 0 .. Cap]
    BY <1>2, ServiceAssumption DEF Accounts
  <2>2. \A a \in Addresses : given'[a] = IF a = Pays[b] THEN given[a] + 1 ELSE given[a]
    BY <1>1, <2>1
  <2>3. \A a \in Addresses : given'[a] \in 0 .. Cap /\ gfile[a] <= given'[a]
    BY <1>1, <1>2, <2>1, <2>2
  <2>4. given' = [a \in Addresses |-> given'[a]]
    BY <1>1, <2>1
  <2> QED
    BY <2>3, <2>4 DEF Accounts
<1>4. OnDisk' \subseteq Everywhere /\ Everywhere' \subseteq Everywhere \cup {b}
  BY <1>1 DEF OnDisk, Everywhere
<1>5. Within(Everywhere \cup {b}, given', lost)
  BY <1>1, <1>2, <1>3, WithinPaid
<1>6. Within(OnDisk', gfile, lost) /\ Within(Everywhere', given', lost)
  <2>1. /\ OnDisk' \in SUBSET Blocks /\ Everywhere' \in SUBSET Blocks
        /\ Everywhere \cup {b} \in SUBSET Blocks
        /\ \A c \in OnDisk' : c \in Everywhere \/ Pays[c] = 0
        /\ \A c \in Everywhere' : c \in Everywhere \cup {b} \/ Pays[c] = 0
    BY <1>2, <1>4
  <2> QED
    BY <1>2, <1>3, <1>5, <2>1, WithinFewer
<1> QED
  BY <1>1, <1>2, <1>3, <1>6 DEF Books

LEMMA PaysInside == \A b \in Blocks : b \notin Own => Pays[b] = 0
BY ServiceAssumption

(***************************************************************************)
(* The books through every step of the server.                             *)
(***************************************************************************)
LEMMA BooksStep ==
    ASSUME IInv, IInv', AwayOK, RequestOK, Books, [ServiceNext]_svars
    PROVE  Books'
<1> DEFINE Known == \A b \in Everywhere' : b \in Everywhere \/ Pays[b] = 0
<1>1. /\ given \in Accounts /\ gfile \in Accounts
      /\ \A a \in Addresses : gfile[a] <= gfile[a]
      /\ up => \A a \in Addresses : gfile[a] <= given[a]
  BY DEF Books, Accounts
<1>0. /\ AwayOK' /\ away' \subseteq away \cup ledger
      /\ request.phase # "idle" => away' \subseteq away
  BY AwayStep
<1>2. ASSUME UNCHANGED vars PROVE Known /\ up' = up
  <2>1. /\ file' = file /\ snap' = snap /\ ledger' = ledger /\ up' = up
        /\ Logged(file)' = Logged(file)
    BY <1>2 DEF vars, mem, disk
  <2> QED
    BY <2>1, <1>0 DEF Everywhere, OnDisk
<1>3. ASSUME NEW b \in Blocks, Insert(b), Pays[b] = 0 \/ b \in away
      PROVE  Known /\ up' = up
  BY <1>3, <1>0 DEF Insert, disk, Everywhere, OnDisk
<1>4. ASSUME Known, UNCHANGED books, up' = up, up => request.phase # "save"
      PROVE  Books'
  <2> HIDE DEF Known
  <2>1. UNCHANGED <<given, gfile, lost>>
    BY <1>4 DEF books
  <2>2. given' \in Accounts /\ (up' => \A a \in Addresses : gfile[a] <= given'[a])
    BY <1>1, <1>4, <2>1
  <2> QED
    BY <1>4, <1>0, <2>1, <2>2, BooksKept DEF Known
<1>5. ASSUME NEW b \in Blocks, Produce(b) \/ SubmitMined(b) \/ Sync(b)
      PROVE  Books'
  <2>1. UNCHANGED books /\ request.phase # "save"
    BY <1>5 DEF Produce, SubmitMined, Sync, Idle
  <2>2. UNCHANGED vars \/ (Insert(b) /\ (Pays[b] = 0 \/ b \in away))
    BY <1>5, PaysInside DEF Produce, Produced, SubmitMined, Sync, Received, Abroad
  <2> HIDE DEF Known
  <2> QED
    BY <1>2, <1>3, <1>4, <2>1, <2>2
<1>6. ASSUME UploadNext PROVE Books'
  <2> DEFINE b == Head(request.left)
  <2>1. UNCHANGED books /\ request.phase # "save"
    BY <1>6 DEF UploadNext
  <2>2. b \in Abroad \cup ledger /\ Received(b)
    BY <1>6 DEF UploadNext
  <2> HIDE DEF b, Known
  <2>3. UNCHANGED vars \/ (b \in Blocks /\ Insert(b) /\ (Pays[b] = 0 \/ b \in away))
    BY <2>2, PaysInside, AwayBlocks DEF Received, Insert, Abroad
  <2> QED
    BY <1>2, <1>3, <1>4, <2>1, <2>3
<1>7. ASSUME (\E body \in Bodies : Upload(body))
                \/ UploadRefused \/ SyncEnds \/ MiningTemplate
      PROVE  Books'
  <2>1. UNCHANGED books /\ UNCHANGED vars /\ request.phase # "save"
    BY <1>7 DEF Upload, UploadRefused, SyncEnds, MiningTemplate, Idle
  <2> HIDE DEF Known
  <2> QED
    BY <1>2, <1>4, <2>1
<1>8. ASSUME SaveGiven PROVE Books'
  <2>1. /\ request.phase = "save" /\ UNCHANGED <<vars, given>>
        /\ (gfile' = given /\ UNCHANGED lost) \/ LoseBooks
    BY <1>8 DEF SaveGiven
  <2>2. up
    BY <2>1 DEF RequestOK, Idle
  <2>3. /\ away' \subseteq away
        /\ OnDisk' \subseteq OnDisk /\ Everywhere' \subseteq Everywhere
    BY <2>1, <1>0 DEF vars, mem, disk, OnDisk, Everywhere
  <2>4. given' = given /\ given' \in Accounts
    BY <1>1, <2>1
  <2> QED
    BY <2>1, <2>2, <2>3, <2>4, BooksSaved, BooksLost
<1>9. ASSUME Respond PROVE Books'
  <2>1. PersistAppend \/ PersistCreate
    BY <1>9 DEF Respond, PersistAndAnswer
  <2>2. UNCHANGED books /\ request.phase # "save"
    BY <1>9 DEF Respond
  <2>3. Next /\ \A b \in Blocks : Insert(b) => Pays[b] = 0
    <3>1. ASSUME NEW b \in Blocks, Insert(b) PROVE FALSE
      <4>1. ledger' = ledger /\ b \notin ledger /\ ledger' = ledger \cup {b}
        BY <2>1, <3>1 DEF Insert, PersistAppend, PersistCreate
      <4> QED
        BY <4>1
    <3> QED
      BY <2>1, <3>1 DEF Next
  <2>4. Known
    BY <2>3, <1>0, NoNewPayments
  <2>5. up' = up
    BY <2>1 DEF PersistAppend, PersistCreate
  <2> HIDE DEF Known
  <2> QED
    BY <1>4, <2>2, <2>4, <2>5
<1>10. ASSUME ServiceCrash PROVE Books'
  <2>1. /\ Crash /\ up /\ up' = FALSE /\ snap' = snap /\ given' = Nobody
        /\ request.phase # "persist" => file' = file
        /\ UNCHANGED <<gfile, lost>> \/ (request.phase = "save" /\ LoseBooks)
    BY <1>10 DEF ServiceCrash, Crash, Stop
  <2>2. given' \in Accounts
    BY <2>1, ServiceAssumption DEF Nobody, Accounts
  <2>3. request.phase = "save" => OnDisk' \subseteq OnDisk
    BY <2>1, <1>0 DEF OnDisk
  <2>4. CASE LoseBooks /\ request.phase = "save"
    BY <2>1, <2>2, <2>3, <2>4, BooksLost
  <2>5. CASE UNCHANGED <<gfile, lost>> /\ request.phase = "save"
    <3>1. OnDisk' \subseteq OnDisk /\ gfile' = gfile /\ lost' = lost
      BY <2>3, <2>5
    <3>2. /\ OnDisk \in SUBSET Blocks /\ OnDisk' \in SUBSET Blocks
          /\ \A b \in OnDisk' : b \in OnDisk \/ Pays[b] = 0
          /\ gfile \in Accounts /\ lost \in Nat /\ Within(OnDisk, gfile, lost)
      BY <3>1, KnownBlocks DEF Books
    <3>3. Within(OnDisk', gfile, lost)
      BY <3>2, WithinFewer
    <3> QED
      BY <2>1, <2>2, <3>1, <3>2, <3>3 DEF Books, Within
  <2>6. CASE UNCHANGED <<gfile, lost>> /\ request.phase # "save"
    <3>1. \A b \in Blocks : Insert(b) => Pays[b] = 0
      BY <2>1 DEF Insert
    <3>2. Known
      BY <2>1, <3>1, <1>0, NoNewPayments DEF Next
    <3> HIDE DEF Known
    <3> QED
      BY <2>1, <2>2, <2>6, <3>2, <1>0, BooksKept DEF Known
  <2> QED
    BY <2>1, <2>4, <2>5, <2>6
<1>11. ASSUME Boot PROVE Books'
  <2>1. /\ ~up /\ (BootFromLog \/ BootAnew)
        /\ given' = gfile /\ UNCHANGED <<gfile, lost>>
    BY <1>11 DEF Boot, LoadBooks, BootFromLog, BootAnew
  <2>2. \A b \in Blocks : Insert(b) => Pays[b] = 0
    BY <2>1 DEF Insert
  <2>3. Known
    BY <2>1, <2>2, <1>0, NoNewPayments DEF Next
  <2> HIDE DEF Known
  <2> QED
    BY <1>1, <2>1, <2>3, <1>0, BooksKept DEF Known
<1>12. ASSUME ServiceReset PROVE Books'
  <2>1. /\ request = Idle /\ Reset /\ up' = FALSE /\ ledger' = {}
        /\ given' = Nobody /\ UNCHANGED <<gfile, lost>>
    BY <1>12 DEF ServiceReset, Reset, Stop
  <2>2. \A b \in Blocks : Insert(b) => Pays[b] = 0
    BY <2>1 DEF Insert
  <2>3. Known
    BY <2>1, <2>2, <1>0, NoNewPayments DEF Next
  <2>4. given' \in Accounts
    BY <2>1, ServiceAssumption DEF Nobody, Accounts
  <2> HIDE DEF Known
  <2> QED
    BY <2>1, <2>3, <2>4, <1>0, BooksKept DEF Known, Idle
<1>13. ASSUME Operator PROVE Books'
  <2>1. request = Idle /\ UNCHANGED books /\ (Save \/ Load) /\ up' = up
    BY <1>13 DEF Operator, Save, Load, mem
  <2>2. \A b \in Blocks : Insert(b) => Pays[b] = 0
    <3>1. ASSUME NEW b \in Blocks, Insert(b) PROVE FALSE
      <4>1. pending' = Append(pending, b) /\ pending \in Seq(Blocks)
        BY <3>1 DEF Insert, IInv, TypeOK
      <4>2. pending' = pending \/ pending' = <<>>
        BY <2>1 DEF Save, Load, mem
      <4> QED
        BY <4>1, <4>2
    <3> QED
      BY <3>1
  <2>3. Known
    BY <2>1, <2>2, <1>0, NoNewPayments DEF Next
  <2>4. request.phase # "save"
    BY <2>1 DEF Idle
  <2> HIDE DEF Known
  <2> QED
    BY <1>4, <2>1, <2>3, <2>4
<1>14. CASE UNCHANGED svars
  <2>1. UNCHANGED <<vars, request, given, gfile, lost, away>>
    BY <1>14 DEF svars, books
  <2>2. /\ up' = up /\ OnDisk' = OnDisk /\ Everywhere' = Everywhere
        /\ request' = request /\ given' = given /\ gfile' = gfile /\ lost' = lost
    BY <2>1 DEF vars, mem, disk, OnDisk, Everywhere
  <2> QED
    BY <2>2 DEF Books
<1>15. ASSUME NEW b \in Blocks, Faucet(b) PROVE Books'
  BY <1>0, <1>15, BooksPaid
<1> HIDE DEF Known
<1> QED
  BY <1>5, <1>6, <1>7, <1>8, <1>9, <1>10, <1>11, <1>12, <1>13, <1>14, <1>15
  DEF ServiceNext, ServiceStep

LEMMA ServiceInvariance == ServiceSpec => [](IInv /\ AwayOK /\ RequestOK /\ Books)
<1> DEFINE Inv == RequestOK /\ Books
<1>1. ASSUME ServiceInit PROVE Inv
  <2>1. /\ ~up /\ ledger = {} /\ file = <<>> /\ snap = {} /\ request = Idle
        /\ given = Nobody /\ gfile = Nobody /\ lost = 0 /\ away = {}
    BY <1>1 DEF ServiceInit, Init
  <2>2. RequestOK
    BY <2>1 DEF RequestOK, Idle
  <2>3. Nobody \in Accounts /\ \A a \in Addresses : Nobody[a] = 0
    BY ServiceAssumption DEF Nobody, Accounts
  <2>4. OnDisk = {}
    BY <2>1, NothingLogged DEF OnDisk
  <2>5. Within({}, Nobody, 0)
    <3>1. \A a \in Addresses : Paid(a, {}) = {}
      BY DEF Paid
    <3>2. Cardinality({}) = 0 /\ Cap * 0 = 0
      BY ServiceAssumption, FS_EmptySet
    <3> QED
      BY <2>3, <3>1, <3>2 DEF Within
  <2> QED
    BY <2>1, <2>2, <2>3, <2>4, <2>5 DEF Books
<1>2. IInv /\ IInv' /\ AwayOK /\ Inv /\ [ServiceNext]_svars => Inv'
  BY RequestStep, BooksStep
<1>3. ServiceSpec => [](IInv /\ AwayOK)
  BY StoreUnder, AwayInvariance, PTL
<1> HIDE DEF Inv
<1>4. ServiceSpec => []Inv
  BY <1>1, <1>2, <1>3, PTL DEF ServiceSpec
<1>5. Inv => RequestOK /\ Books
  BY DEF Inv
<1> QED
  BY <1>3, <1>4, <1>5, PTL

(***************************************************************************)
(* Whatever crashes and resets come between the payment, the faucet's file *)
(* and the log, the ledger holds no more than one cap of payments to an    *)
(* address, and one more for each write of the file that did not complete  *)
(* (dispatch, save_faucet_given, load_faucet_given).                       *)
(***************************************************************************)
THEOREM FaucetStaysCapped == ServiceSpec => []FaucetCapped
<1>1. ASSUME IInv, AwayOK, Books PROVE FaucetCapped
  <2> SUFFICES ASSUME NEW a \in Addresses
               PROVE  Cardinality(Paid(a, ledger)) <= Cap * (1 + lost)
    BY DEF FaucetCapped, Paid
  <2>1. lost \in Nat /\ Cap \in Nat /\ Cap * lost \in Nat
    BY <1>1, ServiceAssumption DEF Books
  <2>2. Cap * (1 + lost) = Cap + Cap * lost
    BY <2>1
  <2>3. CASE ~up
    <3>1. Paid(a, ledger) = {}
      BY <1>1, <2>3 DEF IInv, TypeOK, Paid
    <3> QED
      BY <2>1, <2>2, <3>1, FS_EmptySet
  <2>4. CASE up
    <3>1. given \in Accounts /\ Within(Everywhere, given, lost)
      BY <1>1, <2>4 DEF Books
    <3>2. Everywhere \in SUBSET Blocks /\ ledger \in SUBSET Blocks
      BY <1>1, KnownBlocks DEF IInv, TypeOK
    <3>3. \A b \in ledger : b \in Everywhere \/ Pays[b] = 0
      BY DEF Everywhere
    <3>4. Within(ledger, given, lost)
      BY <2>1, <3>1, <3>2, <3>3, WithinFewer
    <3>5. Cardinality(Paid(a, ledger)) <= given[a] + Cap * lost
      BY <3>4 DEF Within
    <3>6. given[a] \in Nat /\ given[a] <= Cap
      BY <2>1, <3>1 DEF Accounts
    <3>7. Cardinality(Paid(a, ledger)) \in Nat
      BY <3>2, PaidFinite
    <3> QED
      BY <2>1, <2>2, <3>5, <3>6, <3>7
  <2> QED
    BY <2>3, <2>4
<1> QED
  BY <1>1, ServiceInvariance, PTL

-----------------------------------------------------------------------------
(***************************************************************************)
(* Answers.  An answer names blocks of the ledger.  Those it vouched for,  *)
(* all but the shaky ones, are records of the log while it is open, and    *)
(* of an untorn log once the process is down; with no open log it vouched  *)
(* for none.  Between requests this holds of the whole ledger.             *)
(***************************************************************************)
Vouched ==
  /\ up => /\ told \subseteq ledger
           /\ log => told \ shaky \subseteq Logged(file)
           /\ ~log => told \subseteq shaky
  /\ up /\ request.phase = "idle" =>
       /\ log => ledger \ shaky \subseteq Logged(file)
       /\ ~log => ledger \subseteq shaky
  /\ ~up /\ ~Torn(file) /\ told \ shaky # {} =>
       Readable(file) /\ told \ shaky \subseteq Logged(file)

\* The ledger is what the open log holds and what is queued.
LEMMA LedgerParts ==
    ASSUME IInv, up, log
    PROVE  ledger \subseteq Logged(file) \cup ToSet(pending)
<1> DEFINE c == Complete(pending)
           f == file \o c
<1>1. /\ file \in Seq(Pieces) /\ pending \in Seq(Blocks) /\ Logged(f) = ledger
  BY DEF IInv, TypeOK, LogCovers
<1>2. /\ c \in Seq(Pieces) /\ Len(c) = Len(pending)
      /\ \A i \in 1..Len(pending) : c[i].block = pending[i]
  BY <1>1, CompleteIsPieces
<1>3. ToSet(pending) = {pending[i] : i \in 1..Len(pending)}
  BY <1>1 DEF ToSet
<1> HIDE DEF c
<1>4. ASSUME NEW i \in Places(f)
      PROVE  f[i].block \in Logged(file) \cup ToSet(pending)
  <2>1. i \in 1..(Len(file) + Len(pending)) /\ f[i].kind = "record"
    BY <1>1, <1>2 DEF Places
  <2>2. CASE i <= Len(file)
    <3>1. i \in DOMAIN file /\ f[i] = file[i]
      BY <1>1, <1>2, <2>1, <2>2
    <3> QED
      BY <2>1, <3>1 DEF Logged, Places
  <2>3. CASE ~(i <= Len(file))
    <3>1. i - Len(file) \in 1..Len(pending) /\ f[i] = c[i - Len(file)]
      BY <1>1, <1>2, <2>1, <2>3
    <3> QED
      BY <1>2, <1>3, <3>1
  <2> QED
    BY <2>1, <2>2, <2>3
<1> HIDE DEF f
<1> QED
  BY <1>1, <1>4 DEF Logged

LEMMA NextLedgerParts ==
    (IInv /\ up /\ log => ledger \subseteq Logged(file) \cup ToSet(pending))'
<1>1. IInv /\ up /\ log => ledger \subseteq Logged(file) \cup ToSet(pending)
  BY LedgerParts
<1> QED
  BY <1>1, PTL

\* After a write, or when what is not logged is counted: nothing else is lost.
LEMMA AtRiskCounts ==
    ASSUME IInv', up', told' \subseteq ledger', shaky' = AtRisk
    PROVE  Vouched'
<1>1. log' => ledger' \subseteq Logged(file') \cup ToSet(pending')
  BY NextLedgerParts
<1> QED
  BY <1>1 DEF Vouched, AtRisk

(***************************************************************************)
(* What was vouched for, through every step of the server.                 *)
(***************************************************************************)
LEMMA VouchedStep ==
    ASSUME IInv, IInv', AwayOK, RequestOK, Vouched, [ServiceNext]_svars
    PROVE  Vouched'
<1>1. ASSUME UNCHANGED vars
      PROVE  /\ up' = up /\ ledger' = ledger /\ log' = log /\ file' = file
             /\ Torn(file') = Torn(file) /\ Readable(file') = Readable(file)
  BY <1>1 DEF vars, mem, disk
<1>2. ASSUME UNCHANGED vars, UNCHANGED <<told, shaky>>,
             up /\ request'.phase = "idle" => request.phase = "idle"
      PROVE  Vouched'
  BY <1>1, <1>2 DEF Vouched
<1>3. ASSUME NEW b \in Blocks, Insert(b), UNCHANGED <<told, shaky>>,
             request'.phase # "idle"
      PROVE  Vouched'
  BY <1>3 DEF Insert, disk, Vouched
<1>4. ASSUME NEW b \in Blocks, Produce(b) \/ Faucet(b) \/ SubmitMined(b) \/ Sync(b)
      PROVE  Vouched'
  <2>1. UNCHANGED <<told, shaky>> /\ request'.phase # "idle"
    BY <1>4 DEF Produce, Faucet, SubmitMined, Sync, Persisting, Idle
  <2>2. Insert(b) \/ UNCHANGED vars
    BY <1>4 DEF Produce, Faucet, SubmitMined, Sync, Produced, Received
  <2> QED
    BY <1>2, <1>3, <2>1, <2>2
<1>5. ASSUME UploadNext PROVE Vouched'
  <2> DEFINE b == Head(request.left)
  <2>1. UNCHANGED <<told, shaky>> /\ request'.phase # "idle"
    BY <1>5 DEF UploadNext, Persisting
  <2>2. b \in Abroad \cup ledger /\ Received(b)
    BY <1>5 DEF UploadNext
  <2> HIDE DEF b
  <2>3. (b \in Blocks /\ Insert(b)) \/ UNCHANGED vars
    BY <2>2, AwayBlocks DEF Received, Insert
  <2> QED
    BY <1>2, <1>3, <2>1, <2>3
<1>6. ASSUME (\E body \in Bodies : Upload(body)) \/ SaveGiven PROVE Vouched'
  BY <1>2, <1>6 DEF Upload, SaveGiven, Persisting
<1>7. ASSUME UploadRefused \/ SyncEnds PROVE Vouched'
  <2>1. UNCHANGED vars /\ told' = told /\ up
    BY <1>7 DEF UploadRefused, SyncEnds, RequestOK, Idle
  <2>2. \/ shaky' = AtRisk
        \/ shaky' = shaky /\ request'.phase # "idle"
    BY <1>7 DEF UploadRefused, SyncEnds, Persisting
  <2>3. up' /\ told' \subseteq ledger'
    BY <1>1, <2>1 DEF Vouched
  <2> QED
    BY <1>2, <2>1, <2>2, <2>3, AtRiskCounts
<1>8. ASSUME MiningTemplate PROVE Vouched'
  <2>1. /\ UNCHANGED vars /\ up /\ request.phase = "idle" /\ request' = request
        /\ shaky' = shaky /\ told' = told \cup Tips /\ Tips \subseteq ledger
    BY <1>8 DEF MiningTemplate, Idle, Tips
  <2> QED
    BY <1>1, <2>1 DEF Vouched
<1>9. ASSUME Respond PROVE Vouched'
  <2>1. /\ PersistAppend \/ PersistCreate
        /\ told' = told \cup request.got /\ shaky' = AtRisk
    BY <1>9 DEF Respond, PersistAndAnswer
  <2>2. up /\ up' /\ ledger' = ledger
    BY <2>1 DEF PersistAppend, PersistCreate
  <2>3. told' \subseteq ledger'
    BY <2>1, <2>2 DEF Vouched, RequestOK
  <2> QED
    BY <2>1, <2>2, <2>3, AtRiskCounts
<1>10. ASSUME ServiceCrash PROVE Vouched'
  <2>1. up /\ ~up' /\ file' \in UnderWay /\ UNCHANGED <<told, shaky>>
    BY <1>10 DEF ServiceCrash, Crash, Stop
  <2>2. CASE ~log
    BY <2>1, <2>2 DEF Vouched
  <2>3. CASE log
    <3>1. Logged(file) \subseteq Logged(file') /\ Insertable(file')
      BY <2>1, <2>3, UnderWayLogs
    <3>2. told \ shaky \subseteq Logged(file')
      BY <2>1, <2>3, <3>1 DEF Vouched
    <3>3. ASSUME ~Torn(file'), told \ shaky # {} PROVE Readable(file')
      BY <3>1, <3>2, <3>3, UntornReadable
    <3> QED
      BY <2>1, <3>2, <3>3 DEF Vouched
  <2> QED
    BY <2>2, <2>3
<1>11. ASSUME Boot PROVE Vouched'
  <2>1. up' /\ told' \subseteq ledger' /\ shaky' = AtRisk
    BY <1>11 DEF Boot, BootFromLog, BootAnew
  <2> QED
    BY <2>1, AtRiskCounts
<1>12. ASSUME ServiceReset PROVE Vouched'
  BY <1>12 DEF ServiceReset, Reset, Stop, Vouched
<1>13. ASSUME Operator PROVE Vouched'
  <2>1. CASE Save /\ UNCHANGED <<told, shaky>>
    <3>1. UNCHANGED <<up, ledger, log, file, request>> /\ up
      BY <1>13, <2>1 DEF Save, mem, Operator
    <3> QED
      BY <2>1, <3>1 DEF Vouched
  <2>2. CASE Load /\ told' = {} /\ shaky' = AtRisk
    BY <2>2, AtRiskCounts DEF Load
  <2> QED
    BY <1>13, <2>1, <2>2 DEF Operator
<1>14. CASE UNCHANGED svars
  BY <1>2, <1>14 DEF svars
<1> QED
  BY <1>4, <1>5, <1>6, <1>7, <1>8, <1>9, <1>10, <1>11, <1>12, <1>13, <1>14
  DEF ServiceNext, ServiceStep

(***************************************************************************)
(* What an answer named is in the ledger after any restart, unless a write *)
(* was cut short inside a record or the answer did not wait for the log    *)
(* (handle, submit_wire_block, persist_all, boot_persist).                 *)
(***************************************************************************)
THEOREM AnswersSurvive == ServiceSpec => ToldSurvives
<1>1. ServiceInit => Vouched
  BY DEF ServiceInit, Init, Vouched
<1>2. /\ IInv /\ IInv' /\ AwayOK /\ RequestOK /\ Vouched
      /\ [ServiceNext]_svars
      => Vouched'
  BY VouchedStep
<1>3. ServiceSpec => [](IInv /\ AwayOK /\ RequestOK)
  BY ServiceInvariance, PTL
<1>4. ServiceSpec => [](AwayOK /\ Vouched)
  BY <1>1, <1>2, <1>3, PTL DEF ServiceSpec
<1>5. AwayOK /\ Vouched /\ [ServiceNext]_svars
        => [~up /\ up' => Torn(file) \/ told \ shaky \subseteq ledger']_svars
  <2> SUFFICES ASSUME AwayOK, Vouched, ServiceNext, ~up, up', ~Torn(file), told \ shaky # {}
               PROVE  told \ shaky \subseteq ledger'
    OBVIOUS
  <2>1. Readable(file) /\ told \ shaky \subseteq Logged(file)
    BY DEF Vouched
  <2>2. [Next]_vars
    BY StoreStep
  <2>3. BootFromLog
    BY <2>1, <2>2 DEF Next, vars, mem, Insert, PersistAppend, PersistCreate, Save,
                      Load, Crash, Reset, BootAnew
  <2> QED
    BY <2>1, <2>3 DEF BootFromLog
<1> QED
  BY <1>4, <1>5, PTL DEF ServiceSpec, ToldSurvives

=============================================================================
