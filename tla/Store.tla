------------------------------- MODULE Store -------------------------------
(***************************************************************************)
(* The node's durable state: the append-only replay log of                 *)
(* kovanica-state/src/store.rs, the whole-file snapshot, and the calls of  *)
(* node.rs and explorer.rs that write and reread them.                     *)
(*                                                                         *)
(* A block is a number, 0 the genesis every node of a network derives from *)
(* its profile.  The log is the sequence of what reached the disk: a       *)
(* header, whole records, and what an interrupted write_all left of one.   *)
(* A process crash keeps every byte written (nothing here models the page  *)
(* cache of a machine that fails); a missing log and one with half a       *)
(* header are the same to the readers, <<>>.                               *)
(***************************************************************************)
EXTENDS Integers, Sequences, FiniteSets

CONSTANTS Blocks,        \* the blocks that may ever exist, 0 among them
          Parents,       \* the parents of each block
          MaxCrashes,    \* bound: crashes and resets of the process
          MaxFaults      \* bound: writes that fail while the process lives

ASSUME BlocksAssumption ==
    /\ Blocks \subseteq Nat /\ IsFiniteSet(Blocks) /\ 0 \in Blocks
    /\ Parents \in [Blocks -> SUBSET Blocks] /\ Parents[0] = {}
ASSUME BoundsAssumption == MaxCrashes \in Nat /\ MaxFaults \in Nat

VARIABLES up,        \* the process runs
          ledger,    \* the ledger's blocks
          pending,   \* inserted and not yet appended to the log, in order
          log,       \* the node holds an open log
          file,      \* the log on disk
          snap,      \* the blocks of the snapshot on disk, {} if it is unreadable
          acked,     \* blocks the last successful persist put in the open log
          crashes, faults

mem == <<up, ledger, pending, log>>
disk == <<file, snap>>
vars == <<mem, disk, acked, crashes, faults>>

-----------------------------------------------------------------------------
(* The format. *)

Header == [kind |-> "header", block |-> 0]
Record(b) == [kind |-> "record", block |-> b]
\* some but not all bytes of a record's length; its length and part of its body
TornLength == [kind |-> "length", block |-> 0]
TornBody == [kind |-> "body", block |-> 0]

Pieces == {Header, TornLength, TornBody} \cup {Record(b) : b \in Blocks}
Torn(f) == \E i \in DOMAIN f : f[i] \in {TornLength, TornBody}

Places(f) == {i \in DOMAIN f : f[i].kind = "record"}
Logged(f) == {f[i].block : i \in Places(f)}

\* insert_raw_block takes the records one after the other: it refuses a block
\* that is there already or lacks a parent.
Insertable(f) ==
    \A i \in Places(f) :
        LET before == {f[j].block : j \in {k \in Places(f) : k < i}}
        IN  f[i].block \notin before /\ Parents[f[i].block] \subseteq before

\* write_record for every block of s.
Complete(s) == [i \in 1..Len(s) |-> Record(s[i])]

\* linearize: some order of the whole DAG with parents first (the order itself
\* is the subject of module Linearization).
Linearizations(S) ==
    {s \in [1..Cardinality(S) -> S] :
        {s[i] : i \in DOMAIN s} = S /\ Insertable(Complete(s))}

\* What write_all leaves of a record: nothing, a piece of it, or all.
Cuts == {<<>>, <<TornLength>>, <<TornBody>>}

First(s, n) == SubSeq(s, 1, n)
From(s, n) == SubSeq(s, n, Len(s))

\* The bytes of n whole records of s and, unless those are all, a cut.
Written(s, n, cut) == Complete(First(s, n)) \o cut
WriteOutcomes(s) == {w \in (0..Len(s)) \X Cuts : w[1] = Len(s) => w[2] = <<>>}

\* LedgerStore::open.  read_record takes a length cut short at the end of the
\* file for the end of the log; whatever follows a torn piece is read out of
\* step, and a body cut short is refused.
Readable(f) ==
    /\ \A i \in DOMAIN f : /\ f[i] # TornBody
                            /\ f[i] = TornLength => i = Len(f)
    /\ Logged(f) # {}
    /\ Insertable(f)

-----------------------------------------------------------------------------
Init ==
    /\ up = FALSE /\ ledger = {} /\ pending = <<>> /\ log = FALSE
    /\ file = <<>> /\ snap = {}
    /\ acked = {} /\ crashes = 0 /\ faults = 0

\* A block produced or received: note_inserted queues it for the log.
Insert(b) ==
    /\ up
    /\ b \notin ledger /\ Parents[b] \subseteq ledger
    /\ ledger' = ledger \cup {b}
    /\ pending' = Append(pending, b)
    /\ UNCHANGED <<up, log, disk, acked, crashes, faults>>

\* A write may fail only while the bound allows it.
Fault(ok) == /\ ~ok => faults < MaxFaults
             /\ faults' = IF ok THEN faults ELSE faults + 1

\* mutant of Unappended: the failing id is dropped
DropFailing(n) == From(pending, n + 2)

\* What stays queued after n records: the ids from the failing one on.
Unappended(n) == From(pending, n + 1)

\* persist_incremental with an open log: append what is pending.
PersistAppend ==
    /\ up /\ log
    /\ \E w \in WriteOutcomes(pending) :
         LET ok == w[1] = Len(pending) IN
         /\ Fault(ok)
         /\ file' = file \o Written(pending, w[1], w[2])
         /\ pending' = Unappended(w[1])
         /\ acked' = IF ok THEN ledger ELSE acked
    /\ UNCHANGED <<up, ledger, log, snap, crashes>>

\* LedgerStore::create for the blocks of S, interrupted: it truncates the file
\* before it writes the header.
Unfinished(S) ==
    {<<>>} \cup UNION {{<<Header>> \o Written(s, w[1], w[2]) :
                         w \in {v \in WriteOutcomes(s) : v[1] < Len(s)}} :
                       s \in Linearizations(S)}

\* LedgerStore::create and what create_log makes of it: the new log covers the
\* ids that were pending, and a failure leaves no log open.
Create(S, ids) ==
    \/ /\ \E s \in Linearizations(S) : file' = <<Header>> \o Complete(s)
       /\ Fault(TRUE)
       /\ log' = TRUE /\ pending' = <<>> /\ acked' = S
    \/ /\ file' \in Unfinished(S)
       /\ Fault(FALSE)
       /\ log' = FALSE /\ pending' = ids /\ acked' = {}

\* persist_incremental without one: write the whole ledger to a new log.
PersistCreate ==
    /\ up /\ ~log
    /\ Create(ledger, pending)
    /\ UNCHANGED <<up, ledger, snap, crashes>>

\* Node::save overwrites the snapshot in place: a write that fails, or is cut
\* short by a crash, leaves a file that read_snapshot refuses.
Save ==
    /\ up
    /\ \/ Fault(TRUE) /\ snap' = ledger
       \/ Fault(FALSE) /\ snap' = {}
    /\ UNCHANGED <<mem, file, acked, crashes>>

\* mutant: the log of the ledger that was replaced stays open
LoadKeepingLog ==
    /\ up /\ snap # {}
    /\ ledger' = snap
    /\ pending' = <<>> /\ acked' = {}
    /\ UNCHANGED <<up, log, disk, crashes, faults>>

\* Node::load.
Load ==
    /\ up /\ snap # {}
    /\ ledger' = snap
    /\ log' = FALSE
    /\ pending' = <<>> /\ acked' = {}
    /\ UNCHANGED <<up, disk, crashes, faults>>

-----------------------------------------------------------------------------
\* The logs a call that is under way may leave behind.
UnderWay ==
    IF log THEN {file \o Written(pending, w[1], w[2]) : w \in WriteOutcomes(pending)}
    ELSE {file} \cup Unfinished(ledger)
              \cup {<<Header>> \o Complete(s) : s \in Linearizations(ledger)}


Stop == up' = FALSE /\ ledger' = {} /\ pending' = <<>> /\ log' = FALSE

\* The process dies, at any point of a persist call or between calls.
Crash ==
    /\ up /\ crashes < MaxCrashes
    /\ crashes' = crashes + 1
    /\ Stop
    /\ file' \in UnderWay
    /\ UNCHANGED <<snap, acked, faults>>

\* The reset route: wipe_data removes both files and the node is booted anew.
Reset ==
    /\ up /\ crashes < MaxCrashes
    /\ crashes' = crashes + 1
    /\ Stop
    /\ file' = <<>> /\ snap' = {} /\ acked' = {}
    /\ UNCHANGED faults

\* load_or_genesis with a log that opens.
BootFromLog ==
    /\ ~up /\ Readable(file)
    /\ up' = TRUE
    /\ ledger' = Logged(file) /\ acked' = Logged(file)
    /\ log' = TRUE /\ pending' = <<>>
    /\ UNCHANGED <<disk, crashes, faults>>

\* load_or_genesis with the snapshot or else a new genesis: create_log replaces
\* whatever the log held, and an error of it is ignored.
BootAnew ==
    /\ ~up /\ ~Readable(file)
    /\ up' = TRUE
    /\ ledger' = IF snap # {} THEN snap ELSE {0}
    /\ Create(IF snap # {} THEN snap ELSE {0}, <<>>)
    /\ UNCHANGED <<snap, crashes>>

Next ==
    \/ \E b \in Blocks : Insert(b)
    \/ PersistAppend
    \/ PersistCreate
    \/ Save
    \/ Load
    \/ Crash
    \/ Reset
    \/ BootFromLog
    \/ BootAnew

Spec == Init /\ [][Next]_vars

-----------------------------------------------------------------------------
\* Memory and disk hold what they are declared to hold, and a process that is
\* down has no memory.
TypeOK ==
    /\ up \in BOOLEAN /\ log \in BOOLEAN
    /\ ledger \subseteq Blocks /\ snap \subseteq Blocks /\ acked \subseteq Blocks
    /\ pending \in Seq(Blocks) /\ file \in Seq(Pieces)
    /\ crashes \in 0..MaxCrashes /\ faults \in 0..MaxFaults
    /\ ~up => ledger = {} /\ pending = <<>> /\ log = FALSE

(***************************************************************************)
(* While a log is open, its records followed by what is pending insert     *)
(* exactly the ledger: every block once and none before its parents,       *)
(* whatever calls failed on the way (persist_incremental).  In a log that  *)
(* a failed write tore, the records written behind the torn bytes count    *)
(* too, although no reader reaches them: what holds there is that the      *)
(* node hands every block to the log once, not that a boot finds it.       *)
(***************************************************************************)
LogCovers ==
    up /\ log => /\ Insertable(file \o Complete(pending))
                 /\ Logged(file \o Complete(pending)) = ledger

(***************************************************************************)
(* What a successful persist call put in the open log is in the ledger     *)
(* after any crash, as long as no write was cut short inside a record      *)
(* (persist_incremental, load_or_genesis).                                 *)
(***************************************************************************)
DurableAcked ==
    [][~up /\ up' => Torn(file) \/ acked \subseteq ledger']_vars

=============================================================================
