------------------------------ MODULE Service ------------------------------
(***************************************************************************)
(* The server around the node (explorer.rs): requests and background ticks *)
(* insert blocks, write the log by persist_all before they answer, and the *)
(* process may die between any two of their steps.  One thread serves      *)
(* everything, so what interleaves is requests as a whole, the steps of a  *)
(* request with crashes, and writes that fail.                             *)
(*                                                                         *)
(* The ledger, its log and the boot are those of Store.  Answers are       *)
(* recorded in `told': blocks the outside builds on or believes in.        *)
(***************************************************************************)
EXTENDS Store, SequencesExt

CONSTANTS Own,        \* the blocks this node produces, the rest others do
          Addresses,  \* that ask the faucet; integers, the file is sorted
          Pays,       \* block -> the address its faucet payment goes to, or 0
          Cap,        \* FAUCET_MAX_PER_ADDRESS, in payments
          Bodies,     \* the sequences of records that are uploaded; what is not
                      \* in Blocks is no valid block
          Spread,     \* bound: the blocks of this node that others fetch
          MaxLost     \* bound: writes of the faucet file that do not complete

ASSUME ServiceAssumption ==
  /\ Own \subseteq Blocks /\ Spread \subseteq Own /\ Addresses \subseteq Nat \ {0}
  /\ Pays \in [Blocks -> Addresses \cup {0}] /\ Cap \in Nat /\ MaxLost \in Nat
  /\ \A b \in Blocks : b = 0 \/ b \notin Own => Pays[b] = 0

VARIABLES request,  \* the request or tick under way
          given,    \* faucet_given: payments by address
          gfile,    \* faucet.txt
          told,     \* blocks that answers named
          shaky,    \* of these and the others, what no answer vouched for:
                    \* blocks a refused upload or a failed write left unlogged
          lost,     \* writes of faucet.txt that did not complete
          away      \* blocks of this node that others may have fetched; between
                    \* requests, those of them that the ledger has lost

books == <<given, gfile, lost>>
svars == <<vars, request, books, told, shaky, away>>

Idle == [phase |-> "idle", left |-> <<>>, got |-> {}]
Persisting(got) == [phase |-> "persist", left |-> <<>>, got |-> got]
Nobody == [a \in Addresses |-> 0]

\* What a crash would cost: with an open log what is queued, else everything.
AtRisk == IF log' THEN ToSet(pending') ELSE ledger'

\* What others can send: their blocks, and those of this node they have.  After a
\* reset or the loss of a log these come back.
Abroad == (Blocks \ Own) \cup away

Tips == {b \in ledger : \A c \in ledger : b \notin Parents[c]}

ServiceInit ==
  /\ Init
  /\ request = Idle /\ given = Nobody /\ gfile = Nobody
  /\ told = {} /\ shaky = {} /\ lost = 0 /\ away = {}

-----------------------------------------------------------------------------
\* mine_every, the routes mine, empty and send: a block on all tips, that nobody
\* has seen (its id covers the time it was made at).
Produced(b) == b \in Own \ away /\ Parents[b] = Tips /\ Insert(b)

Produce(b) ==
  /\ request = Idle
  /\ Pays[b] = 0 /\ Produced(b)
  /\ \E got \in {{}, {b}} : request' = Persisting(got)  \* a tick, a request
  /\ UNCHANGED <<books, told, shaky>>

MayGive(a) == given[a] + 1 <= Cap

\* The route faucet, up to its file: send_to mines the payment.
Faucet(b) ==
  /\ request = Idle
  /\ Pays[b] # 0 /\ MayGive(Pays[b]) /\ Produced(b)
  /\ given' = [given EXCEPT ![Pays[b]] = @ + 1]
  /\ request' = [phase |-> "save", left |-> <<>>, got |-> {b}]
  /\ UNCHANGED <<gfile, lost, told, shaky>>

\* What load_faucet_given makes of a file whose writing stopped: the rows up to
\* some address, whose figure may lack digits.
CutShort ==
  {[x \in Addresses |-> IF x < a THEN given[x] ELSE IF x = a THEN n ELSE 0] :
     a \in Addresses, n \in 0 .. Cap}
  \cap {g \in [Addresses -> 0 .. Cap] : \A x \in Addresses : g[x] <= given[x]}

\* A write of the faucet file that fails, or that a crash interrupts.
LoseBooks ==
  /\ lost < MaxLost
  /\ lost' = lost + 1
  /\ gfile' \in CutShort \cup {gfile}

\* save_faucet_given; its errors are ignored.
SaveGiven ==
  /\ request.phase = "save"
  /\ \/ gfile' = given /\ UNCHANGED lost
     \/ LoseBooks
  /\ request' = Persisting(request.got)
  /\ UNCHANGED <<vars, given, told, shaky>>

\* Mutant of PersistAndAnswer: the answer does not wait for the log.
AnswerOnly ==
  /\ told' = told \cup request.got
  /\ UNCHANGED <<vars, shaky>>

\* persist_all, its errors ignored, and the answer.
PersistAndAnswer ==
  /\ PersistAppend \/ PersistCreate
  /\ told' = told \cup request.got
  /\ shaky' = AtRisk

Respond ==
  /\ request.phase = "persist"
  /\ PersistAndAnswer
  /\ request' = Idle
  /\ UNCHANGED books

-----------------------------------------------------------------------------
\* mine/template: the miner will build on the tips.
MiningTemplate ==
  /\ request = Idle /\ up
  /\ told' = told \cup Tips
  /\ UNCHANGED <<vars, request, books, shaky>>

\* receive_block: a block that is there already is no error.
Received(b) == Insert(b) \/ (up /\ b \in ledger /\ UNCHANGED vars)

\* mine/submit with a JSON body: one block, on the tips of now or of earlier.
SubmitMined(b) ==
  /\ request = Idle
  /\ b \in Abroad /\ Received(b)
  /\ request' = Persisting({b})
  /\ UNCHANGED <<books, told, shaky>>

\* mine/submit with wire records: submit_wire_block takes them one by one.
Upload(body) ==
  /\ request = Idle /\ up
  /\ request' = [phase |-> "upload", left |-> body, got |-> {}]
  /\ UNCHANGED <<vars, books, told, shaky>>

UploadNext ==
  LET b == Head(request.left) rest == Tail(request.left) got == request.got \cup {b}
  IN  /\ request.phase = "upload"
      /\ b \in Abroad \cup ledger /\ Received(b)
      /\ request' = IF rest = <<>> THEN Persisting(got)
                    ELSE [phase |-> "upload", left |-> rest, got |-> got]
      /\ UNCHANGED <<books, told, shaky>>

\* receive_block may refuse any new record, for its parents, its time or its
\* contents.  The first refusal ends the request: what was admitted before it is
\* neither announced nor logged.
UploadRefused ==
  /\ request.phase = "upload"
  /\ Head(request.left) \notin ledger
  /\ UNCHANGED <<vars, books, told>>
  /\ request' = Idle /\ shaky' = AtRisk

\* Between requests tick_p2p serves connections: what the ledger has goes out.
Fetched == away \cup IF up /\ request = Idle THEN ledger \cap Spread ELSE {}

\* tick_p2p and sync_peers, which a boot ends with: bodies come in over a
\* connection.
Sync(b) ==
  /\ request = Idle \/ request.phase = "sync"
  /\ b \in Abroad /\ Insert(b)
  /\ request' = [Idle EXCEPT !.phase = "sync"]
  /\ UNCHANGED <<books, told, shaky>>

\* The log is written, but not when serving the connection failed.
SyncEnds ==
  /\ request.phase = "sync"
  /\ UNCHANGED <<vars, books, told>>
  /\ \/ request' = Persisting({}) /\ UNCHANGED shaky
     \/ request' = Idle /\ shaky' = AtRisk

-----------------------------------------------------------------------------
\* Memory is gone; a file that was being written may be cut short.
ServiceCrash ==
  /\ Crash
  /\ request.phase # "persist" => file' = file
  /\ \/ UNCHANGED <<gfile, lost>>
     \/ request.phase = "save" /\ LoseBooks
  /\ request' = Idle /\ given' = Nobody
  /\ UNCHANGED <<told, shaky>>

\* load_faucet_given
LoadBooks == gfile

\* boot_persist: load_or_genesis, load_faucet_given and a first persist_all.
Boot ==
  /\ BootFromLog \/ BootAnew
  /\ given' = LoadBooks
  /\ told' = told \cap ledger' /\ shaky' = AtRisk
  /\ request' = Persisting({})
  /\ UNCHANGED <<gfile, lost>>

\* Mutant of ServiceReset: the faucet file is wiped with the others.
ResetWithBooks ==
  /\ request = Idle
  /\ Reset
  /\ given' = Nobody /\ gfile' = Nobody
  /\ told' = {} /\ shaky' = {}
  /\ UNCHANGED <<request, lost>>

\* The route reset: wipe_data leaves the faucet file; boot_persist follows.
ServiceReset ==
  /\ request = Idle
  /\ Reset
  /\ given' = Nobody
  /\ told' = {} /\ shaky' = {}
  /\ UNCHANGED <<request, gfile, lost>>

\* The commands save and load, between requests.
Operator ==
  /\ request = Idle
  /\ \/ Save /\ UNCHANGED <<told, shaky>>
     \/ Load /\ told' = {} /\ shaky' = AtRisk
  /\ UNCHANGED <<request, books>>

ServiceStep ==
  \/ \E b \in Blocks : Produce(b) \/ Faucet(b) \/ SubmitMined(b) \/ Sync(b)
  \/ \E body \in Bodies : Upload(body)
  \/ UploadNext \/ UploadRefused \/ SyncEnds \/ MiningTemplate
  \/ SaveGiven \/ Respond
  \/ ServiceCrash \/ Boot \/ ServiceReset \/ Operator

ServiceNext ==
  /\ ServiceStep
  /\ away' = Fetched \ IF request' = Idle THEN ledger' ELSE {}

ServiceSpec == ServiceInit /\ [][ServiceNext]_svars

-----------------------------------------------------------------------------
(***************************************************************************)
(* "Per-address lifetime cap: an address cannot drain the operator funds   *)
(* by replaying the faucet" (dispatch): crashes between the payment, the   *)
(* file and the log do not help, nor does a reset; only a write of the     *)
(* file that does not complete does, and each grants one more cap at most. *)
(***************************************************************************)
FaucetCapped ==
  \A a \in Addresses :
    Cardinality({b \in ledger : Pays[b] = a}) <= Cap * (1 + lost)

(***************************************************************************)
(* What an answer named, a mined block or the parents of a template, is in *)
(* the ledger after any restart: requests log their blocks before they     *)
(* answer.  Excepted are a log torn by a cut write, and blocks that a      *)
(* refused upload, a failed connection or a failed write left unlogged.    *)
(***************************************************************************)
ToldSurvives ==
  [][~up /\ up' => Torn(file) \/ told \ shaky \subseteq ledger']_svars

=============================================================================
