------------------------------ MODULE IndexedDb ------------------------------
(***************************************************************************)
(* IndexedDB: pages and workers (clients) of several documents use one     *)
(* database of one origin.  Their requests travel through the shell to the *)
(* single origin-storage worker thread, which stages the writes of a       *)
(* transaction in a session and commits the session when the database has  *)
(* still the version and generation it began from.  A commit, an upgrade   *)
(* and a deletion rewrite the profile file through a temporary and a       *)
(* backup file, one file operation at a time.                              *)
(*                                                                         *)
(* A transaction writes its own identity, so a value tells who wrote it.   *)
(* "stamp" is a history variable: it numbers the database states, so that  *)
(* equal versions and generations of different databases can be told       *)
(* apart; "erased" is the number of the last deletion.                     *)
(***************************************************************************)
EXTENDS Integers, Sequences, FiniteSets, FiniteSetsExt

CONSTANTS
    Docs, Clients,    \* documents; the pages and workers that use storage
    DocOf,            \* the document of a client
    Workers,          \* the clients that are dedicated workers
    Deleters,         \* the clients that may call deleteDatabase
    Readers,          \* the clients that may begin readonly transactions
    Keys,             \* record keys
    MaxVersion,       \* bound: versions a client asks for
    QueueCapacity,    \* QUEUE_CAPACITY
    SessionCapacity,  \* SESSION_CAPACITY
    MaxReplies,       \* messages of the broker's reply lane
    MaxTx,            \* bound: transactions of a client
    MaxSteps,         \* bound, per client: steps of a transaction
    MaxOpens,         \* bound: open and delete requests of a client
    Expiry,           \* may a session reach SESSION_IDLE_LIMIT?
    DiskFaults,       \* subset of {"io", "crash"}
    Leaves            \* documents that may be left by a navigation

ASSUME DbAssumption ==
    /\ DocOf \in [Clients -> Docs]
    /\ Workers \subseteq Clients /\ Deleters \subseteq Clients
    /\ Readers \subseteq Clients /\ Leaves \subseteq Docs
    /\ \A b \in {MaxVersion, QueueCapacity, SessionCapacity, MaxReplies} : b \in Nat \ {0}
    /\ MaxSteps \in [Clients -> Nat \ {0}]
    /\ MaxTx \in Nat /\ MaxOpens \in Nat
    /\ Expiry \in BOOLEAN /\ DiskFaults \subseteq {"io", "crash"}

VARIABLES
    db,        \* the in-memory state: the database or NoDb
    disk,      \* the profile file and its backup: each holds at most one state
    stamps,    \* history: database states numbered so far
    job,       \* the update the worker is writing, or Idle
    queue,     \* Work in order
    sessions,  \* set of staged transactions
    failed,    \* failed_documents
    retired,   \* retired_clients
    docs,      \* per document: "live", "failing", "retired"
    wire,      \* per document: commands on their way to the shell
    replies,   \* per document: replies on their way to the child
    client,    \* per client: its side of the protocol
    did,       \* history, per client: keys its current session wrote
    told       \* history: the last state a page was told is complete

vars == <<db, disk, stamps, job, queue, sessions, failed, retired, docs, wire,
          replies, client, did, told>>

NoDb == [version |-> 0, generation |-> 0, data |-> << >>, stamp |-> 0, erased |-> 0]
Idle == [op |-> "idle"]
Blank == [k \in Keys |-> << >>]

Init ==
    /\ db = NoDb
    /\ disk = [main |-> {}, bak |-> {}]
    /\ stamps = 0 /\ job = Idle /\ queue = << >> /\ sessions = {}
    /\ failed = {} /\ retired = {}
    /\ docs = [d \in Docs |-> "live"]
    /\ wire = [d \in Docs |-> << >>]
    /\ replies = [d \in Docs |-> << >>]
    /\ client = [c \in Clients |->
          [state |-> "closed", conn |-> 0, tx |-> 0, mode |-> "rw", steps |-> 0, opens |-> 0]]
    /\ did = [c \in Clients |-> {}]
    /\ told = 0

-----------------------------------------------------------------------------
(* The page's side (IDBFactory, IDBTransaction).  state: "closed" no       *)
(* connection, "opening", "upgrading", "deleting" a request is under way,  *)
(* "ready" a connection, "step" and "commit" a transaction request is      *)
(* under way, "dead" a terminated worker.                                  *)

Acts(c) == docs[DocOf[c]] = "live"

(* What a client sends; the fields an operation does not have stay blank. *)
Message(c, op) == [op |-> op, client |-> c, tx |-> 0, mode |-> "ro", version |-> 0,
                   previous |-> 0, fresh |-> FALSE, keys |-> {}]

OfTransaction(c, op) ==
    [Message(c, op) EXCEPT !.tx = client'[c].tx, !.version = client[c].conn]

Send(c, m) == wire' = [wire EXCEPT ![DocOf[c]] = Append(@, m)]

browser == <<db, disk, stamps, job, queue, sessions, failed, retired, docs>>

Open(c) ==
    /\ Acts(c) /\ client[c].state = "closed" /\ client[c].opens < MaxOpens
    /\ client' = [client EXCEPT ![c].state = "opening", ![c].opens = @ + 1]
    /\ Send(c, Message(c, "open"))
    /\ UNCHANGED <<browser, replies, did, told>>

DeleteDatabase(c) ==
    /\ c \in Deleters
    /\ Acts(c) /\ client[c].state = "closed" /\ client[c].opens < MaxOpens
    /\ client' = [client EXCEPT ![c].state = "deleting", ![c].opens = @ + 1]
    /\ Send(c, Message(c, "delete"))
    /\ UNCHANGED <<browser, replies, did, told>>

CloseConnection(c) ==
    /\ Acts(c) /\ client[c].state = "ready"
    /\ client' = [client EXCEPT ![c].state = "closed"]
    /\ UNCHANGED <<browser, wire, replies, did, told>>

(* A step reads, or puts a record if the transaction is readwrite. *)
SendStep(c, mode) ==
    \E k \in {{}} \cup (IF mode = "rw" THEN {{x} : x \in Keys} ELSE {}) :
       Send(c, [OfTransaction(c, "step") EXCEPT !.mode = mode, !.keys = k])

BeginTransaction(c) ==
    /\ Acts(c) /\ client[c].state = "ready" /\ client[c].tx < MaxTx
    /\ did' = [did EXCEPT ![c] = {}]
    /\ \E mode \in {"rw"} \cup (IF c \in Readers THEN {"ro"} ELSE {}) :
          /\ client' = [client EXCEPT ![c].state = "step", ![c].tx = @ + 1,
                                      ![c].mode = mode, ![c].steps = 1]
          /\ SendStep(c, mode)
    /\ UNCHANGED <<browser, replies, told>>

AbortTransaction(c) ==
    /\ Acts(c) /\ client[c].state = "step"
    /\ client' = [client EXCEPT ![c].state = "ready"]
    /\ Send(c, OfTransaction(c, "abort"))
    /\ UNCHANGED <<browser, replies, did, told>>

(* Terminating a worker drops its pending requests and, if it ever used    *)
(* storage, sends the control that retires its client.                     *)
TerminateWorker(c) ==
    /\ c \in Workers /\ Acts(c) /\ client[c].state # "dead"
    /\ client' = [client EXCEPT ![c].state = "dead"]
    /\ \/ client[c].opens > 0 /\ Send(c, Message(c, "retire"))
       \/ client[c].opens = 0 /\ UNCHANGED wire
    /\ UNCHANGED <<browser, replies, did, told>>

(* The reply to the request a client waits for. *)
Expects(c, r) ==
    /\ client[c].state = CASE r.op = "upgrade" -> "upgrading" [] r.op = "open" -> "opening"
                           [] r.op = "delete" -> "deleting" [] OTHER -> r.op
    /\ r.op \in {"step", "commit"} => r.tx = client[c].tx

Opened(c, r) ==
    /\ r.op = "open" /\ r.ok
    /\ \E v \in 1..MaxVersion :
          \/ /\ v = r.version
             /\ client' = [client EXCEPT ![c].state = "ready", ![c].conn = v]
             /\ UNCHANGED wire
          \/ /\ v > r.version
             /\ client' = [client EXCEPT ![c].state = "upgrading", ![c].conn = v]
             /\ \E fresh \in BOOLEAN : \* the upgrade replaces the object store
                   Send(c, [Message(c, "upgrade") EXCEPT
                              !.previous = r.version, !.version = v,
                              !.fresh = fresh \/ r.version = 0])
          \/ /\ v # r.version \* an older version, or upgradeneeded aborts
             /\ client' = [client EXCEPT ![c].state = "closed"]
             /\ UNCHANGED wire

(* The request handlers of a step may ask for another one, or abort;       *)
(* otherwise the transaction commits.                                      *)
Stepped(c, r) ==
    /\ r.op = "step" /\ r.ok
    /\ \/ /\ client[c].steps < MaxSteps[c]
          /\ client' = [client EXCEPT ![c].steps = @ + 1]
          /\ SendStep(c, client[c].mode)
       \/ /\ client' = [client EXCEPT ![c].state = "commit"]
          /\ Send(c, OfTransaction(c, "commit"))
       \/ /\ client' = [client EXCEPT ![c].state = "ready"]
          /\ Send(c, OfTransaction(c, "abort"))

Settled(c, r) ==
    /\ \/ r.op \in {"upgrade", "delete", "commit"} \/ ~r.ok
    /\ client' = [client EXCEPT ![c].state =
          CASE r.op = "upgrade" -> IF r.ok THEN "ready" ELSE "closed"
            [] r.op \in {"open", "delete"} -> "closed"
            [] OTHER -> "ready"]
    /\ UNCHANGED wire

Receive(d) ==
    /\ docs[d] = "live" /\ replies[d] # << >>
    /\ LET r == Head(replies[d])
           c == r.client
       IN  \/ /\ Expects(c, r)
              /\ Opened(c, r) \/ Stepped(c, r) \/ Settled(c, r)
              /\ told' = IF r.op = "commit" /\ r.ok THEN Max({told, r.stamp}) ELSE told
           \/ /\ ~Expects(c, r)
              /\ UNCHANGED <<client, wire, told>>
    /\ replies' = [replies EXCEPT ![d] = Tail(@)]
    /\ UNCHANGED <<browser, did>>

-----------------------------------------------------------------------------
(* The shell.  Requests are admitted up to the queue's capacity; the       *)
(* controls that retire clients and documents always are.                  *)

Requests(q) == Cardinality({i \in DOMAIN q : q[i].op \notin {"retire", "leave"}})

Delivered(d, r) == replies' = [replies EXCEPT ![d] = Append(@, r)]
HasRoom(d) == docs[d] = "live" /\ Len(replies[d]) < MaxReplies

(* A reply that does not fit fails the renderer of its document. *)
Overflows(d) == docs' = [docs EXCEPT ![d] = IF @ = "live" THEN "failing" ELSE @]

(* version: of the database an open finds; stamp: what a commit wrote. *)
Answer(m) == [op |-> m.op, client |-> m.client, tx |-> m.tx, ok |-> TRUE,
              version |-> 0, stamp |-> 0]
Error(m) == [Answer(m) EXCEPT !.ok = FALSE]

(* Mutant: a request that finds the queue full is dropped. *)
RejectSilently(d, m) == UNCHANGED <<replies, docs>>

Reject(d, m) ==
    \/ HasRoom(d) /\ Delivered(d, Error(m)) /\ UNCHANGED docs
    \/ ~HasRoom(d) /\ Overflows(d) /\ UNCHANGED replies

Admits(m) == m.op = "retire" \/ Requests(queue) < QueueCapacity

Submit(d) ==
    /\ wire[d] # << >>
    /\ LET m == Head(wire[d])
       IN  \/ /\ docs[d] = "retired"
              /\ UNCHANGED <<queue, replies, docs>>
           \/ /\ docs[d] # "retired"
              /\ Admits(m)
              /\ queue' = Append(queue, m)
              /\ UNCHANGED <<replies, docs>>
           \/ /\ docs[d] # "retired"
              /\ ~Admits(m)
              /\ Reject(d, m)
              /\ UNCHANGED queue
    /\ wire' = [wire EXCEPT ![d] = Tail(@)]
    /\ UNCHANGED <<db, disk, stamps, job, sessions, failed, retired, client, did, told>>

(* A navigation, or the exit of a failed renderer, retires the document. *)
Leave(d) ==
    /\ docs[d] = "failing" \/ (docs[d] = "live" /\ d \in Leaves)
    /\ docs' = [docs EXCEPT ![d] = "retired"]
    /\ queue' = Append(queue, [op |-> "leave", doc |-> d])
    /\ replies' = [replies EXCEPT ![d] = << >>]
    /\ UNCHANGED <<db, disk, stamps, job, sessions, failed, retired, wire, client, did, told>>

-----------------------------------------------------------------------------
(* The origin-storage worker. *)

OfDoc(d) == {s \in sessions : DocOf[s.client] = d}

Expire ==
    /\ Expiry /\ job = Idle
    /\ \E s \in sessions :
          /\ sessions' = sessions \ {s}
          /\ did' = IF s.tx = client[s.client].tx THEN [did EXCEPT ![s.client] = {}] ELSE did
    /\ UNCHANGED <<db, disk, stamps, job, queue, failed, retired, docs, wire,
                   replies, client, told>>

(* Mutant: retiring a client keeps its staged transactions. *)
RetireMarksOnly(m) ==
    /\ retired' = retired \cup {m.client}
    /\ UNCHANGED <<failed, sessions>>

RetireClient(m) ==
    /\ sessions' = {s \in sessions : s.client # m.client}
    /\ retired' = retired \cup {m.client}
    /\ UNCHANGED failed

RetireDocument(m) ==
    /\ failed' = failed \ {m.doc}
    /\ retired' = {c \in retired : DocOf[c] # m.doc}
    /\ sessions' = sessions \ OfDoc(m.doc)

Retire ==
    /\ job = Idle /\ queue # << >>
    /\ LET m == Head(queue)
       IN  \/ m.op = "retire" /\ RetireClient(m)
           \/ m.op = "leave" /\ RetireDocument(m)
    /\ queue' = Tail(queue)
    /\ UNCHANGED <<db, disk, stamps, job, docs, wire, replies, client, did, told>>

(* The reply is sent; when it is lost the document's sessions go too. *)
Reply(m, r, kept) ==
    LET d == DocOf[m.client]
    IN  \/ HasRoom(d) /\ Delivered(d, r) /\ sessions' = kept /\ UNCHANGED <<docs, failed>>
        \/ ~HasRoom(d) /\ Overflows(d)
           /\ failed' = failed \cup {d}
           /\ sessions' = {s \in kept : DocOf[s.client] # d}
           /\ UNCHANGED replies

Refused(m) == DocOf[m.client] \in failed \/ m.client \in retired

Session(m) == {s \in sessions : s.client = m.client /\ s.tx = m.tx /\ s.version = m.version}

CanBegin(m) == Cardinality(sessions) < SessionCapacity /\ db.version = m.version

BeginSession(m) == [client |-> m.client, tx |-> m.tx, version |-> m.version, mode |-> m.mode,
                    generation |-> db.generation, base |-> db.stamp, data |-> db.data]

(* Mutant: every step starts from the committed database. *)
StagedAfresh(m) == BeginSession(m)

Staged(m) == IF Session(m) # {} THEN CHOOSE s \in Session(m) : TRUE ELSE BeginSession(m)

(* A step finds its session or begins one, and applies its operations: all *)
(* of them, or (a constraint, a quota, a missing store) none, which drops  *)
(* the session.  A result too large for a reply becomes an error, although *)
(* the session keeps what the step staged.                                 *)
ExecuteStep(m) ==
    \/ /\ Session(m) = {} /\ ~CanBegin(m)
       /\ Reply(m, Error(m), sessions)
       /\ UNCHANGED did
    \/ /\ Session(m) # {} \/ CanBegin(m)
       /\ LET s == Staged(m)
              t == [s EXCEPT !.data = [k \in Keys |->
                      IF k \in m.keys THEN <<m.client, m.tx>> ELSE s.data[k]]]
          IN  \E r \in {Answer(m), Error(m)} : Reply(m, r, (sessions \ Session(m)) \cup {t})
       /\ did' = [did EXCEPT ![m.client] = IF client[m.client].tx = m.tx
                                           THEN @ \cup m.keys ELSE @]
    \/ /\ Session(m) # {} \/ CanBegin(m)
       /\ Reply(m, Error(m), sessions \ Session(m))
       /\ UNCHANGED did

(* commit_session has nothing to write for a readonly transaction. *)
CommitsNothing(m) == m.op = "commit" /\ \E s \in Session(m) : s.mode = "ro"

(* The requests that are answered without an update. *)
Execute ==
    /\ job = Idle /\ queue # << >>
    /\ LET m == Head(queue)
       IN  \/ /\ m.op \notin {"retire", "leave"} /\ Refused(m)
              /\ Reply(m, Error(m), sessions)
              /\ UNCHANGED did
           \/ /\ m.op = "open" /\ ~Refused(m)
              /\ Reply(m, [Answer(m) EXCEPT !.version = db.version], sessions)
              /\ UNCHANGED did
           \/ /\ m.op = "step" /\ ~Refused(m)
              /\ ExecuteStep(m)
           \/ /\ m.op = "abort" \/ CommitsNothing(m)
              /\ ~Refused(m)
              /\ Reply(m, Answer(m), sessions \ Session(m))
              /\ UNCHANGED did
    /\ queue' = Tail(queue)
    /\ UNCHANGED <<db, disk, stamps, job, retired, wire, client, told>>

(* What an update makes of the database; the caller has checked it. *)
Candidate(m) ==
    CASE m.op = "delete"  -> [NoDb EXCEPT !.stamp = stamps + 1, !.erased = stamps + 1]
      [] m.op = "upgrade" -> [version |-> m.version, generation |-> db.generation + 1,
                              data |-> IF m.fresh THEN Blank ELSE db.data,
                              stamp |-> stamps + 1, erased |-> db.erased]
      [] m.op = "commit"  -> LET s == CHOOSE s \in Session(m) : TRUE
                             IN  [version |-> m.version, generation |-> s.generation + 1,
                                  data |-> s.data, stamp |-> stamps + 1, erased |-> db.erased]

(* Mutant: commit_session checks the version only. *)
VersionOnly(m) ==
    CASE m.op = "delete"  -> TRUE
      [] m.op = "upgrade" -> db.version = m.previous
      [] m.op = "commit"  -> \E s \in Session(m) : db.version = s.version

Valid(m) ==
    CASE m.op = "delete"  -> TRUE
      [] m.op = "upgrade" -> db.version = m.previous
      [] m.op = "commit"  -> \E s \in Session(m) :
                                db.version = s.version /\ db.generation = s.generation

Updates == {"delete", "upgrade", "commit"}

BeginUpdate ==
    /\ job = Idle /\ queue # << >>
    /\ Head(queue).op \in Updates /\ ~Refused(Head(queue)) /\ ~CommitsNothing(Head(queue))
    /\ LET m    == Head(queue)
           kept == IF m.op = "commit" THEN sessions \ Session(m) ELSE sessions
       IN  \/ /\ Valid(m)
              /\ job' = [op |-> "temp", request |-> m, candidate |-> Candidate(m),
                         base |-> IF m.op = "commit"
                                  THEN (CHOOSE s \in Session(m) : TRUE).base ELSE db.stamp]
              /\ stamps' = stamps + 1
              /\ sessions' = kept
              /\ UNCHANGED <<failed, replies, docs>>
           \/ /\ ~Valid(m)
              /\ Reply(m, Error(m), kept)
              /\ UNCHANGED <<job, stamps>>
    /\ queue' = Tail(queue)
    /\ UNCHANGED <<db, disk, retired, wire, client, did, told>>

-----------------------------------------------------------------------------
(* Writing the profile file: the temporary file is complete, the backup is *)
(* removed, the file becomes the backup, the temporary file the file.      *)

(* Mutant: the file is removed, not renamed to the backup. *)
RotateWithoutBackup ==
    /\ job.op = "rotate"
    /\ disk' = [main |-> {}, bak |-> {}]
    /\ job' = [job EXCEPT !.op = "rename"]

Rotate ==
    /\ job.op = "rotate"
    /\ disk' = [main |-> {}, bak |-> disk.main]
    /\ job' = [job EXCEPT !.op = "rename"]

WriteFile ==
    /\ \/ /\ job.op = "temp" /\ disk.main = {}
          /\ job' = [job EXCEPT !.op = "rename"]
          /\ UNCHANGED disk
       \/ /\ job.op = "temp" /\ disk.main # {}
          /\ disk' = [disk EXCEPT !.bak = {}]
          /\ job' = [job EXCEPT !.op = "rotate"]
       \/ Rotate
    /\ UNCHANGED <<db, stamps, queue, sessions, failed, retired, docs, wire, replies,
                   client, did, told>>

Publish ==
    /\ job.op = "rename"
    /\ disk' = [disk EXCEPT !.main = {job.candidate}]
    /\ db' = job.candidate

Failed == Error(job.request)

(* The results of an upgrade may be too large for a reply, like a step's:  *)
(* the page is told that it failed, although it is on the disk.            *)
FinishUpdate ==
    /\ Publish
    /\ \/ Reply(job.request, [Answer(job.request) EXCEPT !.stamp = job.candidate.stamp],
                sessions)
       \/ job.request.op = "upgrade" /\ Reply(job.request, Failed, sessions)
    /\ job' = Idle
    /\ UNCHANGED <<stamps, queue, retired, wire, client, did, told>>

(* A file operation fails; after the last rename failed the backup is      *)
(* renamed back, which may fail too.                                       *)
FailUpdate ==
    /\ "io" \in DiskFaults /\ job # Idle
    /\ \/ UNCHANGED disk
       \/ /\ job.op = "rename" /\ disk.bak # {}
          /\ disk' = [main |-> disk.bak, bak |-> {}]
    /\ Reply(job.request, Failed, sessions)
    /\ job' = Idle
    /\ UNCHANGED <<db, stamps, queue, retired, wire, client, did, told>>

(* The file, or the backup when there is none, or no database. *)
Load == CHOOSE s \in IF disk.main # {} THEN disk.main
                     ELSE IF disk.bak # {} THEN disk.bak ELSE {NoDb} : TRUE

(* The browser process ends and is started again: only the files remain.   *)
Restart ==
    /\ "crash" \in DiskFaults
    /\ db' = Load
    /\ job' = Idle /\ queue' = << >> /\ sessions' = {} /\ failed' = {} /\ retired' = {}
    /\ docs' = [d \in Docs |-> "live"]
    /\ wire' = [d \in Docs |-> << >>]
    /\ replies' = [d \in Docs |-> << >>]
    /\ client' = [c \in Clients |-> [client[c] EXCEPT !.state = "closed", !.conn = 0]]
    /\ UNCHANGED <<disk, stamps, did, told>>

-----------------------------------------------------------------------------
Page(c) == \/ Open(c) \/ DeleteDatabase(c) \/ CloseConnection(c)
           \/ BeginTransaction(c) \/ AbortTransaction(c) \/ TerminateWorker(c)
Shell(d) == Receive(d) \/ Submit(d) \/ Leave(d)
Worker == Expire \/ Retire \/ Execute \/ BeginUpdate \/ WriteFile \/ FinishUpdate \/ FailUpdate

Next == (\E c \in Clients : Page(c)) \/ (\E d \in Docs : Shell(d)) \/ Worker \/ Restart

Spec == Init /\ [][Next]_vars

(* The worker thread, the shell and the renderers keep going; what a page  *)
(* does, faults and navigations owe nobody anything, but a renderer that   *)
(* failed exits.                                                           *)
Fairness ==
    /\ WF_vars(Retire \/ Execute \/ BeginUpdate \/ WriteFile \/ FinishUpdate)
    /\ \A d \in Docs : WF_vars(Receive(d)) /\ WF_vars(Submit(d))
                       /\ WF_vars(docs[d] = "failing" /\ Leave(d))

FairSpec == Spec /\ Fairness

-----------------------------------------------------------------------------
(* Properties. *)

(* Types, and the capacities of the session table, the queue and the lane. *)
TypeOK ==
    /\ db.version \in 0..MaxVersion /\ db.stamp \in 0..stamps
    /\ DOMAIN disk = {"main", "bak"}
    /\ Cardinality(sessions) <= SessionCapacity
    /\ Requests(queue) <= QueueCapacity
    /\ failed \subseteq Docs /\ retired \subseteq Workers
    /\ \A d \in Docs : Len(replies[d]) <= MaxReplies
    /\ \A c \in Clients : client[c].tx \in 0..MaxTx /\ did[c] \subseteq Keys
    /\ told \in 0..stamps

(* A commit goes through only if nothing was committed since its session   *)
(* began, so committed readwrite transactions are serial, up to the next   *)
(* deletion of the database.                                               *)
NoLostUpdate ==
    job # Idle /\ job.request.op = "commit" =>
       job.base = db.stamp \/ job.base < db.erased

(* "A generation check prevents an older concurrent session from           *)
(* overwriting a newer committed database", deletions included.            *)
StaleNeverCommits ==
    job # Idle /\ job.request.op = "commit" => job.base = db.stamp

(* "Request callbacks can enqueue more work and observe earlier staged     *)
(* writes.  A commit writes the candidate state atomically": what commits  *)
(* holds every write the transaction was told to have made, as long as its *)
(* session did not expire in between.                                      *)
CommitIsWhole ==
    job # Idle /\ job.request.op = "commit" =>
       LET c == job.request.client
       IN  job.request.tx = client[c].tx =>
              \A k \in did[c] : job.candidate.data[k] = <<c, client[c].tx>>

(* At every instant the files hold the state in memory, or the one being   *)
(* written, and what a page was told is complete: no order of file         *)
(* operations, errors and crashes brings back an older database or none.   *)
Recoverable ==
    /\ Load = db \/ (job # Idle /\ Load = job.candidate)
    /\ told <= Load.stamp

(* A session belongs to a client that may still use it, or the control     *)
(* that ends it is on its way: a late step cannot bring a transaction of a *)
(* terminated worker, of a left document or of a document that lost a      *)
(* reply back to life.                                                     *)
SessionsAreOwned ==
    \A s \in sessions :
       LET d == DocOf[s.client]
       IN  /\ docs[d] = "retired" => \E i \in DOMAIN queue : queue[i].op = "leave" /\ queue[i].doc = d
           /\ client[s.client].state = "dead" /\ docs[d] # "retired" =>
                 \E q \in {queue, wire[d]} : \E i \in DOMAIN q :
                    q[i].op = "retire" /\ q[i].client = s.client
           /\ d \notin failed

(* Types and capacities, and no session without an owner. *)
SessionInvariant == TypeOK /\ SessionsAreOwned

Waits(c) == client[c].state \in {"opening", "upgrading", "deleting", "step", "commit"}

(* Whenever the pages fall silent, which the bounds make them do, every    *)
(* request has been answered, or its document is gone.                     *)
EveryRequestAnswered ==
    []<>(\A c \in Clients : ~Waits(c) \/ docs[DocOf[c]] = "retired")
=============================================================================
