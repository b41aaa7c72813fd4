-------------------------- MODULE IndexedDbProofs --------------------------
(***************************************************************************)
(* Proofs about IndexedDb for every number of documents, clients, keys and *)
(* transactions, every capacity, and every combination of file errors and  *)
(* crashes.                                                                *)
(*                                                                         *)
(* The invariants come in layers: what the variables are (Shapes), what    *)
(* the files and the generations say about the database (Fresh), who owns  *)
(* a session (Owned), and in which order the requests of one transaction   *)
(* travel (Orderly).  Each layer is inductive given the ones               *)
(* before it.                                                              *)
(***************************************************************************)
EXTENDS IndexedDb, SequenceTheorems, FiniteSetTheorems, TLAPS

(***************************************************************************)
(* What the variables are.                                                 *)
(***************************************************************************)

ClientStates ==
    [state : {"closed", "opening", "upgrading", "deleting", "ready", "step", "commit", "dead"},
     conn : 0 .. MaxVersion, tx : 0 .. MaxTx, mode : {"rw", "ro"}, steps : Nat, opens : Nat]

Ops == {"open", "delete", "upgrade", "step", "commit", "abort", "retire"}

(* What clients send; only workers are retired. *)
Sendable ==
    {m \in [op : Ops, client : Clients, tx : Nat, mode : {"rw", "ro"}, version : 0 .. MaxVersion,
            previous : Nat, fresh : BOOLEAN, keys : SUBSET Keys] :
        m.op = "retire" => m.client \in Workers}

Messages(d) == {m \in Sendable : DocOf[m.client] = d}

Work == Sendable \cup [op : {"leave"}, doc : Docs]

(* What a client of document d may be told; last is the newest state. *)
Answers(d, last) ==
    {r \in [op : Ops, client : Clients, tx : Nat, ok : BOOLEAN, version : 0 .. MaxVersion,
            stamp : 0 .. last] : DocOf[r.client] = d}

IsSession(s) ==
    /\ s = [client |-> s.client, tx |-> s.tx, version |-> s.version, mode |-> s.mode,
            generation |-> s.generation, base |-> s.base, data |-> s.data]
    /\ s.client \in Clients /\ s.tx \in Nat

ClientsOK == client \in [Clients -> ClientStates] /\ did \in [Clients -> SUBSET Keys]

DocsOK == /\ docs \in [Docs -> {"live", "failing", "retired"}]
          /\ failed \subseteq Docs /\ retired \subseteq Workers

LinesOK == /\ DOMAIN wire = Docs /\ wire = [d \in Docs |-> wire[d]]
           /\ \A d \in Docs : wire[d] \in Seq(Messages(d))

QueueOK == queue \in Seq(Work) /\ Requests(queue) <= QueueCapacity

RepliesFit(rs, last) ==
    /\ DOMAIN rs = Docs /\ rs = [d \in Docs |-> rs[d]]
    /\ \A d \in Docs : rs[d] \in Seq(Answers(d, last)) /\ Len(rs[d]) <= MaxReplies

RepliesOK == RepliesFit(replies, db.stamp)

SessionsFit(ss) == /\ IsFiniteSet(ss) /\ Cardinality(ss) <= SessionCapacity
                   /\ \A s \in ss : IsSession(s)
                   /\ \A s, t \in ss : /\ s.client = t.client /\ s.tx = t.tx
                                       /\ s.version = t.version
                                       => s = t

SessionsOK == SessionsFit(sessions)

(***************************************************************************)
(* The database, its files and the update under way.  The files hold the   *)
(* database at every instant, since the backup exists before the file is   *)
(* gone; a candidate has the newest number and is a deletion or the next   *)
(* generation.                                                             *)
(***************************************************************************)

DbOK == /\ stamps \in Nat
        /\ db.version \in 0 .. MaxVersion /\ db.generation \in Nat
        /\ db.stamp \in 0 .. stamps /\ db.erased \in Nat
        /\ told \in 0 .. db.stamp

Writing == {"temp", "rotate", "rename"}

JobOK == job = Idle \/
    /\ job = [op |-> job.op, request |-> job.request, candidate |-> job.candidate,
              base |-> job.base]
    /\ job.op \in Writing
    /\ job.request \in Sendable /\ job.request.op \in Updates
    /\ job.candidate.version \in 0 .. MaxVersion /\ job.candidate.generation \in Nat
    /\ job.candidate.stamp = stamps /\ db.stamp < stamps
    /\ \/ job.candidate.erased = stamps
       \/ job.candidate.erased = db.erased /\ job.candidate.generation = db.generation + 1

DiskOK ==
    /\ disk = [main |-> disk.main, bak |-> disk.bak]
    /\ \/ disk.main = {db}
       \/ disk.main = {} /\ disk.bak = {db}
       \/ disk.main = {} /\ disk.bak = {} /\ db = NoDb
    /\ job.op = "rotate" => disk.main = {db}
    /\ job.op = "rename" => disk.main = {}

Shapes == /\ ClientsOK /\ DocsOK /\ LinesOK /\ QueueOK /\ RepliesOK /\ SessionsOK
          /\ DbOK /\ JobOK /\ DiskOK

(* The bounds are numbers. *)
LEMMA Bounds ==
    /\ MaxVersion \in Nat /\ QueueCapacity \in Nat /\ SessionCapacity \in Nat
    /\ MaxReplies \in Nat /\ MaxTx \in Nat /\ MaxOpens \in Nat
  BY DbAssumption

(* The files hold the database the worker has in memory. *)
LEMMA LoadIsDb ==
    ASSUME DiskOK
    PROVE  Load = db
<1>1. CASE disk.main = {db}
  BY <1>1 DEF Load
<1>2. CASE disk.main = {} /\ disk.bak = {db}
  BY <1>2 DEF Load
<1>3. CASE disk.main = {} /\ disk.bak = {} /\ db = NoDb
  BY <1>3 DEF Load
<1> QED
  BY <1>1, <1>2, <1>3 DEF DiskOK

(* No requests are in an empty queue. *)
LEMMA EmptyRequests ==
    ASSUME NEW q, q = <<>>
    PROVE  Requests(q) = 0
<1>1. {i \in DOMAIN q : q[i].op \notin {"retire", "leave"}} = {}
  OBVIOUS
<1> QED
  BY <1>1, FS_EmptySet DEF Requests

(* A fresh profile has the shapes. *)
LEMMA InitShapes ==
    Init => Shapes
<1> SUFFICES ASSUME Init PROVE Shapes
  OBVIOUS
<1> USE DbAssumption
<1>1. ClientsOK
  BY DEF Init, ClientsOK, ClientStates
<1>2. DocsOK
  BY DEF Init, DocsOK
<1>3. \A S : <<>> \in Seq(S)
  BY EmptySeq
<1>4. LinesOK
  BY <1>3 DEF Init, LinesOK
<1>5. QueueOK
  <2>1. queue = <<>>
    BY DEF Init
  <2> QED
    BY <1>3, <2>1, EmptyRequests DEF QueueOK
<1>6. RepliesOK
  <2>1. \A d \in Docs : replies[d] = <<>> /\ Len(replies[d]) = 0
    BY EmptySeq DEF Init
  <2> QED
    BY <1>3, <2>1 DEF Init, RepliesOK, RepliesFit
<1>7. SessionsOK
  BY FS_EmptySet DEF Init, SessionsOK, SessionsFit
<1>8. DbOK /\ JobOK /\ DiskOK
  BY DEF Init, DbOK, JobOK, DiskOK, NoDb, Idle
<1> QED
  BY <1>1, <1>2, <1>4, <1>5, <1>6, <1>7, <1>8 DEF Shapes

(***************************************************************************)
(* The pages' side keeps the shapes.                                       *)
(***************************************************************************)

(* The browser sees nothing of a step that only touches clients and wires. *)
LEMMA PageFrame ==
    ASSUME Shapes, UNCHANGED <<browser, replies, told>>, LinesOK', ClientsOK'
    PROVE  Shapes'
<1>1. DocsOK' /\ QueueOK' /\ SessionsOK' /\ DbOK' /\ JobOK' /\ DiskOK'
  BY DEF Shapes, browser, DocsOK, QueueOK, Requests, SessionsOK, SessionsFit, DbOK, JobOK, DiskOK
<1>2. RepliesOK'
  BY DEF Shapes, browser, RepliesOK, RepliesFit
<1> QED
  BY <1>1, <1>2 DEF Shapes

(* What clients send is well formed. *)
LEMMA MessageType ==
    ASSUME Shapes, NEW c \in Clients, NEW op \in Ops, op = "retire" => c \in Workers
    PROVE  /\ DocOf[c] \in Docs /\ Message(c, op) \in Messages(DocOf[c])
           /\ client[c] \in ClientStates
           /\ client[c].tx \in Nat /\ client[c].conn \in 0 .. MaxVersion
           /\ \A mode \in {"rw", "ro"}, k \in SUBSET Keys :
                 client'[c].tx \in Nat =>
                    /\ OfTransaction(c, op) \in Messages(DocOf[c])
                    /\ [OfTransaction(c, op) EXCEPT !.mode = mode, !.keys = k]
                          \in Messages(DocOf[c])
<1> USE DbAssumption
<1>1. client[c] \in ClientStates /\ DocOf[c] \in Docs
  BY DEF Shapes, ClientsOK
<1>2. client[c].tx \in Nat /\ client[c].conn \in 0 .. MaxVersion
  BY <1>1 DEF ClientStates
<1>3. Message(c, op) \in Messages(DocOf[c])
  BY DEF Message, Messages, Sendable
<1>4. ASSUME NEW mode \in {"rw", "ro"}, NEW k \in SUBSET Keys, client'[c].tx \in Nat
      PROVE  /\ OfTransaction(c, op) \in Messages(DocOf[c])
             /\ [OfTransaction(c, op) EXCEPT !.mode = mode, !.keys = k] \in Messages(DocOf[c])
  BY <1>2, <1>4 DEF OfTransaction, Message, Messages, Sendable
<1> QED
  BY <1>1, <1>2, <1>3, <1>4

(* Sending keeps the lines well formed. *)
LEMMA SendLines ==
    ASSUME Shapes, NEW c \in Clients, DocOf[c] \in Docs,
           NEW m \in Messages(DocOf[c]), Send(c, m)
    PROVE  LinesOK'
<1>1. \A d \in Docs : wire'[d] = IF d = DocOf[c] THEN Append(wire[d], m) ELSE wire[d]
  BY DEF Shapes, LinesOK, Send
<1>2. DOMAIN wire' = Docs /\ wire' = [d \in Docs |-> wire'[d]]
  BY DEF Shapes, LinesOK, Send
<1>3. Append(wire[DocOf[c]], m) \in Seq(Messages(DocOf[c]))
  BY AppendProperties DEF Shapes, LinesOK
<1>4. \A d \in Docs : wire'[d] \in Seq(Messages(d))
  BY <1>1, <1>3 DEF Shapes, LinesOK
<1> QED
  BY <1>2, <1>4 DEF LinesOK

(* A request to open or delete a database keeps types and bounds. *)
LEMMA OpenShapes ==
    ASSUME Shapes, NEW c \in Clients, Open(c) \/ DeleteDatabase(c)
    PROVE  Shapes'
<1>1. PICK op \in {"open", "delete"} : Send(c, Message(c, op))
  BY DEF Open, DeleteDatabase
<1>2. LinesOK'
  BY <1>1, MessageType, SendLines DEF Ops
<1>3. ClientsOK'
  BY DEF Shapes, ClientsOK, ClientStates, Open, DeleteDatabase
<1> QED
  BY <1>2, <1>3, PageFrame DEF Open, DeleteDatabase

(* Closing a connection keeps types and bounds. *)
LEMMA CloseShapes ==
    ASSUME Shapes, NEW c \in Clients, CloseConnection(c)
    PROVE  Shapes'
<1>1. LinesOK'
  BY DEF Shapes, LinesOK, CloseConnection
<1>2. ClientsOK'
  BY DEF Shapes, ClientsOK, ClientStates, CloseConnection
<1> QED
  BY <1>1, <1>2, PageFrame DEF CloseConnection

(* A step that a page sends is a request of its transaction. *)
LEMMA SendStepLines ==
    ASSUME Shapes, NEW c \in Clients, NEW mode \in {"rw", "ro"}, SendStep(c, mode),
           client'[c].tx \in Nat
    PROVE  LinesOK'
<1>1. PICK k \in SUBSET Keys :
        Send(c, [OfTransaction(c, "step") EXCEPT !.mode = mode, !.keys = k])
  BY DEF SendStep
<1> QED
  BY <1>1, MessageType, SendLines DEF Ops

(* The first step of a transaction keeps types and bounds. *)
LEMMA BeginShapes ==
    ASSUME Shapes, NEW c \in Clients, BeginTransaction(c)
    PROVE  Shapes'
<1> USE DbAssumption
<1>1. PICK mode \in {"rw", "ro"} :
        /\ client' = [client EXCEPT ![c].state = "step", ![c].tx = @ + 1,
                                    ![c].mode = mode, ![c].steps = 1]
        /\ SendStep(c, mode)
  BY DEF BeginTransaction
<1>2. ClientsOK'
  <2>1. client[c] \in ClientStates /\ client[c].tx + 1 \in 0 .. MaxTx
    BY DEF Shapes, ClientsOK, ClientStates, BeginTransaction
  <2>2. client' \in [Clients -> ClientStates]
    BY <1>1, <2>1 DEF Shapes, ClientsOK, ClientStates
  <2> QED
    BY <2>2 DEF Shapes, ClientsOK, BeginTransaction
<1>3. client'[c].tx \in Nat
  BY <1>2 DEF ClientsOK, ClientStates
<1>4. LinesOK'
  BY <1>1, <1>3, SendStepLines
<1> QED
  BY <1>2, <1>4, PageFrame DEF BeginTransaction

(* An abort by the page keeps types and bounds. *)
LEMMA AbortShapes ==
    ASSUME Shapes, NEW c \in Clients, AbortTransaction(c)
    PROVE  Shapes'
<1>1. ClientsOK'
  BY DEF Shapes, ClientsOK, ClientStates, AbortTransaction
<1>2. client'[c].tx \in Nat
  BY <1>1, DbAssumption DEF ClientsOK, ClientStates
<1>3. LinesOK'
  BY <1>2, MessageType, SendLines DEF Ops, AbortTransaction
<1> QED
  BY <1>1, <1>3, PageFrame DEF AbortTransaction

(* The end of a worker keeps types and bounds. *)
LEMMA TerminateShapes ==
    ASSUME Shapes, NEW c \in Clients, TerminateWorker(c)
    PROVE  Shapes'
<1>1. ClientsOK'
  BY DEF Shapes, ClientsOK, ClientStates, TerminateWorker
<1>2. CASE Send(c, Message(c, "retire"))
  <2>1. LinesOK'
    BY <1>2, MessageType, SendLines DEF Ops, TerminateWorker
  <2> QED
    BY <1>1, <2>1, PageFrame DEF TerminateWorker
<1>3. CASE wire' = wire
  <2>1. LinesOK'
    BY <1>3 DEF Shapes, LinesOK
  <2> QED
    BY <1>1, <2>1, PageFrame DEF TerminateWorker
<1> QED
  BY <1>2, <1>3 DEF TerminateWorker
(* The head of a document's replies. *)
LEMMA HeadReply ==
    ASSUME Shapes, NEW d \in Docs, replies[d] # <<>>
    PROVE  /\ Head(replies[d]) \in Answers(d, db.stamp)
           /\ Head(replies[d]).client \in Clients /\ DocOf[Head(replies[d]).client] = d
           /\ Head(replies[d]).tx \in Nat /\ Head(replies[d]).version \in 0 .. MaxVersion
           /\ Head(replies[d]).stamp \in 0 .. db.stamp
           /\ Tail(replies[d]) \in Seq(Answers(d, db.stamp))
           /\ Len(Tail(replies[d])) <= MaxReplies
<1>1. replies[d] \in Seq(Answers(d, db.stamp)) /\ Len(replies[d]) <= MaxReplies
  BY DEF Shapes, RepliesOK, RepliesFit
<1>2. /\ Head(replies[d]) \in Answers(d, db.stamp) /\ Tail(replies[d]) \in Seq(Answers(d, db.stamp))
      /\ Len(Tail(replies[d])) = Len(replies[d]) - 1
  BY <1>1, HeadTailProperties
<1>3. Len(replies[d]) \in Nat /\ MaxReplies \in Nat
  BY <1>1, LenProperties, DbAssumption
<1>4. Len(Tail(replies[d])) <= MaxReplies
  BY <1>1, <1>2, <1>3
<1> QED
  BY <1>2, <1>4 DEF Answers

(* What a reply makes of its client. *)
LEMMA ReplyClient ==
    ASSUME Shapes, NEW c \in Clients, NEW r, r.version \in 0 .. MaxVersion, UNCHANGED did,
           Opened(c, r) \/ Stepped(c, r) \/ Settled(c, r)
    PROVE  ClientsOK' /\ LinesOK'
<1> USE DbAssumption
<1>1. client \in [Clients -> ClientStates] /\ client[c] \in ClientStates
  BY DEF Shapes, ClientsOK
<1>2. ClientsOK'
  <2>1. CASE Opened(c, r)
    <3>1. PICK v \in 1 .. MaxVersion, st \in {"ready", "upgrading", "closed"} :
            \/ client' = [client EXCEPT ![c].state = st, ![c].conn = v]
            \/ client' = [client EXCEPT ![c].state = st]
      BY <2>1 DEF Opened
    <3>2. client' \in [Clients -> ClientStates]
      BY <1>1, <3>1 DEF ClientStates
    <3> QED
      BY <3>2 DEF Shapes, ClientsOK
  <2>2. CASE Stepped(c, r)
    <3>1. \/ client' = [client EXCEPT ![c].steps = @ + 1]
          \/ client' = [client EXCEPT ![c].state = "commit"]
          \/ client' = [client EXCEPT ![c].state = "ready"]
      BY <2>2 DEF Stepped
    <3>2. client' \in [Clients -> ClientStates]
      BY <1>1, <3>1 DEF ClientStates
    <3> QED
      BY <3>2 DEF Shapes, ClientsOK
  <2>3. CASE Settled(c, r)
    <3>1. PICK st \in {"ready", "closed"} : client' = [client EXCEPT ![c].state = st]
      BY <2>3 DEF Settled
    <3>2. client' \in [Clients -> ClientStates]
      BY <1>1, <3>1 DEF ClientStates
    <3> QED
      BY <3>2 DEF Shapes, ClientsOK
  <2> QED
    BY <2>1, <2>2, <2>3
<1>3. client'[c].tx \in Nat /\ client[c].mode \in {"rw", "ro"}
  BY <1>1, <1>2 DEF ClientsOK, ClientStates
<1>4. ASSUME wire' = wire PROVE LinesOK'
  BY <1>4 DEF Shapes, LinesOK
<1>5. LinesOK'
  <2>1. ASSUME NEW v \in 1 .. MaxVersion, NEW fresh \in BOOLEAN,
               Send(c, [Message(c, "upgrade") EXCEPT
                          !.previous = r.version, !.version = v,
                          !.fresh = fresh \/ r.version = 0])
        PROVE  LinesOK'
    <3> DEFINE old == fresh \/ r.version = 0
    <3>1. old \in BOOLEAN /\ v \in 0 .. MaxVersion /\ r.version \in Nat
      OBVIOUS
    <3> HIDE DEF old
    <3> DEFINE m == Message(c, "upgrade")
    <3>a. m \in Messages(DocOf[c])
      BY MessageType DEF Ops
    <3>b. m.op = "upgrade"
      BY DEF Message
    <3> HIDE DEF m
    <3>2. [m EXCEPT !.previous = r.version, !.version = v, !.fresh = old]
             \in Messages(DocOf[c])
      BY <3>1, <3>a, <3>b DEF Messages, Sendable
    <3>3. DocOf[c] \in Docs
      OBVIOUS
    <3> QED
      BY <2>1, <3>2, <3>3, SendLines DEF old, m
  <2>2. CASE Opened(c, r)
    BY <1>4, <2>1, <2>2 DEF Opened
  <2>3. CASE Stepped(c, r)
    <3>1. \/ SendStep(c, client[c].mode)
          \/ Send(c, OfTransaction(c, "commit")) \/ Send(c, OfTransaction(c, "abort"))
      BY <2>3 DEF Stepped
    <3>2. DocOf[c] \in Docs /\ OfTransaction(c, "commit") \in Messages(DocOf[c])
          /\ OfTransaction(c, "abort") \in Messages(DocOf[c])
      BY <1>3, MessageType DEF Ops
    <3> QED
      BY <1>3, <3>1, <3>2, SendStepLines, SendLines
  <2>4. CASE Settled(c, r)
    BY <1>4, <2>4 DEF Settled
  <2> QED
    BY <2>2, <2>3, <2>4
<1> QED
  BY <1>2, <1>5

(* The larger of two numbers is one of them, and at least either. *)
LEMMA MaxOfTwo ==
    ASSUME NEW a \in Nat, NEW b \in Nat
    PROVE  /\ Max({a, b}) \in {a, b}
           /\ Max({a, b}) >= a /\ Max({a, b}) >= b
<1>1. \E x \in {a, b} : \A y \in {a, b} : x >= y
  <2>1. CASE a >= b
    BY <2>1
  <2>2. CASE b >= a
    BY <2>2
  <2> QED
    BY <2>1, <2>2
<1> QED
  BY <1>1 DEF Max

(* A reply that reaches its client keeps types and bounds. *)
LEMMA ReceiveShapes ==
    ASSUME Shapes, NEW d \in Docs, Receive(d)
    PROVE  Shapes'
<1> DEFINE r == Head(replies[d])
<1>1. /\ r.client \in Clients /\ r.version \in 0 .. MaxVersion /\ r.stamp \in 0 .. db.stamp
      /\ Tail(replies[d]) \in Seq(Answers(d, db.stamp)) /\ Len(Tail(replies[d])) <= MaxReplies
  BY HeadReply DEF Receive
<1>2. UNCHANGED browser /\ did' = did /\ replies' = [replies EXCEPT ![d] = Tail(@)]
  BY DEF Receive
<1>3. ClientsOK' /\ LinesOK'
  <2>1. CASE client' = client /\ wire' = wire
    BY <1>2, <2>1 DEF Shapes, ClientsOK, LinesOK
  <2>2. CASE Opened(r.client, r) \/ Stepped(r.client, r) \/ Settled(r.client, r)
    BY <1>1, <1>2, <2>2, ReplyClient
  <2> QED
    BY <2>1, <2>2 DEF Receive
<1>4. told' \in 0 .. db.stamp
  <2>1. told \in 0 .. db.stamp /\ db.stamp \in Nat
    BY DEF Shapes, DbOK
  <2>2. Max({told, r.stamp}) \in {told, r.stamp}
    BY <1>1, <2>1, MaxOfTwo
  <2>3. told' = told \/ told' = Max({told, r.stamp})
    BY DEF Receive
  <2> QED
    BY <1>1, <2>1, <2>2, <2>3
<1>5. RepliesOK'
  BY <1>1, <1>2 DEF Shapes, RepliesOK, RepliesFit, browser
<1>6. DocsOK' /\ QueueOK' /\ SessionsOK' /\ DbOK' /\ JobOK' /\ DiskOK'
  BY <1>2, <1>4 DEF Shapes, browser, DocsOK, QueueOK, Requests, SessionsOK, SessionsFit, DbOK, JobOK, DiskOK
<1> QED
  BY <1>3, <1>5, <1>6 DEF Shapes

(***************************************************************************)
(* The shell keeps the shapes.                                             *)
(***************************************************************************)

(* Requests counts the positions of a queue that count for its capacity.   *)
Counted(q) == {i \in DOMAIN q : q[i].op \notin {"retire", "leave"}}

(* A queue grows by at most one request, and not by a control. *)
LEMMA AppendRequests ==
    ASSUME NEW S, NEW q \in Seq(S), NEW m \in S
    PROVE  /\ Requests(q) \in Nat
           /\ Requests(Append(q, m)) <= Requests(q) + 1
           /\ m.op \in {"retire", "leave"} => Requests(Append(q, m)) = Requests(q)
<1> DEFINE L == Len(q)
           p == Append(q, m)
<1>1. /\ L \in Nat /\ DOMAIN q = 1 .. L /\ DOMAIN p = 1 .. L + 1 /\ p[L + 1] = m
      /\ \A i \in 1 .. L : p[i] = q[i]
  BY LenProperties, AppendProperties
<1> HIDE DEF L, p
<1>2. IsFiniteSet(Counted(q)) /\ Cardinality(Counted(q)) \in Nat
  <2>1. IsFiniteSet(1 .. L) /\ Counted(q) \subseteq 1 .. L
    BY <1>1, FS_Interval DEF Counted
  <2> QED
    BY <2>1, FS_Subset, FS_CardinalityType
<1>a. Requests(q) = Cardinality(Counted(q)) /\ Requests(p) = Cardinality(Counted(p))
  BY DEF Requests, Counted
<1>3. CASE m.op \in {"retire", "leave"}
  <2>1. Counted(p) = Counted(q)
    BY <1>1, <1>3 DEF Counted
  <2> QED
    BY <1>2, <1>a, <2>1 DEF p
<1>4. CASE m.op \notin {"retire", "leave"}
  <2>1. Counted(p) = Counted(q) \cup {L + 1} /\ L + 1 \notin Counted(q)
    BY <1>1, <1>4 DEF Counted
  <2>2. Cardinality(Counted(p)) = Cardinality(Counted(q)) + 1
    BY <1>2, <2>1, FS_AddElement
  <2> QED
    BY <1>2, <1>4, <1>a, <2>2 DEF p
<1> QED
  BY <1>3, <1>4

(* Taking the first request makes the queue no longer. *)
LEMMA TailRequests ==
    ASSUME NEW S, NEW q \in Seq(S), q # <<>>
    PROVE  Requests(Tail(q)) <= Requests(q)
<1> DEFINE L == Len(q)
           p == Tail(q)
<1>1. L \in Nat /\ L # 0 /\ DOMAIN q = 1 .. L
  BY LenProperties, EmptySeq
<1>2. p \in Seq(S) /\ Len(p) = L - 1 /\ \A i \in 1 .. L - 1 : p[i] = q[i + 1]
  BY HeadTailProperties
<1>3. DOMAIN p = 1 .. L - 1
  BY <1>2, LenProperties
<1> HIDE DEF L, p
<1> DEFINE f == [i \in Counted(p) |-> i + 1]
<1>4. f \in Injection(Counted(p), Counted(q))
  <2>1. \A i \in Counted(p) : i \in 1 .. L - 1 /\ i + 1 \in Counted(q)
    BY <1>1, <1>2, <1>3 DEF Counted
  <2>2. f \in [Counted(p) -> Counted(q)]
    BY <2>1
  <2>3. \A i, j \in Counted(p) : f[i] = f[j] => i = j
    BY <2>1
  <2> QED
    BY <2>2, <2>3 DEF Injection, IsInjective
<1>5. IsFiniteSet(Counted(q))
  <2>1. IsFiniteSet(1 .. L) /\ Counted(q) \subseteq 1 .. L
    BY <1>1, FS_Interval DEF Counted
  <2> QED
    BY <2>1, FS_Subset
<1>6. Cardinality(Counted(p)) <= Cardinality(Counted(q))
  BY <1>4, <1>5, FS_Injection
<1> QED
  BY <1>6 DEF Requests, Counted, p

(* A reply that fits is delivered. *)
LEMMA DeliveredFit ==
    ASSUME Shapes, NEW d \in Docs, NEW last \in Nat, db.stamp <= last,
           NEW r \in Answers(d, last), HasRoom(d), Delivered(d, r)
    PROVE  RepliesFit(replies', last)
<1>1. \A e \in Docs : Seq(Answers(e, db.stamp)) \subseteq Seq(Answers(e, last))
  <2>1. \A e \in Docs : Answers(e, db.stamp) \subseteq Answers(e, last)
    <3>1. 0 .. db.stamp \subseteq 0 .. last
      BY DEF Shapes, DbOK
    <3> QED
      BY <3>1 DEF Answers
  <2> QED
    BY <2>1, SeqMonotonic
<1>2. \A e \in Docs : replies'[e] = IF e = d THEN Append(replies[d], r) ELSE replies[e]
  BY DEF Shapes, RepliesOK, RepliesFit, Delivered
<1>3. DOMAIN replies' = Docs /\ replies' = [e \in Docs |-> replies'[e]]
  BY DEF Shapes, RepliesOK, RepliesFit, Delivered
<1>4. \A e \in Docs : replies[e] \in Seq(Answers(e, last)) /\ Len(replies[e]) <= MaxReplies
  BY <1>1 DEF Shapes, RepliesOK, RepliesFit
<1>5. /\ Append(replies[d], r) \in Seq(Answers(d, last))
      /\ Len(Append(replies[d], r)) = Len(replies[d]) + 1 /\ Len(replies[d]) \in Nat
  BY <1>4, AppendProperties, LenProperties
<1>6. Len(Append(replies[d], r)) <= MaxReplies
  BY <1>5, Bounds DEF HasRoom
<1> QED
  BY <1>2, <1>3, <1>4, <1>5, <1>6 DEF RepliesFit

(* The replies under way still fit when the database is newer. *)
LEMMA RepliesStillFit ==
    ASSUME Shapes, NEW last \in Nat, db.stamp <= last
    PROVE  RepliesFit(replies, last)
<1>1. 0 .. db.stamp \subseteq 0 .. last
  BY DEF Shapes, DbOK
<1>2. \A d \in Docs : Answers(d, db.stamp) \subseteq Answers(d, last)
  BY <1>1 DEF Answers
<1>3. \A d \in Docs : Seq(Answers(d, db.stamp)) \subseteq Seq(Answers(d, last))
  BY <1>2, SeqMonotonic
<1> QED
  BY <1>3 DEF Shapes, RepliesOK, RepliesFit

(* Fewer sessions still fit. *)
LEMMA FewerSessions ==
    ASSUME NEW ss, SessionsFit(ss), NEW ts \in SUBSET ss
    PROVE  SessionsFit(ts)
<1>1. IsFiniteSet(ts) /\ Cardinality(ts) <= Cardinality(ss)
      /\ Cardinality(ts) \in Nat /\ Cardinality(ss) \in Nat
  BY FS_Subset, FS_CardinalityType DEF SessionsFit
<1> QED
  BY <1>1, DbAssumption DEF SessionsFit

(* What the worker's reply leaves. *)
LEMMA ReplyShapes ==
    ASSUME Shapes, NEW m, m.client \in Clients, NEW last \in Nat, db.stamp <= last,
           NEW r \in Answers(DocOf[m.client], last), NEW kept, SessionsFit(kept),
           Reply(m, r, kept)
    PROVE  /\ docs' \in [Docs -> {"live", "failing", "retired"}] /\ failed' \subseteq Docs
           /\ RepliesFit(replies', last)
           /\ SessionsFit(sessions') /\ sessions' \subseteq kept
<1> DEFINE d == DocOf[m.client]
<1>1. d \in Docs
  BY DbAssumption
<1>2. docs \in [Docs -> {"live", "failing", "retired"}] /\ failed \subseteq Docs
  BY DEF Shapes, DocsOK
<1>3. CASE HasRoom(d) /\ Delivered(d, r) /\ sessions' = kept /\ UNCHANGED <<docs, failed>>
  BY <1>1, <1>2, <1>3, DeliveredFit
<1>4. CASE /\ ~HasRoom(d) /\ Overflows(d) /\ failed' = failed \cup {d}
           /\ sessions' = {s \in kept : DocOf[s.client] # d} /\ UNCHANGED replies
  <2>1. docs' \in [Docs -> {"live", "failing", "retired"}]
    BY <1>1, <1>2, <1>4 DEF Overflows
  <2>2. sessions' \in SUBSET kept
    BY <1>4
  <2>3. RepliesFit(replies', last)
    BY <1>4, RepliesStillFit
  <2> QED
    BY <1>1, <1>2, <1>4, <2>1, <2>2, <2>3, FewerSessions
<1> QED
  BY <1>3, <1>4 DEF Reply

(* A document that goes keeps types and bounds. *)
LEMMA LeaveShapes ==
    ASSUME Shapes, NEW d \in Docs, Leave(d)
    PROVE  Shapes'
<1>1. [op |-> "leave", doc |-> d] \in Work
  BY DEF Work
<1>2. QueueOK'
  <2>1. queue \in Seq(Work) /\ Requests(queue) <= QueueCapacity
    BY DEF Shapes, QueueOK
  <2>2. queue' = Append(queue, [op |-> "leave", doc |-> d])
    BY DEF Leave
  <2>3. Requests(queue') = Requests(queue)
    BY <1>1, <2>1, <2>2, AppendRequests
  <2>4. queue' \in Seq(Work)
    BY <1>1, <2>1, <2>2, AppendProperties
  <2> QED
    BY <2>1, <2>3, <2>4 DEF QueueOK
<1>3. DocsOK' /\ ClientsOK' /\ LinesOK' /\ SessionsOK' /\ DbOK' /\ JobOK' /\ DiskOK'
  BY DEF Leave, Shapes, DocsOK, ClientsOK, LinesOK, SessionsOK, SessionsFit, DbOK, JobOK, DiskOK
<1>4. RepliesOK'
  <2>1. \A S : <<>> \in Seq(S) /\ Len(<<>>) = 0
    BY EmptySeq
  <2>2. \A e \in Docs : replies'[e] = IF e = d THEN <<>> ELSE replies[e]
    BY DEF Leave, Shapes, RepliesOK, RepliesFit
  <2>3. DOMAIN replies' = Docs /\ replies' = [e \in Docs |-> replies'[e]] /\ db' = db
    BY DEF Leave, Shapes, RepliesOK, RepliesFit
  <2>4. 0 <= MaxReplies
    BY Bounds
  <2> QED
    BY <2>1, <2>2, <2>3, <2>4 DEF Shapes, RepliesOK, RepliesFit
<1> QED
  BY <1>2, <1>3, <1>4 DEF Shapes

(* The answers to a request are addressed to its client. *)
LEMMA AnswerType ==
    ASSUME NEW d, NEW m \in Messages(d), NEW last \in Nat
    PROVE  /\ Answer(m) \in Answers(d, last) /\ Error(m) \in Answers(d, last)
           /\ \A v \in 0 .. MaxVersion : [Answer(m) EXCEPT !.version = v] \in Answers(d, last)
           /\ \A n \in 0 .. last : [Answer(m) EXCEPT !.stamp = n] \in Answers(d, last)
<1>1. /\ m.op \in Ops /\ m.client \in Clients /\ m.tx \in Nat /\ DocOf[m.client] = d
      /\ 0 \in 0 .. MaxVersion /\ 0 \in 0 .. last
  BY Bounds DEF Messages, Sendable
<1>2. Answer(m) \in Answers(d, last)
  BY <1>1 DEF Answer, Answers
<1> QED
  BY <1>1, <1>2 DEF Error, Answer, Answers

(* A request that reaches the worker's queue keeps types and bounds. *)
LEMMA SubmitShapes ==
    ASSUME Shapes, NEW d \in Docs, Submit(d)
    PROVE  Shapes'
<1> DEFINE m == Head(wire[d])
<1>1. m \in Messages(d) /\ Tail(wire[d]) \in Seq(Messages(d))
  BY HeadTailProperties DEF Shapes, LinesOK, Submit
<1>2. m \in Work /\ m.client \in Clients /\ DocOf[m.client] = d
  BY <1>1 DEF Work, Messages, Sendable
<1>3. LinesOK'
  BY <1>1 DEF Shapes, LinesOK, Submit
<1>4. /\ UNCHANGED <<db, disk, stamps, job, sessions, failed, retired, client, did, told>>
      /\ \/ docs' = docs /\ replies' = replies /\ queue' = queue
         \/ docs' = docs /\ replies' = replies /\ Admits(m) /\ queue' = Append(queue, m)
         \/ Reject(d, m) /\ queue' = queue
  BY DEF Submit
<1>5. QueueOK'
  <2>1. queue \in Seq(Work) /\ Requests(queue) <= QueueCapacity
    BY DEF Shapes, QueueOK
  <2>2. CASE queue' = queue
    BY <2>1, <2>2 DEF QueueOK
  <2>3. CASE Admits(m) /\ queue' = Append(queue, m)
    <3> HIDE DEF m
    <3>1. queue' \in Seq(Work)
      BY <1>2, <2>1, <2>3, AppendProperties
    <3>2. Requests(queue') <= QueueCapacity
      <4>1. CASE m.op = "retire"
        BY <1>2, <2>1, <2>3, <4>1, AppendRequests
      <4>2. CASE Requests(queue) < QueueCapacity
        <5>1. Requests(queue) \in Nat /\ Requests(queue') <= Requests(queue) + 1
          BY <1>2, <2>1, <2>3, AppendRequests
        <5>2. Requests(queue') \in Nat
          BY <3>1, <1>2, AppendRequests
        <5> QED
          BY <4>2, <5>1, <5>2, Bounds
      <4> QED
        BY <2>3, <4>1, <4>2 DEF Admits
    <3> QED
      BY <3>1, <3>2 DEF QueueOK
  <2> QED
    BY <1>4, <2>2, <2>3
<1>6. docs' \in [Docs -> {"live", "failing", "retired"}] /\ RepliesFit(replies', db.stamp)
  <2>1. docs \in [Docs -> {"live", "failing", "retired"}] /\ RepliesFit(replies, db.stamp)
        /\ db.stamp \in Nat
    BY DEF Shapes, DocsOK, RepliesOK, DbOK
  <2>2. CASE docs' = docs /\ replies' = replies
    BY <2>1, <2>2
  <2>3. CASE HasRoom(d) /\ Delivered(d, Error(m)) /\ docs' = docs
    <3>1. Error(m) \in Answers(d, db.stamp)
      BY <1>1, <2>1, AnswerType
    <3> QED
      BY <2>1, <2>3, <3>1, DeliveredFit
  <2>4. CASE Overflows(d) /\ replies' = replies
    BY <2>1, <2>4 DEF Overflows
  <2> QED
    BY <1>4, <2>2, <2>3, <2>4 DEF Reject
<1>7. DocsOK' /\ RepliesOK'
  BY <1>4, <1>6 DEF Shapes, DocsOK, RepliesOK
<1>8. ClientsOK' /\ SessionsOK' /\ DbOK' /\ JobOK' /\ DiskOK'
  BY <1>4 DEF Shapes, ClientsOK, SessionsOK, SessionsFit, DbOK, JobOK, DiskOK
<1> QED
  BY <1>3, <1>5, <1>7, <1>8 DEF Shapes

(***************************************************************************)
(* The worker keeps the shapes.                                            *)
(***************************************************************************)

(* The first piece of work, and the queue without it. *)
LEMMA HeadWork ==
    ASSUME Shapes, queue # <<>>
    PROVE  /\ Head(queue) \in Work
           /\ Tail(queue) \in Seq(Work) /\ Requests(Tail(queue)) <= QueueCapacity
           /\ Head(queue).op # "leave" =>
                 /\ Head(queue) \in Messages(DocOf[Head(queue).client])
                 /\ Head(queue).client \in Clients /\ DocOf[Head(queue).client] \in Docs
                 /\ Head(queue).op \in Ops /\ Head(queue).tx \in Nat
                 /\ Head(queue).version \in 0 .. MaxVersion
                 /\ Head(queue).keys \subseteq Keys
                 /\ Head(queue).op = "retire" => Head(queue).client \in Workers
           /\ Head(queue).op = "leave" => Head(queue).doc \in Docs
<1> DEFINE m == Head(queue)
<1>1. queue \in Seq(Work) /\ Requests(queue) <= QueueCapacity
  BY DEF Shapes, QueueOK
<1>2. m \in Work /\ Tail(queue) \in Seq(Work)
  BY <1>1, HeadTailProperties
<1>3. Requests(Tail(queue)) <= QueueCapacity
  <2>1. Requests(Tail(queue)) <= Requests(queue)
    BY <1>1, TailRequests
  <2>2. Requests(Tail(queue)) \in Nat /\ Requests(queue) \in Nat
    BY <1>1, <1>2, AppendRequests
  <2> QED
    BY <1>1, <2>1, <2>2, Bounds
<1> HIDE DEF m
<1>4. m.op # "leave" => m \in Sendable
  BY <1>2 DEF Work
<1>5. m \in Sendable =>
        /\ m \in Messages(DocOf[m.client]) /\ m.client \in Clients
        /\ m.op \in Ops /\ m.tx \in Nat /\ m.version \in 0 .. MaxVersion /\ m.keys \subseteq Keys
        /\ m.op = "retire" => m.client \in Workers
  BY DEF Messages, Sendable
<1>6. m.op = "leave" => m.doc \in Docs
  BY <1>2 DEF Work, Sendable, Ops
<1>7. m.client \in Clients => DocOf[m.client] \in Docs
  BY DbAssumption
<1> QED
  BY <1>2, <1>3, <1>4, <1>5, <1>6, <1>7 DEF m

(* The idle limit keeps types and bounds. *)
LEMMA ExpireShapes ==
    ASSUME Shapes, Expire
    PROVE  Shapes'
<1>1. PICK s \in sessions :
        /\ sessions' = sessions \ {s}
        /\ did' = IF s.tx = client[s.client].tx THEN [did EXCEPT ![s.client] = {}] ELSE did
  BY DEF Expire
<1>2. SessionsOK'
  BY <1>1, FewerSessions DEF Shapes, SessionsOK
<1>3. ClientsOK'
  BY <1>1 DEF Shapes, ClientsOK, Expire
<1>4. DocsOK' /\ LinesOK' /\ QueueOK' /\ RepliesOK' /\ DbOK' /\ JobOK' /\ DiskOK'
  BY DEF Expire, Shapes, DocsOK, LinesOK, QueueOK, Requests, RepliesOK, RepliesFit, DbOK, JobOK, DiskOK
<1> QED
  BY <1>2, <1>3, <1>4 DEF Shapes

(* A retirement keeps types and bounds. *)
LEMMA RetireShapes ==
    ASSUME Shapes, Retire
    PROVE  Shapes'
<1> DEFINE m == Head(queue)
<1>1. queue # <<>> /\ queue' = Tail(queue) /\ ((RetireClient(m) /\ m.op = "retire") \/ RetireDocument(m))
  BY DEF Retire
<1>2. sessions' \in SUBSET sessions /\ failed' \subseteq failed /\ retired' \subseteq Workers
  BY <1>1, HeadWork DEF Shapes, DocsOK, RetireClient, RetireDocument
<1>3. SessionsOK'
  BY <1>2, FewerSessions DEF Shapes, SessionsOK
<1>4. QueueOK'
  BY <1>1, HeadWork DEF QueueOK
<1>5. DocsOK'
  BY <1>2 DEF Shapes, DocsOK, Retire
<1>6. ClientsOK' /\ LinesOK' /\ RepliesOK' /\ DbOK' /\ JobOK' /\ DiskOK'
  BY DEF Retire, Shapes, ClientsOK, LinesOK, RepliesOK, RepliesFit, DbOK, JobOK, DiskOK
<1> QED
  BY <1>3, <1>4, <1>5, <1>6 DEF Shapes

(* A step works on its session, or on a new one while there is room. *)
LEMMA StagedFit ==
    ASSUME Shapes, NEW m, m.client \in Clients, m.tx \in Nat, Session(m) # {} \/ CanBegin(m), NEW data
    PROVE  LET t == [Staged(m) EXCEPT !.data = data]
           IN  /\ IsSession(t) /\ SessionsFit((sessions \ Session(m)) \cup {t})
               /\ t.client = m.client /\ t.tx = m.tx /\ t.version = m.version /\ t.data = data
               /\ t.base = Staged(m).base /\ t.generation = Staged(m).generation
<1> DEFINE s == Staged(m)
           t == [s EXCEPT !.data = data]
           rest == sessions \ Session(m)
<1>1. s \in Session(m) \/ (Session(m) = {} /\ s = BeginSession(m))
  BY DEF Staged
<1>2. /\ IsSession(s) /\ s.client = m.client /\ s.tx = m.tx /\ s.version = m.version
  <2>1. CASE s \in Session(m)
    BY <2>1 DEF Session, Shapes, SessionsOK, SessionsFit
  <2>2. CASE s = BeginSession(m)
    <3> HIDE DEF s
    <3> QED
      BY <2>2 DEF BeginSession, IsSession
  <2> QED
    BY <1>1, <2>1, <2>2
<1> HIDE DEF s
<1>3. /\ IsSession(t) /\ t.client = m.client /\ t.tx = m.tx /\ t.version = m.version
      /\ t.data = data /\ t.base = s.base /\ t.generation = s.generation
  BY <1>2 DEF IsSession
<1> HIDE DEF t
<1>4. IsFiniteSet(sessions) /\ Cardinality(sessions) <= SessionCapacity
      /\ Cardinality(sessions) \in Nat /\ SessionCapacity \in Nat
  BY FS_CardinalityType, Bounds DEF Shapes, SessionsOK, SessionsFit
<1>5. IsFiniteSet(rest) /\ Cardinality(rest) <= Cardinality(sessions)
      /\ Cardinality(rest) \in Nat
      /\ (rest # sessions => Cardinality(rest) # Cardinality(sessions))
  BY <1>4, FS_Subset, FS_CardinalityType
<1>6. /\ IsFiniteSet(rest \cup {t}) /\ Cardinality(rest \cup {t}) \in Nat
      /\ Cardinality(rest \cup {t}) <= Cardinality(rest) + 1
  BY <1>5, FS_AddElement, FS_CardinalityType, SMTT(30)
<1>7. Cardinality(rest \cup {t}) <= SessionCapacity
  <2>1. CASE Session(m) # {}
    <3>1. rest # sessions
      BY <2>1 DEF Session
    <3> QED
      BY <1>4, <1>5, <1>6, <3>1
  <2>2. CASE Cardinality(sessions) < SessionCapacity
    BY <1>4, <1>5, <1>6, <2>2
  <2> QED
    BY <2>1, <2>2 DEF CanBegin
<1>8. \A x \in rest : x.client = m.client /\ x.tx = m.tx => x.version # m.version
  BY DEF Session
<1>9. SessionsFit(rest \cup {t})
  <2>1. \A x, y \in rest \cup {t} :
           x.client = y.client /\ x.tx = y.tx /\ x.version = y.version => x = y
    BY <1>3, <1>8 DEF Shapes, SessionsOK, SessionsFit
  <2>2. \A x \in rest \cup {t} : IsSession(x)
    BY <1>3 DEF Shapes, SessionsOK, SessionsFit
  <2> QED
    BY <1>6, <1>7, <2>1, <2>2 DEF SessionsFit
<1> QED
  BY <1>3, <1>9 DEF s, t

(* The worker answers the first request and keeps a fitting set of sessions. *)
LEMMA ReplyingShapes ==
    ASSUME Shapes, queue # <<>>, Head(queue).op # "leave", NEW kept, SessionsFit(kept),
           NEW r \in Answers(DocOf[Head(queue).client], db.stamp), Reply(Head(queue), r, kept),
           queue' = Tail(queue), did' \in [Clients -> SUBSET Keys],
           UNCHANGED <<db, disk, stamps, job, retired, wire, client, told>>
    PROVE  Shapes'
<1> DEFINE m == Head(queue)
<1>1. db.stamp \in Nat /\ db.stamp <= db.stamp /\ m.client \in Clients
  BY HeadWork DEF Shapes, DbOK
<1>2. /\ docs' \in [Docs -> {"live", "failing", "retired"}] /\ failed' \subseteq Docs
      /\ RepliesFit(replies', db.stamp) /\ SessionsFit(sessions')
  <2> HIDE DEF m
  <2>1. r \in Answers(DocOf[m.client], db.stamp) /\ Reply(m, r, kept)
    BY DEF m
  <2> QED
    BY <1>1, <2>1, ReplyShapes
<1>3. QueueOK'
  BY HeadWork DEF QueueOK
<1>4. ClientsOK' /\ LinesOK' /\ DbOK' /\ JobOK' /\ DiskOK'
  BY DEF Shapes, ClientsOK, LinesOK, DbOK, JobOK, DiskOK
<1>5. DocsOK' /\ RepliesOK' /\ SessionsOK'
  BY <1>2 DEF Shapes, DocsOK, RepliesOK, SessionsOK
<1> QED
  BY <1>3, <1>4, <1>5 DEF Shapes

(* A request the worker executes keeps types and bounds. *)
LEMMA ExecuteShapes ==
    ASSUME Shapes, Execute
    PROVE  Shapes'
<1> DEFINE m == Head(queue)
           d == DocOf[m.client]
<1>1. /\ queue # <<>> /\ queue' = Tail(queue) /\ m.op # "leave"
      /\ UNCHANGED <<db, disk, stamps, job, retired, wire, client, told>>
  BY DEF Execute, CommitsNothing
<1>2. /\ m.client \in Clients /\ m.tx \in Nat /\ m.keys \subseteq Keys
      /\ m \in Messages(DocOf[m.client])
  BY <1>1, HeadWork
<1>3. /\ Answer(m) \in Answers(d, db.stamp) /\ Error(m) \in Answers(d, db.stamp)
      /\ [Answer(m) EXCEPT !.version = db.version] \in Answers(d, db.stamp)
  <2>1. db.stamp \in Nat /\ db.version \in 0 .. MaxVersion
    BY DEF Shapes, DbOK
  <2> HIDE DEF m, d
  <2> QED
    BY <1>2, <2>1, AnswerType DEF d
<1>4. did \in [Clients -> SUBSET Keys] /\ SessionsFit(sessions) /\ SessionsFit(sessions \ Session(m))
  <2>1. did \in [Clients -> SUBSET Keys] /\ SessionsFit(sessions)
    BY DEF Shapes, ClientsOK, SessionsOK
  <2>2. sessions \ Session(m) \in SUBSET sessions
    OBVIOUS
  <2> QED
    BY <2>1, <2>2, FewerSessions
<1>5. ASSUME NEW kept, SessionsFit(kept), NEW r \in Answers(d, db.stamp), Reply(m, r, kept),
             did' \in [Clients -> SUBSET Keys]
      PROVE  Shapes'
  BY <1>1, <1>5, ReplyingShapes
<1>6. CASE ExecuteStep(m)
  <2>1. CASE Reply(m, Error(m), sessions) /\ did' = did
    BY <1>3, <1>4, <1>5, <2>1
  <2>2. CASE Reply(m, Error(m), sessions \ Session(m)) /\ did' = did
    BY <1>3, <1>4, <1>5, <2>2
  <2>3. CASE /\ Session(m) # {} \/ CanBegin(m)
             /\ LET s == Staged(m)
                    t == [s EXCEPT !.data = [k \in Keys |->
                            IF k \in m.keys THEN <<m.client, m.tx>> ELSE s.data[k]]]
                IN  \E r \in {Answer(m), Error(m)} : Reply(m, r, (sessions \ Session(m)) \cup {t})
             /\ did' = [did EXCEPT ![m.client] = IF client[m.client].tx = m.tx
                                                 THEN @ \cup m.keys ELSE @]
    <3> DEFINE data == [k \in Keys |->
                          IF k \in m.keys THEN <<m.client, m.tx>> ELSE Staged(m).data[k]]
               t == [Staged(m) EXCEPT !.data = data]
    <3>1. PICK r \in {Answer(m), Error(m)} : Reply(m, r, (sessions \ Session(m)) \cup {t})
      BY <2>3
    <3>2. SessionsFit((sessions \ Session(m)) \cup {t})
      BY <1>2, <2>3, StagedFit
    <3>3. did' \in [Clients -> SUBSET Keys]
      BY <1>2, <1>4, <2>3
    <3> QED
      BY <1>3, <1>5, <3>1, <3>2, <3>3
  <2> QED
    BY <1>6, <2>1, <2>2, <2>3 DEF ExecuteStep
<1>7. CASE did' = did /\ \/ Reply(m, Error(m), sessions)
                         \/ Reply(m, [Answer(m) EXCEPT !.version = db.version], sessions)
                         \/ Reply(m, Answer(m), sessions \ Session(m))
  BY <1>3, <1>4, <1>5, <1>7
<1> QED
  BY <1>6, <1>7 DEF Execute

(* A session is known by its client, transaction and version. *)
LEMMA OneSession ==
    ASSUME Shapes, NEW m, NEW s \in Session(m)
    PROVE  Session(m) = {s} /\ (CHOOSE x \in Session(m) : TRUE) = s
<1>1. \A x \in Session(m) : x = s
  BY DEF Session, Shapes, SessionsOK, SessionsFit
<1> QED
  BY <1>1

(* A valid request makes a candidate of the next number: no database, or   *)
(* the next generation, which for a commit is what its session staged.     *)
LEMMA CandidateType ==
    ASSUME Shapes, NEW m \in Sendable, m.op \in Updates, Valid(m)
    PROVE  /\ Candidate(m).version \in 0 .. MaxVersion /\ Candidate(m).generation \in Nat
           /\ Candidate(m).stamp = stamps + 1
           /\ \/ Candidate(m).erased = stamps + 1
              \/ /\ Candidate(m).erased = db.erased
                 /\ Candidate(m).generation = db.generation + 1
           /\ m.op = "commit" =>
                 \E s \in Session(m) :
                    /\ s.generation = db.generation /\ s.version = db.version
                    /\ (CHOOSE x \in Session(m) : TRUE) = s /\ Candidate(m).data = s.data
<1>1. db.generation \in Nat /\ m.version \in 0 .. MaxVersion /\ stamps \in Nat /\ 0 \in 0 .. MaxVersion
  BY Bounds DEF Shapes, DbOK, Sendable
<1>2. CASE m.op = "delete"
  <2>1. Candidate(m) = [NoDb EXCEPT !.stamp = stamps + 1, !.erased = stamps + 1]
    BY <1>2 DEF Candidate
  <2> QED
    BY <1>1, <1>2, <2>1 DEF NoDb
<1>3. CASE m.op = "upgrade"
  <2>1. /\ Candidate(m).version = m.version /\ Candidate(m).generation = db.generation + 1
        /\ Candidate(m).stamp = stamps + 1 /\ Candidate(m).erased = db.erased
    BY <1>3 DEF Candidate
  <2> QED
    BY <1>1, <1>3, <2>1
<1>4. CASE m.op = "commit"
  <2>1. PICK s \in Session(m) : db.version = s.version /\ db.generation = s.generation
    BY <1>4 DEF Valid
  <2>2. (CHOOSE x \in Session(m) : TRUE) = s
    BY <2>1, OneSession
  <2>3. /\ Candidate(m).version = m.version /\ Candidate(m).generation = s.generation + 1
        /\ Candidate(m).stamp = stamps + 1 /\ Candidate(m).erased = db.erased
        /\ Candidate(m).data = s.data
    BY <1>4, <2>2 DEF Candidate
  <2> QED
    BY <1>1, <1>4, <2>1, <2>2, <2>3
<1> QED
  BY <1>2, <1>3, <1>4 DEF Updates

(* The start of a file update keeps types and bounds. *)
LEMMA BeginUpdateShapes ==
    ASSUME Shapes, BeginUpdate
    PROVE  Shapes'
<1> DEFINE m == Head(queue)
           kept == IF m.op = "commit" THEN sessions \ Session(m) ELSE sessions
<1>1. /\ queue # <<>> /\ queue' = Tail(queue) /\ m.op \in Updates
      /\ UNCHANGED <<db, disk, retired, wire, client, did, told>>
  BY DEF BeginUpdate
<1>2. /\ m.op # "leave" /\ m.client \in Clients /\ m \in Messages(DocOf[m.client])
      /\ m \in Sendable
  BY <1>1, HeadWork DEF Updates, Messages
<1>3. SessionsFit(kept)
  <2>1. kept \in SUBSET sessions
    OBVIOUS
  <2> HIDE DEF kept
  <2> QED
    BY <2>1, FewerSessions DEF Shapes, SessionsOK
<1>4. CASE ~Valid(m)
  <2>1. Reply(m, Error(m), kept) /\ UNCHANGED <<job, stamps>>
    BY <1>4 DEF BeginUpdate
  <2>2. Error(m) \in Answers(DocOf[m.client], db.stamp)
    <3>1. db.stamp \in Nat
      BY DEF Shapes, DbOK
    <3> HIDE DEF m
    <3> QED
      BY <1>2, <3>1, AnswerType
  <2>3. did' \in [Clients -> SUBSET Keys]
    BY <1>1 DEF Shapes, ClientsOK
  <2> QED
    BY <1>1, <1>2, <1>3, <2>1, <2>2, <2>3, ReplyingShapes
<1>5. CASE Valid(m)
  <2>1. PICK base : /\ job' = [op |-> "temp", request |-> m, candidate |-> Candidate(m), base |-> base]
                    /\ stamps' = stamps + 1 /\ sessions' = kept
                    /\ UNCHANGED <<failed, replies, docs>>
    BY <1>5 DEF BeginUpdate
  <2> HIDE DEF kept, m
  <2>2. JobOK'
    <3>1. stamps \in Nat /\ db.stamp \in 0 .. stamps
      BY DEF Shapes, DbOK
    <3>2. db.stamp < stamps + 1
      BY <3>1
    <3>3. /\ Candidate(m).version \in 0 .. MaxVersion /\ Candidate(m).generation \in Nat
          /\ Candidate(m).stamp = stamps + 1
          /\ \/ Candidate(m).erased = stamps + 1
             \/ /\ Candidate(m).erased = db.erased
                /\ Candidate(m).generation = db.generation + 1
      BY <1>1, <1>2, <1>5, CandidateType
    <3> QED
      BY <1>1, <1>2, <2>1, <3>2, <3>3 DEF JobOK, Writing
  <2>3. QueueOK'
    BY <1>1, HeadWork DEF QueueOK
  <2>4. DbOK'
    BY <1>1, <2>1 DEF Shapes, DbOK
  <2>5. DiskOK'
    BY <1>1, <2>1 DEF Shapes, DiskOK
  <2>6. ClientsOK' /\ LinesOK' /\ DocsOK' /\ RepliesOK'
    BY <1>1, <2>1 DEF Shapes, ClientsOK, LinesOK, DocsOK, RepliesOK, RepliesFit
  <2>7. SessionsOK'
    BY <1>3, <2>1 DEF SessionsOK
  <2> QED
    BY <2>2, <2>3, <2>4, <2>5, <2>6, <2>7 DEF Shapes
<1> QED
  BY <1>4, <1>5

(* One file operation keeps types and bounds. *)
LEMMA WriteFileShapes ==
    ASSUME Shapes, WriteFile
    PROVE  Shapes'
<1>1. PICK op \in Writing : job' = [job EXCEPT !.op = op]
  BY DEF WriteFile, Rotate, Writing
<1>2. job # Idle
  BY DEF WriteFile, Rotate, Idle
<1>3. job' = [op |-> job'.op, request |-> job.request, candidate |-> job.candidate, base |-> job.base]
      /\ job'.op = op
  BY <1>1, <1>2 DEF Shapes, JobOK
<1>4. JobOK'
  BY <1>1, <1>2, <1>3 DEF Shapes, JobOK, WriteFile
<1>5. DiskOK'
  <2>1. CASE job.op = "temp" /\ disk.main = {} /\ job' = [job EXCEPT !.op = "rename"] /\ disk' = disk
    BY <2>1 DEF Shapes, DiskOK, WriteFile, JobOK, Idle
  <2>2. CASE /\ job.op = "temp" /\ disk.main # {} /\ disk' = [disk EXCEPT !.bak = {}]
             /\ job' = [job EXCEPT !.op = "rotate"]
    BY <2>2 DEF Shapes, DiskOK, WriteFile, JobOK, Idle
  <2>3. CASE Rotate
    BY <2>3 DEF Shapes, DiskOK, WriteFile, Rotate, JobOK, Idle
  <2> QED
    BY <2>1, <2>2, <2>3 DEF WriteFile
<1>6. ClientsOK' /\ LinesOK' /\ DocsOK' /\ QueueOK' /\ RepliesOK' /\ SessionsOK' /\ DbOK'
  BY DEF WriteFile, Shapes, ClientsOK, LinesOK, DocsOK, QueueOK, Requests, RepliesOK, RepliesFit,
         SessionsOK, SessionsFit, DbOK
<1> QED
  BY <1>4, <1>5, <1>6 DEF Shapes

(* The end of a file update keeps types and bounds. *)
LEMMA FinishShapes ==
    ASSUME Shapes, FinishUpdate
    PROVE  Shapes'
<1> DEFINE m == job.request
           last == job.candidate.stamp
<1>1. job # Idle
  BY DEF FinishUpdate, Publish, Idle
<1>2. /\ m \in Sendable /\ m.client \in Clients /\ m \in Messages(DocOf[m.client])
      /\ last = stamps /\ db.stamp <= last /\ last \in Nat
  BY <1>1 DEF Shapes, JobOK, DbOK, Sendable, Messages
<1>3. /\ \/ Reply(m, [Answer(m) EXCEPT !.stamp = last], sessions)
         \/ Reply(m, Error(m), sessions)
      /\ disk' = [disk EXCEPT !.main = {job.candidate}] /\ db' = job.candidate /\ job' = Idle
      /\ UNCHANGED <<stamps, queue, retired, wire, client, did, told>>
  BY DEF FinishUpdate, Publish, Failed
<1>4. /\ [Answer(m) EXCEPT !.stamp = last] \in Answers(DocOf[m.client], last)
      /\ Error(m) \in Answers(DocOf[m.client], last)
  <2> HIDE DEF m, last
  <2>1. last \in 0 .. last
    BY <1>2
  <2> QED
    BY <1>2, <2>1, AnswerType
<1>5. /\ docs' \in [Docs -> {"live", "failing", "retired"}] /\ failed' \subseteq Docs
      /\ RepliesFit(replies', last) /\ SessionsFit(sessions')
  <2> HIDE DEF m, last
  <2>1. SessionsFit(sessions)
    BY DEF Shapes, SessionsOK
  <2> QED
    BY <1>2, <1>3, <1>4, <2>1, ReplyShapes
<1>6. DbOK'
  BY <1>1, <1>2, <1>3 DEF Shapes, DbOK, JobOK
<1>7. DiskOK'
  BY <1>1, <1>3 DEF Shapes, DiskOK, Idle
<1>8. JobOK' /\ ClientsOK' /\ LinesOK' /\ QueueOK'
  BY <1>3 DEF Shapes, JobOK, ClientsOK, LinesOK, QueueOK, Requests
<1>9. DocsOK' /\ RepliesOK' /\ SessionsOK'
  BY <1>3, <1>5 DEF Shapes, DocsOK, RepliesOK, SessionsOK
<1> QED
  BY <1>6, <1>7, <1>8, <1>9 DEF Shapes

(* A failed file update keeps types and bounds. *)
LEMMA FailUpdateShapes ==
    ASSUME Shapes, FailUpdate
    PROVE  Shapes'
<1> DEFINE m == job.request
<1>1. /\ job # Idle /\ Reply(m, Error(m), sessions) /\ job' = Idle
      /\ UNCHANGED <<db, stamps, queue, retired, wire, client, did, told>>
      /\ \/ disk' = disk
         \/ /\ job.op = "rename" /\ disk.bak # {}
            /\ disk' = [main |-> disk.bak, bak |-> {}]
  BY DEF FailUpdate, Failed
<1>2. /\ m.client \in Clients /\ m \in Messages(DocOf[m.client])
      /\ db.stamp \in Nat /\ db.stamp <= db.stamp
  BY <1>1 DEF Shapes, JobOK, DbOK, Sendable, Messages
<1>3. /\ docs' \in [Docs -> {"live", "failing", "retired"}] /\ failed' \subseteq Docs
      /\ RepliesFit(replies', db.stamp) /\ SessionsFit(sessions')
  <2> HIDE DEF m
  <2>1. SessionsFit(sessions)
    BY DEF Shapes, SessionsOK
  <2>2. Error(m) \in Answers(DocOf[m.client], db.stamp)
    BY <1>2, AnswerType
  <2> QED
    BY <1>1, <1>2, <2>1, <2>2, ReplyShapes
<1>4. DiskOK'
  BY <1>1 DEF Shapes, DiskOK, Idle
<1>5. JobOK' /\ DbOK' /\ ClientsOK' /\ LinesOK' /\ QueueOK'
  BY <1>1 DEF Shapes, JobOK, DbOK, ClientsOK, LinesOK, QueueOK, Requests
<1>6. DocsOK' /\ RepliesOK' /\ SessionsOK'
  BY <1>1, <1>3 DEF Shapes, DocsOK, RepliesOK, SessionsOK
<1> QED
  BY <1>4, <1>5, <1>6 DEF Shapes

(* A new start of the browser keeps types and bounds. *)
LEMMA RestartShapes ==
    ASSUME Shapes, Restart
    PROVE  Shapes'
<1>1. Load = db
  BY LoadIsDb DEF Shapes
<1>2. \A S : <<>> \in Seq(S) /\ Len(<<>>) = 0
  BY EmptySeq
<1>3. DbOK' /\ DiskOK' /\ JobOK'
  BY <1>1 DEF Restart, Shapes, DbOK, DiskOK, JobOK, Idle
<1>4. ClientsOK'
  <2>1. 0 \in 0 .. MaxVersion
    BY Bounds
  <2>2. client' \in [Clients -> ClientStates]
    BY <2>1, ZenonT(30) DEF Restart, Shapes, ClientsOK, ClientStates
  <2> QED
    BY <2>2 DEF Restart, Shapes, ClientsOK
<1>5. QueueOK'
  <2>1. queue' = <<>>
    BY DEF Restart
  <2> QED
    BY <1>2, <2>1, EmptyRequests, Bounds DEF QueueOK
<1>6. LinesOK'
  <2>1. wire' = [d \in Docs |-> <<>>]
    BY DEF Restart
  <2> QED
    BY <1>2, <2>1 DEF LinesOK
<1>7. RepliesOK'
  <2>1. replies' = [d \in Docs |-> <<>>]
    BY DEF Restart
  <2> QED
    BY <1>2, <2>1, Bounds DEF RepliesOK, RepliesFit
<1>8. SessionsOK'
  <2>1. sessions' = {} /\ IsFiniteSet({}) /\ Cardinality({}) = 0
    BY FS_EmptySet DEF Restart
  <2> QED
    BY <2>1, Bounds DEF SessionsOK, SessionsFit
<1>9. DocsOK'
  BY DEF Restart, DocsOK
<1> QED
  BY <1>3, <1>4, <1>5, <1>6, <1>7, <1>8, <1>9 DEF Shapes

(* Every step keeps types and bounds. *)
LEMMA NextShapes ==
    Shapes /\ [Next]_vars => Shapes'
<1> SUFFICES ASSUME Shapes, [Next]_vars PROVE Shapes'
  OBVIOUS
<1>1. ASSUME NEW c \in Clients, Page(c) PROVE Shapes'
  BY <1>1, OpenShapes, CloseShapes, BeginShapes, AbortShapes, TerminateShapes DEF Page
<1>2. ASSUME NEW d \in Docs, Shell(d) PROVE Shapes'
  BY <1>2, ReceiveShapes, SubmitShapes, LeaveShapes DEF Shell
<1>3. CASE Worker
  BY <1>3, ExpireShapes, RetireShapes, ExecuteShapes, BeginUpdateShapes, WriteFileShapes,
     FinishShapes, FailUpdateShapes DEF Worker
<1>4. CASE UNCHANGED vars
  BY <1>4 DEF vars, Shapes, ClientsOK, DocsOK, LinesOK, QueueOK, Requests, RepliesOK, RepliesFit,
              SessionsOK, SessionsFit, DbOK, JobOK, DiskOK
<1> QED
  BY <1>1, <1>2, <1>3, <1>4, RestartShapes DEF Next

(* Types and bounds hold in every reachable state. *)
LEMMA ShapesHold ==
    Spec => []Shapes
  BY InitShapes, NextShapes, PTL DEF Spec

(* The files hold the database the worker works with at every instant of   *)
(* every update, whichever file operation fails and wherever the browser   *)
(* ends, and no page was told of a commit that the files do not have: a    *)
(* restart never comes back with an older database or with none.           *)
THEOREM FilesRecover ==
    Spec => []Recoverable
<1>1. Shapes => Recoverable
  BY LoadIsDb DEF Shapes, DbOK, Recoverable
<1> QED
  BY <1>1, ShapesHold, PTL

(***************************************************************************)
(* Lost updates.                                                           *)
(***************************************************************************)

(* What a session began from is the database, or older than its last       *)
(* deletion, or an older generation.                                       *)
Fresh ==
    /\ \A s \in sessions :
          /\ s.base \in Nat /\ s.generation \in Nat /\ s.base <= db.stamp
          /\ \/ s.base < db.erased
             \/ s.generation < db.generation
             \/ s.generation = db.generation /\ s.base = db.stamp
    /\ NoLostUpdate

(* A reply adds no session to the ones that are kept. *)
LEMMA ReplySessions ==
    ASSUME NEW m, NEW r, NEW kept, Reply(m, r, kept)
    PROVE  sessions' \subseteq kept
  BY DEF Reply

(* Dropping sessions and ending or advancing the update keeps them fresh. *)
LEMMA FreshFrame ==
    ASSUME Fresh, sessions' \subseteq sessions, UNCHANGED db,
           job' = Idle \/ (job # Idle /\ job'.request = job.request /\ job'.base = job.base)
    PROVE  Fresh'
  BY DEF Fresh, NoLostUpdate

(* A step's session is fresh. *)
LEMMA StepFresh ==
    ASSUME Shapes, Fresh, NEW m, m.client \in Clients, m.tx \in Nat,
           Session(m) # {} \/ CanBegin(m), NEW data,
           sessions' \subseteq (sessions \ Session(m)) \cup {[Staged(m) EXCEPT !.data = data]},
           UNCHANGED <<db, job>>
    PROVE  Fresh'
<1> DEFINE t == [Staged(m) EXCEPT !.data = data]
<1>1. t.base = Staged(m).base /\ t.generation = Staged(m).generation
  BY StagedFit
<1>2. Staged(m) \in sessions \/ Staged(m) = BeginSession(m)
  BY DEF Staged, Session
<1>3. /\ t.base \in Nat /\ t.generation \in Nat /\ t.base <= db.stamp
      /\ \/ t.base < db.erased
         \/ t.generation < db.generation
         \/ t.generation = db.generation /\ t.base = db.stamp
  <2> HIDE DEF t
  <2>1. CASE Staged(m) \in sessions
    BY <1>1, <2>1 DEF Fresh
  <2>2. CASE Staged(m) = BeginSession(m)
    <3>1. Staged(m).base = db.stamp /\ Staged(m).generation = db.generation
      BY <2>2 DEF BeginSession
    <3>2. db.stamp \in Nat /\ db.generation \in Nat
      BY DEF Shapes, DbOK
    <3> QED
      BY <1>1, <3>1, <3>2
  <2> QED
    BY <1>2, <2>1, <2>2
<1> HIDE DEF t
<1>4. \A s \in sessions' : s \in sessions \/ s = t
  BY DEF t
<1> QED
  BY <1>3, <1>4 DEF Fresh, NoLostUpdate

(* A request the worker executes keeps sessions apart from later states of the database. *)
LEMMA ExecuteFresh ==
    ASSUME Shapes, Fresh, Execute
    PROVE  Fresh'
<1> DEFINE m == Head(queue)
<1>1. UNCHANGED <<db, job>> /\ job = Idle
  BY DEF Execute
<1>2. CASE sessions' \subseteq sessions
  BY <1>1, <1>2, FreshFrame
<1>3. CASE /\ ExecuteStep(m) /\ m.op = "step" /\ queue # <<>>
           /\ Session(m) # {} \/ CanBegin(m)
           /\ \E r, data : Reply(m, r, (sessions \ Session(m))
                                     \cup {[Staged(m) EXCEPT !.data = data]})
  <2>1. m.client \in Clients /\ m.tx \in Nat
    BY <1>3, HeadWork
  <2>2. PICK data : sessions' \subseteq (sessions \ Session(m))
                                          \cup {[Staged(m) EXCEPT !.data = data]}
    BY <1>3, ReplySessions
  <2> HIDE DEF m
  <2> QED
    BY <1>1, <1>3, <2>1, <2>2, StepFresh
<1>4. ASSUME NEW r, NEW kept \in SUBSET sessions, Reply(m, r, kept)
      PROVE  sessions' \subseteq sessions
  BY <1>4, ReplySessions
<1>5. sessions \in SUBSET sessions /\ sessions \ Session(m) \in SUBSET sessions
  OBVIOUS
<1>6. CASE m.op = "step" /\ ExecuteStep(m) /\ queue # <<>>
  <2> HIDE DEF m
  <2> QED
    BY <1>2, <1>3, <1>4, <1>5, <1>6 DEF ExecuteStep
<1>7. CASE \/ Reply(m, Error(m), sessions)
           \/ Reply(m, [Answer(m) EXCEPT !.version = db.version], sessions)
           \/ Reply(m, Answer(m), sessions \ Session(m))
  BY <1>2, <1>4, <1>5, <1>7
<1> QED
  BY <1>6, <1>7 DEF Execute

(* The start of a file update keeps sessions apart from later states of the database. *)
LEMMA BeginUpdateFresh ==
    ASSUME Shapes, Fresh, BeginUpdate
    PROVE  Fresh'
<1> DEFINE m == Head(queue)
           kept == IF m.op = "commit" THEN sessions \ Session(m) ELSE sessions
<1>1. queue # <<>> /\ m.op \in Updates /\ db' = db /\ job = Idle
  BY DEF BeginUpdate
<1>2. m \in Sendable
  BY <1>1, HeadWork DEF Updates, Messages
<1>3. CASE ~Valid(m)
  <2>1. Reply(m, Error(m), kept) /\ job' = job
    BY <1>3 DEF BeginUpdate
  <2>2. sessions' \subseteq sessions
    BY <2>1, ReplySessions
  <2> QED
    BY <1>1, <2>1, <2>2, FreshFrame
<1>4. CASE Valid(m)
  <2>1. /\ job'.request = m /\ sessions' = kept
        /\ job'.base = IF m.op = "commit" THEN (CHOOSE s \in Session(m) : TRUE).base ELSE db.stamp
    BY <1>4 DEF BeginUpdate
  <2>2. m.op = "commit" => job'.base = db.stamp \/ job'.base < db.erased
    <3> SUFFICES ASSUME m.op = "commit" PROVE job'.base = db.stamp \/ job'.base < db.erased
      OBVIOUS
    <3>1. PICK s \in Session(m) : /\ s.generation = db.generation
                                  /\ (CHOOSE x \in Session(m) : TRUE) = s
      BY <1>1, <1>2, <1>4, CandidateType
    <3>2. s \in sessions /\ job'.base = s.base /\ db.generation \in Nat
      BY <2>1, <3>1 DEF Session, Shapes, DbOK
    <3> QED
      BY <3>1, <3>2 DEF Fresh
  <2>3. NoLostUpdate'
    BY <1>1, <2>1, <2>2 DEF NoLostUpdate
  <2>4. sessions' \subseteq sessions
    BY <2>1
  <2> QED
    BY <1>1, <2>3, <2>4 DEF Fresh
<1> QED
  BY <1>3, <1>4

(* The end of a file update keeps sessions apart from later states of the database. *)
LEMMA FinishFresh ==
    ASSUME Shapes, Fresh, FinishUpdate
    PROVE  Fresh'
<1>1. /\ job # Idle /\ job' = Idle /\ db' = job.candidate /\ sessions' \subseteq sessions
  BY ReplySessions DEF FinishUpdate, Publish, Idle
<1>2. /\ db.stamp < db'.stamp /\ db.stamp \in Nat /\ db'.stamp \in Nat
      /\ db.generation \in Nat /\ db.erased \in Nat
      /\ \/ db'.erased = db'.stamp
         \/ db'.erased = db.erased /\ db'.generation = db.generation + 1
  BY <1>1 DEF Shapes, JobOK, DbOK
<1>3. ASSUME NEW s \in sessions'
      PROVE  /\ s.base \in Nat /\ s.generation \in Nat /\ s.base <= db'.stamp
             /\ s.base < db'.erased \/ s.generation < db'.generation
  <2>1. /\ s.base \in Nat /\ s.generation \in Nat /\ s.base <= db.stamp
        /\ s.base < db.erased \/ s.generation <= db.generation
    BY <1>1, <1>2, <1>3 DEF Fresh
  <2> QED
    BY <1>2, <2>1
<1> QED
  BY <1>1, <1>3 DEF Fresh, NoLostUpdate

(* Every step keeps sessions apart from later states of the database. *)
LEMMA NextFresh ==
    Shapes /\ Fresh /\ [Next]_vars => Fresh'
<1> SUFFICES ASSUME Shapes, Fresh, [Next]_vars PROVE Fresh'
  OBVIOUS
<1>1. ASSUME UNCHANGED <<sessions, db, job>> PROVE Fresh'
  BY <1>1 DEF Fresh, NoLostUpdate
<1>2. ASSUME NEW c \in Clients, Page(c) PROVE Fresh'
  BY <1>1, <1>2 DEF Page, Open, DeleteDatabase, CloseConnection, BeginTransaction,
                    AbortTransaction, TerminateWorker, browser
<1>3. ASSUME NEW d \in Docs, Shell(d) PROVE Fresh'
  BY <1>1, <1>3 DEF Shell, Receive, Submit, Leave, browser
<1>4. CASE Expire
  <2>1. sessions' \subseteq sessions /\ db' = db /\ job = Idle /\ job' = job
    BY <1>4 DEF Expire
  <2> QED
    BY <2>1, FreshFrame
<1>5. CASE Retire
  <2>1. sessions' \subseteq sessions /\ db' = db /\ job = Idle /\ job' = job
    BY <1>5 DEF Retire, RetireClient, RetireDocument
  <2> QED
    BY <2>1, FreshFrame
<1>6. CASE WriteFile
  <2>1. sessions' = sessions /\ db' = db /\ job # Idle
    BY <1>6 DEF WriteFile, Rotate, Idle
  <2>2. PICK op : job' = [job EXCEPT !.op = op]
    BY <1>6 DEF WriteFile, Rotate
  <2>3. job'.request = job.request /\ job'.base = job.base
    BY <2>1, <2>2 DEF Shapes, JobOK
  <2> QED
    BY <2>1, <2>3, FreshFrame
<1>7. CASE FailUpdate
  <2>1. sessions' \subseteq sessions /\ db' = db /\ job' = Idle
    BY <1>7, ReplySessions DEF FailUpdate
  <2> QED
    BY <2>1, FreshFrame
<1>8. CASE Restart
  BY <1>8 DEF Restart, Fresh, NoLostUpdate
<1>9. CASE UNCHANGED vars
  BY <1>1, <1>9 DEF vars
<1> QED
  BY <1>2, <1>3, <1>4, <1>5, <1>6, <1>7, <1>8, <1>9, ExecuteFresh, BeginUpdateFresh, FinishFresh
     DEF Next, Worker

(* A transaction commits only what nobody else changed since it began: no  *)
(* commit overwrites another one, up to the next deletion of the database, *)
(* for any number of pages, workers and staged sessions.                   *)
THEOREM CommitsAreSerial ==
    Spec => []NoLostUpdate
<1>1. Init => Fresh
  BY DEF Init, Fresh, NoLostUpdate
<1>2. Fresh => NoLostUpdate
  BY DEF Fresh
<1> QED
  BY <1>1, <1>2, ShapesHold, NextFresh, PTL DEF Spec

(***************************************************************************)
(* Who owns a session.                                                     *)
(***************************************************************************)

(* One of S is behind the first i of q. *)
Behind(q, i, S) == \E j \in DOMAIN q : j > i /\ q[j] \in S

Retirements(c) == {m \in Sendable : m.op = "retire" /\ m.client = c}
Departures(d) == {m \in Work : m.op = "leave" /\ m.doc = d}

Gone(d) == docs[d] = "retired"

(* A client that used storage and is dead has its retirement on the way,   *)
(* behind the first i pieces of work.                                      *)
EndsBehind(c, i) ==
    /\ client[c].opens > 0
    /\ Gone(DocOf[c]) => Behind(queue, i, Departures(DocOf[c]))
    /\ client[c].state = "dead" /\ ~Gone(DocOf[c]) =>
          Behind(queue, i, Retirements(c)) \/ Behind(wire[DocOf[c]], 0, Retirements(c))

(* Whatever a client left, in the sessions, the queue or its document's    *)
(* line, is followed by what ends it.                                      *)
UnusedClients ==
    \A c \in Clients : client[c].opens = 0 => client[c].state \in {"closed", "dead"}

OwnedSessions ==
    \A s \in sessions : EndsBehind(s.client, 0) /\ DocOf[s.client] \notin failed

OwnedWork ==
    \A i \in DOMAIN queue :
       queue[i].op \notin {"retire", "leave"} => EndsBehind(queue[i].client, i)

EndsInLine(d, i, c) ==
    /\ client[c].opens > 0
    /\ client[c].state = "dead" /\ ~Gone(d) => Behind(wire[d], i, Retirements(c))

OwnedLines ==
    \A d \in Docs : \A i \in DOMAIN wire[d] :
       wire[d][i].op # "retire" => EndsInLine(d, i, wire[d][i].client)

Owned == UnusedClients /\ OwnedSessions /\ OwnedWork /\ OwnedLines

(* Appending keeps what is behind a position, and puts the new one there. *)
LEMMA AppendBehind ==
    ASSUME NEW T, NEW q \in Seq(T), NEW m \in T, NEW S, NEW i \in 0 .. Len(q)
    PROVE  /\ Behind(q, i, S) => Behind(Append(q, m), i, S)
           /\ m \in S => Behind(Append(q, m), i, S)
<1> DEFINE L == Len(q)
           p == Append(q, m)
<1>1. /\ L \in Nat /\ DOMAIN q = 1 .. L /\ DOMAIN p = 1 .. L + 1 /\ p[L + 1] = m
      /\ \A j \in 1 .. L : p[j] = q[j]
  BY LenProperties, AppendProperties
<1> HIDE DEF p
<1>2. \A j \in 1 .. L : j \in 1 .. L + 1
  BY <1>1
<1>3. L + 1 \in 1 .. L + 1 /\ L + 1 > i
  BY <1>1
<1> QED
  BY <1>1, <1>2, <1>3 DEF Behind, p

(* Taking the first keeps what is behind the others. *)
LEMMA TailBehind ==
    ASSUME NEW T, NEW q \in Seq(T), q # <<>>, NEW S, NEW i \in Nat
    PROVE  /\ Behind(q, i + 1, S) => Behind(Tail(q), i, S)
           /\ Behind(q, 0, S) /\ Head(q) \notin S => Behind(Tail(q), 0, S)
<1> DEFINE L == Len(q)
           p == Tail(q)
<1>1. /\ L \in Nat /\ L # 0 /\ DOMAIN q = 1 .. L /\ Head(q) = q[1]
      /\ p \in Seq(T) /\ Len(p) = L - 1 /\ \A j \in 1 .. L - 1 : p[j] = q[j + 1]
  BY LenProperties, EmptySeq, HeadTailProperties
<1>2. DOMAIN p = 1 .. L - 1
  BY <1>1, LenProperties
<1> HIDE DEF p, L
<1>3. ASSUME NEW j \in 1 .. L, j # 1, q[j] \in S
      PROVE  j - 1 \in 1 .. L - 1 /\ p[j - 1] \in S
  <2> DEFINE k == j - 1
  <2>1. k \in 1 .. L - 1 /\ k + 1 = j
    BY <1>1, <1>3
  <2> HIDE DEF k
  <2>2. p[k] = q[j]
    BY <1>1, <2>1
  <2> QED
    BY <1>3, <2>1, <2>2 DEF k
<1>4. ASSUME Behind(q, i + 1, S) PROVE Behind(p, i, S)
  <2>1. PICK j \in 1 .. L : j > i + 1 /\ q[j] \in S
    BY <1>1, <1>4 DEF Behind
  <2>2. j # 1 /\ j - 1 > i
    BY <2>1
  <2> QED
    BY <1>2, <1>3, <2>1, <2>2 DEF Behind
<1>5. ASSUME Behind(q, 0, S), Head(q) \notin S PROVE Behind(p, 0, S)
  <2>1. PICK j \in 1 .. L : q[j] \in S
    BY <1>1, <1>5 DEF Behind
  <2>2. j # 1
    BY <1>1, <1>5, <2>1
  <2>3. j - 1 > 0
    BY <2>1, <2>2
  <2> QED
    BY <1>2, <1>3, <2>1, <2>2, <2>3 DEF Behind
<1> QED
  BY <1>4, <1>5 DEF p

(* The positions of a queue that grows or shrinks at its ends. *)
LEMMA Positions ==
    ASSUME NEW T, NEW q \in Seq(T)
    PROVE  /\ Len(q) \in Nat /\ DOMAIN q = 1 .. Len(q)
           /\ \A i \in DOMAIN q : q[i] \in T /\ i \in Nat /\ i \in 0 .. Len(q) /\ i # 0
           /\ \A m \in T : /\ Append(q, m) \in Seq(T)
                           /\ \A i \in DOMAIN Append(q, m) :
                                 \/ i \in DOMAIN q /\ Append(q, m)[i] = q[i]
                                 \/ i = Len(q) + 1 /\ Append(q, m)[i] = m
           /\ q # <<>> =>
                 /\ Head(q) = q[1] /\ 1 \in DOMAIN q /\ Head(q) \in T
                 /\ Tail(q) \in Seq(T)
                 /\ \A i \in DOMAIN Tail(q) : /\ i \in Nat \ {0} /\ i + 1 \in DOMAIN q
                                              /\ Tail(q)[i] = q[i + 1]
<1>1. Len(q) \in Nat /\ DOMAIN q = 1 .. Len(q) /\ \A i \in DOMAIN q : q[i] \in T
  BY LenProperties, ElementOfSeq
<1>2. \A i \in DOMAIN q : i \in Nat /\ i \in 0 .. Len(q) /\ i # 0
  BY <1>1
<1>3. ASSUME NEW m \in T
      PROVE  /\ Append(q, m) \in Seq(T)
             /\ \A i \in DOMAIN Append(q, m) :
                   \/ i \in DOMAIN q /\ Append(q, m)[i] = q[i]
                   \/ i = Len(q) + 1 /\ Append(q, m)[i] = m
  <2>1. /\ Append(q, m) \in Seq(T) /\ Len(Append(q, m)) = Len(q) + 1
        /\ \A i \in 1 .. Len(q) : Append(q, m)[i] = q[i]
        /\ Append(q, m)[Len(q) + 1] = m
    BY AppendProperties
  <2>2. DOMAIN Append(q, m) = 1 .. Len(q) + 1
    BY <2>1, LenProperties
  <2> QED
    BY <1>1, <2>1, <2>2
<1>4. ASSUME q # <<>>
      PROVE  /\ Head(q) = q[1] /\ 1 \in DOMAIN q /\ Head(q) \in T /\ Tail(q) \in Seq(T)
             /\ \A i \in DOMAIN Tail(q) : /\ i \in Nat \ {0} /\ i + 1 \in DOMAIN q
                                          /\ Tail(q)[i] = q[i + 1]
  <2>1. /\ Head(q) \in T /\ Tail(q) \in Seq(T) /\ Len(Tail(q)) = Len(q) - 1
        /\ \A i \in 1 .. Len(Tail(q)) : Tail(q)[i] = q[i + 1]
    BY <1>4, HeadTailProperties
  <2>2. DOMAIN Tail(q) = 1 .. Len(q) - 1
    BY <2>1, LenProperties
  <2>3. Len(q) # 0 /\ Head(q) = q[1]
    BY <1>1, <1>4, EmptySeq
  <2> QED
    BY <1>1, <2>1, <2>2, <2>3
<1> QED
  BY <1>1, <1>2, <1>3, <1>4

(* What is in the queue and in the lines. *)
LEMMA WorkClients ==
    ASSUME Shapes
    PROVE  /\ \A i \in DOMAIN queue :
                 /\ i \in Nat /\ i # 0 /\ i \in 0 .. Len(queue) /\ queue[i] \in Work
                 /\ queue[i].op # "leave" => /\ queue[i].client \in Clients
                                             /\ queue[i] \in Sendable
           /\ \A d \in Docs : \A i \in DOMAIN wire[d] :
                 /\ i \in Nat /\ i # 0 /\ i \in 0 .. Len(wire[d]) /\ wire[d][i] \in Messages(d)
                 /\ wire[d][i].client \in Clients /\ DocOf[wire[d][i].client] = d
           /\ \A s \in sessions : s.client \in Clients
           /\ \A c \in Clients : DocOf[c] \in Docs
<1>1. queue \in Seq(Work) /\ \A d \in Docs : wire[d] \in Seq(Messages(d))
  BY DEF Shapes, QueueOK, LinesOK
<1>2. ASSUME NEW i \in DOMAIN queue
      PROVE  i \in Nat /\ i # 0 /\ i \in 0 .. Len(queue) /\ queue[i] \in Work
  BY <1>1, Positions
<1>3. \A m \in Work : m.op # "leave" => m \in Sendable /\ m.client \in Clients
  BY DEF Work, Sendable
<1>4. ASSUME NEW d \in Docs, NEW i \in DOMAIN wire[d]
      PROVE  i \in Nat /\ i # 0 /\ i \in 0 .. Len(wire[d]) /\ wire[d][i] \in Messages(d)
  BY <1>1, Positions
<1>5. \A d \in Docs : \A m \in Messages(d) : m.client \in Clients /\ DocOf[m.client] = d
  BY DEF Messages, Sendable
<1>6. \A s \in sessions : s.client \in Clients
  BY DEF Shapes, SessionsOK, SessionsFit, IsSession
<1>7. \A c \in Clients : DocOf[c] \in Docs
  BY DbAssumption
<1> QED
  BY <1>2, <1>3, <1>4, <1>5, <1>6, <1>7

(* What a client does itself leaves its end behind what it sent.  (When it *)
(* is terminated, the retirement is the last thing it sends.)              *)
LEMMA PageOwned ==
    ASSUME Shapes, Shapes', Owned, NEW c \in Clients, UNCHANGED browser,
           \A x \in Clients \ {c} : client'[x] = client[x],
           client[c].opens > 0 => client'[c].opens > 0,
           client'[c].opens = 0 => client'[c].state \in {"closed", "dead"},
           NEW sent,
           (sent = {} /\ wire' = wire) \/
              \E m \in Messages(DocOf[c]) :
                 sent = {m} /\ Send(c, m) /\ m.client = c /\ client'[c].opens > 0
                 /\ (m.op = "retire" \/ client'[c].state # "dead"),
           client'[c].state = "dead" =>
              \/ client[c].state = "dead" \/ client[c].opens = 0
              \/ \E m \in sent : m.op = "retire"
    PROVE  Owned'
<1> USE DbAssumption
<1>1. /\ \A d \in Docs : wire[d] \in Seq(Messages(d))
      /\ UNCHANGED <<queue, sessions, docs, failed>> /\ DocOf[c] \in Docs
      /\ \A x \in Clients : DocOf[x] \in Docs
  BY DEF Shapes, LinesOK, browser
<1>2. \A d \in Docs :
         \/ wire'[d] = wire[d] /\ (d = DocOf[c] => sent = {})
         \/ d = DocOf[c] /\ \E m \in Messages(d) :
               /\ sent = {m} /\ wire'[d] = Append(wire[d], m)
               /\ m.client = c /\ client'[c].opens > 0
               /\ (m.op = "retire" \/ client'[c].state # "dead")
  BY DEF Shapes, LinesOK, Send
<1>3. ASSUME NEW d \in Docs, NEW i \in 0 .. Len(wire[d]), NEW S, Behind(wire[d], i, S)
      PROVE  Behind(wire'[d], i, S)
  <2>1. CASE wire'[d] = wire[d]
    BY <1>3, <2>1
  <2>2. CASE \E m \in Messages(d) : wire'[d] = Append(wire[d], m)
    BY <1>1, <1>3, <2>2, AppendBehind
  <2> QED
    BY <1>2, <2>1, <2>2
<1>4. ASSUME NEW i \in 0 .. Len(wire[DocOf[c]]), NEW m \in sent, m.op = "retire"
      PROVE  Behind(wire'[DocOf[c]], i, Retirements(c))
  <2>1. /\ m \in Messages(DocOf[c]) /\ wire'[DocOf[c]] = Append(wire[DocOf[c]], m) /\ m.client = c
    BY <1>1, <1>2, <1>4
  <2>2. m \in Retirements(c)
    BY <1>4, <2>1 DEF Messages, Retirements
  <2> QED
    BY <1>1, <2>1, <2>2, AppendBehind
<1>5. ASSUME NEW x \in Clients, client[x].opens > 0
      PROVE  /\ client'[x].opens > 0
             /\ client'[x].state = "dead" => \/ client[x].state = "dead"
                                             \/ x = c /\ \E m \in sent : m.op = "retire"
  <2>1. CASE x = c
    <3>1. client[c].opens # 0
      BY <1>5, <2>1
    <3> QED
      BY <1>5, <2>1, <3>1
  <2>2. CASE x # c
    BY <1>5, <2>2
  <2> QED
    BY <2>1, <2>2
<1>6. ASSUME NEW x \in Clients, NEW i, EndsBehind(x, i)
      PROVE  EndsBehind(x, i)'
  <2>1. client[x].opens > 0
    BY <1>6 DEF EndsBehind
  <2>2. client'[x].opens > 0
    BY <1>5, <2>1
  <2>3. 0 \in 0 .. Len(wire[DocOf[x]])
    BY <1>1, LenProperties
  <2>4. ASSUME client'[x].state = "dead", ~Gone(DocOf[x])
        PROVE  Behind(queue, i, Retirements(x)) \/ Behind(wire'[DocOf[x]], 0, Retirements(x))
    <3>1. CASE client[x].state = "dead"
      BY <1>1, <1>3, <1>6, <2>3, <2>4, <3>1 DEF EndsBehind
    <3>2. CASE x = c /\ \E m \in sent : m.op = "retire"
      BY <1>4, <2>3, <3>2
    <3> QED
      BY <1>5, <2>1, <2>4, <3>1, <3>2
  <2> QED
    BY <1>1, <1>6, <2>2, <2>4 DEF EndsBehind, Gone, Departures, Retirements
<1>7. UnusedClients'
  BY DEF Owned, UnusedClients
<1>8. OwnedSessions'
  BY <1>1, <1>6, WorkClients DEF Owned, OwnedSessions
<1>9. OwnedWork'
  BY <1>1, <1>6, WorkClients DEF Owned, OwnedWork
<1>10. ASSUME NEW d \in Docs, NEW i \in DOMAIN wire'[d], wire'[d][i].op # "retire",
              NEW x, x = wire'[d][i].client
       PROVE  EndsInLine(d, i, x)'
  <2>1. \/ i \in DOMAIN wire[d] /\ wire'[d][i] = wire[d][i]
        \/ x = c /\ client'[c].opens > 0 /\ client'[c].state # "dead"
    <3>1. CASE wire'[d] = wire[d]
      BY <1>10, <3>1
    <3>2. CASE \E m \in Messages(d) : /\ sent = {m} /\ wire'[d] = Append(wire[d], m)
               /\ m.client = c /\ client'[c].opens > 0
               /\ (m.op = "retire" \/ client'[c].state # "dead")
      BY <1>1, <1>10, <3>2, Positions
    <3> QED
      BY <1>2, <3>1, <3>2
  <2>2. CASE i \in DOMAIN wire[d] /\ wire'[d][i] = wire[d][i]
    <3>1. x \in Clients /\ DocOf[x] = d /\ i \in 0 .. Len(wire[d])
      BY <1>10, <2>2, WorkClients
    <3>2. EndsInLine(d, i, x)
      BY <1>10, <2>2 DEF Owned, OwnedLines
    <3>3. client'[x].opens > 0
      BY <1>5, <3>1, <3>2 DEF EndsInLine
    <3>4. ASSUME client'[x].state = "dead", ~Gone(d)
          PROVE  Behind(wire'[d], i, Retirements(x))
      <4>1. CASE client[x].state = "dead"
        BY <1>3, <3>1, <3>2, <3>4, <4>1 DEF EndsInLine
      <4>2. CASE x = c /\ \E m \in sent : m.op = "retire"
        BY <1>4, <3>1, <4>2
      <4> QED
        BY <1>5, <3>1, <3>2, <3>4, <4>1, <4>2 DEF EndsInLine
    <3> QED
      BY <1>1, <3>3, <3>4 DEF Gone, EndsInLine, Retirements
  <2> QED
    BY <2>1, <2>2 DEF EndsInLine
<1>11. OwnedLines'
  BY <1>10 DEF OwnedLines
<1> QED
  BY <1>7, <1>8, <1>9, <1>11 DEF Owned

(* A client that used storage and acts sends nothing its end does not      *)
(* follow.                                                                 *)
LEMMA ActingOwned ==
    ASSUME Shapes, Shapes', Owned, NEW c \in Clients, UNCHANGED browser,
           \A x \in Clients \ {c} : client'[x] = client[x],
           client'[c].opens > 0, client'[c].state # "dead",
           wire' = wire \/ \E m \in Messages(DocOf[c]) : m.client = c /\ Send(c, m)
    PROVE  Owned'
<1>1. PICK sent : (sent = {} /\ wire' = wire) \/
              \E m \in Messages(DocOf[c]) : sent = {m} /\ m.client = c /\ Send(c, m)
  <2>1. CASE wire' = wire
    BY <2>1
  <2>2. CASE \E m \in Messages(DocOf[c]) : m.client = c /\ Send(c, m)
    <3>1. PICK m \in Messages(DocOf[c]) : m.client = c /\ Send(c, m)
      BY <2>2
    <3>2. \E s : s = {m}
      OBVIOUS
    <3> QED
      BY <3>1, <3>2
  <2> QED
    BY <2>1, <2>2
<1>2. (sent = {} /\ wire' = wire) \/
        \E m \in Messages(DocOf[c]) :
           sent = {m} /\ Send(c, m) /\ m.client = c /\ client'[c].opens > 0
           /\ (m.op = "retire" \/ client'[c].state # "dead")
  BY <1>1
<1>3. client'[c].opens # 0
  OBVIOUS
<1> QED
  BY <1>2, <1>3, PageOwned

(* The messages of a client are its own. *)
LEMMA OwnMessages ==
    ASSUME NEW c \in Clients, NEW op
    PROVE  /\ Message(c, op).client = c /\ Message(c, op).op = op
           /\ OfTransaction(c, op).client = c
           /\ \A mode, k : [OfTransaction(c, op) EXCEPT !.mode = mode, !.keys = k].client = c
           /\ \A v, w, b : [Message(c, op) EXCEPT !.previous = v, !.version = w, !.fresh = b].client = c
  BY DEF Message, OfTransaction

(* A step is sent by its client. *)
LEMMA StepSent ==
    ASSUME Shapes, NEW c \in Clients, NEW mode \in {"rw", "ro"}, SendStep(c, mode),
           client'[c].tx \in Nat
    PROVE  \E m \in Messages(DocOf[c]) : m.client = c /\ Send(c, m)
<1>1. PICK k \in SUBSET Keys :
        Send(c, [OfTransaction(c, "step") EXCEPT !.mode = mode, !.keys = k])
  BY DEF SendStep
<1> DEFINE m == [OfTransaction(c, "step") EXCEPT !.mode = mode, !.keys = k]
<1>2. m \in Messages(DocOf[c])
  BY MessageType DEF Ops
<1>3. m.client = c
  BY OwnMessages
<1> HIDE DEF m
<1> QED
  BY <1>1, <1>2, <1>3 DEF m

(* So are its other messages. *)
LEMMA MessageSent ==
    ASSUME Shapes, NEW c \in Clients, NEW op \in Ops \ {"retire"}, client'[c].tx \in Nat,
           Send(c, Message(c, op)) \/ Send(c, OfTransaction(c, op))
    PROVE  \E m \in Messages(DocOf[c]) : m.client = c /\ Send(c, m)
<1>1. Message(c, op) \in Messages(DocOf[c]) /\ OfTransaction(c, op) \in Messages(DocOf[c])
  BY MessageType
<1>2. Message(c, op).client = c /\ OfTransaction(c, op).client = c
  BY OwnMessages
<1> QED
  BY <1>1, <1>2

(* A request to open or delete a database keeps the order of retirements and requests. *)
LEMMA OpenOwned ==
    ASSUME Shapes, Shapes', Owned, NEW c \in Clients, Open(c) \/ DeleteDatabase(c)
    PROVE  Owned'
<1>1. PICK op \in {"open", "delete"}, st \in {"opening", "deleting"} :
        /\ Send(c, Message(c, op)) /\ UNCHANGED browser
        /\ client' = [client EXCEPT ![c].state = st, ![c].opens = @ + 1]
  BY DEF Open, DeleteDatabase
<1>2. client[c] \in ClientStates /\ client \in [Clients -> ClientStates]
      /\ client'[c] \in ClientStates
  BY DEF Shapes, ClientsOK
<1>3. client[c].opens \in Nat /\ client'[c].tx \in Nat
  BY <1>2, Bounds DEF ClientStates
<1>4. client'[c].opens = client[c].opens + 1 /\ client'[c].state = st
  BY <1>1, <1>2 DEF ClientStates
<1>5. client'[c].opens > 0 /\ client'[c].state # "dead"
  BY <1>3, <1>4
<1>6. \E m \in Messages(DocOf[c]) : m.client = c /\ Send(c, m)
  BY <1>1, <1>3, MessageSent DEF Ops
<1>7. \A x \in Clients \ {c} : client'[x] = client[x]
  BY <1>1, <1>2
<1> QED
  BY <1>1, <1>5, <1>6, <1>7, ActingOwned

(* Who has a connection or waits for an answer has used storage. *)
LEMMA Used ==
    ASSUME Shapes, Owned, NEW c \in Clients, client[c].state \notin {"closed", "dead"}
    PROVE  client[c] \in ClientStates /\ client[c].opens > 0
<1>1. client[c] \in ClientStates /\ client[c].opens # 0
  BY DEF Shapes, ClientsOK, Owned, UnusedClients
<1> QED
  BY <1>1 DEF ClientStates

(* Closing a connection keeps the order of retirements and requests. *)
LEMMA CloseOwned ==
    ASSUME Shapes, Shapes', Owned, NEW c \in Clients,
           CloseConnection(c) \/ BeginTransaction(c) \/ AbortTransaction(c)
    PROVE  Owned'
<1>1. client[c] \in ClientStates /\ client[c].opens > 0
  BY Used DEF CloseConnection, BeginTransaction, AbortTransaction
<1>2. client \in [Clients -> ClientStates] /\ client'[c] \in ClientStates
  BY DEF Shapes, ClientsOK
<1>3. client'[c].tx \in Nat
  BY <1>2, Bounds DEF ClientStates
<1>4. wire' = wire \/ \E m \in Messages(DocOf[c]) : m.client = c /\ Send(c, m)
  <2>1. CASE CloseConnection(c)
    BY <2>1 DEF CloseConnection
  <2>2. CASE BeginTransaction(c)
    <3>1. PICK mode \in {"rw", "ro"} : SendStep(c, mode)
      BY <2>2 DEF BeginTransaction
    <3> QED
      BY <1>3, <3>1, StepSent
  <2>3. CASE AbortTransaction(c)
    BY <1>3, <2>3, MessageSent DEF Ops, AbortTransaction
  <2> QED
    BY <2>1, <2>2, <2>3
<1>5. PICK st \in {"closed", "step", "ready"} :
        \/ client' = [client EXCEPT ![c].state = st]
        \/ \E n, mode : client' = [client EXCEPT ![c].state = st, ![c].tx = n,
                                                 ![c].mode = mode, ![c].steps = 1]
  <2>1. CASE BeginTransaction(c)
    BY <2>1 DEF BeginTransaction
  <2>2. CASE CloseConnection(c) \/ AbortTransaction(c)
    BY <2>2 DEF CloseConnection, AbortTransaction
  <2> QED
    BY <2>1, <2>2
<1>6. client'[c].opens = client[c].opens /\ client'[c].state = st
  <2>1. CASE client' = [client EXCEPT ![c].state = st]
    BY <1>1, <1>2, <2>1 DEF ClientStates
  <2>2. ASSUME NEW n, NEW mode, client' = [client EXCEPT ![c].state = st, ![c].tx = n,
                                                         ![c].mode = mode, ![c].steps = 1]
        PROVE  client'[c].opens = client[c].opens /\ client'[c].state = st
    <3>1. client'[c] = [client[c] EXCEPT !.state = st, !.tx = n, !.mode = mode, !.steps = 1]
      BY <1>2, <2>2
    <3> QED
      BY <1>1, <3>1 DEF ClientStates
  <2> QED
    BY <1>5, <2>1, <2>2
<1>7. \A x \in Clients \ {c} : client'[x] = client[x]
  BY <1>2, <1>5
<1>8. UNCHANGED browser
  BY DEF CloseConnection, BeginTransaction, AbortTransaction
<1>9. client'[c].opens > 0 /\ client'[c].state # "dead"
  BY <1>1, <1>6
<1> QED
  BY <1>4, <1>7, <1>8, <1>9, ActingOwned

(* The end of a worker keeps the order of retirements and requests. *)
LEMMA TerminateOwned ==
    ASSUME Shapes, Shapes', Owned, NEW c \in Clients, TerminateWorker(c)
    PROVE  Owned'
<1>1. /\ client[c] \in ClientStates /\ client \in [Clients -> ClientStates]
      /\ client[c].opens \in Nat /\ c \in Workers
  BY DEF Shapes, ClientsOK, ClientStates, TerminateWorker
<1>2. client' = [client EXCEPT ![c].state = "dead"] /\ UNCHANGED browser
  BY DEF TerminateWorker
<1>3. client'[c].opens = client[c].opens /\ client'[c].state = "dead"
      /\ \A x \in Clients \ {c} : client'[x] = client[x]
  BY <1>1, <1>2 DEF ClientStates
<1>4. CASE client[c].opens > 0 /\ Send(c, Message(c, "retire"))
  <2> DEFINE m == Message(c, "retire")
  <2>1. m \in Messages(DocOf[c]) /\ m.client = c /\ m.op = "retire"
    BY <1>1, MessageType, OwnMessages DEF Ops
  <2> HIDE DEF m
  <2>2. PICK sent : sent = {m}
    OBVIOUS
  <2>3. client'[c].opens > 0
    BY <1>3, <1>4
  <2>4. \E x \in Messages(DocOf[c]) :
           sent = {x} /\ Send(c, x) /\ x.client = c /\ client'[c].opens > 0
           /\ (x.op = "retire" \/ client'[c].state # "dead")
    BY <1>4, <2>1, <2>2, <2>3 DEF m
  <2>5. \E x \in sent : x.op = "retire"
    BY <2>1, <2>2
  <2> QED
    BY <1>2, <1>3, <2>3, <2>4, <2>5, PageOwned
<1>5. CASE client[c].opens = 0 /\ wire' = wire
  <2>1. PICK sent : sent = {}
    OBVIOUS
  <2> QED
    BY <1>2, <1>3, <1>5, <2>1, PageOwned
<1> QED
  BY <1>4, <1>5 DEF TerminateWorker

(* Nothing gains an owner to lose while sessions only end. *)
LEMMA OwnedFrame ==
    ASSUME Owned, sessions' \subseteq sessions, UNCHANGED <<client, docs, queue, wire, failed>>
    PROVE  Owned'
<1>1. \A c, i : EndsBehind(c, i)' <=> EndsBehind(c, i)
  BY DEF EndsBehind, Behind, Gone, Departures, Retirements
<1>2. \A d, i, c : EndsInLine(d, i, c)' <=> EndsInLine(d, i, c)
  BY DEF EndsInLine, Behind, Gone, Retirements
<1>3. UnusedClients'
  BY DEF Owned, UnusedClients
<1>4. OwnedSessions'
  BY <1>1 DEF Owned, OwnedSessions
<1>5. OwnedWork'
  BY <1>1 DEF Owned, OwnedWork
<1>6. OwnedLines'
  BY <1>2 DEF Owned, OwnedLines
<1> QED
  BY <1>3, <1>4, <1>5, <1>6 DEF Owned

(* The client a reply reaches waits for it and stays alive. *)
LEMMA ReplyReaches ==
    ASSUME Shapes, Shapes', NEW c \in Clients, NEW r, r.op \in Ops, Expects(c, r),
           Opened(c, r) \/ Stepped(c, r) \/ Settled(c, r)
    PROVE  /\ client[c].state \in {"opening", "upgrading", "deleting", "step", "commit"}
           /\ client[c] \in ClientStates
           /\ client'[c] \in ClientStates
           /\ client'[c].opens = client[c].opens /\ client'[c].tx = client[c].tx
           /\ client'[c].state # "dead"
           /\ \A x \in Clients \ {c} : client'[x] = client[x]
<1>1. client[c] \in ClientStates /\ client'[c] \in ClientStates
      /\ client \in [Clients -> ClientStates]
  BY DEF Shapes, ClientsOK
<1>2. client[c].state \in {"opening", "upgrading", "deleting", "step", "commit"}
  <2>1. client[c].state \in {"closed", "opening", "upgrading", "deleting", "ready",
                             "step", "commit", "dead"}
    BY <1>1 DEF ClientStates
  <2> QED
    BY <2>1 DEF Expects, Ops
<1>3. PICK st \in {"ready", "upgrading", "closed", "commit"} :
        \/ client' = [client EXCEPT ![c].state = st]
        \/ \E v : client' = [client EXCEPT ![c].state = st, ![c].conn = v]
        \/ client' = [client EXCEPT ![c].steps = @ + 1]
  <2>1. CASE Opened(c, r)
    BY <2>1 DEF Opened
  <2>2. CASE Stepped(c, r)
    BY <2>2 DEF Stepped
  <2>3. CASE Settled(c, r)
    BY <2>3 DEF Settled
  <2> QED
    BY <2>1, <2>2, <2>3
<1>4. /\ client'[c].opens = client[c].opens /\ client'[c].tx = client[c].tx
      /\ client'[c].state \in {st, client[c].state}
  <2>1. CASE client' = [client EXCEPT ![c].state = st]
    BY <1>1, <2>1 DEF ClientStates
  <2>2. ASSUME NEW v, client' = [client EXCEPT ![c].state = st, ![c].conn = v]
        PROVE  /\ client'[c].opens = client[c].opens /\ client'[c].tx = client[c].tx
               /\ client'[c].state = st
    BY <1>1, <2>2 DEF ClientStates
  <2>3. CASE client' = [client EXCEPT ![c].steps = @ + 1]
    BY <1>1, <2>3 DEF ClientStates
  <2> QED
    BY <1>3, <2>1, <2>2, <2>3
<1>5. \A x \in Clients \ {c} : client'[x] = client[x]
  BY <1>1, <1>3
<1> QED
  BY <1>1, <1>2, <1>4, <1>5

(* What a client sends when it has been answered is its own. *)
LEMMA ReplySends ==
    ASSUME Shapes, Shapes', NEW c \in Clients, NEW r, r.version \in 0 .. MaxVersion,
           Opened(c, r) \/ Stepped(c, r) \/ Settled(c, r)
    PROVE  wire' = wire \/ \E m \in Messages(DocOf[c]) : m.client = c /\ Send(c, m)
<1>1. client'[c].tx \in Nat /\ client[c].mode \in {"rw", "ro"}
  BY Bounds DEF Shapes, ClientsOK, ClientStates
<1>2. ASSUME NEW v \in 1 .. MaxVersion, NEW fresh \in BOOLEAN,
             Send(c, [Message(c, "upgrade") EXCEPT
                        !.previous = r.version, !.version = v,
                        !.fresh = fresh \/ r.version = 0])
      PROVE  \E m \in Messages(DocOf[c]) : m.client = c /\ Send(c, m)
  <2> DEFINE old == fresh \/ r.version = 0
  <2>1. old \in BOOLEAN /\ v \in 0 .. MaxVersion /\ r.version \in Nat
    BY Bounds
  <2> HIDE DEF old
  <2> DEFINE m == Message(c, "upgrade")
             n == [m EXCEPT !.previous = r.version, !.version = v, !.fresh = old]
  <2>2. m \in Messages(DocOf[c]) /\ m.op = "upgrade"
    BY MessageType DEF Ops, Message
  <2>3. n.client = c
    BY OwnMessages
  <2> HIDE DEF m
  <2>4. n \in Messages(DocOf[c])
    BY <2>1, <2>2 DEF Messages, Sendable
  <2>5. Send(c, n)
    BY <1>2 DEF old, m
  <2> HIDE DEF n
  <2> QED
    BY <2>3, <2>4, <2>5
<1>3. CASE Opened(c, r)
  BY <1>2, <1>3 DEF Opened
<1>4. CASE Stepped(c, r)
  BY <1>1, <1>4, StepSent, MessageSent DEF Stepped, Ops
<1>5. CASE Settled(c, r)
  BY <1>5 DEF Settled
<1> QED
  BY <1>3, <1>4, <1>5

(* A reply that reaches its client keeps the order of retirements and requests. *)
LEMMA ReceiveOwned ==
    ASSUME Shapes, Shapes', Owned, NEW d \in Docs, Receive(d)
    PROVE  Owned'
<1> DEFINE r == Head(replies[d])
           c == r.client
<1>1. replies[d] # <<>> /\ UNCHANGED browser
  BY DEF Receive
<1>2. c \in Clients /\ r.version \in 0 .. MaxVersion /\ r.op \in Ops
  BY <1>1, HeadReply DEF Answers
<1>3. CASE Expects(c, r) /\ (Opened(c, r) \/ Stepped(c, r) \/ Settled(c, r))
  <2> HIDE DEF r
  <2>1. /\ client[c].state \in {"opening", "upgrading", "deleting", "step", "commit"}
        /\ client'[c].opens = client[c].opens /\ client'[c].state # "dead"
        /\ \A x \in Clients \ {c} : client'[x] = client[x]
    BY <1>2, <1>3, ReplyReaches
  <2>2. wire' = wire \/ \E m \in Messages(DocOf[c]) : m.client = c /\ Send(c, m)
    BY <1>2, <1>3, ReplySends
  <2>3. client'[c].opens > 0
    BY <1>2, <2>1, Used
  <2> QED
    BY <1>1, <1>2, <2>1, <2>2, <2>3, ActingOwned
<1>4. CASE UNCHANGED <<client, wire>>
  BY <1>1, <1>4, OwnedFrame DEF browser
<1> QED
  BY <1>3, <1>4 DEF Receive

(* A queue that is appended to keeps what was behind a position. *)
LEMMA QueueGrows ==
    ASSUME Shapes, NEW w \in Work, queue' = queue \/ queue' = Append(queue, w),
           NEW i \in 0 .. Len(queue), NEW S
    PROVE  /\ Behind(queue, i, S) => Behind(queue', i, S)
           /\ queue' = Append(queue, w) /\ w \in S => Behind(queue', i, S)
<1>1. queue \in Seq(Work)
  BY DEF Shapes, QueueOK
<1> QED
  BY <1>1, AppendBehind

(* Its positions are the old ones, and perhaps the new last one. *)
LEMMA QueueGrown ==
    ASSUME Shapes, NEW w \in Work, queue' = queue \/ queue' = Append(queue, w),
           NEW i \in DOMAIN queue'
    PROVE  \/ i \in DOMAIN queue /\ i \in 0 .. Len(queue) /\ queue'[i] = queue[i]
           \/ queue' = Append(queue, w) /\ i = Len(queue) + 1 /\ queue'[i] = w
<1>1. queue \in Seq(Work)
  BY DEF Shapes, QueueOK
<1> QED
  BY <1>1, Positions

(* A document that goes keeps the order of retirements and requests. *)
LEMMA LeaveOwned ==
    ASSUME Shapes, Shapes', Owned, NEW d \in Docs, Leave(d)
    PROVE  Owned'
<1>1. PICK w \in Work : w = [op |-> "leave", doc |-> d]
  BY DEF Work
<1>2. /\ queue' = Append(queue, w) /\ w \in Departures(d) /\ w.op = "leave"
      /\ UNCHANGED <<client, wire, sessions, failed>>
  BY <1>1 DEF Leave, Departures
<1>3. \A e \in Docs : Gone(e)' <=> Gone(e) \/ e = d
  BY DEF Leave, Gone, Shapes, DocsOK
<1>4. ASSUME NEW x \in Clients, NEW i \in 0 .. Len(queue), EndsBehind(x, i)
      PROVE  EndsBehind(x, i)'
  <2>1. /\ Behind(queue, i, Departures(DocOf[x])) => Behind(queue', i, Departures(DocOf[x]))
        /\ Behind(queue, i, Retirements(x)) => Behind(queue', i, Retirements(x))
        /\ DocOf[x] = d => Behind(queue', i, Departures(DocOf[x]))
    BY <1>2, QueueGrows
  <2>2. DocOf[x] \in Docs
    BY WorkClients
  <2> QED
    BY <1>2, <1>3, <1>4, <2>1, <2>2 DEF EndsBehind, Departures, Retirements
<1>5. 0 \in 0 .. Len(queue)
  BY LenProperties DEF Shapes, QueueOK
<1>6. UnusedClients'
  BY <1>2 DEF Owned, UnusedClients
<1>7. OwnedSessions'
  BY <1>2, <1>4, <1>5, WorkClients DEF Owned, OwnedSessions
<1>8. OwnedWork'
  <2>1. ASSUME NEW i \in DOMAIN queue', queue'[i].op \notin {"retire", "leave"},
               NEW x, x = queue'[i].client
        PROVE  EndsBehind(x, i)'
    <3>1. i \in DOMAIN queue /\ i \in 0 .. Len(queue) /\ queue'[i] = queue[i]
      BY <1>2, <2>1, QueueGrown
    <3>2. x \in Clients /\ EndsBehind(x, i)
      BY <2>1, <3>1, WorkClients DEF Owned, OwnedWork
    <3> QED
      BY <1>4, <3>1, <3>2
  <2> QED
    BY <2>1 DEF OwnedWork
<1>9. OwnedLines'
  BY <1>2, <1>3 DEF Owned, OwnedLines, EndsInLine, Retirements
<1> QED
  BY <1>6, <1>7, <1>8, <1>9 DEF Owned

(* A request that reaches the worker's queue keeps the order of retirements and requests. *)
LEMMA SubmitOwned ==
    ASSUME Shapes, Shapes', Owned, NEW d \in Docs, Submit(d)
    PROVE  Owned'
<1>1. wire[d] \in Seq(Messages(d)) /\ wire[d] # <<>>
  BY DEF Shapes, LinesOK, Submit
<1>2. PICK m \in Messages(d) : m = Head(wire[d])
  BY <1>1, Positions
<1>3. /\ m \in Work /\ m.client \in Clients /\ m \in Sendable /\ DocOf[m.client] = d
      /\ m.op # "leave"
  BY DEF Messages, Work, Sendable, Ops
<1>4. /\ UNCHANGED <<client, sessions, failed>>
      /\ wire' = [wire EXCEPT ![d] = Tail(@)]
      /\ \/ Gone(d) /\ docs' = docs /\ queue' = queue
         \/ ~Gone(d) /\ docs' = docs /\ queue' = Append(queue, m)
         \/ ~Gone(d) /\ m.op # "retire" /\ queue' = queue /\ (docs' = docs \/ Overflows(d))
  BY <1>2 DEF Submit, Gone, Admits, Reject
<1>5. \A e \in Docs : Gone(e)' <=> Gone(e)
  BY <1>4 DEF Gone, Overflows, Shapes, DocsOK
<1>6. /\ wire'[d] = Tail(wire[d])
      /\ \A e \in Docs \ {d} : wire'[e] = wire[e]
  BY <1>4 DEF Shapes, LinesOK
<1>7. ASSUME NEW i \in Nat, NEW S, Behind(wire[d], i + 1, S)
      PROVE  Behind(wire'[d], i, S)
  BY <1>1, <1>6, <1>7, TailBehind
<1>8. ASSUME NEW x \in Clients, NEW i \in 0 .. Len(queue), ~Gone(DocOf[x]),
             Behind(queue, i, Retirements(x)) \/ Behind(wire[DocOf[x]], 0, Retirements(x))
      PROVE  Behind(queue', i, Retirements(x)) \/ Behind(wire'[DocOf[x]], 0, Retirements(x))
  <2>1. CASE Behind(queue, i, Retirements(x))
    BY <1>3, <1>4, <2>1, QueueGrows
  <2>2. CASE Behind(wire[DocOf[x]], 0, Retirements(x)) /\ DocOf[x] # d
    BY <1>6, <2>2, WorkClients
  <2>3. CASE Behind(wire[d], 0, Retirements(x)) /\ DocOf[x] = d
    <3>1. CASE m \in Retirements(x)
      <4>1. queue' = Append(queue, m)
        BY <1>4, <1>8, <2>3, <3>1 DEF Retirements
      <4> QED
        BY <1>3, <3>1, <4>1, QueueGrows
    <3>2. CASE m \notin Retirements(x)
      <4>1. Behind(Tail(wire[d]), 0, Retirements(x))
        BY <1>1, <1>2, <2>3, <3>2, TailBehind
      <4> QED
        BY <1>6, <2>3, <4>1
    <3> QED
      BY <3>1, <3>2
  <2> QED
    BY <1>8, <2>1, <2>2, <2>3
<1>9. ASSUME NEW x \in Clients, NEW i \in 0 .. Len(queue), EndsBehind(x, i)
      PROVE  EndsBehind(x, i)'
  <2>1. Behind(queue, i, Departures(DocOf[x])) => Behind(queue', i, Departures(DocOf[x]))
    BY <1>3, <1>4, QueueGrows
  <2>2. DocOf[x] \in Docs
    BY WorkClients
  <2> QED
    BY <1>4, <1>5, <1>8, <1>9, <2>1, <2>2 DEF EndsBehind, Departures, Retirements
<1>10. 0 \in 0 .. Len(queue)
  BY LenProperties DEF Shapes, QueueOK
<1>11. UnusedClients'
  BY <1>4 DEF Owned, UnusedClients
<1>12. OwnedSessions'
  BY <1>4, <1>9, <1>10, WorkClients DEF Owned, OwnedSessions
<1>13. ASSUME ~Gone(d), m.op # "retire", NEW i
       PROVE  EndsBehind(m.client, i)'
  <2>1. 1 \in DOMAIN wire[d] /\ wire[d][1] = m
    BY <1>1, <1>2, Positions
  <2>2. EndsInLine(d, 1, m.client)
    BY <1>13, <2>1 DEF Owned, OwnedLines
  <2>3. Behind(wire[d], 1, Retirements(m.client)) => Behind(wire'[d], 0, Retirements(m.client))
    <3>1. 0 \in Nat /\ 0 + 1 = 1
      OBVIOUS
    <3> QED
      BY <1>7, <3>1
  <2> QED
    BY <1>3, <1>4, <1>5, <1>13, <2>2, <2>3 DEF EndsBehind, EndsInLine, Retirements
<1>14. OwnedWork'
  <2>1. ASSUME NEW i \in DOMAIN queue', queue'[i].op \notin {"retire", "leave"},
               NEW x, x = queue'[i].client
        PROVE  EndsBehind(x, i)'
    <3>1. CASE i \in DOMAIN queue /\ i \in 0 .. Len(queue) /\ queue'[i] = queue[i]
      <4>1. x \in Clients /\ EndsBehind(x, i)
        BY <2>1, <3>1, WorkClients DEF Owned, OwnedWork
      <4> QED
        BY <1>9, <3>1, <4>1
    <3>2. CASE queue' = Append(queue, m) /\ i = Len(queue) + 1 /\ queue'[i] = m
      <4>1. ~Gone(d)
        <5>1. queue' # queue
          BY <2>1, <3>2, Positions DEF Shapes, QueueOK
        <5> QED
          BY <1>4, <5>1
      <4> QED
        BY <1>13, <2>1, <3>2, <4>1
    <3> QED
      BY <1>3, <1>4, <2>1, <3>1, <3>2, QueueGrown
  <2> QED
    BY <2>1 DEF OwnedWork
<1>15. ASSUME NEW e \in Docs, NEW i \in DOMAIN wire'[e], wire'[e][i].op # "retire",
              NEW x, x = wire'[e][i].client
       PROVE  EndsInLine(e, i, x)'
  <2>1. CASE e # d
    <3>1. wire'[e] = wire[e] /\ EndsInLine(e, i, x)
      BY <1>6, <1>15, <2>1 DEF Owned, OwnedLines
    <3> QED
      BY <1>4, <1>5, <3>1 DEF EndsInLine, Retirements
  <2>2. CASE e = d
    <3>1. i \in Nat /\ i + 1 \in DOMAIN wire[d] /\ wire'[d][i] = wire[d][i + 1]
      <4>1. i \in DOMAIN Tail(wire[d]) /\ wire'[d][i] = Tail(wire[d])[i]
        BY <1>6, <1>15, <2>2
      <4>2. i \in Nat \ {0} /\ i + 1 \in DOMAIN wire[d] /\ Tail(wire[d])[i] = wire[d][i + 1]
        BY <1>1, <4>1, Positions
      <4> QED
        BY <4>1, <4>2
    <3>2. EndsInLine(d, i + 1, x)
      BY <1>15, <2>2, <3>1 DEF Owned, OwnedLines
    <3>3. Behind(wire[d], i + 1, Retirements(x)) => Behind(wire'[d], i, Retirements(x))
      BY <1>7, <3>1
    <3> QED
      BY <1>4, <1>5, <2>2, <3>2, <3>3 DEF EndsInLine, Retirements
  <2> QED
    BY <2>1, <2>2
<1>16. OwnedLines'
  BY <1>15 DEF OwnedLines
<1> QED
  BY <1>11, <1>12, <1>14, <1>16 DEF Owned

(* What the worker does with the first piece of work, or without taking    *)
(* one: the sessions it keeps are not the ones the work ended, and a new   *)
(* one belongs to the client that asked.                                   *)
LEMMA WorkerOwned ==
    ASSUME Shapes, Owned, UNCHANGED <<client, wire>>,
           \A e \in Docs : Gone(e)' <=> Gone(e),
           queue' = queue \/ (queue # <<>> /\ queue' = Tail(queue)),
           \A s \in sessions' :
              /\ s.client \in Clients /\ DocOf[s.client] \notin failed'
              /\ \/ s \in sessions /\ queue' = queue
                 \/ /\ s \in sessions
                    /\ Head(queue) \notin Retirements(s.client) \cup Departures(DocOf[s.client])
                 \/ /\ queue # <<>> /\ Head(queue).op \notin {"retire", "leave"}
                    /\ s.client = Head(queue).client
    PROVE  Owned'
<1>1. queue \in Seq(Work)
  BY DEF Shapes, QueueOK
<1>2. ASSUME queue' # queue, NEW i \in Nat, NEW S
      PROVE  /\ Behind(queue, i + 1, S) => Behind(queue', i, S)
             /\ Behind(queue, 0, S) /\ Head(queue) \notin S => Behind(queue', 0, S)
  <2>1. queue # <<>> /\ queue' = Tail(queue)
    BY <1>2
  <2> QED
    BY <1>1, <2>1, TailBehind
<1>3. ASSUME queue' # queue, NEW x \in Clients, NEW i \in Nat, EndsBehind(x, i + 1)
      PROVE  EndsBehind(x, i)'
  <2>1. DocOf[x] \in Docs
    BY WorkClients
  <2>2. /\ Behind(queue, i + 1, Departures(DocOf[x])) => Behind(queue', i, Departures(DocOf[x]))
        /\ Behind(queue, i + 1, Retirements(x)) => Behind(queue', i, Retirements(x))
    BY <1>2, <1>3
  <2> QED
    BY <1>3, <2>1, <2>2 DEF EndsBehind, Departures, Retirements
<1>4. ASSUME queue' # queue, NEW x \in Clients, EndsBehind(x, 0),
             Head(queue) \notin Retirements(x) \cup Departures(DocOf[x])
      PROVE  EndsBehind(x, 0)'
  <2>1. DocOf[x] \in Docs /\ 0 \in Nat
    BY WorkClients
  <2>2. /\ Behind(queue, 0, Departures(DocOf[x])) => Behind(queue', 0, Departures(DocOf[x]))
        /\ Behind(queue, 0, Retirements(x)) => Behind(queue', 0, Retirements(x))
    BY <1>2, <1>4, <2>1
  <2> QED
    BY <1>4, <2>1, <2>2 DEF EndsBehind, Departures, Retirements
<1>5. ASSUME queue' = queue, NEW x \in Clients, NEW i, EndsBehind(x, i)
      PROVE  EndsBehind(x, i)'
  <2>1. DocOf[x] \in Docs
    BY WorkClients
  <2> QED
    BY <1>5, <2>1 DEF EndsBehind, Departures, Retirements
<1>6. UnusedClients'
  BY DEF Owned, UnusedClients
<1>7. ASSUME NEW s \in sessions'
      PROVE  EndsBehind(s.client, 0)' /\ DocOf[s.client] \notin failed'
  <2>1. s.client \in Clients /\ DocOf[s.client] \notin failed'
    BY <1>7
  <2>2. CASE s \in sessions
    <3>1. EndsBehind(s.client, 0)
      BY <2>2 DEF Owned, OwnedSessions
    <3>2. CASE queue' = queue
      BY <1>5, <2>1, <3>1, <3>2
    <3>3. CASE queue' # queue
           /\ Head(queue) \notin Retirements(s.client) \cup Departures(DocOf[s.client])
      BY <1>4, <2>1, <3>1, <3>3
    <3>4. CASE queue' # queue /\ Head(queue).op \notin {"retire", "leave"}
      BY <1>4, <2>1, <3>1, <3>4 DEF Retirements, Departures
    <3> QED
      BY <1>7, <3>2, <3>3, <3>4
  <2>3. CASE /\ queue # <<>> /\ Head(queue).op \notin {"retire", "leave"}
             /\ s.client = Head(queue).client
    <3>1. 1 \in DOMAIN queue /\ queue[1] = Head(queue)
      BY <1>1, <2>3, Positions
    <3>2. EndsBehind(s.client, 1)
      BY <2>3, <3>1 DEF Owned, OwnedWork
    <3>3. 0 \in Nat /\ 0 + 1 = 1
      OBVIOUS
    <3>4. CASE queue' # queue
      BY <1>3, <2>1, <3>2, <3>3, <3>4
    <3>5. CASE queue' = queue
      <4>1. \A S : Behind(queue, 1, S) => Behind(queue, 0, S)
        BY <1>1, LenProperties DEF Behind
      <4>2. EndsBehind(s.client, 0)
        BY <3>2, <4>1 DEF EndsBehind
      <4> QED
        BY <1>5, <2>1, <3>5, <4>2
    <3> QED
      BY <3>4, <3>5
  <2> QED
    BY <1>7, <2>1, <2>2, <2>3
<1>8. OwnedSessions'
  BY <1>7 DEF OwnedSessions
<1>9. ASSUME NEW i \in DOMAIN queue', queue'[i].op \notin {"retire", "leave"},
             NEW x, x = queue'[i].client
      PROVE  EndsBehind(x, i)'
  <2>1. CASE queue' = queue
    <3>1. x \in Clients /\ EndsBehind(x, i)
      BY <1>9, <2>1, WorkClients DEF Owned, OwnedWork
    <3> QED
      BY <1>5, <2>1, <3>1
  <2>2. CASE queue' # queue
    <3>1. i \in DOMAIN Tail(queue) /\ queue'[i] = Tail(queue)[i] /\ queue # <<>>
      BY <1>9, <2>2
    <3>2. i \in Nat \ {0} /\ i + 1 \in DOMAIN queue /\ Tail(queue)[i] = queue[i + 1]
      BY <1>1, <3>1, Positions
    <3>3. x \in Clients /\ EndsBehind(x, i + 1)
      BY <1>9, <3>1, <3>2, WorkClients DEF Owned, OwnedWork
    <3> QED
      BY <1>3, <2>2, <3>2, <3>3
  <2> QED
    BY <2>1, <2>2
<1>10. OwnedWork'
  BY <1>9 DEF OwnedWork
<1>11. OwnedLines'
  BY DEF Owned, OwnedLines, EndsInLine, Retirements
<1> QED
  BY <1>6, <1>8, <1>10, <1>11 DEF Owned

(* A retirement keeps the order of retirements and requests. *)
LEMMA RetireOwned ==
    ASSUME Shapes, Owned, Retire
    PROVE  Owned'
<1> DEFINE m == Head(queue)
<1>1. /\ queue # <<>> /\ queue' = Tail(queue) /\ UNCHANGED <<client, wire, docs>>
      /\ \/ m.op = "retire" /\ RetireClient(m)
         \/ m.op = "leave" /\ RetireDocument(m)
  BY DEF Retire
<1>2. sessions' \subseteq sessions /\ failed' \subseteq failed
  BY <1>1 DEF RetireClient, RetireDocument
<1>3. ASSUME NEW s \in sessions'
      PROVE  m \notin Retirements(s.client) \cup Departures(DocOf[s.client])
  <2>1. CASE m.op = "retire" /\ s.client # m.client
    BY <2>1 DEF Retirements, Departures
  <2>2. CASE m.op = "leave" /\ DocOf[s.client] # m.doc
    BY <2>2 DEF Retirements, Departures
  <2> QED
    BY <1>1, <1>3, <2>1, <2>2 DEF RetireClient, RetireDocument, OfDoc
<1>4. \A s \in sessions' : /\ s.client \in Clients /\ DocOf[s.client] \notin failed'
                           /\ s \in sessions
  BY <1>2, WorkClients DEF Owned, OwnedSessions
<1>5. \A e \in Docs : Gone(e)' <=> Gone(e)
  BY <1>1 DEF Gone
<1> QED
  BY <1>1, <1>3, <1>4, <1>5, WorkerOwned

(* A reply, or its loss, leaves sessions of documents that lost none.      *)
LEMMA ReplyOwned ==
    ASSUME Shapes, Owned, UNCHANGED <<client, wire>>,
           NEW m, m.client \in Clients, NEW r, NEW kept, Reply(m, r, kept),
           \/ queue' = queue /\ kept \subseteq sessions
           \/ /\ queue # <<>> /\ queue' = Tail(queue) /\ m = Head(queue)
              /\ m.op \notin {"retire", "leave"}
              /\ \A s \in kept : s \in sessions \/ (s.client = m.client /\ DocOf[m.client] \notin failed)
    PROVE  Owned'
<1> DEFINE d == DocOf[m.client]
<1>1. d \in Docs
  BY WorkClients
<1>2. \A e \in Docs : Gone(e)' <=> Gone(e)
  BY <1>1 DEF Reply, Overflows, Gone, Shapes, DocsOK
<1>3. ASSUME NEW s \in sessions'
      PROVE  s.client \in Clients /\ DocOf[s.client] \notin failed'
  <2>1. s \in kept /\ (failed' = failed \/ (failed' = failed \cup {d} /\ DocOf[s.client] # d))
    BY <1>3 DEF Reply
  <2>2. s \in sessions \/ (s.client = m.client /\ d \notin failed)
    BY <2>1
  <2>3. s \in sessions => s.client \in Clients /\ DocOf[s.client] \notin failed
    BY WorkClients DEF Owned, OwnedSessions
  <2> QED
    BY <2>1, <2>2, <2>3
<1>4. ASSUME NEW s \in sessions'
      PROVE  \/ s \in sessions /\ queue' = queue
             \/ /\ s \in sessions
                /\ Head(queue) \notin Retirements(s.client) \cup Departures(DocOf[s.client])
             \/ /\ queue # <<>> /\ Head(queue).op \notin {"retire", "leave"}
                /\ s.client = Head(queue).client
  <2>1. s \in kept
    BY <1>4 DEF Reply
  <2>2. CASE queue' = queue /\ kept \subseteq sessions
    BY <2>1, <2>2
  <2>3. CASE /\ queue # <<>> /\ m = Head(queue) /\ m.op \notin {"retire", "leave"}
             /\ \A x \in kept : x \in sessions \/ (x.client = m.client /\ DocOf[m.client] \notin failed)
    BY <2>1, <2>3 DEF Retirements, Departures
  <2> QED
    BY <2>2, <2>3
<1>5. queue' = queue \/ (queue # <<>> /\ queue' = Tail(queue))
  OBVIOUS
<1> QED
  BY <1>2, <1>3, <1>4, <1>5, WorkerOwned

(* A request the worker executes keeps the order of retirements and requests. *)
LEMMA ExecuteOwned ==
    ASSUME Shapes, Owned, Execute
    PROVE  Owned'
<1> DEFINE m == Head(queue)
<1>1. /\ queue # <<>> /\ queue' = Tail(queue) /\ m.op \notin {"retire", "leave"}
      /\ UNCHANGED <<client, wire>>
  BY DEF Execute, CommitsNothing
<1>2. m.client \in Clients /\ m.tx \in Nat
  BY <1>1, HeadWork
<1>3. ASSUME NEW r, NEW kept, Reply(m, r, kept),
             \A s \in kept : s \in sessions \/ (s.client = m.client /\ DocOf[m.client] \notin failed)
      PROVE  Owned'
  <2> HIDE DEF m
  <2> QED
    BY <1>1, <1>2, <1>3, ReplyOwned DEF m
<1>4. ASSUME NEW r, Reply(m, r, sessions) \/ Reply(m, r, sessions \ Session(m))
      PROVE  Owned'
  BY <1>3, <1>4
<1>5. CASE ExecuteStep(m) /\ ~Refused(m)
  <2>1. CASE \E r : Reply(m, r, sessions) \/ Reply(m, r, sessions \ Session(m))
    BY <1>4, <2>1
  <2>2. CASE /\ Session(m) # {} \/ CanBegin(m)
             /\ \E r, data : Reply(m, r, (sessions \ Session(m))
                                       \cup {[Staged(m) EXCEPT !.data = data]})
    <3>1. PICK r, data : Reply(m, r, (sessions \ Session(m))
                                        \cup {[Staged(m) EXCEPT !.data = data]})
      BY <2>2
    <3> DEFINE t == [Staged(m) EXCEPT !.data = data]
    <3>2. t.client = m.client
      <4> HIDE DEF m
      <4> QED
        BY <1>2, <2>2, StagedFit
    <3> HIDE DEF t
    <3>3. \A s \in (sessions \ Session(m)) \cup {t} : s \in sessions \/ s = t
      OBVIOUS
    <3>4. DocOf[m.client] \notin failed
      BY <1>5 DEF Refused
    <3>5. Reply(m, r, (sessions \ Session(m)) \cup {t})
      BY <3>1 DEF t
    <3> QED
      BY <1>3, <3>2, <3>3, <3>4, <3>5
  <2> HIDE DEF m
  <2> QED
    BY <1>5, <2>1, <2>2 DEF ExecuteStep
<1>6. CASE \/ Reply(m, Error(m), sessions)
           \/ Reply(m, [Answer(m) EXCEPT !.version = db.version], sessions)
           \/ Reply(m, Answer(m), sessions \ Session(m))
  BY <1>4, <1>6
<1> QED
  BY <1>5, <1>6 DEF Execute

(* The start of a file update keeps the order of retirements and requests. *)
LEMMA BeginUpdateOwned ==
    ASSUME Shapes, Owned, BeginUpdate
    PROVE  Owned'
<1> DEFINE m == Head(queue)
           kept == IF m.op = "commit" THEN sessions \ Session(m) ELSE sessions
<1>1. /\ queue # <<>> /\ queue' = Tail(queue) /\ m.op \notin {"retire", "leave"}
      /\ UNCHANGED <<client, wire>>
  BY DEF BeginUpdate, Updates
<1>2. m.client \in Clients
  BY <1>1, HeadWork
<1>3. kept \subseteq sessions
  OBVIOUS
<1>4. CASE Reply(m, Error(m), kept)
  <2> HIDE DEF m, kept
  <2> QED
    BY <1>1, <1>2, <1>3, <1>4, ReplyOwned DEF m
<1>5. CASE sessions' = kept /\ UNCHANGED <<failed, docs>>
  <2>1. \A s \in sessions' :
           /\ s.client \in Clients /\ DocOf[s.client] \notin failed' /\ s \in sessions
           /\ m \notin Retirements(s.client) \cup Departures(DocOf[s.client])
    BY <1>1, <1>3, <1>5, WorkClients DEF Owned, OwnedSessions, Retirements, Departures
  <2>2. \A e \in Docs : Gone(e)' <=> Gone(e)
    BY <1>5 DEF Gone
  <2> QED
    BY <1>1, <2>1, <2>2, WorkerOwned
<1> QED
  BY <1>4, <1>5 DEF BeginUpdate

(* An update of the file ends, written or not. *)
LEMMA EndUpdateOwned ==
    ASSUME Shapes, Owned, FinishUpdate \/ FailUpdate
    PROVE  Owned'
<1>1. PICK r : Reply(job.request, r, sessions)
  BY DEF FinishUpdate, FailUpdate
<1>2. UNCHANGED <<client, wire, queue>> /\ job # Idle
  BY DEF FinishUpdate, FailUpdate, Publish, Idle
<1>3. job.request.client \in Clients
  BY <1>2 DEF Shapes, JobOK, Sendable
<1>4. sessions \subseteq sessions
  OBVIOUS
<1> QED
  BY <1>1, <1>2, <1>3, <1>4, ReplyOwned

(* A new start of the browser keeps the order of retirements and requests. *)
LEMMA RestartOwned ==
    ASSUME Shapes, Restart
    PROVE  Owned'
<1>1. /\ sessions' = {} /\ queue' = <<>> /\ \A d \in Docs : wire'[d] = <<>>
      /\ \A c \in Clients : client'[c].state = "closed"
  <2>1. client \in [Clients -> ClientStates]
    BY DEF Shapes, ClientsOK
  <2> QED
    BY <2>1 DEF Restart, ClientStates
<1>2. DOMAIN <<>> = {}
  OBVIOUS
<1>3. UnusedClients' /\ OwnedSessions'
  BY <1>1 DEF UnusedClients, OwnedSessions
<1>4. OwnedWork' /\ OwnedLines'
  BY <1>1, <1>2 DEF OwnedWork, OwnedLines
<1> QED
  BY <1>3, <1>4 DEF Owned

(* Every step keeps the order of retirements and requests. *)
LEMMA NextOwned ==
    Shapes /\ Owned /\ [Next]_vars => Owned'
<1> SUFFICES ASSUME Shapes, Owned, [Next]_vars PROVE Owned'
  OBVIOUS
<1>1. Shapes'
  BY NextShapes
<1>2. ASSUME NEW c \in Clients, Page(c) PROVE Owned'
  BY <1>1, <1>2, OpenOwned, CloseOwned, TerminateOwned DEF Page
<1>3. ASSUME NEW d \in Docs, Shell(d) PROVE Owned'
  BY <1>1, <1>3, ReceiveOwned, SubmitOwned, LeaveOwned DEF Shell
<1>4. CASE Expire \/ WriteFile
  <2>1. sessions' \subseteq sessions /\ UNCHANGED <<client, docs, queue, wire, failed>>
    BY <1>4 DEF Expire, WriteFile
  <2> QED
    BY <2>1, OwnedFrame
<1>5. CASE UNCHANGED vars
  <2>1. sessions' \subseteq sessions /\ UNCHANGED <<client, docs, queue, wire, failed>>
    BY <1>5 DEF vars
  <2> QED
    BY <2>1, OwnedFrame
<1> QED
  BY <1>2, <1>3, <1>4, <1>5, RetireOwned, ExecuteOwned, BeginUpdateOwned, EndUpdateOwned,
     RestartOwned DEF Next, Worker

(* At the start nothing is retired. *)
LEMMA InitOwned ==
    Init => Owned
<1> SUFFICES ASSUME Init PROVE Owned
  OBVIOUS
<1>1. /\ sessions = {} /\ queue = <<>> /\ \A d \in Docs : wire[d] = <<>>
      /\ \A c \in Clients : client[c].state = "closed"
  BY DEF Init
<1>2. DOMAIN <<>> = {}
  OBVIOUS
<1>3. UnusedClients /\ OwnedSessions
  BY <1>1 DEF UnusedClients, OwnedSessions
<1>4. OwnedWork /\ OwnedLines
  BY <1>1, <1>2 DEF OwnedWork, OwnedLines
<1> QED
  BY <1>3, <1>4 DEF Owned

(* The types and the capacities are part of the shapes. *)
LEMMA ShapesTyped ==
    Shapes => TypeOK
<1> SUFFICES ASSUME Shapes PROVE TypeOK
  OBVIOUS
<1>1. /\ db.version \in 0 .. MaxVersion /\ db.stamp \in 0 .. stamps /\ stamps \in Nat
      /\ told \in 0 .. db.stamp
  BY DEF Shapes, DbOK
<1>2. told \in 0 .. stamps
  BY <1>1
<1>3. DOMAIN disk = {"main", "bak"}
  BY DEF Shapes, DiskOK
<1>4. /\ Cardinality(sessions) <= SessionCapacity /\ Requests(queue) <= QueueCapacity
      /\ failed \subseteq Docs /\ retired \subseteq Workers
      /\ \A d \in Docs : Len(replies[d]) <= MaxReplies
  BY DEF Shapes, SessionsOK, SessionsFit, QueueOK, DocsOK, RepliesOK, RepliesFit
<1>5. \A c \in Clients : client[c].tx \in 0 .. MaxTx /\ did[c] \subseteq Keys
  BY DEF Shapes, ClientsOK, ClientStates
<1> QED
  BY <1>1, <1>2, <1>3, <1>4, <1>5 DEF TypeOK

(* A staged transaction never outlives its page, its worker or its         *)
(* document: whoever can no longer end it has its end on the way, behind   *)
(* every request that could bring it back.  The session table, the queue   *)
(* and the reply lanes keep their capacities.                              *)
THEOREM SessionsSound ==
    Spec => []SessionInvariant
<1>1. ASSUME Shapes, Owned, NEW s \in sessions
      PROVE  LET d == DocOf[s.client]
             IN  /\ docs[d] = "retired" =>
                      \E i \in DOMAIN queue : queue[i].op = "leave" /\ queue[i].doc = d
                 /\ client[s.client].state = "dead" /\ docs[d] # "retired" =>
                      \E q \in {queue, wire[d]} : \E i \in DOMAIN q :
                         q[i].op = "retire" /\ q[i].client = s.client
                 /\ d \notin failed
  <2> DEFINE d == DocOf[s.client]
  <2>1. EndsBehind(s.client, 0) /\ d \notin failed
    BY <1>1 DEF Owned, OwnedSessions
  <2>2. Gone(d) => \E i \in DOMAIN queue : queue[i].op = "leave" /\ queue[i].doc = d
    BY <2>1 DEF EndsBehind, Behind, Departures
  <2>3. ASSUME NEW q, Behind(q, 0, Retirements(s.client))
        PROVE  \E i \in DOMAIN q : q[i].op = "retire" /\ q[i].client = s.client
    BY <2>3 DEF Behind, Retirements
  <2>4. client[s.client].state = "dead" /\ ~Gone(d) =>
           \E q \in {queue, wire[d]} : \E i \in DOMAIN q :
              q[i].op = "retire" /\ q[i].client = s.client
    BY <2>1, <2>3 DEF EndsBehind
  <2> QED
    BY <2>1, <2>2, <2>4 DEF Gone
<1>2. Shapes /\ Owned => SessionInvariant
  BY <1>1, ShapesTyped DEF SessionInvariant, SessionsAreOwned
<1> QED
  BY <1>2, InitOwned, ShapesHold, NextOwned, PTL DEF Spec

(***************************************************************************)
(* In which order the requests of a transaction travel, and what of it is  *)
(* staged meanwhile.                                                       *)
(***************************************************************************)

Elements(q) == {q[i] : i \in DOMAIN q}

(* What will be worked on: the line of a document that is gone leads       *)
(* nowhere.                                                                *)
Pending == Elements(queue) \cup UNION {Elements(wire[d]) : d \in {e \in Docs : ~Gone(e)}}

(* x will be worked on before y. *)
Precedes(x, y) ==
    \/ \E i, j \in DOMAIN queue : i < j /\ x = queue[i] /\ y = queue[j]
    \/ \E d \in Docs : ~Gone(d) /\ \E i, j \in DOMAIN wire[d] :
          i < j /\ x = wire[d][i] /\ y = wire[d][j]
    \/ \E d \in Docs : ~Gone(d) /\ \E i \in DOMAIN queue, j \in DOMAIN wire[d] :
          x = queue[i] /\ y = wire[d][j]

(* The replies on their way; two of them in one lane. *)
Lane == UNION {Elements(replies[d]) : d \in Docs}

Twofold(x, y) == \E d \in Docs : \E i, j \in DOMAIN replies[d] :
                    i # j /\ x = replies[d][i] /\ y = replies[d][j]

(* The requests of a client's current transaction. *)
Current(m) == m.op \in {"step", "commit", "abort"} /\ m.tx = client[m.client].tx

(* Only an abort is sent while a step is under way. *)
InOrder(x, y) ==
    Current(x) /\ Current(y) /\ x.client = y.client => x.op = "step" /\ y.op = "abort"

(* The reply that the client of a transaction's step waits for. *)
AwaitsStep(r) == /\ r.op = "step" /\ r.tx = client[r.client].tx
                 /\ client[r.client].state = "step"

(* Transactions are numbered by their client. *)
Numbered ==
    /\ \A m \in Pending : m.op # "leave" => m.tx <= client[m.client].tx
    /\ \A r \in Lane : r.op = "step" => r.tx <= client[r.client].tx

NumberedSessions == \A s \in sessions : s.tx <= client[s.client].tx

OneByOne == \A x, y \in Pending : Precedes(x, y) => InOrder(x, y)

(* A client waits for one step, which is on its way or answered. *)
Attentive ==
    /\ \A m \in Pending : Current(m) /\ client[m.client].state = "step" =>
          /\ m.op = "step" /\ m.version = client[m.client].conn
          /\ \A r \in Lane : r.client = m.client => ~AwaitsStep(r)
    /\ \A x, y \in Lane :
          Twofold(x, y) /\ AwaitsStep(x) /\ AwaitsStep(y) => x.client # y.client

(* The version a transaction saw is the one of its connection. *)
OneVersion ==
    \A s \in sessions : s.tx = client[s.client].tx =>
       /\ client[s.client].state = "step" => s.version = client[s.client].conn
       /\ \A m \in Pending : /\ Current(m) /\ m.op = "step" /\ m.client = s.client
                             => m.version = s.version

(* Nothing of a document follows its departure. *)
LastWords ==
    /\ \A d \in Docs : Gone(d) => replies[d] = <<>>
    /\ \A x \in Pending : x.op = "leave" => Gone(x.doc)
    /\ \A x, y \in Pending :
          Precedes(x, y) /\ x.op = "leave" /\ y.op # "leave" => DocOf[y.client] # x.doc

(* What a transaction wrote is staged in its session, or no step of it     *)
(* will be executed any more.                                              *)
Keeps(c, tx, version) ==
    \/ did[c] = {} \/ DocOf[c] \in failed \/ c \in retired
    \/ \E s \in sessions : s.client = c /\ s.tx = tx /\ s.version = version

Complete ==
    \A s \in sessions : s.tx = client[s.client].tx =>
       \A k \in did[s.client] : s.data[k] = <<s.client, s.tx>>

Kept ==
    /\ \A m \in Pending : Current(m) /\ m.op = "step" => Keeps(m.client, m.tx, m.version)
    /\ \A r \in Lane : AwaitsStep(r) /\ r.ok => Keeps(r.client, r.tx, client[r.client].conn)

Orderly == /\ Numbered /\ OneByOne /\ Attentive /\ LastWords
           /\ NumberedSessions /\ OneVersion /\ Complete /\ Kept /\ CommitIsWhole

(* What is pending is work, and in the line of its client's document. *)
LEMMA PendingWork ==
    ASSUME Shapes
    PROVE  /\ \A m \in Pending : /\ m \in Work
                                 /\ m.op # "leave" => m \in Sendable /\ m.client \in Clients
           /\ \A i \in DOMAIN queue : queue[i] \in Pending
           /\ \A d \in Docs : ~Gone(d) => \A i \in DOMAIN wire[d] : wire[d][i] \in Pending
           /\ \A d \in Docs : \A i \in DOMAIN wire[d] :
                 /\ wire[d][i].op # "leave" /\ wire[d][i] \in Work
                 /\ wire[d][i].client \in Clients /\ DocOf[wire[d][i].client] = d
<1>1. \A d \in Docs : \A m \in Messages(d) :
         m \in Sendable /\ m \in Work /\ m.op # "leave" /\ m.client \in Clients /\ DocOf[m.client] = d
  BY DEF Messages, Work, Sendable, Ops
<1>2. \A d \in Docs : \A i \in DOMAIN wire[d] : wire[d][i] \in Messages(d)
  BY WorkClients
<1>3. \A m \in Pending : m \in Work /\ (m.op # "leave" => m \in Sendable /\ m.client \in Clients)
  <2> SUFFICES ASSUME NEW m \in Pending
               PROVE  m \in Work /\ (m.op # "leave" => m \in Sendable /\ m.client \in Clients)
    OBVIOUS
  <2>1. CASE m \in Elements(queue)
    BY <2>1, WorkClients DEF Elements
  <2>2. CASE \E d \in Docs : m \in Elements(wire[d])
    BY <1>1, <1>2, <2>2 DEF Elements
  <2> QED
    BY <2>1, <2>2 DEF Pending
<1>4. /\ \A i \in DOMAIN queue : queue[i] \in Pending
      /\ \A d \in Docs : ~Gone(d) => \A i \in DOMAIN wire[d] : wire[d][i] \in Pending
  BY DEF Pending, Elements
<1> QED
  BY <1>1, <1>2, <1>3, <1>4

(* The replies of a lane are for clients of its document. *)
LEMMA LaneReplies ==
    ASSUME Shapes
    PROVE  /\ \A r \in Lane : /\ r.client \in Clients /\ r.op \in Ops /\ r.tx \in Nat
                              /\ r \in Elements(replies[DocOf[r.client]])
           /\ \A d \in Docs : \A i \in DOMAIN replies[d] :
                 /\ replies[d][i] \in Lane /\ replies[d][i] \in Answers(d, db.stamp)
                 /\ replies[d][i].client \in Clients /\ DocOf[replies[d][i].client] = d
<1>1. \A d \in Docs : \A i \in DOMAIN replies[d] : replies[d][i] \in Answers(d, db.stamp)
  BY Positions DEF Shapes, RepliesOK, RepliesFit
<1>2. \A d \in Docs : \A r \in Answers(d, db.stamp) :
         r.client \in Clients /\ DocOf[r.client] = d /\ r.op \in Ops /\ r.tx \in Nat
  BY DEF Answers
<1>3. \A r \in Lane : \E d \in Docs : r \in Elements(replies[d])
  BY DEF Lane
<1>4. \A d \in Docs : \A r \in Elements(replies[d]) : r \in Answers(d, db.stamp)
  BY <1>1 DEF Elements
<1>5. \A d \in Docs : \A i \in DOMAIN replies[d] : replies[d][i] \in Lane
  BY DEF Lane, Elements
<1> QED
  BY <1>1, <1>2, <1>3, <1>4, <1>5

(* Nothing moves while the queue and the lines stay as they are. *)
LEMMA SamePending ==
    ASSUME UNCHANGED <<queue, wire>>, \A e \in Docs : Gone(e)' <=> Gone(e)
    PROVE  /\ Pending' = Pending
           /\ \A x, y : Precedes(x, y)' => Precedes(x, y)
<1>1. Pending' = Pending
  BY DEF Pending, Elements
<1>2. ASSUME NEW x, NEW y, Precedes(x, y)' PROVE Precedes(x, y)
  BY <1>2 DEF Precedes
<1> QED
  BY <1>1, <1>2

(* What a client sends goes behind everything else. *)
LEMMA SendPending ==
    ASSUME Shapes, NEW c \in Clients, NEW m \in Messages(DocOf[c]), Send(c, m),
           UNCHANGED <<queue, docs>>
    PROVE  /\ Pending' \subseteq Pending \cup {m}
           /\ \A x, y : Precedes(x, y)' => Precedes(x, y) \/ (x \in Pending /\ y = m)
<1> DEFINE d == DocOf[c]
           p == Append(wire[d], m)
<1>1. d \in Docs /\ wire[d] \in Seq(Messages(d)) /\ \A e \in Docs : Gone(e)' <=> Gone(e)
  BY DbAssumption DEF Shapes, LinesOK, Gone
<1>2. wire'[d] = p /\ \A e \in Docs : e # d => wire'[e] = wire[e]
  BY <1>1 DEF Send, Shapes, LinesOK
<1>3. \A i \in DOMAIN p : \/ i \in DOMAIN wire[d] /\ p[i] = wire[d][i]
                          \/ i = Len(wire[d]) + 1 /\ p[i] = m
  BY <1>1, Positions
<1>4. /\ Len(wire[d]) \in Nat /\ DOMAIN wire[d] = 1 .. Len(wire[d])
      /\ \A i \in DOMAIN p : i \in Nat /\ i <= Len(wire[d]) + 1
  <2>1. p \in Seq(Messages(d)) /\ Len(p) = Len(wire[d]) + 1 /\ Len(wire[d]) \in Nat
        /\ DOMAIN wire[d] = 1 .. Len(wire[d])
    BY <1>1, AppendProperties, LenProperties
  <2>2. DOMAIN p = 1 .. Len(wire[d]) + 1
    BY <2>1, LenProperties
  <2> QED
    BY <2>1, <2>2
<1> HIDE DEF p, d
<1>5. Pending' \subseteq Pending \cup {m}
  <2> SUFFICES ASSUME NEW x \in Pending', x \notin Pending PROVE x = m
    OBVIOUS
  <2>1. CASE x \in Elements(queue)'
    BY <2>1 DEF Elements, Pending
  <2>2. ASSUME NEW e \in Docs, ~Gone(e)', x \in Elements(wire[e])'
        PROVE  x = m
    <3>1. PICK i \in DOMAIN wire'[e] : x = wire'[e][i]
      BY <2>2 DEF Elements
    <3>2. CASE e = d
      BY <1>1, <1>2, <1>3, <2>2, <3>1, <3>2, PendingWork
    <3>3. CASE e # d
      BY <1>1, <1>2, <2>2, <3>1, <3>3, PendingWork
    <3> QED
      BY <3>2, <3>3
  <2> QED
    BY <2>1, <2>2 DEF Pending
<1>6. ASSUME NEW x, NEW y, Precedes(x, y)'
      PROVE  Precedes(x, y) \/ (x \in Pending /\ y = m)
  <2>1. CASE \E i, j \in DOMAIN queue : i < j /\ x = queue[i] /\ y = queue[j]
    BY <2>1 DEF Precedes
  <2>2. ASSUME NEW e \in Docs, ~Gone(e)',
               NEW i \in DOMAIN wire'[e], NEW j \in DOMAIN wire'[e], i < j,
               x = wire'[e][i], y = wire'[e][j]
        PROVE  Precedes(x, y) \/ (x \in Pending /\ y = m)
    <3>1. CASE e # d
      BY <1>1, <1>2, <2>2, <3>1 DEF Precedes
    <3>2. CASE e = d
      <4>1. i \in DOMAIN p /\ j \in DOMAIN p /\ x = p[i] /\ y = p[j]
        BY <1>2, <2>2, <3>2
      <4>2. i \in DOMAIN wire[d] /\ x = wire[d][i]
        BY <1>3, <1>4, <2>2, <4>1
      <4>3. CASE j \in DOMAIN wire[d] /\ y = wire[d][j]
        BY <1>1, <2>2, <3>2, <4>2, <4>3 DEF Precedes
      <4>4. CASE y = m
        BY <1>1, <2>2, <3>2, <4>2, <4>4, PendingWork
      <4> QED
        BY <1>3, <4>1, <4>3, <4>4
    <3> QED
      BY <3>1, <3>2
  <2>3. ASSUME NEW e \in Docs, ~Gone(e)', NEW i \in DOMAIN queue, NEW j \in DOMAIN wire'[e],
               x = queue[i], y = wire'[e][j]
        PROVE  Precedes(x, y) \/ (x \in Pending /\ y = m)
    <3>1. CASE e # d
      BY <1>1, <1>2, <2>3, <3>1 DEF Precedes
    <3>2. CASE e = d
      <4>1. \/ j \in DOMAIN wire[d] /\ y = wire[d][j]
            \/ y = m
        BY <1>2, <1>3, <2>3, <3>2
      <4> QED
        BY <1>1, <2>3, <3>2, <4>1, PendingWork DEF Precedes
    <3> QED
      BY <3>1, <3>2
  <2> QED
    BY <1>6, <2>1, <2>2, <2>3 DEF Precedes
<1> QED
  BY <1>5, <1>6

(* The first piece of work precedes all that stays when it is taken. *)
LEMMA TakePending ==
    ASSUME Shapes, queue # <<>>, queue' = Tail(queue), UNCHANGED wire,
           \A e \in Docs : Gone(e)' <=> Gone(e)
    PROVE  /\ Pending' \subseteq Pending /\ Head(queue) \in Pending
           /\ \A x, y : Precedes(x, y)' => Precedes(x, y)
           /\ \A y \in Pending' : Precedes(Head(queue), y)
<1> DEFINE p == Tail(queue)
<1>1. /\ 1 \in DOMAIN queue /\ Head(queue) = queue[1]
      /\ \A i \in DOMAIN p : i \in Nat \ {0} /\ i + 1 \in DOMAIN queue /\ p[i] = queue[i + 1]
  BY Positions DEF Shapes, QueueOK
<1> HIDE DEF p
<1>2. queue' = p
  BY DEF p
<1>3. \A i \in DOMAIN p, j \in DOMAIN p : i < j => i + 1 < j + 1
  BY <1>1
<1>4. \A i \in DOMAIN p : 1 < i + 1
  BY <1>1
<1>5. \A y \in Pending' : y \in Pending /\ Precedes(Head(queue), y)
  <2> SUFFICES ASSUME NEW y \in Pending' PROVE y \in Pending /\ Precedes(Head(queue), y)
    OBVIOUS
  <2>1. CASE y \in Elements(queue)'
    <3>1. PICK i \in DOMAIN p : y = p[i]
      BY <1>2, <2>1 DEF Elements
    <3>2. i + 1 \in DOMAIN queue /\ y = queue[i + 1] /\ 1 < i + 1
      BY <1>1, <1>4, <3>1
    <3> QED
      BY <1>1, <3>2, PendingWork DEF Precedes
  <2>2. ASSUME NEW e \in Docs, ~Gone(e)', y \in Elements(wire[e])'
        PROVE  y \in Pending /\ Precedes(Head(queue), y)
    <3>1. PICK j \in DOMAIN wire[e] : y = wire[e][j]
      BY <2>2 DEF Elements
    <3> QED
      BY <1>1, <2>2, <3>1, PendingWork DEF Precedes
  <2> QED
    BY <2>1, <2>2 DEF Pending
<1>6. Head(queue) \in Pending
  BY <1>1, PendingWork
<1>7. ASSUME NEW x, NEW y, Precedes(x, y)' PROVE Precedes(x, y)
  <2>1. ASSUME NEW i \in DOMAIN p, NEW j \in DOMAIN p, i < j, x = p[i], y = p[j]
        PROVE  Precedes(x, y)
    <3>1. /\ i + 1 \in DOMAIN queue /\ j + 1 \in DOMAIN queue /\ i + 1 < j + 1
          /\ x = queue[i + 1] /\ y = queue[j + 1]
      BY <1>1, <1>3, <2>1
    <3> QED
      BY <3>1 DEF Precedes
  <2>2. CASE \E d \in Docs : ~Gone(d)' /\ \E i, j \in DOMAIN wire[d] :
                i < j /\ x = wire[d][i] /\ y = wire[d][j]
    BY <2>2 DEF Precedes
  <2>3. ASSUME NEW d \in Docs, ~Gone(d)', NEW i \in DOMAIN p, NEW j \in DOMAIN wire[d],
               x = p[i], y = wire[d][j]
        PROVE  Precedes(x, y)
    BY <1>1, <2>3 DEF Precedes
  <2> QED
    BY <1>2, <1>7, <2>1, <2>2, <2>3 DEF Precedes
<1> QED
  BY <1>5, <1>6, <1>7

(* A document that leaves takes its line along. *)
LEMMA LeavePending ==
    ASSUME Shapes, NEW d \in Docs, NEW w \in Work, Leave(d), w = [op |-> "leave", doc |-> d]
    PROVE  /\ Pending' \subseteq Pending \cup {w}
           /\ \A e \in Docs : Gone(e)' <=> Gone(e) \/ e = d
           /\ \A x, y : Precedes(x, y)' =>
                 Precedes(x, y) \/ y = w \/ (x = w /\ y.op # "leave" /\ DocOf[y.client] # d)
<1>1. /\ queue' = Append(queue, w) /\ UNCHANGED wire
      /\ \A e \in Docs : Gone(e)' <=> Gone(e) \/ e = d
  BY DEF Leave, Gone, Shapes, DocsOK
<1>2. \A i \in DOMAIN queue' : \/ i \in DOMAIN queue /\ queue'[i] = queue[i]
                               \/ i = Len(queue) + 1 /\ queue'[i] = w
  BY <1>1, QueueGrown
<1>3. Pending' \subseteq Pending \cup {w}
  <2> SUFFICES ASSUME NEW y \in Pending', y # w PROVE y \in Pending
    OBVIOUS
  <2>1. CASE y \in Elements(queue)'
    BY <1>2, <2>1, PendingWork DEF Elements
  <2>2. ASSUME NEW e \in Docs, ~Gone(e)', y \in Elements(wire[e])'
        PROVE  y \in Pending
    BY <1>1, <2>2, PendingWork DEF Elements
  <2> QED
    BY <2>1, <2>2 DEF Pending
<1>4. ASSUME NEW x, NEW y, Precedes(x, y)', y # w
      PROVE  Precedes(x, y) \/ (x = w /\ y.op # "leave" /\ DocOf[y.client] # d)
  <2>1. ASSUME NEW i \in DOMAIN queue', NEW j \in DOMAIN queue', i < j,
               x = queue'[i], y = queue'[j]
        PROVE  Precedes(x, y)
    <3>1. j \in DOMAIN queue /\ y = queue[j]
      BY <1>2, <1>4, <2>1
    <3>2. i # Len(queue) + 1
      BY <2>1, <3>1, WorkClients, LenProperties DEF Shapes, QueueOK
    <3> QED
      BY <1>2, <2>1, <3>1, <3>2 DEF Precedes
  <2>2. ASSUME NEW e \in Docs, ~Gone(e)', NEW i \in DOMAIN wire[e], NEW j \in DOMAIN wire[e],
               i < j, x = wire[e][i], y = wire[e][j]
        PROVE  Precedes(x, y)
    BY <1>1, <2>2 DEF Precedes
  <2>3. ASSUME NEW e \in Docs, ~Gone(e)', NEW i \in DOMAIN queue', NEW j \in DOMAIN wire[e],
               x = queue'[i], y = wire[e][j]
        PROVE  Precedes(x, y) \/ (x = w /\ y.op # "leave" /\ DocOf[y.client] # d)
    <3>1. y.op # "leave" /\ DocOf[y.client] = e /\ e # d /\ ~Gone(e)
      BY <1>1, <2>3, PendingWork
    <3> QED
      BY <1>2, <2>3, <3>1 DEF Precedes
  <2> QED
    BY <1>1, <1>4, <2>1, <2>2, <2>3 DEF Precedes
<1> QED
  BY <1>1, <1>3, <1>4

(* The shell moves the first of a line to the end of the queue, or drops   *)
(* it; it stays before what its client sent later.                         *)
LEMMA SubmitPending ==
    ASSUME Shapes, NEW d \in Docs, Submit(d)
    PROVE  LET m == Head(wire[d])
           IN  /\ Pending' \subseteq Pending
               /\ \A e \in Docs : Gone(e)' <=> Gone(e)
               /\ \A x, y : Precedes(x, y)' =>
                     \/ Precedes(x, y)
                     \/ x.op # "leave" /\ y.op # "leave" /\ x.client # y.client
               /\ ~Gone(d) => m \in Pending
               /\ ~Gone(d) /\ queue' = queue => \A y \in Pending' :
                     y.op # "leave" /\ y.client = m.client => Precedes(m, y) \/ Precedes(y, m)
<1>1. wire[d] \in Seq(Messages(d)) /\ wire[d] # <<>>
  BY DEF Shapes, LinesOK, Submit
<1> DEFINE p == Tail(wire[d])
<1>2. PICK m \in Messages(d) :
        /\ m = Head(wire[d]) /\ m = wire[d][1] /\ 1 \in DOMAIN wire[d]
        /\ \A i \in DOMAIN p : i \in Nat \ {0} /\ i + 1 \in DOMAIN wire[d] /\ p[i] = wire[d][i + 1]
  BY <1>1, Positions
<1>3. /\ m \in Work /\ m.client \in Clients /\ m \in Sendable /\ DocOf[m.client] = d
      /\ m.op # "leave"
  BY DEF Messages, Work, Sendable, Ops
<1>4. /\ wire'[d] = p /\ \A e \in Docs : e # d => wire'[e] = wire[e]
      /\ \/ Gone(d) /\ docs' = docs /\ queue' = queue
         \/ ~Gone(d) /\ docs' = docs /\ queue' = Append(queue, m)
         \/ ~Gone(d) /\ queue' = queue /\ (docs' = docs \/ Overflows(d))
  BY <1>2 DEF Submit, Gone, Admits, Reject, Shapes, LinesOK
<1> HIDE DEF p
<1>5. \A e \in Docs : Gone(e)' <=> Gone(e)
  BY <1>4 DEF Gone, Overflows, Shapes, DocsOK
<1>6. \A i \in DOMAIN queue' :
         \/ i \in DOMAIN queue /\ queue'[i] = queue[i]
         \/ i = Len(queue) + 1 /\ queue'[i] = m /\ ~Gone(d) /\ queue' # queue
  <2>1. CASE queue' = queue
    BY <2>1
  <2>2. CASE queue' = Append(queue, m) /\ ~Gone(d)
    <3>1. queue' # queue
      <4>1. queue \in Seq(Work)
        BY DEF Shapes, QueueOK
      <4>2. Len(queue') = Len(queue) + 1 /\ Len(queue) \in Nat
        BY <1>3, <2>2, <4>1, AppendProperties, LenProperties
      <4> QED
        BY <4>2
    <3> QED
      BY <1>3, <2>2, <3>1, QueueGrown
  <2> QED
    BY <1>4, <2>1, <2>2
<1>7. ASSUME NEW e \in Docs, ~Gone(e), NEW j \in DOMAIN wire'[e]
      PROVE  /\ wire'[e][j] \in Pending /\ wire'[e][j].op # "leave"
             /\ DocOf[wire'[e][j].client] = e
             /\ e = d => Precedes(m, wire'[e][j])
             /\ \A i \in DOMAIN queue : Precedes(queue[i], wire'[e][j])
             /\ \A i \in DOMAIN wire'[e] : i < j => Precedes(wire'[e][i], wire'[e][j])
  <2>1. CASE e # d
    BY <1>4, <1>7, <2>1, PendingWork DEF Precedes
  <2>2. CASE e = d
    <3>1. j \in Nat \ {0} /\ j + 1 \in DOMAIN wire[d] /\ wire'[d][j] = wire[d][j + 1]
      BY <1>2, <1>4, <1>7, <2>2
    <3>2. 1 < j + 1
      BY <3>1
    <3>3. ASSUME NEW i \in DOMAIN wire'[d], i < j PROVE Precedes(wire'[d][i], wire'[d][j])
      <4>1. i \in Nat \ {0} /\ i + 1 \in DOMAIN wire[d] /\ wire'[d][i] = wire[d][i + 1]
        BY <1>2, <1>4, <3>3
      <4>2. i + 1 < j + 1
        BY <3>1, <3>3, <4>1
      <4> QED
        BY <1>7, <2>2, <3>1, <4>1, <4>2 DEF Precedes
    <3> QED
      BY <1>2, <1>7, <2>2, <3>1, <3>2, <3>3, PendingWork DEF Precedes
  <2> QED
    BY <2>1, <2>2
<1>8. ~Gone(d) => m \in Pending
  BY <1>2, PendingWork
<1>9. ASSUME NEW y \in Pending'
      PROVE  \/ y \in Pending /\ y \in Elements(queue)
             \/ y = m /\ ~Gone(d) /\ queue' # queue
             \/ y \in Pending /\ \E e \in Docs : ~Gone(e) /\ y \in Elements(wire[e])'
  <2>1. CASE y \in Elements(queue)'
    BY <1>6, <2>1, PendingWork DEF Elements
  <2>2. ASSUME NEW e \in Docs, ~Gone(e)', y \in Elements(wire[e])'
        PROVE  y \in Pending /\ ~Gone(e)
    BY <1>5, <1>7, <2>2 DEF Elements
  <2> QED
    BY <2>1, <2>2 DEF Pending
<1>10. ASSUME ~Gone(d), queue' = queue, NEW y \in Pending', y.op # "leave", y.client = m.client
       PROVE  Precedes(m, y) \/ Precedes(y, m)
  <2>1. CASE y \in Elements(queue)
    BY <1>2, <1>10, <2>1 DEF Elements, Precedes
  <2>2. ASSUME NEW e \in Docs, ~Gone(e), y \in Elements(wire[e])'
        PROVE  Precedes(m, y)
    <3>1. PICK j \in DOMAIN wire'[e] : y = wire'[e][j]
      BY <2>2 DEF Elements
    <3>2. e = d
      BY <1>3, <1>7, <1>10, <2>2, <3>1
    <3> QED
      BY <1>7, <2>2, <3>1, <3>2
  <2> QED
    BY <1>9, <1>10, <2>1, <2>2
<1>11. ASSUME NEW x, NEW y, Precedes(x, y)'
       PROVE  \/ Precedes(x, y)
              \/ x.op # "leave" /\ y.op # "leave" /\ x.client # y.client
  <2>1. ASSUME NEW i \in DOMAIN queue', NEW j \in DOMAIN queue', i < j,
               x = queue'[i], y = queue'[j]
        PROVE  Precedes(x, y)
    <3>1. CASE j \in DOMAIN queue
      <4>1. i # Len(queue) + 1 /\ j # Len(queue) + 1
        BY <2>1, <3>1, WorkClients, LenProperties DEF Shapes, QueueOK
      <4> QED
        BY <1>6, <2>1, <3>1, <4>1 DEF Precedes
    <3>2. CASE j = Len(queue) + 1 /\ y = m /\ ~Gone(d)
      <4>1. i # Len(queue) + 1
        <5>1. Len(queue) \in Nat
          BY LenProperties DEF Shapes, QueueOK
        <5> QED
          BY <2>1, <3>2, <5>1
      <4> QED
        BY <1>2, <1>6, <2>1, <3>2, <4>1 DEF Precedes
    <3> QED
      BY <1>6, <2>1, <3>1, <3>2
  <2>2. ASSUME NEW e \in Docs, ~Gone(e)', NEW i \in DOMAIN wire'[e], NEW j \in DOMAIN wire'[e],
               i < j, x = wire'[e][i], y = wire'[e][j]
        PROVE  Precedes(x, y)
    BY <1>5, <1>7, <2>2
  <2>3. ASSUME NEW e \in Docs, ~Gone(e)', NEW i \in DOMAIN queue', NEW j \in DOMAIN wire'[e],
               x = queue'[i], y = wire'[e][j]
        PROVE  \/ Precedes(x, y)
               \/ x.op # "leave" /\ y.op # "leave" /\ x.client # y.client
    <3>1. CASE i \in DOMAIN queue /\ queue'[i] = queue[i]
      BY <1>5, <1>7, <2>3, <3>1
    <3>2. CASE x = m
      BY <1>3, <1>5, <1>7, <2>3, <3>2
    <3> QED
      BY <1>6, <2>3, <3>1, <3>2
  <2> QED
    BY <1>11, <2>1, <2>2, <2>3 DEF Precedes
<1> QED
  BY <1>2, <1>5, <1>8, <1>9, <1>10, <1>11

(* A delivered reply is the only new one. *)
LEMMA DeliveredLane ==
    ASSUME Shapes, NEW d \in Docs, NEW last \in Nat, db.stamp <= last,
           NEW r \in Answers(d, last), Delivered(d, r)
    PROVE  /\ Lane' \subseteq Lane \cup {r}
           /\ \A x, y : Twofold(x, y)' =>
                 \/ Twofold(x, y) \/ (x = r /\ y \in Lane) \/ (y = r /\ x \in Lane)
<1> DEFINE p == Append(replies[d], r)
<1>1. replies[d] \in Seq(Answers(d, last))
      /\ replies'[d] = p /\ \A e \in Docs : e # d => replies'[e] = replies[e]
  <2>1. RepliesFit(replies, last)
    BY RepliesStillFit DEF Shapes, RepliesOK
  <2> QED
    BY <2>1 DEF Delivered, RepliesFit
<1>2. \A i \in DOMAIN p : \/ i \in DOMAIN replies[d] /\ p[i] = replies[d][i]
                          \/ i = Len(replies[d]) + 1 /\ p[i] = r
  BY <1>1, Positions
<1> HIDE DEF p
<1>3. \A e \in Docs : \A i \in DOMAIN replies'[e] :
         \/ i \in DOMAIN replies[e] /\ replies'[e][i] = replies[e][i] /\ replies[e][i] \in Lane
         \/ e = d /\ i = Len(replies[d]) + 1 /\ replies'[e][i] = r
  BY <1>1, <1>2, LaneReplies
<1>4. Lane' \subseteq Lane \cup {r}
  BY <1>3 DEF Lane, Elements
<1>5. ASSUME NEW x, NEW y, Twofold(x, y)'
      PROVE  Twofold(x, y) \/ (x = r /\ y \in Lane) \/ (y = r /\ x \in Lane)
  <2>1. PICK e \in Docs : \E i, j \in DOMAIN replies'[e] :
           i # j /\ x = replies'[e][i] /\ y = replies'[e][j]
    BY <1>5 DEF Twofold
  <2>2. PICK i \in DOMAIN replies'[e], j \in DOMAIN replies'[e] :
           i # j /\ x = replies'[e][i] /\ y = replies'[e][j]
    BY <2>1
  <2> QED
    BY <1>3, <2>2 DEF Twofold
<1> QED
  BY <1>4, <1>5

(* A page reads the first reply of its lane. *)
LEMMA ReadLane ==
    ASSUME Shapes, NEW d \in Docs, replies[d] # <<>>, replies' = [replies EXCEPT ![d] = Tail(@)]
    PROVE  /\ Lane' \subseteq Lane /\ Head(replies[d]) \in Lane
           /\ \A x, y : Twofold(x, y)' => Twofold(x, y)
           /\ \A y \in Lane' : y.client = Head(replies[d]).client => Twofold(Head(replies[d]), y)
<1> DEFINE p == Tail(replies[d])
           r == Head(replies[d])
<1>1. replies[d] \in Seq(Answers(d, db.stamp))
      /\ replies'[d] = p /\ \A e \in Docs : e # d => replies'[e] = replies[e]
  BY DEF Shapes, RepliesOK, RepliesFit
<1>2. /\ 1 \in DOMAIN replies[d] /\ r = replies[d][1]
      /\ \A i \in DOMAIN p : i \in Nat \ {0} /\ i + 1 \in DOMAIN replies[d] /\ p[i] = replies[d][i + 1]
  BY <1>1, Positions
<1> HIDE DEF p, r
<1>3. \A e \in Docs : \A i \in DOMAIN replies'[e] :
         \/ e # d /\ i \in DOMAIN replies[e] /\ replies'[e][i] = replies[e][i]
         \/ /\ e = d /\ i \in Nat \ {0} /\ i + 1 \in DOMAIN replies[d]
            /\ replies'[e][i] = replies[d][i + 1]
  BY <1>1, <1>2
<1>4. Lane' \subseteq Lane
  BY <1>3 DEF Lane, Elements
<1>5. ASSUME NEW y \in Lane', y.client = r.client PROVE Twofold(r, y)
  <2>1. PICK e \in Docs : y \in Elements(replies[e])'
    BY DEF Lane
  <2>2. PICK i \in DOMAIN replies'[e] : y = replies'[e][i]
    BY <2>1 DEF Elements
  <2>3. DocOf[r.client] = d
    BY <1>2, LaneReplies
  <2>4. e = d
    <3>1. CASE e # d
      <4>1. i \in DOMAIN replies[e] /\ y = replies[e][i]
        BY <1>3, <2>2, <3>1
      <4> QED
        BY <1>5, <2>3, <3>1, <4>1, LaneReplies
    <3> QED
      BY <3>1
  <2>5. i + 1 \in DOMAIN replies[d] /\ y = replies[d][i + 1] /\ i + 1 # 1
    BY <1>3, <2>2, <2>4
  <2> QED
    BY <1>2, <2>5 DEF Twofold
<1>6. ASSUME NEW x, NEW y, Twofold(x, y)' PROVE Twofold(x, y)
  <2>1. PICK e \in Docs : \E i, j \in DOMAIN replies'[e] :
           i # j /\ x = replies'[e][i] /\ y = replies'[e][j]
    BY <1>6 DEF Twofold
  <2>2. PICK i \in DOMAIN replies'[e], j \in DOMAIN replies'[e] :
           i # j /\ x = replies'[e][i] /\ y = replies'[e][j]
    BY <2>1
  <2>3. CASE e # d
    BY <1>3, <2>2, <2>3 DEF Twofold
  <2>4. CASE e = d
    <3>1. /\ i + 1 \in DOMAIN replies[d] /\ j + 1 \in DOMAIN replies[d] /\ i + 1 # j + 1
          /\ x = replies[d][i + 1] /\ y = replies[d][j + 1]
      BY <1>3, <2>2, <2>4
    <3> QED
      BY <3>1 DEF Twofold
  <2> QED
    BY <2>3, <2>4
<1>7. r \in Lane
  BY <1>2, LaneReplies
<1> QED
  BY <1>4, <1>5, <1>6, <1>7 DEF r

(* Nothing changes while no reply is delivered; a document that leaves     *)
(* hears no more.                                                          *)
LEMMA QuietLane ==
    ASSUME Shapes, replies' = replies \/ \E d \in Docs : replies' = [replies EXCEPT ![d] = <<>>]
    PROVE  /\ Lane' \subseteq Lane
           /\ \A x, y : Twofold(x, y)' => Twofold(x, y)
<1>1. DOMAIN <<>> = {}
  OBVIOUS
<1>2. \A e \in Docs : \A i \in DOMAIN replies'[e] :
         i \in DOMAIN replies[e] /\ replies'[e][i] = replies[e][i]
  BY <1>1 DEF Shapes, RepliesOK, RepliesFit
<1>3. Lane' \subseteq Lane
  BY <1>2 DEF Lane, Elements
<1>4. ASSUME NEW x, NEW y, Twofold(x, y)' PROVE Twofold(x, y)
  <2>1. PICK e \in Docs : \E i, j \in DOMAIN replies'[e] :
           i # j /\ x = replies'[e][i] /\ y = replies'[e][j]
    BY <1>4 DEF Twofold
  <2> QED
    BY <1>2, <2>1 DEF Twofold
<1> QED
  BY <1>3, <1>4

(* A client that sends a step has nothing of this transaction under way,   *)
(* waits for no other reply, and finds what it wrote in its session.       *)
Starting(c, sent) ==
    /\ \A x \in Pending : x.op # "leave" /\ x.client = c => ~Current(x)'
    /\ \A m \in sent : m.op = "step" /\ m.version = client'[c].conn
    /\ \A r \in Lane' : r.client = c => ~AwaitsStep(r)'
    /\ \A s \in sessions : s.client = c /\ s.tx = client'[c].tx => s.version = client'[c].conn
    /\ Keeps(c, client[c].tx, client[c].conn)'

(* The numbers the invariants compare. *)
LEMMA TxNumbers ==
    ASSUME Shapes
    PROVE  /\ \A c \in Clients : client[c] \in ClientStates /\ client[c].tx \in Nat
           /\ \A m \in Pending : m.op # "leave" => m.tx \in Nat
           /\ \A s \in sessions : s.tx \in Nat /\ s.client \in Clients
           /\ \A r \in Lane : r.tx \in Nat
<1>1. \A c \in Clients : client[c] \in ClientStates
  BY DEF Shapes, ClientsOK
<1>2. \A x \in ClientStates : x.tx \in Nat
  BY Bounds DEF ClientStates
<1>3. \A m \in Sendable : m.tx \in Nat
  BY DEF Sendable
<1>4. \A s \in sessions : s.tx \in Nat /\ s.client \in Clients
  BY DEF Shapes, SessionsOK, SessionsFit, IsSession
<1> QED
  BY <1>1, <1>2, <1>3, <1>4, PendingWork, LaneReplies

(* A step of a page that sends at most one request of its transaction. *)
LEMMA PageOrderly ==
    ASSUME Shapes, Shapes', Orderly, NEW c \in Clients,
           UNCHANGED <<sessions, failed, retired, queue, docs, job>>,
           docs[DocOf[c]] = "live",
           \A x \in Clients \ {c} : client'[x] = client[x] /\ did'[x] = did[x],
           \/ client'[c].tx = client[c].tx /\ did'[c] = did[c]
           \/ client'[c].tx > client[c].tx /\ did'[c] = {},
           NEW sent,
           (sent = {} /\ wire' = wire) \/
              \E m \in Messages(DocOf[c]) : sent = {m} /\ m.client = c /\ Send(c, m),
           \A m \in sent : m.tx <= client'[c].tx,
           \A m \in sent : Current(m)' =>
              \A x \in Pending : x.op # "leave" /\ x.client = c /\ Current(x)' =>
                 x.op = "step" /\ m.op = "abort",
           Lane' \subseteq Lane, \A x, y : Twofold(x, y)' => Twofold(x, y),
           \A d \in Docs : Gone(d) => replies'[d] = <<>>,
           \A m \in sent : m.op = "step" => client'[c].state = "step",
           client'[c].state = "step" => Starting(c, sent)
    PROVE  Orderly'
<1>1. /\ Pending' \subseteq Pending \cup sent
      /\ \A x, y : Precedes(x, y)' => Precedes(x, y) \/ (x \in Pending /\ y \in sent)
      /\ \A m \in sent : /\ m.op # "leave" /\ m.client = c
                         /\ m \in Sendable
      /\ \A e \in Docs : Gone(e)' <=> Gone(e)
  <2>1. \A e \in Docs : Gone(e)' <=> Gone(e)
    BY DEF Gone
  <2>2. CASE sent = {} /\ wire' = wire
    BY <2>1, <2>2, SamePending
  <2>3. ASSUME NEW m \in Messages(DocOf[c]), sent = {m}, m.client = c, Send(c, m)
        PROVE  /\ Pending' \subseteq Pending \cup sent
               /\ \A x, y : Precedes(x, y)' => Precedes(x, y) \/ (x \in Pending /\ y \in sent)
               /\ m.op # "leave" /\ m \in Sendable
    <3>1. m.op # "leave" /\ m \in Sendable
      BY DEF Messages, Sendable, Ops
    <3> QED
      BY <2>3, <3>1, SendPending
  <2> QED
    BY <2>1, <2>2, <2>3
<1>2. /\ \A x \in Clients : client[x].tx \in Nat /\ client'[x].tx \in Nat
      /\ \A m \in Pending : m.op # "leave" => m.tx \in Nat /\ m.client \in Clients
      /\ \A s \in sessions : s.tx \in Nat /\ s.client \in Clients
      /\ \A r \in Lane : r.tx \in Nat /\ r.client \in Clients
  <2>1. \A x \in Clients : client[x].tx \in Nat
    BY TxNumbers
  <2>2. \A x \in Clients : client'[x].tx \in Nat
    BY Bounds DEF Shapes, ClientsOK, ClientStates
  <2> QED
    BY <2>1, <2>2, TxNumbers, PendingWork, LaneReplies
<1>3. \A x \in Clients : client[x].tx <= client'[x].tx
  BY <1>2
<1>4. Numbered' /\ NumberedSessions'
  <2>1. ASSUME NEW m \in Pending', m.op # "leave" PROVE m.tx <= client'[m.client].tx
    <3>1. CASE m \in Pending
      <4>1. m.tx <= client[m.client].tx
        BY <2>1, <3>1 DEF Orderly, Numbered
      <4> QED
        BY <1>2, <1>3, <2>1, <3>1, <4>1
    <3> QED
      BY <1>1, <3>1
  <2>2. ASSUME NEW s \in sessions PROVE s.tx <= client'[s.client].tx
    <3>1. s.tx <= client[s.client].tx
      BY DEF Orderly, NumberedSessions
    <3> QED
      BY <1>2, <1>3, <3>1
  <2>3. ASSUME NEW r \in Lane, r.op = "step" PROVE r.tx <= client'[r.client].tx
    <3>1. r.tx <= client[r.client].tx
      BY <2>3 DEF Orderly, Numbered
    <3> QED
      BY <1>2, <1>3, <3>1
  <2> QED
    BY <2>1, <2>2, <2>3 DEF Numbered, NumberedSessions
<1>5. ASSUME NEW x \in Pending, Current(x)'
      PROVE  /\ Current(x) /\ x.op # "leave" /\ x.client \in Clients
             /\ client'[x.client].tx = client[x.client].tx /\ did'[x.client] = did[x.client]
  <2>1. x.op # "leave" /\ x.client \in Clients /\ x.tx = client'[x.client].tx
    BY <1>2, <1>5 DEF Current
  <2>2. x.tx <= client[x.client].tx
    BY <2>1 DEF Orderly, Numbered
  <2> QED
    BY <1>2, <1>5, <2>1, <2>2 DEF Current
<1>6. OneByOne'
  <2>1. ASSUME NEW x \in Pending', NEW y \in Pending', Precedes(x, y)',
               Current(x)', Current(y)', x.client = y.client
        PROVE  x.op = "step" /\ y.op = "abort"
    <3>1. CASE x \in Pending /\ y \in sent
      BY <1>1, <1>5, <2>1, <3>1
    <3>2. CASE Precedes(x, y) /\ x \in Pending /\ y \in Pending
      BY <1>5, <2>1, <3>2 DEF Orderly, OneByOne, InOrder
    <3>3. CASE Precedes(x, y)
      <4>1. \A u, v : Precedes(u, v) => u \in Pending /\ v \in Pending
        BY PendingWork DEF Precedes
      <4> QED
        BY <3>2, <3>3, <4>1
    <3> QED
      BY <1>1, <2>1, <3>1, <3>3
  <2> QED
    BY <2>1 DEF OneByOne, InOrder
<1>7. \A x \in Clients \ {c} : client'[x] = client[x] /\ did'[x] = did[x]
  OBVIOUS
<1>8. \A r \in Lane' : r.client \in Clients /\ (r.client # c => (AwaitsStep(r)' <=> AwaitsStep(r)))
  BY <1>2, <1>7 DEF AwaitsStep
<1>9. \A r \in Lane' : AwaitsStep(r)' => r.client # c
  BY DEF AwaitsStep, Starting
<1>10. Attentive'
  <2>1. ASSUME NEW m \in Pending', Current(m)', client'[m.client].state = "step"
        PROVE  /\ m.op = "step" /\ m.version = client'[m.client].conn
               /\ \A r \in Lane' : r.client = m.client => ~AwaitsStep(r)'
    <3>1. CASE m \in sent
      BY <1>1, <2>1, <3>1 DEF Starting
    <3>2. CASE m \in Pending
      <4>1. Current(m) /\ m.op # "leave" /\ m.client \in Clients
        BY <1>5, <2>1, <3>2
      <4>2. m.client # c
        BY <2>1, <3>2, <4>1 DEF Starting
      <4>3. client'[m.client] = client[m.client]
        BY <1>7, <4>1, <4>2
      <4>4. /\ m.op = "step" /\ m.version = client[m.client].conn
            /\ \A r \in Lane : r.client = m.client => ~AwaitsStep(r)
        BY <2>1, <3>2, <4>1, <4>3 DEF Orderly, Attentive
      <4> QED
        BY <1>8, <4>2, <4>3, <4>4
    <3> QED
      BY <1>1, <3>1, <3>2
  <2>2. ASSUME NEW x \in Lane', NEW y \in Lane', Twofold(x, y)', AwaitsStep(x)', AwaitsStep(y)'
        PROVE  x.client # y.client
    <3>1. AwaitsStep(x) /\ AwaitsStep(y) /\ x \in Lane /\ y \in Lane /\ Twofold(x, y)
      BY <1>8, <1>9, <2>2
    <3> QED
      BY <3>1 DEF Orderly, Attentive
  <2> QED
    BY <2>1, <2>2 DEF Attentive
<1>11. OneVersion'
  <2>1. ASSUME NEW s \in sessions, s.tx = client'[s.client].tx
        PROVE  /\ client'[s.client].state = "step" => s.version = client'[s.client].conn
               /\ \A m \in Pending' : Current(m)' /\ m.op = "step" /\ m.client = s.client
                                      => m.version = s.version
    <3>1. s.client \in Clients
      BY <1>2
    <3>2. CASE s.client # c
      <4>1. client'[s.client] = client[s.client]
        BY <1>7, <3>1, <3>2
      <4>2. ASSUME NEW m \in Pending', Current(m)', m.op = "step", m.client = s.client
            PROVE  m.version = s.version
        <5>1. m \in Pending
          BY <1>1, <3>2, <4>2
        <5> QED
          BY <1>5, <2>1, <4>1, <4>2, <5>1 DEF Orderly, OneVersion
      <4> QED
        BY <2>1, <4>1, <4>2 DEF Orderly, OneVersion
    <3>3. CASE s.client = c /\ client'[c].state = "step"
      BY <1>1, <1>5, <2>1, <3>3 DEF Starting
    <3>4. CASE s.client = c /\ client'[c].state # "step"
      <4>1. ASSUME NEW m \in Pending', Current(m)', m.op = "step", m.client = s.client
            PROVE  m.version = s.version
        <5>1. m \in Pending
          BY <1>1, <3>4, <4>1
        <5>2. Current(m) /\ client'[s.client].tx = client[s.client].tx
          BY <1>5, <4>1, <5>1
        <5> QED
          BY <2>1, <4>1, <5>1, <5>2 DEF Orderly, OneVersion
      <4> QED
        BY <3>4, <4>1
    <3> QED
      BY <3>2, <3>3, <3>4
  <2> QED
    BY <2>1 DEF OneVersion
<1>12. LastWords'
  <2>1. \A d \in Docs : Gone(d)' => replies'[d] = <<>>
    BY <1>1
  <2>2. ASSUME NEW x \in Pending', x.op = "leave"
        PROVE  x \in Pending /\ x.doc \in Docs /\ Gone(x.doc) /\ Gone(x.doc)'
    <3>1. x \in Pending
      BY <1>1, <2>2
    <3>2. x.doc \in Docs
      BY <2>2, <3>1, PendingWork DEF Work, Sendable, Ops
    <3> QED
      BY <1>1, <2>2, <3>1, <3>2 DEF Orderly, LastWords
  <2>3. ASSUME NEW x \in Pending', NEW y \in Pending', Precedes(x, y)', x.op = "leave", y.op # "leave"
        PROVE  DocOf[y.client] # x.doc
    <3>1. CASE y \in sent
      <4>1. ~Gone(DocOf[c]) /\ y.client = c
        BY <1>1, <3>1 DEF Gone
      <4> QED
        BY <2>2, <2>3, <4>1
    <3>2. CASE Precedes(x, y) /\ y \in Pending
      BY <2>2, <2>3, <3>2 DEF Orderly, LastWords
    <3> QED
      BY <1>1, <2>3, <3>1, <3>2
  <2> QED
    BY <2>1, <2>2, <2>3 DEF LastWords
<1>13. Complete'
  <2>1. ASSUME NEW s \in sessions, s.tx = client'[s.client].tx, NEW k \in did'[s.client]
        PROVE  s.data[k] = <<s.client, s.tx>>
    <3>1. s.client \in Clients /\ did'[s.client] # {}
      BY <1>2, <2>1
    <3>2. client'[s.client].tx = client[s.client].tx /\ did'[s.client] = did[s.client]
      BY <1>7, <3>1
    <3> QED
      BY <2>1, <3>2 DEF Orderly, Complete
  <2> QED
    BY <2>1 DEF Complete
<1>14. ASSUME NEW x \in Clients, NEW n, NEW v, did'[x] = did[x], Keeps(x, n, v)
       PROVE  Keeps(x, n, v)'
  BY <1>14 DEF Keeps
<1>15. Kept'
  <2>1. ASSUME NEW m \in Pending', Current(m)', m.op = "step"
        PROVE  Keeps(m.client, m.tx, m.version)'
    <3>1. CASE m \in Pending
      BY <1>5, <1>14, <2>1, <3>1 DEF Orderly, Kept
    <3>2. CASE m \in sent
      <4>1. m.client = c /\ client'[c].state = "step" /\ m.tx = client'[c].tx
        BY <1>1, <2>1, <3>2 DEF Current
      <4>2. m.version = client'[c].conn /\ Keeps(c, client[c].tx, client[c].conn)'
        BY <3>2, <4>1 DEF Starting
      <4> QED
        BY <4>1, <4>2 DEF Keeps
    <3> QED
      BY <1>1, <3>1, <3>2
  <2>2. ASSUME NEW r \in Lane', AwaitsStep(r)', r.ok
        PROVE  Keeps(r.client, r.tx, client[r.client].conn)'
    <3>1. r \in Lane /\ r.client \in Clients \ {c} /\ AwaitsStep(r)
      BY <1>8, <1>9, <2>2
    <3>2. Keeps(r.client, r.tx, client[r.client].conn)
      BY <2>2, <3>1 DEF Orderly, Kept
    <3>3. client'[r.client] = client[r.client] /\ did'[r.client] = did[r.client]
      BY <1>7, <3>1
    <3> QED
      BY <3>2, <3>3 DEF Keeps
  <2> QED
    BY <2>1, <2>2 DEF Kept
<1>16. CommitIsWhole'
  <2>1. ASSUME job # Idle, job.request.op = "commit",
               NEW x, x = job.request.client, job.request.tx = client'[x].tx, NEW k \in did'[x]
        PROVE  job.candidate.data[k] = <<x, client'[x].tx>>
    <3>1. x \in Clients /\ did'[x] # {}
      BY <2>1 DEF Shapes, JobOK, Sendable
    <3>2. client'[x].tx = client[x].tx /\ did'[x] = did[x]
      BY <1>7, <3>1
    <3> QED
      BY <2>1, <3>2 DEF Orderly, CommitIsWhole
  <2> QED
    BY <2>1 DEF CommitIsWhole
<1> QED
  BY <1>4, <1>6, <1>10, <1>11, <1>12, <1>13, <1>15, <1>16 DEF Orderly

(* A client that does not wait for a step afterwards. *)
LEMMA SilentOrderly ==
    ASSUME Shapes, Shapes', Orderly, NEW c \in Clients, UNCHANGED browser, did' = did,
           docs[DocOf[c]] = "live",
           \A x \in Clients \ {c} : client'[x] = client[x],
           client'[c].tx = client[c].tx, client'[c].state # "step",
           wire' = wire \/
              \E m \in Messages(DocOf[c]) :
                 /\ m.client = c /\ Send(c, m) /\ m.tx <= client[c].tx /\ m.op # "step"
                 /\ m.op \in {"commit", "abort"} =>
                       \A x \in Pending : x.op # "leave" /\ x.client = c /\ Current(x) =>
                          x.op = "step" /\ m.op = "abort",
           Lane' \subseteq Lane, \A x, y : Twofold(x, y)' => Twofold(x, y),
           \A d \in Docs : Gone(d) => replies'[d] = <<>>
    PROVE  Orderly'
<1>1. UNCHANGED <<sessions, failed, retired, queue, docs, job>>
  BY DEF browser
<1>2. \A x \in Clients \ {c} : client'[x] = client[x] /\ did'[x] = did[x]
  OBVIOUS
<1>3. ASSUME NEW x, x.client = c, Current(x)' PROVE Current(x)
  BY <1>3 DEF Current
<1>4. CASE wire' = wire
  <2>1. PICK sent : sent = {}
    OBVIOUS
  <2>2. /\ \A y \in sent : y.tx <= client'[c].tx /\ y.op # "step"
        /\ \A y \in sent : Current(y)' =>
              \A x \in Pending : x.op # "leave" /\ x.client = c /\ Current(x)' =>
                 x.op = "step" /\ y.op = "abort"
    BY <2>1
  <2>3. (sent = {} /\ wire' = wire) \/
           \E m \in Messages(DocOf[c]) : sent = {m} /\ m.client = c /\ Send(c, m)
    BY <1>4, <2>1
  <2> QED
    BY <1>1, <1>2, <2>2, <2>3, PageOrderly
<1>5. ASSUME NEW m \in Messages(DocOf[c]),
             m.client = c, Send(c, m), m.tx <= client[c].tx, m.op # "step",
             m.op \in {"commit", "abort"} =>
                \A x \in Pending : x.op # "leave" /\ x.client = c /\ Current(x) =>
                   x.op = "step" /\ m.op = "abort"
      PROVE  Orderly'
  <2>1. PICK sent : sent = {m}
    OBVIOUS
  <2>2. \E y \in Messages(DocOf[c]) : sent = {y} /\ y.client = c /\ Send(c, y)
    BY <1>5, <2>1
  <2>3. \A y \in sent : y.tx <= client'[c].tx /\ y.op # "step"
    BY <1>5, <2>1
  <2>4. \A y \in sent : Current(y)' =>
           \A x \in Pending : x.op # "leave" /\ x.client = c /\ Current(x)' =>
              x.op = "step" /\ y.op = "abort"
    <3>1. Current(m)' => m.op \in {"commit", "abort"}
      BY <1>5 DEF Current
    <3> QED
      BY <1>3, <1>5, <2>1, <3>1
  <2> QED
    BY <1>1, <1>2, <2>2, <2>3, <2>4, PageOrderly
<1> QED
  BY <1>4, <1>5

(* The lanes while no reply is delivered. *)
LEMMA SameLane ==
    ASSUME Shapes, Orderly, UNCHANGED <<replies, docs>>
    PROVE  /\ Lane' \subseteq Lane /\ \A x, y : Twofold(x, y)' => Twofold(x, y)
           /\ \A d \in Docs : Gone(d) => replies'[d] = <<>>
  BY QuietLane DEF Orderly, LastWords

(* A request to open or delete a database keeps the order in which a transaction's steps travel. *)
LEMMA OpenOrderly ==
    ASSUME Shapes, Shapes', Orderly, NEW c \in Clients, Open(c) \/ DeleteDatabase(c)
    PROVE  Orderly'
<1>1. PICK op \in {"open", "delete"}, st \in {"opening", "deleting"} :
        /\ Send(c, Message(c, op)) /\ UNCHANGED <<browser, did, replies>>
        /\ client' = [client EXCEPT ![c].state = st, ![c].opens = @ + 1]
        /\ docs[DocOf[c]] = "live"
  BY DEF Open, DeleteDatabase, Acts
<1>2. client[c] \in ClientStates /\ client \in [Clients -> ClientStates] /\ client[c].tx \in Nat
  BY Bounds DEF Shapes, ClientsOK, ClientStates
<1>3. client'[c].tx = client[c].tx /\ client'[c].state = st
      /\ \A x \in Clients \ {c} : client'[x] = client[x]
  BY <1>1, <1>2 DEF ClientStates
<1> DEFINE m == Message(c, op)
<1>4. /\ m \in Messages(DocOf[c]) /\ m.client = c /\ m.tx = 0 /\ m.op = op
  BY MessageType DEF Message, Ops
<1> HIDE DEF m
<1>5. Send(c, m) /\ m.tx <= client[c].tx /\ m.op # "step" /\ m.op \notin {"commit", "abort"}
  BY <1>1, <1>2, <1>4 DEF m
<1>6. UNCHANGED <<replies, docs>>
  BY <1>1 DEF browser
<1> QED
  BY <1>1, <1>3, <1>4, <1>5, <1>6, SameLane, SilentOrderly

(* Closing a connection keeps the order in which a transaction's steps travel. *)
LEMMA CloseOrderly ==
    ASSUME Shapes, Shapes', Orderly, NEW c \in Clients, CloseConnection(c) \/ TerminateWorker(c)
    PROVE  Orderly'
<1>1. PICK st \in {"closed", "dead"} :
        /\ client' = [client EXCEPT ![c].state = st]
        /\ UNCHANGED <<browser, did, replies>> /\ docs[DocOf[c]] = "live"
        /\ wire' = wire \/ (Send(c, Message(c, "retire")) /\ c \in Workers)
  BY DEF CloseConnection, TerminateWorker, Acts
<1>2. client[c] \in ClientStates /\ client \in [Clients -> ClientStates] /\ client[c].tx \in Nat
  BY Bounds DEF Shapes, ClientsOK, ClientStates
<1>3. client'[c].tx = client[c].tx /\ client'[c].state = st
      /\ \A x \in Clients \ {c} : client'[x] = client[x]
  BY <1>1, <1>2 DEF ClientStates
<1>4. UNCHANGED <<replies, docs>>
  BY <1>1 DEF browser
<1> DEFINE m == Message(c, "retire")
<1>5. ASSUME c \in Workers
      PROVE  m \in Messages(DocOf[c]) /\ m.client = c /\ m.tx = 0 /\ m.op = "retire"
  BY <1>5, MessageType DEF Message, Ops
<1> HIDE DEF m
<1>6. wire' = wire \/ (Send(c, m) /\ c \in Workers)
  BY <1>1 DEF m
<1>7. c \in Workers => m.tx <= client[c].tx
  BY <1>2, <1>5
<1>8. wire' = wire \/
        \E y \in Messages(DocOf[c]) :
           /\ y.client = c /\ Send(c, y) /\ y.tx <= client[c].tx /\ y.op # "step"
           /\ y.op \in {"commit", "abort"} =>
                 \A x \in Pending : x.op # "leave" /\ x.client = c /\ Current(x) =>
                    x.op = "step" /\ y.op = "abort"
  BY <1>5, <1>6, <1>7
<1> QED
  BY <1>1, <1>3, <1>4, <1>8, SameLane, SilentOrderly

(* An abort by the page keeps the order in which a transaction's steps travel. *)
LEMMA AbortOrderly ==
    ASSUME Shapes, Shapes', Orderly, NEW c \in Clients, AbortTransaction(c)
    PROVE  Orderly'
<1>1. /\ client' = [client EXCEPT ![c].state = "ready"] /\ client[c].state = "step"
      /\ UNCHANGED <<browser, did, replies>> /\ docs[DocOf[c]] = "live"
      /\ Send(c, OfTransaction(c, "abort"))
  BY DEF AbortTransaction, Acts
<1>2. client[c] \in ClientStates /\ client \in [Clients -> ClientStates] /\ client[c].tx \in Nat
  BY Bounds DEF Shapes, ClientsOK, ClientStates
<1>3. client'[c].tx = client[c].tx /\ client'[c].state = "ready"
      /\ \A x \in Clients \ {c} : client'[x] = client[x]
  BY <1>1, <1>2 DEF ClientStates
<1>4. UNCHANGED <<replies, docs>>
  BY <1>1 DEF browser
<1> DEFINE m == OfTransaction(c, "abort")
<1>5. m \in Messages(DocOf[c]) /\ m.client = c /\ m.tx = client'[c].tx /\ m.op = "abort"
  <2>1. client'[c].tx \in Nat
    BY <1>2, <1>3
  <2> QED
    BY <2>1, MessageType DEF Message, OfTransaction, Ops
<1> HIDE DEF m
<1>6. Send(c, m) /\ m.tx <= client[c].tx
  BY <1>1, <1>2, <1>3, <1>5 DEF m
<1>7. \A x \in Pending : x.op # "leave" /\ x.client = c /\ Current(x) => x.op = "step"
  BY <1>1 DEF Orderly, Attentive
<1> QED
  BY <1>1, <1>3, <1>4, <1>5, <1>6, <1>7, SameLane, SilentOrderly

(* A step is sent with the version of the connection. *)
LEMMA StepMessage ==
    ASSUME Shapes, NEW c \in Clients, NEW mode \in {"rw", "ro"}, SendStep(c, mode),
           client'[c].tx \in Nat
    PROVE  \E m \in Messages(DocOf[c]) :
              /\ m.client = c /\ Send(c, m) /\ m.op = "step"
              /\ m.tx = client'[c].tx /\ m.version = client[c].conn
<1>1. PICK k \in SUBSET Keys :
        Send(c, [OfTransaction(c, "step") EXCEPT !.mode = mode, !.keys = k])
  BY DEF SendStep
<1> DEFINE m == [OfTransaction(c, "step") EXCEPT !.mode = mode, !.keys = k]
<1>2. m \in Messages(DocOf[c])
  BY MessageType DEF Ops
<1>3. /\ m.client = c /\ m.op = "step" /\ m.tx = client'[c].tx /\ m.version = client[c].conn
  BY DEF OfTransaction, Message
<1> HIDE DEF m
<1> QED
  BY <1>1, <1>2, <1>3 DEF m

(* A client that sends a step and starts to wait for it. *)
LEMMA StepOrderly ==
    ASSUME Shapes, Shapes', Orderly, NEW c \in Clients, UNCHANGED browser,
           docs[DocOf[c]] = "live", NEW mode \in {"rw", "ro"}, SendStep(c, mode),
           \A x \in Clients \ {c} : client'[x] = client[x] /\ did'[x] = did[x],
           \/ client'[c].tx = client[c].tx /\ did'[c] = did[c]
           \/ client'[c].tx > client[c].tx /\ did'[c] = {},
           client'[c].conn = client[c].conn,
           Lane' \subseteq Lane, \A x, y : Twofold(x, y)' => Twofold(x, y),
           \A d \in Docs : Gone(d) => replies'[d] = <<>>,
           client'[c].state = "step",
           \A x \in Pending : x.op # "leave" /\ x.client = c => ~Current(x)',
           \A r \in Lane' : r.client = c => ~AwaitsStep(r)',
           \A s \in sessions : s.client = c /\ s.tx = client'[c].tx => s.version = client'[c].conn,
           Keeps(c, client[c].tx, client[c].conn)'
    PROVE  Orderly'
<1>1. client'[c].tx \in Nat
  BY Bounds DEF Shapes, ClientsOK, ClientStates
<1>2. PICK m \in Messages(DocOf[c]) :
        /\ m.client = c /\ Send(c, m) /\ m.op = "step"
        /\ m.tx = client'[c].tx /\ m.version = client[c].conn
  BY <1>1, StepMessage
<1>3. PICK sent : sent = {m}
  OBVIOUS
<1>4. /\ UNCHANGED <<sessions, failed, retired, queue, docs, job>>
      /\ \E y \in Messages(DocOf[c]) : sent = {y} /\ y.client = c /\ Send(c, y)
      /\ \A y \in sent : y.tx <= client'[c].tx
  BY <1>1, <1>2, <1>3 DEF browser
<1>5. \A y \in sent : Current(y)' =>
         \A x \in Pending : x.op # "leave" /\ x.client = c /\ Current(x)' =>
            x.op = "step" /\ y.op = "abort"
  OBVIOUS
<1>6. Starting(c, sent)
  BY <1>2, <1>3 DEF Starting
<1>7. \A y \in sent : y.op = "step" => client'[c].state = "step"
  OBVIOUS
<1> QED
  BY <1>4, <1>5, <1>6, <1>7, PageOrderly

(* The first step of a transaction keeps the order in which a transaction's steps travel. *)
LEMMA BeginOrderly ==
    ASSUME Shapes, Shapes', Orderly, NEW c \in Clients, BeginTransaction(c)
    PROVE  Orderly'
<1>1. PICK mode \in {"rw", "ro"} :
        /\ client' = [client EXCEPT ![c].state = "step", ![c].tx = @ + 1,
                                    ![c].mode = mode, ![c].steps = 1]
        /\ SendStep(c, mode)
  BY DEF BeginTransaction
<1>2. client[c] \in ClientStates /\ client \in [Clients -> ClientStates]
      /\ \A x \in Clients : client[x].tx \in Nat
  BY TxNumbers DEF Shapes, ClientsOK
<1>3. /\ UNCHANGED <<browser, replies>> /\ docs[DocOf[c]] = "live"
      /\ did' = [did EXCEPT ![c] = {}]
  BY DEF BeginTransaction, Acts
<1>4. /\ client'[c].tx = client[c].tx + 1 /\ client'[c].state = "step"
      /\ client'[c].conn = client[c].conn
  <2>1. client'[c] = [client[c] EXCEPT !.state = "step", !.tx = @ + 1, !.mode = mode, !.steps = 1]
    BY <1>1, <1>2
  <2> QED
    BY <1>2, <2>1 DEF ClientStates
<1>5. did'[c] = {} /\ \A x \in Clients \ {c} : client'[x] = client[x] /\ did'[x] = did[x]
  BY <1>1, <1>2, <1>3 DEF Shapes, ClientsOK
<1>6. client'[c].tx > client[c].tx
  BY <1>2, <1>4
<1>7. UNCHANGED <<replies, docs>>
  BY <1>3 DEF browser
<1>8. /\ Lane' \subseteq Lane /\ \A x, y : Twofold(x, y)' => Twofold(x, y)
      /\ \A d \in Docs : Gone(d) => replies'[d] = <<>>
  BY <1>7, SameLane
<1>9. \A x \in Pending : x.op # "leave" /\ x.client = c => ~Current(x)'
  <2>1. ASSUME NEW x \in Pending, x.op # "leave", x.client = c PROVE x.tx # client'[c].tx
    <3>1. x.tx <= client[c].tx /\ x.tx \in Nat
      BY <2>1, TxNumbers DEF Orderly, Numbered
    <3> QED
      BY <1>2, <1>4, <3>1
  <2> QED
    BY <2>1 DEF Current
<1>10. \A r \in Lane' : r.client = c => ~AwaitsStep(r)'
  <2>1. ASSUME NEW r \in Lane, r.client = c, r.op = "step" PROVE r.tx # client'[c].tx
    <3>1. r.tx <= client[c].tx /\ r.tx \in Nat
      BY <2>1, TxNumbers DEF Orderly, Numbered
    <3> QED
      BY <1>2, <1>4, <3>1
  <2> QED
    BY <1>8, <2>1 DEF AwaitsStep
<1>11. \A s \in sessions : s.client = c => s.tx # client'[c].tx
  <2>1. ASSUME NEW s \in sessions, s.client = c PROVE s.tx # client'[c].tx
    <3>1. s.tx <= client[c].tx /\ s.tx \in Nat
      BY <2>1, TxNumbers DEF Orderly, NumberedSessions
    <3> QED
      BY <1>2, <1>4, <3>1
  <2> QED
    BY <2>1
<1>12. Keeps(c, client[c].tx, client[c].conn)'
  BY <1>5 DEF Keeps
<1> QED
  BY <1>1, <1>3, <1>4, <1>5, <1>6, <1>8, <1>9, <1>10, <1>11, <1>12, StepOrderly

(***************************************************************************)
(* What the shell and the worker do to the order of the requests.          *)
(***************************************************************************)

(* Clients do nothing; requests are taken from the queue or moved to it,   *)
(* and at most one of them is answered (told).                             *)
LEMMA WorkerFlow ==
    ASSUME Shapes, Orderly, UNCHANGED client,
           \A x \in Pending' : x \in Pending \/ (x.op = "leave" /\ Gone(x.doc)'),
           \A x, y : Precedes(x, y)' =>
              \/ Precedes(x, y) \/ y.op = "leave"
              \/ x.op # "leave" /\ y.op # "leave" /\ x.client # y.client
              \/ x.op = "leave" /\ y.op # "leave" /\ DocOf[y.client] # x.doc,
           \A e \in Docs : Gone(e) => Gone(e)',
           \A e \in Docs : Gone(e)' => replies'[e] = <<>>,
           NEW new,
           Lane' \subseteq Lane \cup new,
           \A x, y : Twofold(x, y)' =>
              \/ Twofold(x, y) \/ (x \in new /\ y \in Lane) \/ (y \in new /\ x \in Lane),
           \A r \in new : /\ r.client \in Clients
                          /\ r.op = "step" => r.tx <= client[r.client].tx
                          /\ AwaitsStep(r) =>
                                /\ \A m \in Pending' : m.op # "leave" /\ m.client = r.client
                                                       => ~Current(m)
                                /\ \A x \in Lane : x.client = r.client => ~AwaitsStep(x)
    PROVE  Numbered' /\ OneByOne' /\ Attentive' /\ LastWords'
<1>1. \A m : Current(m)' <=> Current(m)
  BY DEF Current
<1>2. \A r : AwaitsStep(r)' <=> AwaitsStep(r)
  BY DEF AwaitsStep
<1>3. \A x \in Pending' : Current(x) => x \in Pending /\ x.op # "leave"
  BY DEF Current
<1>4. Numbered'
  <2>1. \A m \in Pending' : m.op # "leave" => m.tx <= client[m.client].tx
    BY DEF Orderly, Numbered
  <2>2. \A r \in Lane' : r.op = "step" => r.tx <= client[r.client].tx
    BY DEF Orderly, Numbered
  <2> QED
    BY <2>1, <2>2 DEF Numbered
<1>5. \A u, v : Precedes(u, v) => u \in Pending /\ v \in Pending
  BY PendingWork DEF Precedes
<1>6. OneByOne'
  <2>1. ASSUME NEW x \in Pending', NEW y \in Pending', Precedes(x, y)',
               Current(x), Current(y), x.client = y.client
        PROVE  x.op = "step" /\ y.op = "abort"
    <3>1. Precedes(x, y)
      BY <1>3, <2>1
    <3> QED
      BY <1>5, <2>1, <3>1 DEF Orderly, OneByOne, InOrder
  <2> QED
    BY <1>1, <2>1 DEF OneByOne, InOrder
<1>7. Attentive'
  <2>1. ASSUME NEW m \in Pending', Current(m), client[m.client].state = "step"
        PROVE  /\ m.op = "step" /\ m.version = client[m.client].conn
               /\ \A r \in Lane' : r.client = m.client => ~AwaitsStep(r)
    <3>1. m \in Pending /\ m.op # "leave"
      BY <1>3, <2>1
    <3>2. /\ m.op = "step" /\ m.version = client[m.client].conn
          /\ \A r \in Lane : r.client = m.client => ~AwaitsStep(r)
      BY <2>1, <3>1 DEF Orderly, Attentive
    <3> QED
      BY <2>1, <3>1, <3>2
  <2>2. ASSUME NEW x \in Lane', NEW y \in Lane', Twofold(x, y)', AwaitsStep(x), AwaitsStep(y)
        PROVE  x.client # y.client
    <3>1. CASE Twofold(x, y)
      <4>1. x \in Lane /\ y \in Lane
        BY <3>1, LaneReplies DEF Twofold
      <4> QED
        BY <2>2, <3>1, <4>1 DEF Orderly, Attentive
    <3>2. CASE (x \in new /\ y \in Lane) \/ (y \in new /\ x \in Lane)
      BY <2>2, <3>2
    <3> QED
      BY <2>2, <3>1, <3>2
  <2> QED
    BY <1>1, <1>2, <2>1, <2>2 DEF Attentive
<1>8. LastWords'
  <2>1. ASSUME NEW x \in Pending', x.op = "leave" PROVE Gone(x.doc)'
    <3>1. CASE x \in Pending
      <4>1. x.doc \in Docs
        BY <2>1, <3>1, PendingWork DEF Work, Sendable, Ops
      <4> QED
        BY <2>1, <3>1, <4>1 DEF Orderly, LastWords
    <3> QED
      BY <2>1, <3>1
  <2>2. ASSUME NEW x \in Pending', NEW y \in Pending', Precedes(x, y)', x.op = "leave", y.op # "leave"
        PROVE  DocOf[y.client] # x.doc
    <3>1. CASE Precedes(x, y)
      BY <1>5, <2>2, <3>1 DEF Orderly, LastWords
    <3> QED
      BY <2>2, <3>1
  <2> QED
    BY <2>1, <2>2 DEF LastWords
<1> QED
  BY <1>4, <1>6, <1>7, <1>8

(* No step of a client's transaction will be executed, or need not be.     *)
Excused(c) ==
    \/ did'[c] = {} \/ DocOf[c] \in failed' \/ c \in retired'
    \/ /\ \A m \in Pending' : m.op = "step" /\ m.client = c => ~Current(m)
       /\ \A r \in Lane' : r.client = c /\ r.ok => ~AwaitsStep(r)

(* Sessions end, but the one a client needs stays.                         *)
LEMMA WorkerStage ==
    ASSUME Shapes, Orderly, UNCHANGED client,
           \A x \in Pending' : x \in Pending \/ x.op = "leave",
           NEW new, Lane' \subseteq Lane \cup new, \A r \in new : r.ok => ~AwaitsStep(r),
           sessions' \subseteq sessions,
           \A c \in Clients : did'[c] = did[c] \/ did'[c] = {},
           \A c \in Clients :
              \/ Excused(c)
              \/ /\ DocOf[c] \in failed => DocOf[c] \in failed'
                 /\ c \in retired => c \in retired'
                 /\ \A s \in sessions : s.client = c /\ s.tx = client[c].tx => s \in sessions'
    PROVE  NumberedSessions' /\ OneVersion' /\ Complete' /\ Kept'
<1>1. \A m : Current(m)' <=> Current(m)
  BY DEF Current
<1>2. \A r : AwaitsStep(r)' <=> AwaitsStep(r)
  BY DEF AwaitsStep
<1>3. NumberedSessions'
  BY DEF Orderly, NumberedSessions
<1>4. OneVersion'
  BY <1>1 DEF Orderly, OneVersion
<1>5. Complete'
  BY TxNumbers DEF Orderly, Complete
<1>6. ASSUME NEW c \in Clients, NEW v, Keeps(c, client[c].tx, v), ~Excused(c)
      PROVE  Keeps(c, client[c].tx, v)'
  BY <1>6 DEF Keeps, Excused
<1>7. Kept'
  <2>1. ASSUME NEW m \in Pending', Current(m), m.op = "step"
        PROVE  Keeps(m.client, m.tx, m.version)'
    <3>1. m \in Pending /\ m.client \in Clients /\ m.tx = client[m.client].tx
      BY <2>1, PendingWork DEF Current
    <3>2. Keeps(m.client, client[m.client].tx, m.version)
      BY <2>1, <3>1 DEF Orderly, Kept
    <3>3. CASE Excused(m.client)
      BY <2>1, <3>3 DEF Excused, Keeps
    <3>4. CASE ~Excused(m.client)
      BY <1>6, <3>1, <3>2, <3>4 DEF Keeps
    <3> QED
      BY <3>3, <3>4
  <2>2. ASSUME NEW r \in Lane', AwaitsStep(r), r.ok
        PROVE  Keeps(r.client, r.tx, client[r.client].conn)'
    <3>1. r \in Lane /\ r.client \in Clients /\ r.tx = client[r.client].tx
      BY <2>2, LaneReplies DEF AwaitsStep
    <3>2. Keeps(r.client, client[r.client].tx, client[r.client].conn)
      BY <2>2, <3>1 DEF Orderly, Kept
    <3>3. CASE Excused(r.client)
      BY <2>2, <3>3 DEF Excused, Keeps
    <3>4. CASE ~Excused(r.client)
      BY <1>6, <3>1, <3>2, <3>4 DEF Keeps
    <3> QED
      BY <3>3, <3>4
  <2> QED
    BY <1>1, <1>2, <2>1, <2>2 DEF Kept
<1> QED
  BY <1>3, <1>4, <1>5, <1>7

(* Clients and requests stay, and no reply is delivered. *)
LEMMA QuietFlow ==
    ASSUME Shapes, Orderly, UNCHANGED <<client, queue, wire>>,
           \A e \in Docs : Gone(e)' <=> Gone(e),
           Lane' \subseteq Lane, \A x, y : Twofold(x, y)' => Twofold(x, y),
           \A e \in Docs : Gone(e)' => replies'[e] = <<>>
    PROVE  /\ Numbered' /\ OneByOne' /\ Attentive' /\ LastWords'
           /\ \A x \in Pending' : x \in Pending
<1>1. Pending' = Pending /\ \A x, y : Precedes(x, y)' => Precedes(x, y)
  BY SamePending
<1>2. PICK new : new = {}
  OBVIOUS
<1>3. /\ \A x \in Pending' : x \in Pending
      /\ \A e \in Docs : Gone(e) => Gone(e)'
      /\ Lane' \subseteq Lane \cup new
      /\ \A x, y : Twofold(x, y)' =>
              Twofold(x, y) \/ (x \in new /\ y \in Lane) \/ (y \in new /\ x \in Lane)
  BY <1>1
<1>4. \A r \in new : /\ r.client \in Clients
                     /\ r.op = "step" => r.tx <= client[r.client].tx
                     /\ AwaitsStep(r) =>
                           /\ \A m \in Pending' : m.op # "leave" /\ m.client = r.client
                                                  => ~Current(m)
                           /\ \A x \in Lane : x.client = r.client => ~AwaitsStep(x)
  BY <1>2
<1>5. Numbered' /\ OneByOne' /\ Attentive' /\ LastWords'
  BY <1>1, <1>3, <1>4, WorkerFlow
<1> QED
  BY <1>3, <1>5

(* The sessions and their histories are as they were. *)
LEMMA SameStage ==
    ASSUME Shapes, Orderly, UNCHANGED <<client, sessions, did, failed, retired>>,
           \A x \in Pending' : x \in Pending \/ x.op = "leave",
           NEW new, Lane' \subseteq Lane \cup new, \A r \in new : r.ok => ~AwaitsStep(r)
    PROVE  NumberedSessions' /\ OneVersion' /\ Complete' /\ Kept'
<1>1. /\ sessions' \subseteq sessions /\ \A c \in Clients : did'[c] = did[c]
      /\ \A c \in Clients :
            /\ DocOf[c] \in failed => DocOf[c] \in failed'
            /\ c \in retired => c \in retired'
            /\ \A s \in sessions : s.client = c /\ s.tx = client[c].tx => s \in sessions'
  OBVIOUS
<1> QED
  BY <1>1, WorkerStage

(* What is committed stays whole while the update and its client's history *)
(* stay, or there is no update.                                            *)
LEMMA SameCommit ==
    ASSUME Orderly, UNCHANGED <<client, did>>,
           job' = Idle \/ (/\ job # Idle /\ job'.request = job.request
                           /\ job'.candidate = job.candidate)
    PROVE  CommitIsWhole'
  BY DEF Orderly, CommitIsWhole

(* Nothing but the replies being read, or the update going on. *)
LEMMA QuietOrderly ==
    ASSUME Shapes, Shapes', Orderly,
           UNCHANGED <<client, queue, wire, sessions, did, failed, retired>>,
           \A e \in Docs : Gone(e)' <=> Gone(e),
           Lane' \subseteq Lane, \A x, y : Twofold(x, y)' => Twofold(x, y),
           \A e \in Docs : Gone(e)' => replies'[e] = <<>>, CommitIsWhole'
    PROVE  Orderly'
<1>1. /\ Numbered' /\ OneByOne' /\ Attentive' /\ LastWords'
      /\ \A x \in Pending' : x \in Pending
  BY QuietFlow
<1>2. PICK new : new = {}
  OBVIOUS
<1>3. Lane' \subseteq Lane \cup new /\ \A r \in new : r.ok => ~AwaitsStep(r)
  BY <1>2
<1>4. NumberedSessions' /\ OneVersion' /\ Complete' /\ Kept'
  BY <1>1, <1>3, SameStage
<1> QED
  BY <1>1, <1>4 DEF Orderly

(* A step's answer lets its client send what it likes: no request of the   *)
(* transaction is on its way.                                              *)
LEMMA SteppedOrderly ==
    ASSUME Shapes, Shapes', Orderly, NEW d \in Docs, replies[d] # <<>>, docs[d] = "live",
           replies' = [replies EXCEPT ![d] = Tail(@)], UNCHANGED <<browser, did>>,
           NEW c \in Clients, NEW r, r = Head(replies[d]), r.client = c, DocOf[c] = d,
           r \in Lane, Expects(c, r), Stepped(c, r), r.op \in Ops,
           \A e \in Docs : Gone(e) => replies'[e] = <<>>
    PROVE  Orderly'
<1>1. /\ client[c] \in ClientStates /\ client'[c].tx = client[c].tx
      /\ client \in [Clients -> ClientStates]
      /\ \A x \in Clients \ {c} : client'[x] = client[x]
  BY ReplyReaches DEF Shapes, ClientsOK
<1>2. r.op = "step" /\ r.ok /\ AwaitsStep(r) /\ client[c].state = "step"
  BY DEF Stepped, Expects, AwaitsStep
<1>3. \A x \in Pending : x.op # "leave" /\ x.client = c => ~Current(x)
  BY <1>2 DEF Orderly, Attentive
<1>4. /\ Lane' \subseteq Lane /\ \A x, y : Twofold(x, y)' => Twofold(x, y)
      /\ \A y \in Lane' : y.client = c => Twofold(r, y)
  BY ReadLane
<1>5. ASSUME NEW op \in {"commit", "abort"}, NEW st \in {"commit", "ready"},
             client' = [client EXCEPT ![c].state = st], Send(c, OfTransaction(c, op))
      PROVE  Orderly'
  <2> DEFINE m == OfTransaction(c, op)
  <2>1. client'[c].tx \in Nat /\ client'[c].state = st
    BY <1>1, <1>5, Bounds DEF ClientStates
  <2>2. m \in Messages(DocOf[c]) /\ m.client = c /\ m.tx = client'[c].tx /\ m.op = op
    BY <2>1, MessageType, ZenonT(30) DEF Message, OfTransaction, Ops
  <2> HIDE DEF m
  <2>3. Send(c, m) /\ m.tx <= client[c].tx
    BY <1>1, <1>5, <2>1, <2>2 DEF m
  <2>4. did' = did /\ UNCHANGED browser
    OBVIOUS
  <2> QED
    BY <1>1, <1>3, <1>4, <2>1, <2>2, <2>3, <2>4, SilentOrderly
<1>6. ASSUME client' = [client EXCEPT ![c].steps = @ + 1], SendStep(c, client[c].mode)
      PROVE  Orderly'
  <2>1. client[c].mode \in {"rw", "ro"}
    BY <1>1 DEF ClientStates
  <2>2. client'[c].state = "step" /\ client'[c].conn = client[c].conn
    BY <1>1, <1>2, <1>6 DEF ClientStates
  <2>3. \A x \in Pending : x.op # "leave" /\ x.client = c => ~Current(x)'
    BY <1>1, <1>3 DEF Current
  <2>4. \A y \in Lane' : y.client = c => ~AwaitsStep(y)'
    <3>1. ASSUME NEW y \in Lane', y.client = c, AwaitsStep(y) PROVE FALSE
      <4>1. Twofold(r, y) /\ y \in Lane
        BY <1>4, <3>1
      <4> QED
        BY <1>2, <3>1, <4>1 DEF Orderly, Attentive
    <3> QED
      BY <1>1, <1>2, <2>2, <3>1 DEF AwaitsStep
  <2>5. \A s \in sessions : s.client = c /\ s.tx = client'[c].tx => s.version = client'[c].conn
    BY <1>1, <1>2, <2>2 DEF Orderly, OneVersion
  <2>6. Keeps(c, client[c].tx, client[c].conn)'
    <3>1. Keeps(c, client[c].tx, client[c].conn)
      <4>1. r.tx = client[c].tx
        BY <1>2 DEF AwaitsStep
      <4> QED
        BY <1>2, <4>1 DEF Orderly, Kept
    <3> QED
      BY <1>1, <2>2, <3>1 DEF Keeps, browser
  <2>7. \A x \in Clients \ {c} : client'[x] = client[x] /\ did'[x] = did[x]
    BY <1>1
  <2>8. client'[c].tx = client[c].tx /\ did'[c] = did[c]
    BY <1>1
  <2> QED
    BY <1>4, <1>6, <2>1, <2>2, <2>3, <2>4, <2>5, <2>6, <2>7, <2>8, StepOrderly
<1> QED
  BY <1>5, <1>6 DEF Stepped

(* A reply that reaches its client keeps the order in which a transaction's steps travel. *)
LEMMA ReceiveOrderly ==
    ASSUME Shapes, Shapes', Orderly, NEW d \in Docs, Receive(d)
    PROVE  Orderly'
<1>1. PICK r : r = Head(replies[d])
  OBVIOUS
<1>2. PICK c : c = r.client
  OBVIOUS
<1>3. /\ replies[d] # <<>> /\ docs[d] = "live" /\ UNCHANGED <<browser, did>>
      /\ replies' = [replies EXCEPT ![d] = Tail(@)]
  BY DEF Receive
<1>4. c \in Clients /\ r.version \in 0 .. MaxVersion /\ r.op \in Ops /\ DocOf[c] = d
  BY <1>1, <1>2, <1>3, HeadReply DEF Answers
<1>5. /\ Lane' \subseteq Lane /\ \A x, y : Twofold(x, y)' => Twofold(x, y)
      /\ r \in Lane
  BY <1>1, <1>3, ReadLane
<1>6. \A e \in Docs : Gone(e) => replies'[e] = <<>>
  <2>1. DOMAIN replies = Docs
    BY DEF Shapes, RepliesOK, RepliesFit
  <2>2. \A e \in Docs : Gone(e) => replies[e] = <<>> /\ e # d
    BY <1>3 DEF Orderly, LastWords, Gone
  <2> QED
    BY <1>3, <2>1, <2>2
<1>7. ASSUME Expects(c, r), Opened(c, r) \/ Settled(c, r) PROVE Orderly'
  <2>1. /\ client[c] \in ClientStates /\ client'[c].tx = client[c].tx
        /\ client \in [Clients -> ClientStates]
        /\ \A x \in Clients \ {c} : client'[x] = client[x]
    BY <1>4, <1>7, ReplyReaches DEF Shapes, ClientsOK
  <2>2. client'[c].state # "step"
    <3>1. PICK st \in {"ready", "upgrading", "closed"} :
            \/ client' = [client EXCEPT ![c].state = st]
            \/ \E v : client' = [client EXCEPT ![c].state = st, ![c].conn = v]
      <4>1. CASE Opened(c, r)
        BY <4>1 DEF Opened
      <4>2. CASE Settled(c, r)
        BY <4>2 DEF Settled
      <4> QED
        BY <1>7, <4>1, <4>2
    <3>2. CASE client' = [client EXCEPT ![c].state = st]
      BY <1>4, <2>1, <3>2 DEF ClientStates
    <3>3. ASSUME NEW v, client' = [client EXCEPT ![c].state = st, ![c].conn = v]
          PROVE  client'[c].state = st
      BY <1>4, <2>1, <3>3 DEF ClientStates
    <3> QED
      BY <3>1, <3>2, <3>3
  <2>3. wire' = wire \/
          \E m \in Messages(DocOf[c]) :
             m.client = c /\ Send(c, m) /\ m.tx <= client[c].tx /\ m.op = "upgrade"
    <3>1. ASSUME NEW v \in 1 .. MaxVersion, NEW fresh \in BOOLEAN,
                 Send(c, [Message(c, "upgrade") EXCEPT
                            !.previous = r.version, !.version = v,
                            !.fresh = fresh \/ r.version = 0])
          PROVE  \E m \in Messages(DocOf[c]) :
                    m.client = c /\ Send(c, m) /\ m.tx <= client[c].tx /\ m.op = "upgrade"
      <4> DEFINE old == fresh \/ r.version = 0
                 n == [Message(c, "upgrade") EXCEPT !.previous = r.version, !.version = v,
                                                    !.fresh = old]
      <4>1. old \in BOOLEAN /\ v \in 0 .. MaxVersion /\ r.version \in Nat
        BY <1>4, Bounds
      <4>2. n.client = c /\ n.tx = 0 /\ n.op = "upgrade"
        BY DEF Message
      <4>3. n \in Messages(DocOf[c])
        <5>1. Message(c, "upgrade") \in Messages(DocOf[c]) /\ Message(c, "upgrade").op = "upgrade"
          BY <1>4, MessageType DEF Ops, Message
        <5> HIDE DEF old
        <5> QED
          BY <4>1, <5>1 DEF Messages, Sendable
      <4>4. Send(c, n)
        BY <3>1
      <4>5. client[c].tx \in Nat
        BY <2>1, Bounds DEF ClientStates
      <4> HIDE DEF n
      <4> QED
        BY <4>2, <4>3, <4>4, <4>5
    <3>2. CASE Opened(c, r)
      BY <3>1, <3>2 DEF Opened
    <3>3. CASE Settled(c, r)
      BY <3>3 DEF Settled
    <3> QED
      BY <1>7, <3>2, <3>3
  <2>4. wire' = wire \/
          \E m \in Messages(DocOf[c]) :
             /\ m.client = c /\ Send(c, m) /\ m.tx <= client[c].tx /\ m.op # "step"
             /\ m.op \in {"commit", "abort"} =>
                   \A x \in Pending : x.op # "leave" /\ x.client = c /\ Current(x) =>
                      x.op = "step" /\ m.op = "abort"
    BY <2>3
  <2>5. UNCHANGED browser /\ did' = did /\ docs[DocOf[c]] = "live"
    BY <1>3, <1>4
  <2> QED
    BY <1>4, <1>5, <1>6, <2>1, <2>2, <2>4, <2>5, SilentOrderly
<1>8. ASSUME Expects(c, r), Stepped(c, r) PROVE Orderly'
  BY <1>1, <1>2, <1>3, <1>4, <1>5, <1>6, <1>8, SteppedOrderly
<1>9. CASE UNCHANGED <<client, wire>>
  <2>1. UNCHANGED <<client, queue, wire, sessions, did, failed, retired>>
        /\ CommitIsWhole' /\ \A e \in Docs : Gone(e)' <=> Gone(e)
    BY <1>3, <1>9 DEF browser, Gone, Orderly, CommitIsWhole
  <2> QED
    BY <1>5, <1>6, <2>1, QuietOrderly
<1> QED
  BY <1>1, <1>2, <1>7, <1>8, <1>9 DEF Receive

(* A document that goes keeps the order in which a transaction's steps travel. *)
LEMMA LeaveOrderly ==
    ASSUME Shapes, Shapes', Orderly, NEW d \in Docs, Leave(d)
    PROVE  Orderly'
<1> DEFINE w == [op |-> "leave", doc |-> d]
<1>1. w \in Work /\ w.op = "leave" /\ w.doc = d
  BY DEF Work
<1>2. /\ Pending' \subseteq Pending \cup {w}
      /\ \A e \in Docs : Gone(e)' <=> Gone(e) \/ e = d
      /\ \A x, y : Precedes(x, y)' =>
            Precedes(x, y) \/ y = w \/ (x = w /\ y.op # "leave" /\ DocOf[y.client] # d)
  BY <1>1, LeavePending
<1>3. replies' = [replies EXCEPT ![d] = <<>>]
      /\ UNCHANGED <<client, sessions, did, failed, retired, job>>
  BY DEF Leave
<1> HIDE DEF w
<1>4. PICK new : new = {}
  OBVIOUS
<1>5. /\ Lane' \subseteq Lane \cup new
      /\ \A x, y : Twofold(x, y)' =>
              Twofold(x, y) \/ (x \in new /\ y \in Lane) \/ (y \in new /\ x \in Lane)
  BY <1>3, QuietLane
<1>6. /\ \A x \in Pending' : x \in Pending \/ (x.op = "leave" /\ Gone(x.doc)')
      /\ \A e \in Docs : Gone(e) => Gone(e)'
  BY <1>1, <1>2
<1>7. \A x, y : Precedes(x, y)' =>
              \/ Precedes(x, y) \/ y.op = "leave"
              \/ x.op # "leave" /\ y.op # "leave" /\ x.client # y.client
              \/ x.op = "leave" /\ y.op # "leave" /\ DocOf[y.client] # x.doc
  BY <1>1, <1>2
<1>8. \A e \in Docs : Gone(e)' => replies'[e] = <<>>
  <2>1. DOMAIN replies = Docs
    BY DEF Shapes, RepliesOK, RepliesFit
  <2> QED
    BY <1>2, <1>3, <2>1 DEF Orderly, LastWords
<1>9. \A r \in new : /\ r.client \in Clients /\ r.tx <= client[r.client].tx
                     /\ AwaitsStep(r) =>
                           /\ \A m \in Pending' : m.op # "leave" /\ m.client = r.client
                                                  => ~Current(m)
                           /\ \A x \in Lane : x.client = r.client => ~AwaitsStep(x)
  BY <1>4
<1>10. Numbered' /\ OneByOne' /\ Attentive' /\ LastWords'
  BY <1>3, <1>5, <1>6, <1>7, <1>8, <1>9, WorkerFlow
<1>11. (\A x \in Pending' : x \in Pending \/ x.op = "leave") /\ \A r \in new : r.ok => ~AwaitsStep(r)
  BY <1>4, <1>6
<1>12. NumberedSessions' /\ OneVersion' /\ Complete' /\ Kept'
  BY <1>3, <1>5, <1>11, SameStage
<1>13. CommitIsWhole'
  BY <1>3 DEF Orderly, CommitIsWhole
<1> QED
  BY <1>10, <1>12, <1>13 DEF Orderly

(* A request that reaches the worker's queue keeps the order in which a transaction's steps travel. *)
LEMMA SubmitOrderly ==
    ASSUME Shapes, Shapes', Orderly, NEW d \in Docs, Submit(d)
    PROVE  Orderly'
<1>1. wire[d] \in Seq(Messages(d)) /\ wire[d] # <<>>
      /\ UNCHANGED <<client, sessions, did, failed, retired, job>>
  BY DEF Shapes, LinesOK, Submit
<1>2. PICK m \in Messages(d) : m = Head(wire[d])
  BY <1>1, HeadTailProperties
<1>3. /\ m \in Sendable /\ m.client \in Clients /\ m.op # "leave" /\ DocOf[m.client] = d
  BY DEF Messages, Sendable, Ops
<1>4. /\ Pending' \subseteq Pending
      /\ \A e \in Docs : Gone(e)' <=> Gone(e)
      /\ \A x, y : Precedes(x, y)' =>
            \/ Precedes(x, y)
            \/ x.op # "leave" /\ y.op # "leave" /\ x.client # y.client
      /\ ~Gone(d) => m \in Pending
      /\ ~Gone(d) /\ queue' = queue => \A y \in Pending' :
            y.op # "leave" /\ y.client = m.client => Precedes(m, y) \/ Precedes(y, m)
  BY <1>2, SubmitPending
<1>5. \/ replies' = replies
      \/ /\ ~Gone(d) /\ queue' = queue /\ Delivered(d, Error(m))
  BY <1>2 DEF Submit, Reject, Gone
<1> DEFINE r == Error(m)
<1>6. /\ r.client = m.client /\ r.tx = m.tx /\ r.op = m.op /\ ~r.ok
      /\ r \in Answers(d, db.stamp) /\ db.stamp \in Nat /\ db.stamp <= db.stamp
  <2>1. db.stamp \in Nat
    BY DEF Shapes, DbOK
  <2> QED
    BY <2>1, AnswerType DEF Error, Answer
<1> HIDE DEF r
<1>7. PICK new : /\ new \in {{}, {r}}
                 /\ Lane' \subseteq Lane \cup new
                 /\ \A x, y : Twofold(x, y)' =>
                       Twofold(x, y) \/ (x \in new /\ y \in Lane) \/ (y \in new /\ x \in Lane)
                 /\ new # {} => ~Gone(d) /\ queue' = queue
                 /\ \A e \in Docs : Gone(e) => replies'[e] = <<>>
  <2>1. CASE replies' = replies
    <3>1. PICK new : new = {}
      OBVIOUS
    <3>2. \A e \in Docs : Gone(e) => replies'[e] = <<>>
      BY <2>1 DEF Orderly, LastWords
    <3>3. Lane' \subseteq Lane /\ \A x, y : Twofold(x, y)' => Twofold(x, y)
      BY <2>1, QuietLane
    <3> QED
      BY <3>1, <3>2, <3>3
  <2>2. CASE ~Gone(d) /\ queue' = queue /\ Delivered(d, Error(m))
    <3>1. PICK new : new = {r}
      OBVIOUS
    <3>2. \A e \in Docs : Gone(e) => replies'[e] = <<>>
      <4>1. \A e \in Docs : e # d => replies'[e] = replies[e]
        BY <2>2 DEF Delivered, Shapes, RepliesOK, RepliesFit
      <4> QED
        BY <2>2, <4>1 DEF Orderly, LastWords
    <3>3. /\ Lane' \subseteq Lane \cup {r}
          /\ \A x, y : Twofold(x, y)' =>
                Twofold(x, y) \/ (x = r /\ y \in Lane) \/ (y = r /\ x \in Lane)
      <4>1. Delivered(d, r)
        BY <2>2 DEF r
      <4> QED
        BY <1>6, <4>1, DeliveredLane
    <3> QED
      BY <2>2, <3>1, <3>2, <3>3
  <2> QED
    BY <1>5, <2>1, <2>2
<1>8. ASSUME ~Gone(d), queue' = queue
      PROVE  /\ r.client \in Clients /\ r.tx <= client[r.client].tx
             /\ AwaitsStep(r) =>
                   /\ \A y \in Pending' : y.op # "leave" /\ y.client = r.client
                                          => ~Current(y)
                   /\ \A x \in Lane : x.client = r.client => ~AwaitsStep(x)
  <2>1. m \in Pending /\ m.tx <= client[m.client].tx
    BY <1>3, <1>4, <1>8 DEF Orderly, Numbered
  <2>2. ASSUME AwaitsStep(r) PROVE Current(m) /\ m.op = "step" /\ client[m.client].state = "step"
    BY <1>6, <2>2 DEF AwaitsStep, Current
  <2>3. ASSUME AwaitsStep(r), NEW y \in Pending', y.op # "leave", y.client = r.client, Current(y)
        PROVE  FALSE
    <3>1. y \in Pending /\ (Precedes(m, y) \/ Precedes(y, m))
      BY <1>4, <1>6, <1>8, <2>3
    <3>2. y.op = "step"
      BY <1>6, <2>2, <2>3, <3>1 DEF Orderly, Attentive
    <3>3. InOrder(m, y) \/ InOrder(y, m)
      BY <2>1, <3>1 DEF Orderly, OneByOne
    <3> QED
      BY <1>6, <2>2, <2>3, <3>2, <3>3 DEF InOrder
  <2>4. ASSUME AwaitsStep(r), NEW x \in Lane, x.client = r.client PROVE ~AwaitsStep(x)
    BY <1>6, <2>1, <2>2, <2>4 DEF Orderly, Attentive
  <2> QED
    BY <1>3, <1>6, <2>1, <2>3, <2>4
<1>9. \A z \in new : /\ z.client \in Clients /\ z.tx <= client[z.client].tx
                     /\ AwaitsStep(z) =>
                           /\ \A y \in Pending' : y.op # "leave" /\ y.client = z.client
                                                  => ~Current(y)
                           /\ \A x \in Lane : x.client = z.client => ~AwaitsStep(x)
  BY <1>7, <1>8
<1>10. /\ \A x \in Pending' : x \in Pending
       /\ \A e \in Docs : Gone(e) => Gone(e)'
       /\ \A e \in Docs : Gone(e)' => replies'[e] = <<>>
       /\ \A z \in new : z.ok => ~AwaitsStep(z)
  BY <1>4, <1>6, <1>7
<1>11. Numbered' /\ OneByOne' /\ Attentive' /\ LastWords'
  BY <1>1, <1>4, <1>7, <1>9, <1>10, WorkerFlow
<1>12. NumberedSessions' /\ OneVersion' /\ Complete' /\ Kept'
  BY <1>1, <1>7, <1>10, SameStage
<1>13. CommitIsWhole'
  BY <1>1 DEF Orderly, CommitIsWhole
<1> QED
  BY <1>11, <1>12, <1>13 DEF Orderly

(* The new replies: one, or none when it is lost with the sessions of its  *)
(* document.                                                               *)
Replies(m, r, kept, new) ==
    /\ Lane' \subseteq Lane \cup new
    /\ \A x, y : Twofold(x, y)' =>
          Twofold(x, y) \/ (x \in new /\ y \in Lane) \/ (y \in new /\ x \in Lane)
    /\ \A e \in Docs : Gone(e)' <=> Gone(e)
    /\ \A e \in Docs : Gone(e)' => replies'[e] = <<>>
    /\ \/ new = {r} /\ sessions' = kept /\ failed' = failed
       \/ /\ new = {} /\ failed' = failed \cup {DocOf[m.client]}
          /\ sessions' = {s \in kept : DocOf[s.client] # DocOf[m.client]}

(* A reply adds at most one answer and takes its request out of the lane. *)
LEMMA ReplyLane ==
    ASSUME Shapes, Orderly, NEW m, m.client \in Clients, NEW last \in Nat, db.stamp <= last,
           NEW r \in Answers(DocOf[m.client], last), NEW kept, Reply(m, r, kept)
    PROVE  \E new \in {{}, {r}} : Replies(m, r, kept, new)
<1> DEFINE d == DocOf[m.client]
<1>1. d \in Docs
  BY WorkClients
<1> HIDE DEF d
<1>2. \A e \in Docs : Gone(e)' <=> Gone(e)
  BY <1>1 DEF d, Reply, Overflows, Gone, Shapes, DocsOK
<1>3. CASE HasRoom(d) /\ Delivered(d, r) /\ sessions' = kept /\ failed' = failed
  <2>1. PICK new : new = {r}
    OBVIOUS
  <2>2. \A e \in Docs : e # d => replies'[e] = replies[e]
    BY <1>3 DEF Delivered, Shapes, RepliesOK, RepliesFit
  <2>3. \A e \in Docs : Gone(e)' => replies'[e] = <<>>
    BY <1>2, <1>3, <2>2 DEF Orderly, LastWords, HasRoom, Gone
  <2>4. /\ Lane' \subseteq Lane \cup {r}
        /\ \A x, y : Twofold(x, y)' =>
              Twofold(x, y) \/ (x = r /\ y \in Lane) \/ (y = r /\ x \in Lane)
    BY <1>1, <1>3, DeliveredLane DEF d
  <2>5. Replies(m, r, kept, new)
    BY <1>2, <1>3, <2>1, <2>3, <2>4 DEF Replies, d
  <2> QED
    BY <2>1, <2>5
<1>4. CASE /\ failed' = failed \cup {d} /\ replies' = replies
           /\ sessions' = {s \in kept : DocOf[s.client] # d}
  <2>1. PICK new : new = {}
    OBVIOUS
  <2>2. Lane' \subseteq Lane /\ \A x, y : Twofold(x, y)' => Twofold(x, y)
    BY <1>4, QuietLane
  <2>3. \A e \in Docs : Gone(e)' => replies'[e] = <<>>
    BY <1>2, <1>4 DEF Orderly, LastWords
  <2>4. Replies(m, r, kept, new)
    BY <1>2, <1>4, <2>1, <2>2, <2>3 DEF Replies, d
  <2> QED
    BY <2>1, <2>4
<1> QED
  BY <1>3, <1>4 DEF Reply, d

(* When a request of a client's transaction is taken from the queue none   *)
(* of its steps is behind it, and no answer of one is on its way.          *)
LEMMA TakenAlone ==
    ASSUME Shapes, Orderly, queue # <<>>, queue' = Tail(queue), UNCHANGED wire,
           \A e \in Docs : Gone(e)' <=> Gone(e),
           NEW m, m = Head(queue), m.op # "leave", Current(m)
    PROVE  /\ \A y \in Pending' : y.op = "step" /\ y.client = m.client => ~Current(y)
           /\ client[m.client].state = "step" =>
                 /\ \A y \in Pending' : y.op # "leave" /\ y.client = m.client => ~Current(y)
                 /\ m.version = client[m.client].conn
                 /\ \A x \in Lane : x.client = m.client => ~AwaitsStep(x)
<1>1. /\ Pending' \subseteq Pending /\ m \in Pending
      /\ \A y \in Pending' : Precedes(m, y)
  BY TakePending
<1>2. ASSUME NEW y \in Pending', y.op = "step", y.client = m.client, Current(y) PROVE FALSE
  BY <1>1, <1>2 DEF Orderly, OneByOne, InOrder
<1>3. ASSUME client[m.client].state = "step"
      PROVE  /\ m.version = client[m.client].conn
             /\ \A x \in Lane : x.client = m.client => ~AwaitsStep(x)
  BY <1>1, <1>3 DEF Orderly, Attentive
<1>4. ASSUME client[m.client].state = "step",
             NEW y \in Pending', y.op # "leave", y.client = m.client, Current(y)
      PROVE  y.op = "step"
  BY <1>1, <1>4 DEF Orderly, Attentive
<1> QED
  BY <1>2, <1>3, <1>4

(* The first request is taken and answered, or not. *)
LEMMA TakeFlow ==
    ASSUME Shapes, Orderly, queue # <<>>, queue' = Tail(queue), UNCHANGED <<client, wire>>,
           \A e \in Docs : Gone(e)' <=> Gone(e),
           \A e \in Docs : Gone(e)' => replies'[e] = <<>>,
           NEW m, m = Head(queue), m.op # "leave",
           NEW r, r.op = m.op, r.client = m.client, r.tx = m.tx,
           NEW new \in {{}, {r}}, Lane' \subseteq Lane \cup new,
           \A x, y : Twofold(x, y)' =>
              Twofold(x, y) \/ (x \in new /\ y \in Lane) \/ (y \in new /\ x \in Lane)
    PROVE  Numbered' /\ OneByOne' /\ Attentive' /\ LastWords'
<1>1. /\ Pending' \subseteq Pending /\ m \in Pending /\ m.client \in Clients
      /\ \A x, y : Precedes(x, y)' => Precedes(x, y)
  BY TakePending, HeadWork
<1>2. ASSUME AwaitsStep(r)
      PROVE  /\ \A y \in Pending' : y.op # "leave" /\ y.client = m.client => ~Current(y)
             /\ \A x \in Lane : x.client = m.client => ~AwaitsStep(x)
  <2>1. Current(m) /\ client[m.client].state = "step"
    BY <1>2 DEF AwaitsStep, Current
  <2> QED
    BY <2>1, TakenAlone
<1>3. m.tx <= client[m.client].tx
  BY <1>1 DEF Orderly, Numbered
<1>4. \A z \in new : /\ z.client \in Clients
                     /\ z.op = "step" => z.tx <= client[z.client].tx
                     /\ AwaitsStep(z) =>
                           /\ \A y \in Pending' : y.op # "leave" /\ y.client = z.client
                                                  => ~Current(y)
                           /\ \A x \in Lane : x.client = z.client => ~AwaitsStep(x)
  BY <1>1, <1>2, <1>3
<1>5. \A e \in Docs : Gone(e) => Gone(e)'
  OBVIOUS
<1>6. \A x \in Pending' : x \in Pending
  BY <1>1
<1> QED
  BY <1>1, <1>4, <1>5, <1>6, WorkerFlow

(* A request is answered, or its update begins; it ends at most its        *)
(* session, or a lost answer all sessions of its document.                 *)
LEMMA TakeOrderly ==
    ASSUME Shapes, Shapes', Orderly, queue # <<>>, queue' = Tail(queue),
           UNCHANGED <<client, wire, did, retired>>,
           \A e \in Docs : Gone(e)' <=> Gone(e),
           \A e \in Docs : Gone(e)' => replies'[e] = <<>>,
           NEW m, m = Head(queue), m.op # "leave",
           NEW r, r.op = m.op, r.client = m.client, r.tx = m.tx, r.op = "step" => ~r.ok,
           NEW new \in {{}, {r}}, Lane' \subseteq Lane \cup new,
           \A x, y : Twofold(x, y)' =>
              Twofold(x, y) \/ (x \in new /\ y \in Lane) \/ (y \in new /\ x \in Lane),
           NEW kept,
           \/ kept = sessions
           \/ kept = sessions \ Session(m) /\ m.op \in {"step", "commit", "abort"},
           \/ sessions' = kept /\ failed' = failed
           \/ /\ failed' = failed \cup {DocOf[m.client]}
              /\ sessions' = {s \in kept : DocOf[s.client] # DocOf[m.client]},
           CommitIsWhole'
    PROVE  Orderly'
<1>1. Numbered' /\ OneByOne' /\ Attentive' /\ LastWords'
  BY TakeFlow
<1>2. /\ \A x \in Pending' : x \in Pending
      /\ \A z \in new : z.ok => ~AwaitsStep(z)
      /\ sessions' \subseteq sessions /\ \A c \in Clients : did'[c] = did[c]
  BY TakePending DEF AwaitsStep
<1>3. ASSUME NEW c \in Clients, NEW s \in sessions, s.client = c, s.tx = client[c].tx,
             s \notin sessions'
      PROVE  Excused(c)
  <2>1. CASE DocOf[c] = DocOf[m.client] /\ DocOf[m.client] \in failed'
    BY <2>1 DEF Excused
  <2>2. CASE s \notin kept
    <3>1. c = m.client /\ Current(m)
      BY <1>3, <2>2 DEF Session, Current
    <3>2. ASSUME NEW z \in Lane', z.client = c, z.ok, AwaitsStep(z) PROVE FALSE
      <4>1. z \in Lane /\ client[c].state = "step"
        BY <1>2, <3>2 DEF AwaitsStep
      <4> QED
        BY <3>1, <3>2, <4>1, TakenAlone
    <3>3. \A y \in Pending' : y.op = "step" /\ y.client = c => ~Current(y)
      BY <3>1, TakenAlone
    <3> QED
      BY <3>2, <3>3 DEF Excused
  <2> QED
    BY <1>3, <2>1, <2>2
<1>4. \A c \in Clients :
         \/ Excused(c)
         \/ /\ DocOf[c] \in failed => DocOf[c] \in failed'
            /\ c \in retired => c \in retired'
            /\ \A s \in sessions : s.client = c /\ s.tx = client[c].tx => s \in sessions'
  BY <1>3
<1>5. NumberedSessions' /\ OneVersion' /\ Complete' /\ Kept'
  BY <1>2, <1>4, WorkerStage
<1> QED
  BY <1>1, <1>5 DEF Orderly

(* The worker answers the first request without executing a step. *)
LEMMA AnswerOrderly ==
    ASSUME Shapes, Shapes', Orderly, queue # <<>>, queue' = Tail(queue),
           UNCHANGED <<client, wire, did, retired, job>>, job = Idle,
           NEW m, m = Head(queue), m.op # "leave",
           NEW r \in Answers(DocOf[m.client], db.stamp),
           r.op = m.op, r.client = m.client, r.tx = m.tx, r.op = "step" => ~r.ok,
           NEW kept,
           \/ kept = sessions
           \/ kept = sessions \ Session(m) /\ m.op \in {"step", "commit", "abort"},
           Reply(m, r, kept)
    PROVE  Orderly'
<1>1. db.stamp \in Nat /\ db.stamp <= db.stamp /\ m.client \in Clients
  BY HeadWork DEF Shapes, DbOK
<1>2. PICK new \in {{}, {r}} : Replies(m, r, kept, new)
  BY <1>1, ReplyLane
<1>3. CommitIsWhole'
  BY DEF CommitIsWhole
<1>4. /\ Lane' \subseteq Lane \cup new
      /\ \A x, y : Twofold(x, y)' =>
            Twofold(x, y) \/ (x \in new /\ y \in Lane) \/ (y \in new /\ x \in Lane)
      /\ \A e \in Docs : Gone(e)' <=> Gone(e)
      /\ \A e \in Docs : Gone(e)' => replies'[e] = <<>>
      /\ \/ sessions' = kept /\ failed' = failed
         \/ /\ failed' = failed \cup {DocOf[m.client]}
            /\ sessions' = {s \in kept : DocOf[s.client] # DocOf[m.client]}
  BY <1>2 DEF Replies
<1> QED
  BY <1>3, <1>4, TakeOrderly

(* The start of a file update keeps the order in which a transaction's steps travel. *)
LEMMA BeginUpdateOrderly ==
    ASSUME Shapes, Shapes', Orderly, BeginUpdate
    PROVE  Orderly'
<1>1. PICK m : m = Head(queue)
  OBVIOUS
<1> DEFINE kept == IF m.op = "commit" THEN sessions \ Session(m) ELSE sessions
<1>2. /\ queue # <<>> /\ queue' = Tail(queue) /\ m.op \in Updates /\ job = Idle
      /\ UNCHANGED <<client, wire, did, retired>>
  BY <1>1 DEF BeginUpdate
<1>3. /\ m.op # "leave" /\ m.op # "step" /\ m.client \in Clients /\ m \in Messages(DocOf[m.client])
      /\ m \in Sendable
  BY <1>1, <1>2, HeadWork DEF Updates, Messages
<1>4. \/ kept = sessions
      \/ kept = sessions \ Session(m) /\ m.op \in {"step", "commit", "abort"}
  OBVIOUS
<1>5. \/ Valid(m) /\ UNCHANGED <<failed, replies, docs>> /\ sessions' = kept
         /\ job' = [op |-> "temp", request |-> m, candidate |-> Candidate(m), base |-> job'.base]
      \/ Reply(m, Error(m), kept) /\ job' = job
  BY <1>1 DEF BeginUpdate
<1> HIDE DEF kept
<1>6. CASE Reply(m, Error(m), kept) /\ job' = job
  <2>1. Error(m) \in Answers(DocOf[m.client], db.stamp)
    <3>1. db.stamp \in Nat
      BY DEF Shapes, DbOK
    <3> QED
      BY <1>3, <3>1, AnswerType
  <2>2. PICK r \in Answers(DocOf[m.client], db.stamp) : r = Error(m)
    BY <2>1
  <2>3. r.op = m.op /\ r.client = m.client /\ r.tx = m.tx
    BY <2>2 DEF Error, Answer
  <2> QED
    BY <1>1, <1>2, <1>3, <1>4, <1>6, <2>2, <2>3, AnswerOrderly
<1>7. CASE /\ Valid(m) /\ UNCHANGED <<failed, replies, docs>> /\ sessions' = kept
           /\ job' = [op |-> "temp", request |-> m, candidate |-> Candidate(m), base |-> job'.base]
  <2>1. PICK r : r = Answer(m)
    OBVIOUS
  <2>2. r.op = m.op /\ r.client = m.client /\ r.tx = m.tx
    BY <2>1 DEF Answer
  <2>3. PICK new \in {{}, {r}} : new = {}
    OBVIOUS
  <2>4. /\ Lane' \subseteq Lane \cup new
        /\ \A x, y : Twofold(x, y)' =>
              Twofold(x, y) \/ (x \in new /\ y \in Lane) \/ (y \in new /\ x \in Lane)
    BY <1>7, QuietLane
  <2>5. \A e \in Docs : Gone(e)' <=> Gone(e)
    BY <1>7 DEF Gone
  <2>6. \A e \in Docs : Gone(e)' => replies'[e] = <<>>
    BY <1>7, <2>5 DEF Orderly, LastWords
  <2>7. CommitIsWhole'
    <3>1. ASSUME m.op = "commit", m.tx = client[m.client].tx, NEW k \in did[m.client]
          PROVE  Candidate(m).data[k] = <<m.client, client[m.client].tx>>
      <4>1. PICK s \in Session(m) : Candidate(m).data = s.data
        BY <1>2, <1>3, <1>7, <3>1, CandidateType
      <4>2. s \in sessions /\ s.client = m.client /\ s.tx = m.tx
        BY <4>1 DEF Session
      <4> QED
        BY <3>1, <4>1, <4>2 DEF Orderly, Complete
    <3>2. job'.request = m /\ job'.candidate = Candidate(m)
      BY <1>7
    <3> QED
      BY <1>2, <3>1, <3>2 DEF CommitIsWhole
  <2>8. r.op = "step" => ~r.ok
    BY <1>3, <2>2
  <2> QED
    BY <1>1, <1>2, <1>3, <1>4, <1>7, <2>2, <2>3, <2>4, <2>5, <2>6, <2>7, <2>8, TakeOrderly
<1> QED
  BY <1>5, <1>6, <1>7

(* A step is staged: what its transaction wrote before is in the session   *)
(* it finds, or nothing was written and the session begins.                *)
LEMMA StagedOrderly ==
    ASSUME Shapes, Shapes', Orderly, queue # <<>>, queue' = Tail(queue),
           UNCHANGED <<client, wire, retired, job>>, job = Idle,
           NEW m, m = Head(queue), m.op = "step", ~Refused(m),
           Session(m) # {} \/ CanBegin(m),
           did' = [did EXCEPT ![m.client] = IF client[m.client].tx = m.tx
                                            THEN @ \cup m.keys ELSE @],
           NEW t, t.client = m.client, t.tx = m.tx, t.version = m.version,
           t.data = [k \in Keys |-> IF k \in m.keys THEN <<m.client, m.tx>> ELSE Staged(m).data[k]],
           NEW r, r = Answer(m) \/ r = Error(m), NEW kept, kept = (sessions \ Session(m)) \cup {t},
           Reply(m, r, kept)
    PROVE  Orderly'
<1>1. /\ db.stamp \in Nat /\ db.stamp <= db.stamp /\ m.client \in Clients /\ m.op # "leave"
      /\ m \in Messages(DocOf[m.client])
  BY HeadWork DEF Shapes, DbOK
<1>2. r \in Answers(DocOf[m.client], db.stamp)
  BY <1>1, AnswerType
<1>3. r.op = m.op /\ r.client = m.client /\ r.tx = m.tx
  BY DEF Answer, Error
<1>4. PICK new \in {{}, {r}} : Replies(m, r, kept, new)
  BY <1>1, <1>2, ReplyLane
<1>5.   /\ Lane' \subseteq Lane \cup new
        /\ \A x, y : Twofold(x, y)' =>
              Twofold(x, y) \/ (x \in new /\ y \in Lane) \/ (y \in new /\ x \in Lane)
        /\ \A e \in Docs : Gone(e)' <=> Gone(e)
        /\ \A e \in Docs : Gone(e)' => replies'[e] = <<>>
        /\ \/ new = {r} /\ sessions' = kept /\ failed' = failed
           \/ /\ new = {} /\ failed' = failed \cup {DocOf[m.client]}
              /\ sessions' = {s \in kept : DocOf[s.client] # DocOf[m.client]}
  BY <1>4 DEF Replies
<1>6. Numbered' /\ OneByOne' /\ Attentive' /\ LastWords'
  BY <1>1, <1>3, <1>5, TakeFlow
<1>7. Pending' \subseteq Pending /\ m \in Pending
  BY <1>5, TakePending
<1>8. \A x : (Current(x)' <=> Current(x)) /\ (AwaitsStep(x)' <=> AwaitsStep(x))
  BY DEF Current, AwaitsStep
<1>9. m.tx = client[m.client].tx => Current(m)
  BY DEF Current
<1>10. ASSUME NEW s \in sessions' PROVE s = t \/ (s \in sessions /\ s \notin Session(m))
  BY <1>5
<1>11. /\ did \in [Clients -> SUBSET Keys]
       /\ \A e \in Clients : e # m.client => did'[e] = did[e]
       /\ m.tx # client[m.client].tx => did'[m.client] = did[m.client]
       /\ did'[m.client] \subseteq did[m.client] \cup m.keys
       /\ did'[m.client] \subseteq Keys
  BY <1>1 DEF Shapes, ClientsOK
<1>12. NumberedSessions'
  <2>1. m.tx <= client[m.client].tx
    BY <1>1, <1>7 DEF Orderly, Numbered
  <2> QED
    BY <1>10, <2>1 DEF Orderly, NumberedSessions
<1>13. OneVersion'
  <2>1. ASSUME NEW s \in sessions', s.tx = client[s.client].tx
        PROVE  /\ client[s.client].state = "step" => s.version = client[s.client].conn
               /\ \A y \in Pending' : Current(y) /\ y.op = "step" /\ y.client = s.client
                                      => y.version = s.version
    <3>1. CASE s = t
      BY <1>1, <1>9, <2>1, <3>1, TakenAlone, <1>5
    <3>2. CASE s \in sessions
      BY <1>7, <2>1, <3>2 DEF Orderly, OneVersion
    <3> QED
      BY <1>10, <3>1, <3>2
  <2> QED
    BY <1>8, <2>1 DEF OneVersion
<1>14. m.tx = client[m.client].tx => Keeps(m.client, m.tx, m.version)
  BY <1>7, <1>9 DEF Orderly, Kept
<1>15. Complete'
  <2>1. ASSUME NEW s \in sessions', s.tx = client[s.client].tx, NEW k \in did'[s.client]
        PROVE  s.data[k] = <<s.client, s.tx>>
    <3>1. CASE s # t /\ (s.client # m.client \/ m.tx # client[m.client].tx)
      <4>1. s \in sessions /\ s.client \in Clients
        BY <1>10, <3>1 DEF Shapes, SessionsOK, SessionsFit, IsSession
      <4> QED
        BY <1>11, <2>1, <3>1, <4>1 DEF Orderly, Complete
    <3>2. CASE s # t /\ s.client = m.client /\ m.tx = client[m.client].tx
      <4>1. s \in sessions /\ s \notin Session(m)
        BY <1>10, <3>2
      <4>2. s.version = m.version
        BY <1>7, <1>9, <2>1, <3>2, <4>1 DEF Orderly, OneVersion
      <4> QED
        BY <2>1, <3>2, <4>1, <4>2 DEF Session
    <3>3. CASE s = t /\ k \in m.keys
      BY <1>11, <2>1, <3>3
    <3>4. CASE s = t /\ k \notin m.keys
      <4>1. k \in did[m.client] /\ k \in Keys /\ t.data[k] = Staged(m).data[k]
        BY <1>11, <2>1, <3>4
      <4>2. Session(m) # {}
        BY <1>14, <2>1, <3>4, <4>1 DEF Keeps, Refused, Session
      <4>3. Staged(m) \in Session(m)
        BY <4>2 DEF Staged
      <4>4. /\ Staged(m) \in sessions /\ Staged(m).client = m.client
            /\ Staged(m).tx = client[m.client].tx
        BY <2>1, <3>4, <4>3 DEF Session
      <4>5. Staged(m).data[k] = <<Staged(m).client, Staged(m).tx>>
        BY <4>1, <4>4 DEF Orderly, Complete
      <4> QED
        BY <2>1, <3>4, <4>1, <4>4, <4>5
    <3> QED
      BY <3>1, <3>2, <3>3, <3>4
  <2> QED
    BY <2>1 DEF Complete
<1>16. ASSUME NEW e \in Clients, NEW v, Keeps(e, client[e].tx, v),
              e # m.client \/ m.tx # client[m.client].tx
       PROVE  Keeps(e, client[e].tx, v)'
  <2>1. did'[e] = did[e]
    BY <1>11, <1>16
  <2>2. DocOf[e] \in failed => DocOf[e] \in failed'
    BY <1>5
  <2>3. ASSUME NEW s \in sessions, s.client = e, s.tx = client[e].tx
        PROVE  s \in sessions' \/ DocOf[e] \in failed'
    <3>1. s \in kept
      BY <1>16, <2>3 DEF Session
    <3> QED
      BY <1>5, <2>3, <3>1
  <2> QED
    BY <1>16, <2>1, <2>2, <2>3 DEF Keeps
<1>17. Kept'
  <2>1. ASSUME NEW y \in Pending', Current(y), y.op = "step"
        PROVE  Keeps(y.client, y.tx, y.version)'
    <3>1. y \in Pending /\ y.client \in Clients /\ y.tx = client[y.client].tx
      BY <1>7, <2>1, PendingWork DEF Current
    <3>2. Keeps(y.client, client[y.client].tx, y.version)
      BY <2>1, <3>1 DEF Orderly, Kept
    <3>3. y.client # m.client \/ m.tx # client[m.client].tx
      BY <1>1, <1>5, <1>9, <2>1, TakenAlone
    <3>4. Keeps(y.client, client[y.client].tx, y.version)'
      BY <1>16, <3>1, <3>2, <3>3
    <3> QED
      BY <3>1, <3>4 DEF Keeps
  <2>2. ASSUME NEW x \in Lane', AwaitsStep(x), x.ok
        PROVE  Keeps(x.client, x.tx, client[x.client].conn)'
    <3>1. CASE x \in Lane
      <4>1. x.client \in Clients /\ x.tx = client[x.client].tx /\ client[x.client].state = "step"
        BY <2>2, <3>1, LaneReplies DEF AwaitsStep
      <4>2. Keeps(x.client, client[x.client].tx, client[x.client].conn)
        BY <2>2, <3>1, <4>1 DEF Orderly, Kept
      <4>3. x.client # m.client \/ m.tx # client[m.client].tx
        BY <1>1, <1>5, <1>9, <2>2, <3>1, <4>1, TakenAlone
      <4>4. PICK v : v = client[x.client].conn
        OBVIOUS
      <4>5. Keeps(x.client, client[x.client].tx, v)
        BY <4>2, <4>4
      <4>6. Keeps(x.client, client[x.client].tx, v)'
        BY <1>16, <4>1, <4>3, <4>5
      <4> QED
        BY <4>1, <4>4, <4>6 DEF Keeps
    <3>2. CASE x = r /\ new = {r}
      <4>1. m.tx = client[m.client].tx /\ client[m.client].state = "step"
        BY <1>3, <2>2, <3>2 DEF AwaitsStep
      <4>2. m.version = client[m.client].conn
        BY <1>1, <1>5, <1>9, <4>1, TakenAlone
      <4>3. t \in sessions'
        BY <1>5, <3>2
      <4> QED
        BY <1>3, <3>2, <4>2, <4>3 DEF Keeps
    <3> QED
      BY <1>5, <3>1, <3>2
  <2> QED
    BY <1>8, <2>1, <2>2 DEF Kept
<1>18. CommitIsWhole'
  BY DEF CommitIsWhole
<1> QED
  BY <1>6, <1>12, <1>13, <1>15, <1>17, <1>18 DEF Orderly

(* A request the worker executes keeps the order in which a transaction's steps travel. *)
LEMMA ExecuteOrderly ==
    ASSUME Shapes, Shapes', Orderly, Execute
    PROVE  Orderly'
<1>1. PICK m : m = Head(queue)
  OBVIOUS
<1>2. /\ queue # <<>> /\ queue' = Tail(queue) /\ m.op # "leave" /\ job = Idle
      /\ UNCHANGED <<client, wire, retired, job>>
  BY <1>1 DEF Execute, CommitsNothing
<1>3. /\ m.client \in Clients /\ m.tx \in Nat /\ m \in Messages(DocOf[m.client])
  BY <1>1, <1>2, HeadWork
<1>4. /\ Answer(m) \in Answers(DocOf[m.client], db.stamp)
      /\ Error(m) \in Answers(DocOf[m.client], db.stamp)
      /\ [Answer(m) EXCEPT !.version = db.version] \in Answers(DocOf[m.client], db.stamp)
  <2>1. db.stamp \in Nat /\ db.version \in 0 .. MaxVersion
    BY DEF Shapes, DbOK
  <2> QED
    BY <1>3, <2>1, AnswerType
<1>5. ASSUME did' = did, NEW r \in Answers(DocOf[m.client], db.stamp),
             r.op = m.op, r.client = m.client, r.tx = m.tx, r.op = "step" => ~r.ok,
             \/ Reply(m, r, sessions)
             \/ Reply(m, r, sessions \ Session(m)) /\ m.op \in {"step", "commit", "abort"}
      PROVE  Orderly'
  <2>1. PICK kept : /\ \/ kept = sessions
                       \/ kept = sessions \ Session(m) /\ m.op \in {"step", "commit", "abort"}
                    /\ Reply(m, r, kept)
    BY <1>5
  <2> QED
    BY <1>1, <1>2, <1>5, <2>1, AnswerOrderly
<1>6. ASSUME did' = did,
             \/ Reply(m, Error(m), sessions)
             \/ Reply(m, Error(m), sessions \ Session(m)) /\ m.op \in {"step", "commit", "abort"}
      PROVE  Orderly'
  <2>1. PICK r \in Answers(DocOf[m.client], db.stamp) : r = Error(m)
    BY <1>4
  <2>2. r.op = m.op /\ r.client = m.client /\ r.tx = m.tx /\ ~r.ok
    BY <2>1 DEF Error, Answer
  <2> QED
    BY <1>5, <1>6, <2>1, <2>2
<1>7. ASSUME did' = did, m.op = "open",
             Reply(m, [Answer(m) EXCEPT !.version = db.version], sessions)
      PROVE  Orderly'
  <2>1. PICK r \in Answers(DocOf[m.client], db.stamp) :
          r = [Answer(m) EXCEPT !.version = db.version]
    BY <1>4
  <2>2. r.op = m.op /\ r.client = m.client /\ r.tx = m.tx
    BY <2>1 DEF Answer
  <2> QED
    BY <1>5, <1>7, <2>1, <2>2
<1>8. ASSUME did' = did, m.op \in {"commit", "abort"}, Reply(m, Answer(m), sessions \ Session(m))
      PROVE  Orderly'
  <2>1. PICK r \in Answers(DocOf[m.client], db.stamp) : r = Answer(m)
    BY <1>4
  <2>2. r.op = m.op /\ r.client = m.client /\ r.tx = m.tx
    BY <2>1 DEF Answer
  <2> QED
    BY <1>5, <1>8, <2>1, <2>2
<1>9. ASSUME m.op = "step", ~Refused(m), ExecuteStep(m) PROVE Orderly'
  <2>1. CASE did' = did /\ (Reply(m, Error(m), sessions) \/ Reply(m, Error(m), sessions \ Session(m)))
    BY <1>6, <1>9, <2>1
  <2>2. CASE /\ Session(m) # {} \/ CanBegin(m)
             /\ LET s == Staged(m)
                    t == [s EXCEPT !.data = [k \in Keys |->
                            IF k \in m.keys THEN <<m.client, m.tx>> ELSE s.data[k]]]
                IN  \E r \in {Answer(m), Error(m)} : Reply(m, r, (sessions \ Session(m)) \cup {t})
             /\ did' = [did EXCEPT ![m.client] = IF client[m.client].tx = m.tx
                                                 THEN @ \cup m.keys ELSE @]
    <3>1. PICK data : data = [k \in Keys |-> IF k \in m.keys THEN <<m.client, m.tx>>
                                             ELSE Staged(m).data[k]]
      OBVIOUS
    <3>2. PICK t : t = [Staged(m) EXCEPT !.data = data]
      OBVIOUS
    <3>3. PICK r : /\ r = Answer(m) \/ r = Error(m)
                   /\ Reply(m, r, (sessions \ Session(m)) \cup {t})
      BY <2>2, <3>1, <3>2
    <3>4. t.client = m.client /\ t.tx = m.tx /\ t.version = m.version /\ t.data = data
      BY <1>3, <2>2, <3>2, StagedFit
    <3>5. t.data = [k \in Keys |-> IF k \in m.keys THEN <<m.client, m.tx>>
                                   ELSE Staged(m).data[k]]
      BY <3>1, <3>4
    <3>6. /\ Session(m) # {} \/ CanBegin(m)
          /\ did' = [did EXCEPT ![m.client] = IF client[m.client].tx = m.tx
                                              THEN @ \cup m.keys ELSE @]
      BY <2>2
    <3>7. PICK kept : kept = (sessions \ Session(m)) \cup {t}
      OBVIOUS
    <3>8. Reply(m, r, kept)
      BY <3>3, <3>7
    <3> HIDE <2>2, <3>1
    <3> QED
      BY <1>1, <1>2, <1>9, <3>3, <3>4, <3>5, <3>6, <3>7, <3>8, StagedOrderly
  <2> QED
    BY <1>9, <2>1, <2>2 DEF ExecuteStep
<1> QED
  BY <1>1, <1>6, <1>7, <1>8, <1>9 DEF Execute, CommitsNothing

(* A session that expires takes what its client wrote along. *)
LEMMA ExpireOrderly ==
    ASSUME Shapes, Shapes', Orderly, Expire
    PROVE  Orderly'
<1>1. PICK s \in sessions :
        /\ sessions' = sessions \ {s}
        /\ did' = IF s.tx = client[s.client].tx THEN [did EXCEPT ![s.client] = {}] ELSE did
  BY DEF Expire
<1>2. /\ UNCHANGED <<client, queue, wire, failed, retired, replies, docs>>
      /\ s.client \in Clients /\ did \in [Clients -> SUBSET Keys] /\ job' = Idle
  BY DEF Expire, Shapes, SessionsOK, SessionsFit, IsSession, ClientsOK
<1>3. (\A e \in Docs : Gone(e)' <=> Gone(e)) /\ \A e \in Docs : Gone(e)' => replies'[e] = <<>>
  BY <1>2 DEF Gone, Orderly, LastWords
<1>4. PICK new : new = {}
  OBVIOUS
<1>5. /\ Lane' \subseteq Lane /\ \A x, y : Twofold(x, y)' => Twofold(x, y)
      /\ Lane' \subseteq Lane \cup new /\ \A r \in new : r.ok => ~AwaitsStep(r)
  BY <1>2, <1>4, QuietLane
<1>6. /\ Numbered' /\ OneByOne' /\ Attentive' /\ LastWords'
      /\ \A x \in Pending' : x \in Pending
  BY <1>2, <1>3, <1>5, QuietFlow
<1>7. /\ sessions' \subseteq sessions
      /\ \A c \in Clients : did'[c] = did[c] \/ did'[c] = {}
  BY <1>1, <1>2
<1>8. \A c \in Clients :
         \/ Excused(c)
         \/ /\ DocOf[c] \in failed => DocOf[c] \in failed'
            /\ c \in retired => c \in retired'
            /\ \A x \in sessions : x.client = c /\ x.tx = client[c].tx => x \in sessions'
  <2>1. s.tx = client[s.client].tx => Excused(s.client)
    BY <1>1, <1>2 DEF Excused
  <2> QED
    BY <1>1, <1>2, <2>1
<1>9. NumberedSessions' /\ OneVersion' /\ Complete' /\ Kept'
  BY <1>2, <1>5, <1>6, <1>7, <1>8, WorkerStage
<1>10. CommitIsWhole'
  BY <1>2 DEF CommitIsWhole
<1> QED
  BY <1>6, <1>9, <1>10 DEF Orderly

(* A retired client executes no step, and behind a departure there is none *)
(* of its document.                                                        *)
LEMMA RetireOrderly ==
    ASSUME Shapes, Shapes', Orderly, Retire
    PROVE  Orderly'
<1>1. PICK m : m = Head(queue)
  OBVIOUS
<1>2. /\ queue # <<>> /\ queue' = Tail(queue)
      /\ UNCHANGED <<client, wire, did, replies, docs>> /\ job' = Idle
      /\ \/ m.op = "retire" /\ RetireClient(m)
         \/ m.op = "leave" /\ RetireDocument(m)
  BY <1>1 DEF Retire
<1>3. (\A e \in Docs : Gone(e)' <=> Gone(e)) /\ \A e \in Docs : Gone(e)' => replies'[e] = <<>>
  BY <1>2 DEF Gone, Orderly, LastWords
<1>4. PICK new : new = {}
  OBVIOUS
<1>5. /\ Lane' \subseteq Lane
      /\ Lane' \subseteq Lane \cup new /\ \A r \in new : r.ok => ~AwaitsStep(r)
      /\ \A x, y : Twofold(x, y)' =>
            Twofold(x, y) \/ (x \in new /\ y \in Lane) \/ (y \in new /\ x \in Lane)
  BY <1>2, <1>4, QuietLane
<1>6. /\ Pending' \subseteq Pending /\ m \in Pending
      /\ \A x, y : Precedes(x, y)' => Precedes(x, y)
      /\ \A y \in Pending' : Precedes(m, y)
  BY <1>1, <1>2, <1>3, TakePending
<1>7. Numbered' /\ OneByOne' /\ Attentive' /\ LastWords'
  <2>1. \A r \in new : /\ r.client \in Clients
                       /\ r.op = "step" => r.tx <= client[r.client].tx
                       /\ AwaitsStep(r) =>
                             /\ \A y \in Pending' : y.op # "leave" /\ y.client = r.client
                                                    => ~Current(y)
                             /\ \A x \in Lane : x.client = r.client => ~AwaitsStep(x)
    BY <1>4
  <2>2. (\A e \in Docs : Gone(e) => Gone(e)') /\ \A x \in Pending' : x \in Pending
    BY <1>3, <1>6
  <2> QED
    BY <1>2, <1>3, <1>5, <1>6, <2>1, <2>2, WorkerFlow
<1>8. ASSUME NEW c \in Clients
      PROVE  \/ Excused(c)
             \/ /\ DocOf[c] \in failed => DocOf[c] \in failed'
                /\ c \in retired => c \in retired'
                /\ \A x \in sessions : x.client = c /\ x.tx = client[c].tx => x \in sessions'
  <2>1. CASE m.op = "retire" /\ RetireClient(m)
    BY <2>1 DEF RetireClient, Excused
  <2>2. CASE m.op = "leave" /\ RetireDocument(m) /\ DocOf[c] # m.doc
    BY <2>2 DEF RetireDocument, OfDoc
  <2>3. CASE m.op = "leave" /\ RetireDocument(m) /\ DocOf[c] = m.doc
    <3>1. ASSUME NEW y \in Pending', y.op = "step", y.client = c PROVE FALSE
      BY <1>6, <2>3, <3>1 DEF Orderly, LastWords
    <3>2. ASSUME NEW r \in Lane', r.client = c PROVE FALSE
      <4>1. r \in Elements(replies[DocOf[c]])
        BY <1>5, <3>2, LaneReplies
      <4>2. DocOf[c] \in Docs /\ replies[DocOf[c]] = <<>>
        BY <1>6, <2>3, WorkClients DEF Orderly, LastWords
      <4> QED
        BY <4>1, <4>2 DEF Elements
    <3> QED
      BY <3>1, <3>2 DEF Excused
  <2> QED
    BY <1>2, <2>1, <2>2, <2>3
<1>9. NumberedSessions' /\ OneVersion' /\ Complete' /\ Kept'
  <2>1. sessions' \subseteq sessions /\ \A c \in Clients : did'[c] = did[c]
    BY <1>2 DEF RetireClient, RetireDocument
  <2>2. \A x \in Pending' : x \in Pending
    BY <1>6
  <2> QED
    BY <1>2, <1>5, <1>8, <2>1, <2>2, WorkerStage
<1>10. CommitIsWhole'
  BY <1>2 DEF CommitIsWhole
<1> QED
  BY <1>7, <1>9, <1>10 DEF Orderly

(* An update goes on, ends or fails: its client may hear of it. *)
LEMMA UpdateOrderly ==
    ASSUME Shapes, Shapes', Orderly, FinishUpdate \/ FailUpdate
    PROVE  Orderly'
<1>1. PICK m : m = job.request
  OBVIOUS
<1>2. /\ job # Idle /\ UNCHANGED <<client, wire, queue, retired, did>> /\ job' = Idle
      /\ \/ Reply(m, [Answer(m) EXCEPT !.stamp = job.candidate.stamp], sessions)
         \/ Reply(m, Error(m), sessions)
  BY <1>1 DEF FinishUpdate, FailUpdate, Failed, Publish, Idle
<1>3. /\ m \in Messages(DocOf[m.client]) /\ m.client \in Clients /\ m.op # "step"
      /\ stamps \in Nat /\ db.stamp <= stamps /\ job.candidate.stamp \in 0 .. stamps
  <2>1. m \in Sendable /\ m.op \in Updates /\ job.candidate.stamp = stamps /\ stamps \in Nat
        /\ db.stamp < stamps /\ db.stamp \in 0 .. stamps
    BY <1>1, <1>2 DEF Shapes, JobOK, DbOK
  <2> QED
    BY <2>1 DEF Messages, Sendable, Updates
<1>4. PICK r \in Answers(DocOf[m.client], stamps) : r.op # "step" /\ Reply(m, r, sessions)
  <2>1. /\ [Answer(m) EXCEPT !.stamp = job.candidate.stamp] \in Answers(DocOf[m.client], stamps)
        /\ Error(m) \in Answers(DocOf[m.client], stamps)
    BY <1>3, AnswerType
  <2>2. /\ [Answer(m) EXCEPT !.stamp = job.candidate.stamp].op = m.op
        /\ Error(m).op = m.op
    BY DEF Answer, Error
  <2> QED
    BY <1>2, <1>3, <2>1, <2>2
<1>5. PICK kept : kept = sessions
  OBVIOUS
<1>6. Reply(m, r, kept)
  BY <1>4, <1>5
<1>7. PICK new \in {{}, {r}} : Replies(m, r, kept, new)
  BY <1>3, <1>6, ReplyLane
<1>8. /\ Lane' \subseteq Lane \cup new
      /\ \A x, y : Twofold(x, y)' =>
            Twofold(x, y) \/ (x \in new /\ y \in Lane) \/ (y \in new /\ x \in Lane)
      /\ \A e \in Docs : Gone(e)' <=> Gone(e)
      /\ \A e \in Docs : Gone(e)' => replies'[e] = <<>>
      /\ \/ sessions' = sessions /\ failed' = failed
         \/ /\ failed' = failed \cup {DocOf[m.client]}
            /\ sessions' = {s \in sessions : DocOf[s.client] # DocOf[m.client]}
  BY <1>5, <1>7 DEF Replies
<1>9. Pending' = Pending /\ \A x, y : Precedes(x, y)' => Precedes(x, y)
  BY <1>2, <1>8, SamePending
<1>10. /\ \A x \in Pending' : x \in Pending
       /\ \A e \in Docs : Gone(e) => Gone(e)'
       /\ \A z \in new : z.ok => ~AwaitsStep(z)
  BY <1>4, <1>8, <1>9 DEF AwaitsStep
<1>11. \A z \in new : /\ z.client \in Clients
                      /\ z.op = "step" => z.tx <= client[z.client].tx
                      /\ AwaitsStep(z) =>
                            /\ \A y \in Pending' : y.op # "leave" /\ y.client = z.client
                                                   => ~Current(y)
                            /\ \A x \in Lane : x.client = z.client => ~AwaitsStep(x)
  BY <1>4 DEF AwaitsStep, Answers
<1>12. Numbered' /\ OneByOne' /\ Attentive' /\ LastWords'
  BY <1>2, <1>8, <1>9, <1>10, <1>11, WorkerFlow
<1>13. sessions' \subseteq sessions /\ \A c \in Clients : did'[c] = did[c]
  BY <1>2, <1>8
<1>14. \A c \in Clients :
         \/ Excused(c)
         \/ /\ DocOf[c] \in failed => DocOf[c] \in failed'
            /\ c \in retired => c \in retired'
            /\ \A s \in sessions : s.client = c /\ s.tx = client[c].tx => s \in sessions'
  <2>1. \A c \in Clients : DocOf[c] \in failed' => Excused(c)
    BY DEF Excused
  <2> QED
    BY <1>2, <1>8, <2>1
<1>15. NumberedSessions' /\ OneVersion' /\ Complete' /\ Kept'
  BY <1>2, <1>8, <1>10, <1>13, <1>14, WorkerStage
<1>16. CommitIsWhole'
  BY <1>2 DEF CommitIsWhole
<1> QED
  BY <1>12, <1>15, <1>16 DEF Orderly

(* One file operation keeps the order in which a transaction's steps travel. *)
LEMMA WriteFileOrderly ==
    ASSUME Shapes, Shapes', Orderly, WriteFile
    PROVE  Orderly'
<1>1. /\ UNCHANGED <<client, queue, wire, sessions, did, failed, retired, replies, docs>>
      /\ job.op \in {"temp", "rotate"} /\ job' = [job EXCEPT !.op = job'.op]
  BY DEF WriteFile, Rotate
<1>2. /\ \A e \in Docs : Gone(e)' <=> Gone(e)
      /\ \A e \in Docs : Gone(e)' => replies'[e] = <<>>
  BY <1>1 DEF Gone, Orderly, LastWords
<1>3. Lane' \subseteq Lane /\ \A x, y : Twofold(x, y)' => Twofold(x, y)
  BY <1>1, QuietLane
<1>4. CommitIsWhole'
  <2>1. job # Idle
    BY <1>1 DEF Idle
  <2>2. job = [op |-> job.op, request |-> job.request, candidate |-> job.candidate,
               base |-> job.base]
    BY <2>1 DEF Shapes, JobOK
  <2>3. job'.request = job.request /\ job'.candidate = job.candidate
    BY <1>1, <2>2
  <2> QED
    BY <1>1, <2>1, <2>3, SameCommit
<1> QED
  BY <1>1, <1>2, <1>3, <1>4, QuietOrderly

(* After a restart nothing is on its way. *)
LEMMA RestartOrderly ==
    ASSUME Shapes, Restart
    PROVE  Orderly'
<1>1. /\ queue' = <<>> /\ sessions' = {} /\ job' = Idle
      /\ \A d \in Docs : docs'[d] = "live" /\ wire'[d] = <<>> /\ replies'[d] = <<>>
  BY DEF Restart
<1>2. DOMAIN <<>> = {}
  OBVIOUS
<1>3. Pending' = {} /\ Lane' = {}
  BY <1>1, <1>2 DEF Pending, Lane, Elements
<1>4. \A d \in Docs : ~Gone(d)'
  BY <1>1 DEF Gone
<1>5. Numbered' /\ OneByOne' /\ Attentive' /\ LastWords'
  BY <1>3, <1>4 DEF Numbered, OneByOne, Attentive, LastWords
<1>6. NumberedSessions' /\ OneVersion' /\ Complete' /\ Kept' /\ CommitIsWhole'
  BY <1>1, <1>3 DEF NumberedSessions, OneVersion, Complete, Kept, CommitIsWhole
<1> QED
  BY <1>5, <1>6 DEF Orderly

(* At the start nothing is under way. *)
LEMMA InitOrderly ==
    Init => Orderly
<1> SUFFICES ASSUME Init PROVE Orderly
  OBVIOUS
<1>1. /\ queue = <<>> /\ sessions = {} /\ job = Idle
      /\ \A d \in Docs : docs[d] = "live" /\ wire[d] = <<>> /\ replies[d] = <<>>
  BY DEF Init
<1>2. DOMAIN <<>> = {}
  OBVIOUS
<1>3. Pending = {} /\ Lane = {}
  BY <1>1, <1>2 DEF Pending, Lane, Elements
<1>4. \A d \in Docs : ~Gone(d)
  BY <1>1 DEF Gone
<1>5. Numbered /\ OneByOne /\ Attentive /\ LastWords
  BY <1>3, <1>4 DEF Numbered, OneByOne, Attentive, LastWords
<1>6. NumberedSessions /\ OneVersion /\ Complete /\ Kept /\ CommitIsWhole
  BY <1>1, <1>3 DEF NumberedSessions, OneVersion, Complete, Kept, CommitIsWhole
<1> QED
  BY <1>5, <1>6 DEF Orderly

(* Every step keeps the requests in order. *)
LEMMA NextOrderly ==
    Shapes /\ Orderly /\ [Next]_vars => Orderly'
<1> SUFFICES ASSUME Shapes, Orderly, [Next]_vars PROVE Orderly'
  OBVIOUS
<1>1. Shapes'
  BY NextShapes
<1>2. ASSUME NEW c \in Clients, Page(c) PROVE Orderly'
  BY <1>1, <1>2, OpenOrderly, CloseOrderly, BeginOrderly, AbortOrderly DEF Page
<1>3. ASSUME NEW d \in Docs, Shell(d) PROVE Orderly'
  BY <1>1, <1>3, ReceiveOrderly, SubmitOrderly, LeaveOrderly DEF Shell
<1>4. CASE Worker
  BY <1>1, <1>4, ExpireOrderly, RetireOrderly, ExecuteOrderly, BeginUpdateOrderly,
     WriteFileOrderly, UpdateOrderly DEF Worker
<1>5. CASE UNCHANGED vars
  <2>1. /\ UNCHANGED <<client, queue, wire, sessions, did, failed, retired, replies, docs, job>>
    BY <1>5 DEF vars
  <2>2. /\ \A e \in Docs : Gone(e)' <=> Gone(e)
        /\ \A e \in Docs : Gone(e)' => replies'[e] = <<>>
    BY <2>1 DEF Gone, Orderly, LastWords
  <2>3. Lane' \subseteq Lane /\ \A x, y : Twofold(x, y)' => Twofold(x, y)
    BY <2>1, QuietLane
  <2>4. CommitIsWhole'
    BY <2>1 DEF Orderly, CommitIsWhole
  <2> QED
    BY <1>1, <2>1, <2>2, <2>3, <2>4, QuietOrderly
<1> QED
  BY <1>2, <1>3, <1>4, <1>5, RestartOrderly DEF Next

(* What commits holds every write its transaction made: whatever requests  *)
(* are rejected, replies are lost, sessions expire, pages leave and        *)
(* browsers crash meanwhile, no part of a transaction commits alone.       *)
THEOREM CommitsAreWhole ==
    Spec => []CommitIsWhole
<1>1. Orderly => CommitIsWhole
  BY DEF Orderly
<1> QED
  BY <1>1, InitOrderly, ShapesHold, NextOrderly, PTL DEF Spec
=============================================================================
