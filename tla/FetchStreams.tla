---------------------------- MODULE FetchStreams ----------------------------
(***************************************************************************)
(* How a network response gets from the browser's network workers to the   *)
(* page that asked for it, in one renderer session.                        *)
(*                                                                         *)
(* Three kinds of thread take part.  A network worker runs one step of a   *)
(* job at a time (windows_app/renderer_fetch): ask the network, queue the  *)
(* head, then one body chunk per step; a job that meets backpressure is    *)
(* parked and its worker takes another one.  Two lanes lead to the broker: *)
(* stylesheets and scripts have their own, which is drained first, the     *)
(* rest share one that is bounded by bytes.  The broker thread checks each *)
(* event against what it has already sent and passes it to the pipe.  The  *)
(* child process checks it again, and returns credit as bytes are read.    *)
(* FetchFlow, a table behind a mutex, connects the ends: workers reserve,  *)
(* receipts of the child release, and a retired entry is how a job learns  *)
(* that nobody wants its response any more.                                *)
(*                                                                         *)
(* Anything that the broker or the child refuses ends the renderer.        *)
(***************************************************************************)
EXTENDS Naturals, Sequences, FiniteSets, FiniteSetsExt, SequencesExt, Functions

CONSTANTS
    Batches,          \* bound: the batches that a page sends, sequences of kinds
    MaxRequests,      \* bound: requests of the session
    MaxDocs,          \* bound: documents loaded in the session
    MaxInterruptions, \* bound: documents cancelled, and restarts after a late
                      \* character encoding
    MaxBody,          \* bound: bytes of a response body
    MaxChunk,         \* MAX_FETCH_STREAM_CHUNK_BYTES
    Window,           \* MAX_FETCH_STREAM_WINDOW_BYTES
    MaxInFlight,      \* MAX_FETCH_STREAM_IN_FLIGHT_BYTES
    LaneBudget,       \* MAX_QUEUED_FETCH_RESPONSE_BYTES
    Overhead,         \* EVENT_OVERHEAD_BYTES
    PriorityCapacity, \* MAX_QUEUED_FETCH_STREAM_CHUNKS: the priority lane's bound
    Workers,          \* MAX_PARALLEL_RENDERER_FETCHES
    MaxPipe,          \* bound: messages between broker and child
    Exits             \* may the renderer process end by itself?

Ids == 1 .. MaxRequests
Docs == 1 .. MaxDocs

(* What matters of a request's initiator and destination: does it need     *)
(* credit (streams_response), does the child gather its body before the    *)
(* page gets it, does it take the priority lane (uses_priority_lane)?      *)
Kinds == [limited : BOOLEAN, buffered : BOOLEAN, prioritized : BOOLEAN]

ASSUME FetchAssumption ==
    /\ Batches \subseteq Seq(Kinds) /\ <<>> \notin Batches /\ Exits \in BOOLEAN
    /\ \A n \in {MaxRequests, MaxDocs, MaxInterruptions, MaxBody, Overhead} : n \in Nat
    /\ \A n \in {MaxChunk, PriorityCapacity, Workers, MaxPipe} : n \in Nat \ {0}
    /\ Window \in Nat /\ MaxInFlight \in Nat /\ LaneBudget \in Nat
    /\ MaxChunk <= Window /\ MaxChunk <= MaxInFlight /\ MaxChunk + Overhead <= LaneBudget

VARIABLES
    child,     \* the running document (0: none), the next request identifier
               \* and FetchState.retired_through
    tracked,   \* FetchState.requests, with what its other tables say of each
    up,        \* renderer messages, child to broker
    down,      \* browser messages, broker to child
    active,    \* Broker.active_document (0: none)
    retired,   \* Broker.retired_document (0: none)
    loads,     \* documents begun, and cancellations and restarts so far
    flow,      \* FetchFlow.requests
    inFlight,  \* FetchFlow.in_flight
    awaiting,  \* Broker.fetch_response_streaming: requests without a head yet
    outgoing,  \* Broker.outgoing_fetch: bytes passed on, and may it have a body
    responses, \* the byte-bounded lane
    priority,  \* the lane of stylesheets and scripts
    draining,  \* the broker has found the priority lane empty and turns to the other
    job,       \* the network job of each request
    fault      \* who refused a message, or "none"; "exit" if the process ended

page == <<child, tracked>>
credit == <<flow, inFlight>>
sent == <<awaiting, outgoing>>
lanes == <<responses, priority>>
document == <<active, retired, loads>>
vars == <<page, up, down, document, credit, sent, lanes, draining, job, fault>>

Event == [op : {"start"}, id : Ids, doc : Docs, body : BOOLEAN]
         \cup [op : {"chunk"}, id : Ids, doc : Docs, offset : 0 .. MaxBody, size : 1 .. MaxChunk]
         \cup [op : {"end"}, id : Ids, doc : Docs, total : 0 .. MaxBody]
         \cup [op : {"abort"}, id : Ids, doc : Docs]

Command == [op : {"begin", "cancel"}, doc : Docs]

Message == [op : {"fetch"}, doc : Docs, reqs : UNION {[ids -> Kinds] : ids \in SUBSET Ids}]
           \cup [op : {"abort"}, doc : Docs, id : Ids]
           \cup [op : {"consumed"}, doc : Docs, id : Ids, total : 0 .. MaxBody]
           \cup [op : {"failed"}, doc : Docs]

Refusals == {"broker", "child", "overtaken", "late receipt"}

Idle == [pc |-> "none", doc |-> 0, batch |-> {}, total |-> 0, pending |-> 0,
         outbox |-> <<>>, hurried |-> FALSE]

TypeOK ==
    /\ child \in [doc : 0 .. MaxDocs, next : 1 .. MaxRequests + 1,
                  retired : 0 .. MaxRequests]
    /\ DOMAIN tracked \subseteq Ids
    /\ \A id \in DOMAIN tracked :
         tracked[id] \in [doc : Docs, kind : Kinds, phase : {"sent", "open", "done"},
                          received : 0 .. MaxBody, read : 0 .. MaxBody, live : BOOLEAN]
    /\ up \in Seq(Message) /\ down \in Seq(Event \cup Command)
    /\ active \in 0 .. MaxDocs /\ retired \in 0 .. MaxDocs
    /\ loads \in [begun : 0 .. MaxDocs, interrupted : 0 .. MaxInterruptions]
    /\ DOMAIN flow \subseteq Ids
    /\ \A id \in DOMAIN flow :
         flow[id] \in [limited : BOOLEAN, prioritized : BOOLEAN,
                       reserved : 0 .. MaxBody, consumed : 0 .. MaxBody]
    /\ inFlight \in 0 .. MaxInFlight
    /\ awaiting \subseteq Ids
    /\ DOMAIN outgoing \subseteq Ids
    /\ \A id \in DOMAIN outgoing : outgoing[id] \in [offset : 0 .. MaxBody, body : BOOLEAN]
    /\ responses \in Seq(Event) /\ priority \in Seq(Event) /\ draining \in BOOLEAN
    /\ \A id \in Ids :
         job[id] \in [pc : {"none", "queued", "request", "fetching", "body", "reading",
                            "trying", "done"},
                      doc : 0 .. MaxDocs, batch : SUBSET Ids, total : 0 .. MaxBody,
                      pending : 0 .. MaxChunk, outbox : Seq(Event),
                      hurried : BOOLEAN]
    /\ fault \in {"none", "exit"} \cup Refusals

Init ==
    /\ child = [doc |-> 0, next |-> 1, retired |-> 0]
    /\ tracked = <<>> /\ up = <<>> /\ down = <<>>
    /\ active = 0 /\ retired = 0 /\ loads = [begun |-> 0, interrupted |-> 0]
    /\ flow = <<>> /\ inFlight = 0 /\ awaiting = {} /\ outgoing = <<>>
    /\ responses = <<>> /\ priority = <<>> /\ draining = FALSE
    /\ job = [id \in Ids |-> Idle] /\ fault = "none"

Alive == fault = "none"

Without(f, ids) == Restrict(f, DOMAIN f \ ids)

(***************************************************************************)
(* FetchFlow: every operation runs under its mutex.                        *)
(***************************************************************************)

Unread(id) == flow[id].reserved - flow[id].consumed

(* The condition of reserve, try_reserve and has_capacity. *)
Fits(id, bytes) ==
    ~flow[id].limited \/ (Unread(id) + bytes <= Window /\ inFlight + bytes <= MaxInFlight)

Charge(id, bytes) == IF flow[id].limited THEN bytes ELSE 0

IsPrioritized(id) == id \in DOMAIN flow /\ flow[id].prioritized

(* try_reserve, when the chunk fits. *)
Reserve(id, bytes) ==
    /\ flow' = [flow EXCEPT ![id].reserved = @ + bytes]
    /\ inFlight' = inFlight + Charge(id, bytes)

(* Mutant of Retire: what the page has not read stays charged. *)
RetireOnly(id) ==
    /\ flow' = Without(flow, {id})
    /\ UNCHANGED inFlight

(* retire: the entry goes, and with it what it still had reserved.         *)
Retire(id) ==
    /\ flow' = Without(flow, {id})
    /\ inFlight' = IF id \in DOMAIN flow THEN inFlight - Charge(id, Unread(id)) ELSE inFlight

(* What the broker forgets with a document: outgoing_fetch.clear,          *)
(* FetchFlow::clear and fetch_response_streaming.clear.                    *)
ClearFetches == flow' = <<>> /\ inFlight' = 0 /\ awaiting' = {} /\ outgoing' = <<>>

(***************************************************************************)
(* The page and the connection in the child process.                       *)
(***************************************************************************)

DocumentRequests(doc) == {id \in DOMAIN tracked : tracked[id].doc = doc}

(* start_fetch_batch and start_streaming_fetch_batch: one batch message    *)
(* stands for the start, the heads, the bodies and the ends of the wire.   *)
FetchBatch(kinds) ==
    LET ids == child.next .. child.next + Len(kinds) - 1
        reqs == [id \in ids |-> kinds[id - child.next + 1]]
    IN  /\ Alive /\ child.doc # 0 /\ ids \subseteq Ids
        /\ child' = [child EXCEPT !.next = @ + Len(kinds)]
        /\ tracked' = [id \in ids |-> [doc |-> child.doc, kind |-> reqs[id],
                                       phase |-> "sent", received |-> 0, read |-> 0,
                                       live |-> TRUE]] @@ tracked
        /\ up' = Append(up, [op |-> "fetch", doc |-> child.doc, reqs |-> reqs])
        /\ UNCHANGED <<down, document, credit, sent, lanes, draining, job, fault>>

(* A response that the running document's script reads. *)
ScriptOwns(id) ==
    /\ id \in DOMAIN tracked /\ child.doc # 0 /\ tracked[id].doc = child.doc
    /\ ~tracked[id].kind.buffered /\ tracked[id].live

(* The script aborts; the connection keeps the entry until the browser's   *)
(* last word on it.                                                        *)
AbortFetch(id) ==
    /\ Alive /\ ScriptOwns(id)
    /\ tracked' = [tracked EXCEPT ![id].live = FALSE]
    /\ up' = Append(up, [op |-> "abort", doc |-> child.doc, id |-> id])
    /\ UNCHANGED <<child, down, document, credit, sent, lanes, draining, job, fault>>

(* The script has read its stream up to total. *)
ConsumeFetch(id, total) ==
    /\ Alive /\ ScriptOwns(id)
    /\ total > tracked[id].read /\ total <= tracked[id].received
    /\ tracked' = [tracked EXCEPT ![id].read = total]
    /\ up' = Append(up, [op |-> "consumed", doc |-> child.doc, id |-> id, total |-> total])
    /\ UNCHANGED <<child, down, document, credit, sent, lanes, draining, job, fault>>

(* take_completed: the document takes a buffered response. *)
TakeCompleted(id) ==
    /\ Alive /\ id \in DOMAIN tracked /\ tracked[id].phase = "done"
    /\ child.doc = tracked[id].doc
    /\ tracked' = Without(tracked, {id})
    /\ UNCHANGED <<child, up, down, document, credit, sent, lanes, draining, job, fault>>

(* Mutant of CancelFetches: late replies are no longer recognised. *)
ForgetFetches(doc, running) ==
    /\ tracked' = Without(tracked, DocumentRequests(doc))
    /\ child' = [child EXCEPT !.doc = running]

(* FetchState::cancel_document: identifiers only grow, so one number tells *)
(* the late replies to cancelled requests.  Afterwards running runs.       *)
CancelFetches(doc, running) ==
    /\ tracked' = Without(tracked, DocumentRequests(doc))
    /\ child' = [child EXCEPT !.retired = Max({@} \cup DocumentRequests(doc)),
                              !.doc = running]

(* restart_encoding: the document starts again under the same identity.    *)
RestartEncoding ==
    /\ Alive /\ child.doc # 0 /\ loads.interrupted < MaxInterruptions
    /\ loads' = [loads EXCEPT !.interrupted = @ + 1]
    /\ up' = up \o [i \in 1 .. Cardinality(DocumentRequests(child.doc)) |->
                      [op |-> "abort", doc |-> child.doc,
                       id |-> SetToSeq(DocumentRequests(child.doc))[i]]]
    /\ CancelFetches(child.doc, child.doc)
    /\ UNCHANGED <<down, active, retired, credit, sent, lanes, draining, job, fault>>

(* send_document_failure: the runtime goes, its requests stay tracked. *)
FailDocument ==
    /\ Alive /\ child.doc # 0
    /\ child' = [child EXCEPT !.doc = 0]
    /\ up' = Append(up, [op |-> "failed", doc |-> child.doc])
    /\ UNCHANGED <<tracked, down, document, credit, sent, lanes, draining, job, fault>>

(* What FetchState accepts, given the message of a tracked request. *)
Accepts(m) ==
    LET r == tracked[m.id]
    IN  CASE m.op = "start" -> r.phase = "sent"
          [] m.op = "chunk" -> r.phase = "open" /\ m.offset = r.received
          [] m.op = "end"   -> r.phase = "open" /\ m.total = r.received
          [] m.op = "abort" -> r.phase = "open"

(* FetchState::start, chunk, end and abort: a streaming response is        *)
(* forgotten at its end, a buffered one waits to be taken.                 *)
Deliver(m) ==
    CASE m.op = "start" -> tracked' = [tracked EXCEPT ![m.id].phase = "open"]
      [] m.op = "chunk" -> tracked' = [tracked EXCEPT ![m.id].received = @ + m.size]
      [] m.op \in {"end", "abort"} ->
           tracked' = IF tracked[m.id].kind.buffered
                      THEN [tracked EXCEPT ![m.id].phase = "done"]
                      ELSE Without(tracked, {m.id})

(* handle_fetch_message: a late reply to a cancelled request is dropped;   *)
(* the connection itself returns the credit of a buffered chunk.           *)
HandleFetchMessage(m) ==
    /\ IF m.id <= child.retired /\ m.id \notin DOMAIN tracked
       THEN UNCHANGED <<tracked, up, fault>>
       ELSE IF m.id \in DOMAIN tracked /\ Accepts(m)
       THEN /\ Deliver(m)
            /\ up' = IF m.op = "chunk" /\ tracked[m.id].kind.buffered
                     THEN Append(up, [op |-> "consumed", doc |-> tracked[m.id].doc,
                                      id |-> m.id, total |-> m.offset + m.size])
                     ELSE up
            /\ UNCHANGED fault
       ELSE /\ fault' = "child"
            /\ UNCHANGED <<tracked, up>>
    /\ UNCHANGED child

(* cancel_navigation. *)
CancelNavigation(doc) ==
    /\ CancelFetches(doc, IF child.doc = doc THEN 0 ELSE child.doc)
    /\ UNCHANGED <<up, fault>>

(* The child's loop: one message of the browser. *)
HandleBrowserMessage ==
    /\ Alive /\ down # <<>>
    /\ down' = Tail(down)
    /\ LET m == Head(down)
       IN  CASE m.op = "begin"  -> /\ child' = [child EXCEPT !.doc = m.doc]
                                   /\ UNCHANGED <<tracked, up, fault>>
             [] m.op = "cancel" -> CancelNavigation(m.doc)
             [] OTHER           -> HandleFetchMessage(m)
    /\ UNCHANGED <<document, credit, sent, lanes, draining, job>>

(***************************************************************************)
(* The broker thread.  It is at one place of its loop at a time: draining  *)
(* is set between its two attempts to receive an event.                    *)
(***************************************************************************)

BrokerIsFree == Alive /\ ~draining

(* load_document and load_streaming_document, and their handling. *)
LoadDocument ==
    /\ BrokerIsFree /\ active = 0 /\ loads.begun < MaxDocs
    /\ loads' = [loads EXCEPT !.begun = @ + 1]
    /\ active' = loads.begun + 1
    /\ ClearFetches
    /\ down' = Append(down, [op |-> "begin", doc |-> loads.begun + 1])
    /\ UNCHANGED <<page, up, retired, lanes, draining, job, fault>>

(* cancel_document: batches that the UI has not yet started are discarded  *)
(* with the document's other events.                                       *)
CancelDocument ==
    /\ BrokerIsFree /\ active # 0 /\ loads.interrupted < MaxInterruptions
    /\ loads' = [loads EXCEPT !.interrupted = @ + 1]
    /\ active' = 0 /\ retired' = active
    /\ ClearFetches
    /\ job' = [id \in Ids |-> IF job[id].pc = "queued" THEN [job[id] EXCEPT !.pc = "done"]
                              ELSE job[id]]
    /\ down' = Append(down, [op |-> "cancel", doc |-> active])
    /\ UNCHANGED <<page, up, lanes, draining, fault>>

Owned(doc) == doc # 0 /\ doc \in {active, retired}

(* finish_fetch_request and register_fetch_response_policies, then the     *)
(* FetchBatch event to the UI.                                             *)
TakeBatch(m) ==
    LET ids == DOMAIN m.reqs
    IN
    IF ~Owned(m.doc) THEN fault' = "broker" /\ UNCHANGED <<retired, credit, sent, job>>
    ELSE IF m.doc # active THEN UNCHANGED <<retired, credit, sent, job, fault>>
    ELSE IF ids \cap (DOMAIN flow \cup awaiting) # {}
    THEN fault' = "broker" /\ UNCHANGED <<retired, credit, sent, job>>
    ELSE /\ retired' = 0
         /\ flow' = [id \in ids |-> [limited |-> m.reqs[id].limited,
                                     prioritized |-> m.reqs[id].prioritized,
                                     reserved |-> 0, consumed |-> 0]] @@ flow
         /\ awaiting' = awaiting \cup ids
         /\ job' = [id \in Ids |-> IF id \in ids
                                   THEN [Idle EXCEPT !.pc = "queued", !.doc = m.doc,
                                                     !.batch = ids]
                                   ELSE job[id]]
         /\ UNCHANGED <<inFlight, outgoing, fault>>

(* FetchRequestAbort.  Its event tells the UI to abort the network request, *)
(* which may fail at any time anyway.                                      *)
TakeAbort(m) ==
    /\ fault' = IF Owned(m.doc) THEN fault ELSE "broker"
    /\ IF m.doc = active THEN Retire(m.id) ELSE UNCHANGED credit
    /\ UNCHANGED <<retired, sent, job>>

(* FetchResponseConsumed and FetchFlow::consume. *)
TakeReceipt(m) ==
    /\ IF m.doc # active
       THEN /\ fault' = IF m.doc = retired THEN fault ELSE "late receipt"
            /\ UNCHANGED credit
       ELSE IF m.id \notin DOMAIN flow THEN UNCHANGED <<credit, fault>>
       ELSE IF m.total < flow[m.id].consumed \/ m.total > flow[m.id].reserved
       THEN fault' = "broker" /\ UNCHANGED credit
       ELSE /\ flow' = [flow EXCEPT ![m.id].consumed = m.total]
            /\ inFlight' = inFlight - Charge(m.id, m.total - flow[m.id].consumed)
            /\ UNCHANGED fault
    /\ UNCHANGED <<retired, sent, job>>

(* DocumentFailed. *)
TakeFailure(m) ==
    /\ IF m.doc = active THEN retired' = 0 /\ ClearFetches ELSE UNCHANGED <<retired, credit, sent>>
    /\ UNCHANGED <<job, fault>>

(* process_document_message. *)
ProcessMessage ==
    /\ BrokerIsFree /\ up # <<>>
    /\ up' = Tail(up)
    /\ LET m == Head(up)
       IN  /\ CASE m.op = "fetch"    -> TakeBatch(m)
                [] m.op = "abort"    -> TakeAbort(m)
                [] m.op = "consumed" -> TakeReceipt(m)
                [] m.op = "failed"   -> TakeFailure(m)
           /\ active' = IF m.op = "failed" /\ m.doc = active THEN 0 ELSE active
    /\ UNCHANGED <<page, down, loads, lanes, draining>>

(* What process_fetch_stream_event accepts for the active document. *)
InOrder(e) ==
    CASE e.op = "start" -> e.id \notin DOMAIN outgoing /\ e.id \in awaiting
      [] e.op = "chunk" -> /\ e.id \in DOMAIN outgoing /\ outgoing[e.id].body
                           /\ e.offset = outgoing[e.id].offset
      [] e.op = "end"   -> e.id \in DOMAIN outgoing /\ e.total = outgoing[e.id].offset
      [] e.op = "abort" -> e.id \in DOMAIN outgoing

Pass(e) ==
    CASE e.op = "start" -> /\ outgoing' = (e.id :> [offset |-> 0, body |-> e.body]) @@ outgoing
                           /\ awaiting' = awaiting \ {e.id}
      [] e.op = "chunk" -> /\ outgoing' = [outgoing EXCEPT ![e.id].offset = @ + e.size]
                           /\ UNCHANGED awaiting
      [] e.op \in {"end", "abort"} -> outgoing' = Without(outgoing, {e.id}) /\ UNCHANGED awaiting

(* process_fetch_stream_event: the end of a response retires its credit,   *)
(* also when its document has gone.                                        *)
ProcessEvent(e) ==
    /\ IF e.op \in {"end", "abort"} THEN Retire(e.id) ELSE UNCHANGED credit
    /\ IF e.doc # active THEN UNCHANGED <<sent, down, fault>>
       ELSE IF InOrder(e) THEN Pass(e) /\ down' = Append(down, e) /\ UNCHANGED fault
       ELSE /\ fault' = IF \E i \in DOMAIN priority : priority[i].id = e.id
                        THEN "overtaken" ELSE "broker"
            /\ UNCHANGED <<sent, down>>
    /\ UNCHANGED <<page, up, document, job>>

PipeHasRoom == Len(down) < MaxPipe

(* process_fetch_stream: the priority lane goes first. *)
TakePriority ==
    /\ BrokerIsFree /\ PipeHasRoom /\ priority # <<>>
    /\ priority' = Tail(priority)
    /\ ProcessEvent(Head(priority))
    /\ UNCHANGED <<responses, draining>>

(* Its first attempt finds the priority lane empty...  When the other lane *)
(* is empty too the attempt changes nothing, unless a worker is about to   *)
(* send to the lane that has just been found empty.                        *)
FindPriorityEmpty ==
    /\ BrokerIsFree /\ PipeHasRoom /\ priority = <<>>
    /\ responses # <<>> \/ \E id \in Ids : job[id].hurried
    /\ draining' = TRUE
    /\ UNCHANGED <<page, up, down, document, credit, sent, lanes, job, fault>>

(* ... and now it takes from the other one. *)
TakeResponse ==
    /\ Alive /\ draining
    /\ draining' = FALSE
    /\ IF responses = <<>>
       THEN UNCHANGED <<page, up, down, document, credit, sent, responses, job, fault>>
       ELSE responses' = Tail(responses) /\ ProcessEvent(Head(responses))
    /\ UNCHANGED priority

(* finish_exit: the process has gone with its pipes, and the receivers of  *)
(* the lanes go with the broker.  Only the jobs are left, and they learn   *)
(* it from the cleared credit or when they send.                           *)
FinishExit ==
    /\ child' = [child EXCEPT !.doc = 0] /\ tracked' = <<>> /\ up' = <<>> /\ down' = <<>>
    /\ active' = 0 /\ retired' = 0
    /\ ClearFetches
    /\ responses' = <<>> /\ priority' = <<>>
    /\ fault' = "exit"
    /\ UNCHANGED <<loads, draining, job>>

(* The process ends by itself. *)
Exit == Exits /\ BrokerIsFree /\ loads.begun > 0 /\ FinishExit

(* It is ended because a message was refused. *)
Terminate == fault \in Refusals /\ FinishExit

(***************************************************************************)
(* Network workers.  Each batch has Workers of them; a job holds one from  *)
(* the time it is picked until its step returns.                           *)
(***************************************************************************)

Busy(id) == job[id].outbox # <<>> \/ job[id].pc \in {"fetching", "reading", "trying"}

(* Mutant of WorkerIsFree: a parked job keeps its worker. *)
WorkerIsFreeOfBodies(id) ==
    Cardinality({other \in job[id].batch \ {id} : Busy(other) \/ job[other].pc = "body"}) < Workers

(* execute_bounded: may a worker pick this job? *)
WorkerIsFree(id) ==
    Cardinality({other \in job[id].batch : Busy(other)}) < Workers

ThenSend(id, events, pc) == job' = [job EXCEPT ![id].outbox = events, ![id].pc = pc]

NetworkOnly == UNCHANGED <<page, up, down, document, sent, lanes, draining, fault>>

(* begin_renderer_fetch_batch and spawn_fetch_batch: the UI starts the     *)
(* workers of a batch, or drops it when the tab no longer owns the document. *)
SpawnBatch(id) ==
    /\ job[id].pc = "queued"
    /\ \E pc \in {"request"} \cup IF Alive /\ job[id].doc = active THEN {} ELSE {"done"} :
         job' = [other \in Ids |-> IF other \in job[id].batch THEN [job[other] EXCEPT !.pc = pc]
                                   ELSE job[other]]
    /\ NetworkOnly /\ UNCHANGED credit

StartRequest(id) ==
    /\ job[id].pc = "request" /\ WorkerIsFree(id)
    /\ job' = [job EXCEPT ![id].pc = "fetching"]
    /\ NetworkOnly /\ UNCHANGED credit

HeadOf(id, body) == [op |-> "start", id |-> id, doc |-> job[id].doc, body |-> body]

EndOf(id) == [op |-> "end", id |-> id, doc |-> job[id].doc, total |-> job[id].total]

AbortOf(id) == [op |-> "abort", id |-> id, doc |-> job[id].doc]

(* The network answers, or fails: begin_body or send_failure. *)
Respond(id) ==
    /\ job[id].pc = "fetching" /\ job[id].outbox = <<>>
    /\ \/ ThenSend(id, <<HeadOf(id, TRUE)>>, "body")
       \/ ThenSend(id, <<HeadOf(id, FALSE), EndOf(id)>>, "done")
    /\ NetworkOnly /\ UNCHANGED credit

IsIdleBody(id) == job[id].pc = "body" /\ job[id].outbox = <<>> /\ WorkerIsFree(id)

(* BodyJob::advance without a chunk in hand: a response that may not send  *)
(* is not read either, and one that is no longer wanted is cancelled.      *)
ReadAhead(id) ==
    /\ IsIdleBody(id) /\ job[id].pending = 0
    /\ \/ /\ id \notin DOMAIN flow
          /\ ThenSend(id, <<AbortOf(id)>>, "done")
       \/ /\ id \in DOMAIN flow /\ Fits(id, MaxChunk)
          /\ job' = [job EXCEPT ![id].pc = "reading"]
    /\ NetworkOnly /\ UNCHANGED credit

(* The network delivers a chunk, the end of the body, or an error. *)
ReadChunk(id) ==
    /\ job[id].pc = "reading" /\ job[id].outbox = <<>>
    /\ \/ \E size \in 1 .. MaxChunk :
            /\ job[id].total + size <= MaxBody
            /\ job' = [job EXCEPT ![id].pc = "trying", ![id].pending = size]
       \/ ThenSend(id, <<EndOf(id)>>, "done")
       \/ ThenSend(id, <<AbortOf(id)>>, "done")
    /\ NetworkOnly /\ UNCHANGED credit

Cost(e) == Overhead + IF e.op = "chunk" THEN e.size ELSE 0

Queued(lane) == FoldSeq(LAMBDA e, sum : sum + Cost(e), 0, lane)

(* ResponseSender::has_room. *)
HasRoom(bytes) == Queued(responses) + Overhead + bytes <= LaneBudget

ChunkOf(id) == [op |-> "chunk", id |-> id, doc |-> job[id].doc,
                offset |-> job[id].total, size |-> job[id].pending]

SendChunk(id) ==
    job' = [job EXCEPT ![id].outbox = <<ChunkOf(id)>>, ![id].pc = "body",
                       ![id].pending = 0, ![id].total = @ + job[id].pending]

(* Step::Parked; a job that was picked only to be parked again is as it was. *)
Park(id) == job[id].pc = "trying" /\ job' = [job EXCEPT ![id].pc = "body"]

(* Has the credit gone, or does it disagree with the producer? *)
Refused(id) == ~(id \in DOMAIN flow /\ flow[id].reserved = job[id].total)

(* Mutant of TryChunk: the credit is reserved before the lane is asked. *)
TryChunkReserved(id) ==
    /\ job[id].pending > 0 /\ (job[id].pc = "trying" \/ IsIdleBody(id))
    /\ \/ /\ Refused(id)
          /\ ThenSend(id, <<AbortOf(id)>>, "done") /\ UNCHANGED credit
       \/ /\ ~Refused(id) /\ ~Fits(id, job[id].pending)
          /\ Park(id) /\ UNCHANGED credit
       \/ /\ ~Refused(id) /\ Fits(id, job[id].pending)
          /\ Reserve(id, job[id].pending)
          /\ IF IsPrioritized(id) \/ HasRoom(job[id].pending) THEN SendChunk(id) ELSE Park(id)
    /\ NetworkOnly

(* FetchResponseSink::try_chunk: the chunk goes if the lane has room and   *)
(* its credit is granted; otherwise the job is parked with it.             *)
TryChunk(id) ==
    /\ job[id].pending > 0 /\ (job[id].pc = "trying" \/ IsIdleBody(id))
    /\ LET room == ~(~IsPrioritized(id) /\ ~HasRoom(job[id].pending))
       IN  \/ /\ ~room
              /\ Park(id) /\ UNCHANGED credit
           \/ /\ room /\ Refused(id)
              /\ ThenSend(id, <<AbortOf(id)>>, "done") /\ UNCHANGED credit
           \/ /\ room /\ ~Refused(id) /\ ~Fits(id, job[id].pending)
              /\ Park(id) /\ UNCHANGED credit
           \/ /\ room /\ ~Refused(id) /\ Fits(id, job[id].pending)
              /\ Reserve(id, job[id].pending)
              /\ SendChunk(id)
    /\ NetworkOnly

(* FetchResponseSink::send looks the request up, and only then sends.  A   *)
(* retired request is never prioritized again, so only the choice of the   *)
(* priority lane can be out of date when the event is sent.                *)
ChoosePriority(id) ==
    /\ Alive /\ job[id].outbox # <<>> /\ ~job[id].hurried /\ IsPrioritized(id)
    /\ job' = [job EXCEPT ![id].hurried = TRUE]
    /\ NetworkOnly /\ UNCHANGED credit

Sent(id) == job' = [job EXCEPT ![id].outbox = Tail(@), ![id].hurried = FALSE]

(* The priority lane blocks when it is full. *)
PushPriority(id) ==
    /\ Alive /\ job[id].hurried /\ Len(priority) < PriorityCapacity
    /\ priority' = Append(priority, Head(job[id].outbox))
    /\ Sent(id)
    /\ UNCHANGED <<page, up, down, document, credit, sent, responses, draining, fault>>

PushResponse(id) ==
    /\ Alive /\ job[id].outbox # <<>> /\ ~job[id].hurried /\ ~IsPrioritized(id)
    /\ responses' = Append(responses, Head(job[id].outbox))
    /\ Sent(id)
    /\ UNCHANGED <<page, up, down, document, credit, sent, priority, draining, fault>>

(* The receivers have gone with the broker, and the job ends. *)
SendFails(id) ==
    /\ fault = "exit" /\ job[id].outbox # <<>>
    /\ job' = [job EXCEPT ![id].outbox = <<>>, ![id].hurried = FALSE, ![id].pc = "done"]
    /\ NetworkOnly /\ UNCHANGED credit

(***************************************************************************)
(* The specification.                                                      *)
(***************************************************************************)

Page ==
    \/ \E kinds \in Batches : FetchBatch(kinds)
    \/ \E id \in Ids : AbortFetch(id) \/ TakeCompleted(id)
    \/ \E id \in Ids, total \in 1 .. MaxBody : ConsumeFetch(id, total)
    \/ RestartEncoding \/ FailDocument

Broker == ProcessMessage \/ TakePriority \/ FindPriorityEmpty \/ TakeResponse \/ Terminate

Network ==
    \E id \in Ids :
        \/ SpawnBatch(id) \/ StartRequest(id) \/ Respond(id)
        \/ ReadAhead(id) \/ ReadChunk(id) \/ TryChunk(id)
        \/ ChoosePriority(id) \/ PushPriority(id) \/ PushResponse(id) \/ SendFails(id)

Next ==
    \/ Page \/ HandleBrowserMessage
    \/ LoadDocument \/ CancelDocument \/ Broker \/ Exit
    \/ Network

Spec == Init /\ [][Next]_vars

(* The workers keep running and every network operation ends (WinHTTP has  *)
(* timeouts); so do the broker and the child.  Nothing obliges the page to *)
(* read its streams, to take its responses or to abort, nor the UI to load *)
(* or cancel.                                                              *)
FairSpec == Spec /\ WF_vars(Network) /\ WF_vars(HandleBrowserMessage \/ Broker)

(***************************************************************************)
(* Properties.                                                             *)
(***************************************************************************)

(* Neither side refuses a message: through aborts, restarts under the same *)
(* document identity, failures and cancellations each event of a response  *)
(* still finds the state it expects in the broker (outgoing_fetch) and in  *)
(* the child (FetchState), or is recognised as late.  The two races that   *)
(* the code does lose have fault values of their own.                      *)
NoRefusal == fault \notin {"broker", "child"}

(* FetchFlow's total is the sum of what its limited entries have reserved  *)
(* and their pages have not read, and stays within both limits, whichever  *)
(* of receipt, end, abort and document change releases it.                 *)
CreditIsExact ==
    /\ inFlight = MapThenSumSet(LAMBDA id : Charge(id, Unread(id)), DOMAIN flow)
    /\ inFlight <= MaxInFlight
    /\ \A id \in DOMAIN flow : flow[id].limited => Unread(id) <= Window

BytesIn(id, events) ==
    FoldSeq(LAMBDA e, sum : IF e.op = "chunk" /\ e.id = id THEN sum + e.size ELSE sum, 0, events)

(* Every reserved byte of a response that both ends know is in exactly one *)
(* place: with its worker, in a lane, in the pipe, or received.  So credit *)
(* bounds the memory that unread responses take in both processes.         *)
EveryByteIsSomewhere ==
    Alive => \A id \in DOMAIN flow \cap DOMAIN tracked :
        flow[id].reserved = tracked[id].received + BytesIn(id, job[id].outbox)
                            + BytesIn(id, responses) + BytesIn(id, priority)
                            + BytesIn(id, down)

WorkersStarted ==
    MapThenSumSet(LAMBDA batch : Min({Workers, Cardinality(batch)}), {job[id].batch : id \in Ids})

(* The byte-bounded lane exceeds its budget by at most one chunk for each  *)
(* worker, which may have asked for room before another one sent, or have  *)
(* lost the right to the priority lane on the way.                         *)
LaneIsBounded ==
    Queued(SelectSeq(responses, LAMBDA e : e.op = "chunk"))
        <= LaneBudget + WorkersStarted * (MaxChunk + Overhead)

(* Both resources are bounded: the credit that pages have not returned,    *)
(* and the bytes in the shared lane.                                       *)
FlowInvariant == TypeOK /\ CreditIsExact /\ LaneIsBounded

(* A response waits for credit because a script has not read what it has. *)
WaitsForScript(id) ==
    /\ job[id].pc = "body" /\ job[id].outbox = <<>>
    /\ id \in DOMAIN flow /\ ~Fits(id, MaxChunk)
    /\ \E other \in Ids : ScriptOwns(other) /\ tracked[other].received > tracked[other].read

Finished(id) == job[id].pc \in {"none", "done"} /\ job[id].outbox = <<>>

(* Everything drains, again and again: every job ends, whatever became of  *)
(* its document, except one that waits for a script to read; and then each *)
(* request of the current document has its outcome, even when the other    *)
(* jobs of its batch are parked and they share one worker.                 *)
ResponsesSettle ==
    []<>(/\ \A id \in Ids : Finished(id) \/ WaitsForScript(id)
         /\ Alive => /\ up = <<>> /\ down = <<>> /\ responses = <<>> /\ priority = <<>>
                     /\ \A id \in DocumentRequests(active) :
                          tracked[id].phase = "done" \/ ~Finished(id))

(* What the comment on FetchResponseSink::send promises: a response always *)
(* uses one lane, so its own events stay in order.  The code breaks it: a  *)
(* worker that has chosen the priority lane is overtaken by its own next   *)
(* event when the request is retired before it sends.                      *)
EventsStayInOrder == fault # "overtaken"
=============================================================================
