------------------------------ MODULE StateLane ------------------------------
(***************************************************************************)
(* The state lane of one renderer session: how a Web Storage delta or a    *)
(* cookie correction gets from the UI thread, through the broker thread    *)
(* and the command pipe, into the document that the renderer process runs, *)
(* while documents are loaded, cancelled, redirected and fail.             *)
(*                                                                         *)
(* Three threads share it.  The UI appends to the lifecycle channel        *)
(* and to the lane (a mutex around pending and in_flight).  The broker     *)
(* loops: lifecycle commands, state updates, renderer messages, document   *)
(* body.  The child handles one message at a time; anything it refuses     *)
(* ends the renderer process, and so does a receipt the broker refuses.    *)
(*                                                                         *)
(* Updates of one document are told apart by a version.  Storage snapshot  *)
(* corrections, which only tests send, are left out.                       *)
(***************************************************************************)
EXTENDS Naturals, Sequences, Functions, SequenceFilters

CONSTANTS None,
          MaxDocs,    \* bound: documents loaded in the session
          MaxSyncs,   \* bound: deltas the UI admits for one document
          MaxCookies, \* bound: cookie mutations one document makes
          MaxUpdates, \* bound: deltas of all documents and cookie mutations
          MaxWriter,  \* MAX_QUEUED_BROWSER_COMMANDS: messages the writer thread
                      \* holds before page traffic waits
          MaxPipe     \* bound: messages in the pipe before a write blocks

Docs == 1 .. MaxDocs

ASSUME LaneAssumption ==
    /\ MaxDocs \in Nat /\ MaxSyncs \in Nat /\ MaxCookies \in Nat /\ MaxUpdates \in Nat
    /\ MaxWriter \in Nat \ {0, 1} /\ MaxPipe \in Nat \ {0}
    /\ None \notin Docs

VARIABLES
    ui,         \* the document the UI owns, and how many it has loaded
    lifecycle,  \* LifecycleCommand channel, UI to broker
    pending,    \* State.pending of the lane
    inFlight,   \* State.in_flight of the lane
    stage,      \* where the broker is in its loop
    active,     \* Broker.active_document
    outgoing,   \* Broker.outgoing_state_update, with what is left to send
    body,       \* Broker.navigation: the document whose body is streaming
    toChild,    \* command pipe and writer queue, broker to child
    queued,     \* how many of toChild, the last ones, the writer still holds
    toBroker,   \* renderer messages, child to broker
    events,     \* renderer events, broker to UI
    child,      \* ChildConnection: the incoming, streaming, running and failed
                \* document, cookie mutations it made, the correction it holds
    event,      \* the storage event queued in the running document
    exit,       \* why the session ended
    admitted,   \* history: deltas the lane admitted, per document
    consumed    \* history: deltas the document applied

lane == <<pending, inFlight>>
broker == <<stage, active, outgoing, body>>
renderer == <<child, event>>
pipe == <<toChild, queued>>
history == <<admitted, consumed>>
vars == <<ui, lifecycle, lane, broker, pipe, toBroker, events, renderer,
          exit, history>>

(* foreign: the delta is another document's change and fires an event.     *)
Update == [kind : {"sync", "cookie"}, doc : Docs, ver : Nat, foreign : BOOLEAN]

Command == [op : {"buffered", "streaming", "cancel"}, doc : Docs]

(* BeginDocument, BeginStreamingDocument, DocumentChunk, EndDocument,      *)
(* AbortDocument and CancelDocument.                                       *)
Signal == [op : {"begin", "stream", "chunk", "end", "abort", "cancel"}, doc : Docs]

Delivery == [op : {"update"}, update : Update]

Report == [op : {"failed", "navigate", "cookie"}, doc : Docs]

Receipt == [op : {"applied"}, update : Update]

TypeOK ==
    /\ ui \in [doc : Docs \cup {None}, loads : 0 .. MaxDocs, cookies : 0 .. MaxCookies]
    /\ lifecycle \in Seq(Command)
    /\ pending \in Seq(Update) /\ inFlight \in BOOLEAN
    /\ stage \in {"lifecycle", "state", "messages", "streams"}
    /\ active \in Docs \cup {None}
    /\ outgoing \in Seq([update : Update, sent : BOOLEAN]) /\ Len(outgoing) <= 1
    /\ body \in Docs \cup {None}
    /\ toChild \in Seq(Signal \cup Delivery) /\ queued \in 0 .. Len(toChild)
    /\ toBroker \in Seq(Report \cup Receipt)
    /\ events \in Seq(Report)
    /\ child \in [incoming : Docs \cup {None}, streaming : Docs \cup {None},
                  running : Docs \cup {None}, failed : Docs \cup {None},
                  cookies : 0 .. MaxCookies, jar : 0 .. MaxCookies]
    /\ event \in Seq(Update) /\ Len(event) <= 1
    /\ exit \in {"none", "replaced", "no runtime", "refused", "broker"}
    /\ admitted \in [Docs -> Seq(1 .. MaxSyncs)]
    /\ consumed \in [Docs -> Seq(1 .. MaxSyncs)]

Init ==
    /\ ui = [doc |-> None, loads |-> 0, cookies |-> 0]
    /\ lifecycle = <<>> /\ pending = <<>> /\ inFlight = FALSE
    /\ stage = "lifecycle" /\ active = None /\ outgoing = <<>> /\ body = None
    /\ toChild = <<>> /\ queued = 0 /\ toBroker = <<>> /\ events = <<>>
    /\ child = [incoming |-> None, streaming |-> None, running |-> None,
                failed |-> None, cookies |-> 0, jar |-> 0]
    /\ event = <<>> /\ exit = "none"
    /\ admitted = [d \in Docs |-> <<>>] /\ consumed = [d \in Docs |-> <<>>]

Alive == exit = "none"

(* Bound: may another update be made? *)
MoreUpdates ==
    FoldFunction(LAMBDA seq, n : Len(seq) + n, 0, admitted) + child.cookies < MaxUpdates

(***************************************************************************)
(* The UI thread.                                                          *)
(***************************************************************************)

(* RendererSession::load_document and load_streaming_document. *)
Load(op) ==
    /\ Alive /\ ui.doc = None /\ ui.loads < MaxDocs
    /\ LET doc == ui.loads + 1
       IN  /\ ui' = [doc |-> doc, loads |-> doc, cookies |-> 0]
           /\ lifecycle' = Append(lifecycle, [op |-> op, doc |-> doc])
    /\ UNCHANGED <<lane, broker, pipe, toBroker, events, renderer, exit, history>>

(* RendererSession::cancel_document. *)
Cancel ==
    /\ Alive /\ ui.doc # None
    /\ ui' = [ui EXCEPT !.doc = None]
    /\ lifecycle' = Append(lifecycle, [op |-> "cancel", doc |-> ui.doc])
    /\ UNCHANGED <<lane, broker, pipe, toBroker, events, renderer, exit, history>>

LaneIsFree == ~inFlight /\ pending = <<>>

(* Mutant of TrySendSync: the delta passes the one that waits. *)
TrySendSyncFirst(foreign) ==
    /\ Alive /\ ui.doc # None /\ Len(admitted[ui.doc]) < MaxSyncs /\ MoreUpdates
    /\ LET ver == Len(admitted[ui.doc]) + 1
       IN  /\ pending' = <<[kind |-> "sync", doc |-> ui.doc, ver |-> ver,
                            foreign |-> foreign]>> \o pending
           /\ admitted' = [admitted EXCEPT ![ui.doc] = Append(@, ver)]
    /\ UNCHANGED <<ui, lifecycle, inFlight, broker, pipe, toBroker, events,
                   renderer, exit, consumed>>

(* Sender::try_send_sync: one delta at a time, and none is coalesced.      *)
TrySendSync(foreign) ==
    /\ Alive /\ ui.doc # None /\ Len(admitted[ui.doc]) < MaxSyncs /\ MoreUpdates
    /\ LaneIsFree
    /\ LET ver == Len(admitted[ui.doc]) + 1
       IN  /\ pending' = <<[kind |-> "sync", doc |-> ui.doc, ver |-> ver,
                            foreign |-> foreign]>>
           /\ admitted' = [admitted EXCEPT ![ui.doc] = Append(@, ver)]
    /\ UNCHANGED <<ui, lifecycle, inFlight, broker, pipe, toBroker, events,
                   renderer, exit, consumed>>

(* StateUpdate::same_slot: only corrections coalesce. *)
SameSlot(u, w) == u.kind = "cookie" /\ w.kind = "cookie" /\ u.doc = w.doc

(* Mutant of Coalesced: the correction that waits wins. *)
CoalescedOldest(queue, u) ==
    LET kept == Selection(queue, {w \in Update : w.doc = u.doc})
    IN  IF \E i \in DOMAIN kept : SameSlot(kept[i], u) THEN kept ELSE Append(kept, u)

(* Sender::send: other documents' updates are thrown out, and the newest   *)
(* correction takes the place of the one that waits.                       *)
Coalesced(queue, u) ==
    LET kept == Selection(queue, {w \in Update : w.doc = u.doc})
    IN  IF \E i \in DOMAIN kept : SameSlot(kept[i], u)
        THEN [i \in DOMAIN kept |-> IF SameSlot(kept[i], u) THEN u ELSE kept[i]]
        ELSE Append(kept, u)

(* apply_renderer_cookie_mutation: the cookie jar changes and the document *)
(* is sent the corrected value.  A document the UI no longer owns has no   *)
(* authority.                                                              *)
CorrectCookie ==
    /\ Alive /\ events # <<>> /\ Head(events).op = "cookie"
    /\ events' = Tail(events)
    /\ IF Head(events).doc = ui.doc
       THEN /\ ui' = [ui EXCEPT !.cookies = @ + 1]
            /\ pending' = Coalesced(pending, [kind |-> "cookie", doc |-> ui.doc,
                                              ver |-> ui.cookies + 1,
                                              foreign |-> FALSE])
       ELSE UNCHANGED <<ui, pending>>
    /\ UNCHANGED <<lifecycle, inFlight, broker, pipe, toBroker, renderer,
                   exit, history>>

(* The UI contains a page failure and may load the next document.          *)
ContainFailure ==
    /\ Alive /\ events # <<>> /\ Head(events).op = "failed"
    /\ events' = Tail(events)
    /\ ui' = IF Head(events).doc = ui.doc THEN [ui EXCEPT !.doc = None] ELSE ui
    /\ UNCHANGED <<lifecycle, lane, broker, pipe, toBroker, renderer, exit, history>>

(* NavigationRequested: the UI replaces the renderer, unless the request   *)
(* is stale or allow_script_navigation turns it down.                      *)
FollowNavigation ==
    /\ Alive /\ events # <<>> /\ Head(events).op = "navigate"
    /\ events' = Tail(events)
    /\ \/ /\ Head(events).doc = ui.doc
          /\ ui' = [ui EXCEPT !.doc = None]
          /\ exit' = "replaced"
       \/ UNCHANGED <<ui, exit>>
    /\ UNCHANGED <<lifecycle, lane, broker, pipe, toBroker, renderer, history>>

UI == \/ \E op \in {"buffered", "streaming"} : Load(op)
      \/ Cancel
      \/ \E foreign \in BOOLEAN : TrySendSync(foreign)
      \/ CorrectCookie
      \/ ContainFailure \/ FollowNavigation

(***************************************************************************)
(* The broker thread.                                                      *)
(***************************************************************************)

Say(op, doc) == [op |-> op, doc |-> doc]

(* outbound::Sender::send_browser, for the messages of one command. *)
SendBrowser(messages) ==
    /\ toChild' = toChild \o messages
    /\ queued' = queued + Len(messages)

(* The writer thread: one message leaves its queue when the pipe has room. *)
WriteMessage ==
    /\ Alive /\ queued > 0 /\ Len(toChild) - queued < MaxPipe
    /\ queued' = queued - 1
    /\ UNCHANGED <<ui, lifecycle, lane, broker, toChild, toBroker, events, renderer,
                   exit, history>>

(* Broker::begin_navigation and send_document: the start and the snapshots *)
(* (and a buffered body) are written, then the document is active.         *)
BeginDocument(command) ==
    /\ active' = command.doc
    /\ SendBrowser(IF command.op = "streaming" THEN <<Say("stream", command.doc)>>
                   ELSE <<Say("begin", command.doc), Say("end", command.doc)>>)
    /\ body' = IF command.op = "streaming" THEN command.doc ELSE body
    /\ UNCHANGED <<lane, outgoing, events>>

(* has_page_command_capacity and has_background_command_capacity. *)
PageCapacity == queued < MaxWriter

BackgroundCapacity == queued = 0

OwnsOutgoing(doc) == outgoing # <<>> /\ Head(outgoing).update.doc = doc

(* Receiver::discard_document, and complete for a transfer under way.      *)
DiscardUpdates(doc) ==
    /\ pending' = Selection(pending, {u \in Update : u.doc # doc})
    /\ outgoing' = IF OwnsOutgoing(doc) THEN <<>> ELSE outgoing
    /\ inFlight' = IF OwnsOutgoing(doc) THEN FALSE ELSE inFlight

(* Broker::cancel_document. *)
CancelDocument(doc) ==
    /\ DiscardUpdates(doc)
    /\ events' = Selection(events, {e \in Report : e.doc # doc})
    /\ active' = IF active = doc THEN None ELSE active
    /\ body' = IF active = doc THEN None ELSE body
    /\ SendBrowser(<<Say("cancel", doc)>>)

(* Broker::process_lifecycle_commands, until the channel is empty. *)
ProcessLifecycle ==
    /\ Alive /\ stage = "lifecycle"
    /\ IF lifecycle = <<>>
       THEN /\ stage' = "state"
            /\ UNCHANGED <<lifecycle, lane, active, outgoing, body, pipe, events>>
       ELSE /\ lifecycle' = Tail(lifecycle)
            /\ UNCHANGED stage
            /\ IF Head(lifecycle).op = "cancel"
               THEN CancelDocument(Head(lifecycle).doc)
               ELSE BeginDocument(Head(lifecycle))
    /\ UNCHANGED <<ui, toBroker, renderer, exit, history>>

(* Broker::process_state_updates, its first loop: take an update, and      *)
(* complete it at once when it is not for the active document.             *)
TakeUpdate ==
    /\ Alive /\ stage = "state"
    /\ outgoing = <<>> /\ ~inFlight /\ pending # <<>>
    /\ pending' = Tail(pending)
    /\ LET u == Head(pending)
       IN  IF u.doc = active
           THEN outgoing' = <<[update |-> u, sent |-> FALSE]>> /\ inFlight' = TRUE
           ELSE UNCHANGED <<outgoing, inFlight>>
    /\ UNCHANGED <<ui, lifecycle, stage, active, body, pipe, toBroker, events,
                   renderer, exit, history>>

(* Mutant of SendUpdate: the transfer is complete once it is sent. *)
SendAndForget ==
    /\ Alive /\ stage = "state"
    /\ outgoing # <<>> \/ inFlight \/ pending = <<>>
    /\ stage' = "messages"
    /\ IF outgoing # <<>> /\ PageCapacity
       THEN /\ SendBrowser(<<[op |-> "update", update |-> Head(outgoing).update]>>)
            /\ outgoing' = <<>> /\ inFlight' = FALSE
       ELSE UNCHANGED <<pipe, outgoing, inFlight>>
    /\ UNCHANGED <<ui, lifecycle, pending, active, body, toBroker, events, renderer,
                   exit, history>>

(* Its second loop: the transfer waits for room in the writer. *)
SendUpdate ==
    /\ Alive /\ stage = "state"
    /\ outgoing # <<>> \/ inFlight \/ pending = <<>>
    /\ stage' = "messages"
    /\ IF outgoing # <<>> /\ ~Head(outgoing).sent /\ PageCapacity
       THEN /\ SendBrowser(<<[op |-> "update", update |-> Head(outgoing).update]>>)
            /\ outgoing' = <<[update |-> Head(outgoing).update, sent |-> TRUE]>>
       ELSE UNCHANGED <<pipe, outgoing>>
    /\ UNCHANGED <<ui, lifecycle, lane, active, body, toBroker, events, renderer,
                   exit, history>>

(* Mutant of TakeReceipt: the document of the receipt is not compared. *)
TakeAnyReceipt(applied) ==
    /\ IF outgoing = <<[update |-> applied, sent |-> TRUE]>>
       THEN outgoing' = <<>> /\ inFlight' = FALSE /\ UNCHANGED exit
       ELSE exit' = "broker" /\ UNCHANGED <<inFlight, outgoing>>
    /\ UNCHANGED <<pending, active, events>>

(* The StateSnapshotApplied arm: a receipt for another document is stale;  *)
(* for the active one it must answer the transfer that was sent.           *)
TakeReceipt(applied) ==
    /\ IF applied.doc # active THEN UNCHANGED <<inFlight, outgoing, exit>>
       ELSE IF outgoing = <<[update |-> applied, sent |-> TRUE]>>
       THEN outgoing' = <<>> /\ inFlight' = FALSE /\ UNCHANGED exit
       ELSE exit' = "broker" /\ UNCHANGED <<inFlight, outgoing>>
    /\ UNCHANGED <<pending, active, events>>

(* Mutant of RetireFailed: the transfer to the failed document is kept. *)
RetireKeepingTransfer(doc) ==
    /\ IF doc # active THEN UNCHANGED <<active, events>>
       ELSE /\ active' = None
            /\ events' = Append(events, Say("failed", doc))
    /\ UNCHANGED <<lane, outgoing, exit>>

(* The DocumentFailed arm: the broker lets go of the document before the   *)
(* UI hears of it.                                                         *)
RetireFailed(doc) ==
    /\ IF doc # active THEN UNCHANGED <<lane, active, outgoing, events>>
       ELSE /\ DiscardUpdates(doc)
            /\ active' = None
            /\ events' = Append(events, Say("failed", doc))
    /\ UNCHANGED exit

(* The arms that only pass an event of the active document on. *)
PassOn(report) ==
    /\ events' = IF report.doc = active THEN Append(events, report) ELSE events
    /\ UNCHANGED <<lane, active, outgoing, exit>>

(* Broker::process_messages, until the channel is empty. *)
ProcessMessage ==
    /\ Alive /\ stage = "messages"
    /\ IF toBroker = <<>>
       THEN /\ stage' = "streams"
            /\ UNCHANGED <<toBroker, lane, active, outgoing, events, exit>>
       ELSE /\ toBroker' = Tail(toBroker)
            /\ UNCHANGED stage
            /\ LET m == Head(toBroker)
               IN  CASE m.op = "applied" -> TakeReceipt(m.update)
                     [] m.op = "failed" -> RetireFailed(m.doc)
                     [] OTHER -> PassOn(m)
    /\ UNCHANGED <<ui, lifecycle, body, pipe, renderer, history>>

(* Broker::process_navigation: nothing (Input::Pending), a chunk, the end  *)
(* or the failure of the response goes to the child; a body whose document *)
(* is gone is dropped.                                                     *)
ProcessStreams ==
    /\ Alive /\ stage = "streams"
    /\ stage' = "lifecycle"
    /\ IF body = None \/ ~BackgroundCapacity THEN UNCHANGED <<pipe, body>>
       ELSE IF body # active THEN body' = None /\ UNCHANGED pipe
       ELSE \/ UNCHANGED <<pipe, body>>
            \/ \E op \in {"chunk", "end", "abort"} :
                  /\ SendBrowser(<<Say(op, body)>>)
                  /\ body' = IF op = "chunk" THEN body ELSE None
    /\ UNCHANGED <<ui, lifecycle, lane, active, outgoing, toBroker, events,
                   renderer, exit, history>>

(***************************************************************************)
(* The renderer process.                                                   *)
(***************************************************************************)

(* begin_document and begin_streaming_document. *)
ChildBegin(doc, streaming) ==
    IF child.incoming # None \/ child.running # None
    THEN exit' = "refused" /\ UNCHANGED <<child, event, toBroker>>
    ELSE /\ child' = [incoming |-> doc, running |-> None, failed |-> None,
                      cookies |-> 0, jar |-> 0,
                      streaming |-> IF streaming THEN doc ELSE child.streaming]
         /\ UNCHANGED <<event, toBroker, exit>>

(* send_document_failure drops the runtime with the event it queued. *)
FailWith(c, doc) ==
    /\ child' = [c EXCEPT !.running = None, !.failed = doc]
    /\ event' = <<>>
    /\ toBroker' = Append(toBroker, Say("failed", doc))
    /\ UNCHANGED exit

(* The runtime starts: it is installed, or the page asks for another one   *)
(* at once (LoadResult::Navigate), or loading it fails.                    *)
StartRuntime(c, doc) ==
    \/ /\ child' = [c EXCEPT !.incoming = None, !.running = doc]
       /\ UNCHANGED <<event, toBroker, exit>>
    \/ /\ child' = [c EXCEPT !.incoming = None]
       /\ toBroker' = Append(toBroker, Say("navigate", doc))
       /\ UNCHANGED <<event, exit>>
    \/ FailWith([c EXCEPT !.incoming = None], doc)

(* navigation_chunk, with deliver_navigation_bytes: the runtime starts     *)
(* when the decoder has something to show.                                 *)
ChildChunk(doc) ==
    IF child.streaming # doc THEN exit' = "refused" /\ UNCHANGED <<child, event, toBroker>>
    ELSE \/ UNCHANGED <<child, event, toBroker, exit>>
         \/ child.incoming = doc /\ StartRuntime(child, doc)
         \/ child.running = doc /\ FailWith(child, doc)

(* finish_document and navigation_end: at the end whatever has come is     *)
(* decoded.                                                                *)
ChildEnd(doc) ==
    LET ended == [child EXCEPT !.streaming = None]
    IN  IF child.incoming = doc /\ child.streaming \in {None, doc}
        THEN StartRuntime(ended, doc)
        ELSE IF child.streaming = doc
        THEN \/ child' = ended /\ UNCHANGED <<event, toBroker, exit>>
             \/ child.running = doc /\ FailWith(ended, doc)
        ELSE exit' = "refused" /\ UNCHANGED <<child, event, toBroker>>

(* abort_navigation. *)
ChildAbort(doc) ==
    IF child.streaming = doc
    THEN FailWith([child EXCEPT !.streaming = None, !.incoming = None], doc)
    ELSE UNCHANGED <<child, event, toBroker, exit>>

(* cancel_navigation. *)
ChildCancel(doc) ==
    /\ child' = [child EXCEPT !.streaming = IF @ = doc THEN None ELSE @,
                              !.incoming = IF @ = doc THEN None ELSE @,
                              !.running = IF @ = doc THEN None ELSE @]
    /\ event' = IF child.running = doc THEN <<>> ELSE event
    /\ UNCHANGED <<toBroker, exit>>

Acknowledge(u) == toBroker' = Append(toBroker, [op |-> "applied", update |-> u])

(* synchronize_storage and document_state_cookie: a failed document still  *)
(* answers (begin_document forgets it, so none is then incoming); a        *)
(* foreign change waits for its event; without a runtime the update is an  *)
(* error that ends the process.                                            *)
ChildUpdate(u) ==
    IF child.failed = u.doc
    THEN Acknowledge(u) /\ UNCHANGED <<child, event, exit, consumed>>
    ELSE IF child.running # u.doc \/ (u.foreign /\ event # <<>>)
    THEN exit' = "no runtime" /\ UNCHANGED <<child, event, toBroker, consumed>>
    ELSE /\ IF u.foreign THEN event' = <<u>> /\ UNCHANGED toBroker
            ELSE Acknowledge(u) /\ UNCHANGED event
         /\ consumed' = IF u.kind = "sync"
                        THEN [consumed EXCEPT ![u.doc] = Append(@, u.ver)]
                        ELSE consumed
         /\ child' = IF u.kind = "cookie" THEN [child EXCEPT !.jar = u.ver] ELSE child
         /\ UNCHANGED exit

ChildHandle ==
    /\ Alive /\ Len(toChild) > queued
    /\ toChild' = Tail(toChild)
    /\ LET m == Head(toChild)
       IN  CASE m.op = "update" -> ChildUpdate(m.update)
             [] m.op = "begin" -> ChildBegin(m.doc, FALSE) /\ UNCHANGED consumed
             [] m.op = "stream" -> ChildBegin(m.doc, TRUE) /\ UNCHANGED consumed
             [] m.op = "chunk" -> ChildChunk(m.doc) /\ UNCHANGED consumed
             [] m.op = "end" -> ChildEnd(m.doc) /\ UNCHANGED consumed
             [] m.op = "abort" -> ChildAbort(m.doc) /\ UNCHANGED consumed
             [] m.op = "cancel" -> ChildCancel(m.doc) /\ UNCHANGED consumed
    /\ UNCHANGED <<ui, lifecycle, lane, broker, queued, events, admitted>>

(* The storage event runs in a later task and its receipt is sent; an      *)
(* encoding restart sends the receipt of the event it abandons.            *)
DispatchEvent ==
    /\ Alive /\ event # <<>>
    /\ Acknowledge(Head(event))
    /\ event' = <<>>
    /\ UNCHANGED <<ui, lifecycle, lane, broker, pipe, events, child, exit, history>>

(* A script assigns document.cookie. *)
SetCookie ==
    /\ Alive /\ child.running # None /\ child.cookies < MaxCookies /\ MoreUpdates
    /\ child' = [child EXCEPT !.cookies = @ + 1]
    /\ toBroker' = Append(toBroker, Say("cookie", child.running))
    /\ UNCHANGED <<ui, lifecycle, lane, broker, pipe, events, event, exit, history>>

(* A document task fails. *)
FailDocument ==
    /\ Alive /\ child.running # None
    /\ FailWith(child, child.running)
    /\ UNCHANGED <<ui, lifecycle, lane, broker, pipe, events, history>>

Child == ChildHandle \/ DispatchEvent \/ SetCookie \/ FailDocument

Broker == \/ ProcessLifecycle \/ TakeUpdate \/ SendUpdate
          \/ ProcessMessage \/ ProcessStreams

Next == UI \/ Broker \/ WriteMessage \/ Child

Spec == Init /\ [][Next]_vars

(* The broker's loop never blocks for more than 10 ms, the writer thread   *)
(* waits only for the pipe, and the child's loop takes what is in it; a    *)
(* queued event is a task of that loop.                                    *)
Fairness == /\ WF_vars(Broker) /\ WF_vars(WriteMessage)
            /\ WF_vars(ChildHandle) /\ WF_vars(DispatchEvent)

FairSpec == Spec /\ Fairness

(***************************************************************************)
(* Properties.                                                             *)
(***************************************************************************)

DocOf(m) == IF m.op \in {"update", "applied"} THEN m.update.doc ELSE m.doc

Unanswered(doc) ==
    \/ \E i \in DOMAIN toChild : toChild[i].op = "update" /\ DocOf(toChild[i]) = doc
    \/ \E i \in DOMAIN toBroker : toBroker[i].op = "applied" /\ DocOf(toBroker[i]) = doc
    \/ \E i \in DOMAIN event : event[i].doc = doc

(* The broker never refuses a receipt: not after a cancellation, a failure *)
(* or a replacement that races it, so a late receipt of one document       *)
(* cannot end the renderer under its successor.                            *)
ReceiptsAreSolicited == exit # "broker"

(* The slot is occupied exactly while the broker holds a transfer: no path *)
(* that drops a transfer (receipt, cancellation, failure) forgets to free  *)
(* it, and none frees it twice.                                            *)
SlotMatchesTransfer == inFlight <=> outgoing # <<>>

(* At most one update of the active document is past the broker, and when  *)
(* the slot is free there is none: nothing is admitted on top of an update *)
(* that is in the pipe, waits for its event or has its receipt under way.  *)
OneUnanswered ==
    Alive /\ active # None => (Unanswered(active) => outgoing # <<>> /\ Head(outgoing).sent)

(* Deltas reach a document in the order the lane admitted them and none    *)
(* twice.                                                                  *)
DeltasInOrder ==
    \A d \in Docs : \A i, j \in DOMAIN consumed[d] :
        i < j => consumed[d][i] < consumed[d][j]

(* Once a document's cancellation is in the pipe nothing of that document  *)
(* follows it.                                                             *)
NothingAfterCancel ==
    \A i, j \in DOMAIN toChild :
        (i < j /\ toChild[i].op = "cancel") => DocOf(toChild[j]) # toChild[i].doc

CookieUnderWay ==
    \/ \E i \in DOMAIN pending : pending[i].kind = "cookie"
    \/ outgoing # <<>> /\ Head(outgoing).update.kind = "cookie"

(* Newest wins and the newest arrives: a running document for which no     *)
(* cookie correction is waiting or in flight holds the last value the      *)
(* browser decided on, however many corrections were coalesced.            *)
CookiesConverge ==
    Alive /\ child.running \in Docs \cap {ui.doc} /\ ~CookieUnderWay
        => child.jar = ui.cookies

(* An occupied slot is freed or the session ends: no race leaves the lane  *)
(* waiting for a receipt that cannot come.                                 *)
SlotIsFreed == inFlight ~> (~inFlight \/ ~Alive)

(* The slot, the transfer and the pipes agree: the slot is taken exactly   *)
(* while the broker holds a transfer, at most one update of the active     *)
(* document is past the broker, and nothing follows a cancellation.        *)
LaneInvariant == TypeOK /\ SlotMatchesTransfer /\ OneUnanswered /\ NothingAfterCancel
=============================================================================
