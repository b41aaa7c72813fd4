----------------------------- MODULE EventQueue -----------------------------
(***************************************************************************)
(* Delivery of renderer events to the browser's UI thread: the bounded     *)
(* queue of src/renderer_process/broker/events.rs with its latched         *)
(* notification, the broker thread that fills it, and the UI turns         *)
(* (poll_renderer) that drain it, woken by a posted Win32 message or by    *)
(* the window's monitor timer.                                             *)
(*                                                                         *)
(* An event is what the queue tells apart: its kind, its document, the     *)
(* node a text selection is of, the bytes it charges, and for pointer      *)
(* cursors and text selections the sequence number that orders them.  ids  *)
(* is the set of productions it carries; merging two presentations unites  *)
(* their ids, because a merged presentation keeps the deltas of both.      *)
(***************************************************************************)
EXTENDS Integers, Sequences, FiniteSets, SequenceFilters, SequenceSums

CONSTANTS Inputs,        \* what the renderer may emit: [kind, doc, target, size, seq]
          Cancellable,   \* documents cancelled while the session lives on
          None,
          MaxEvents,     \* MAX_QUEUED_RENDERER_EVENTS
          MaxFetches,    \* MAX_QUEUED_RENDERER_FETCH_BATCHES
          MaxStorage,    \* MAX_PENDING_STORAGE_BYTES
          MaxResources,  \* MAX_RENDERER_PRESENTATION_BYTES
          PerTurn,       \* EVENTS_PER_TURN
          StorageItems,  \* STORAGE_BATCH_ITEMS
          MaxProduced    \* bound: events the renderer emits

Lossless == {"fetch", "storage", "request"}   \* storage: Web Storage, broadcast
Merged == {"presentation", "runtime"}
Latest == {"video", "cursor", "selection"}
Kinds == Lossless \cup Merged \cup Latest \cup {"plain", "exited"}

Events == [kind : Kinds, doc : {i.doc : i \in Inputs} \cup {None},
           target : {i.target : i \in Inputs} \cup {None}, size : Nat,
           seq : Nat, ids : SUBSET (1 .. MaxProduced)]

ASSUME QueueAssumption ==
    /\ \A i \in Inputs : /\ DOMAIN i = {"kind", "doc", "target", "size", "seq"}
                         /\ i.kind \in Kinds \ {"exited"}
                         /\ i.seq \in Nat
                         /\ i.size \in 0 .. (IF i.kind \in Merged THEN MaxResources
                                             ELSE MaxStorage)
    /\ MaxEvents \in Nat \ {0} /\ MaxFetches \in Nat \ {0}
    /\ PerTurn \in Nat \ {0} /\ StorageItems \in Nat
    /\ MaxStorage \in Nat /\ MaxResources \in Nat
    /\ MaxProduced \in Nat
    /\ None \notin Cancellable \cup Events

VARIABLES
    events,      \* QueueState.events
    latch,       \* Notification.pending
    callback,    \* a notifier is installed
    open,        \* QueueState.receiver_open
    broker,      \* the broker thread: [pc, event], event is what it is sending
    exited,      \* SharedDiagnostics.exit: the snapshot shows the exit
    posted,      \* WM_APP_RENDERER_EVENTS messages in the window's queue
    missedPost,  \* a PostMessageW failed since the notifier was last re-armed
    timer,       \* interval of the monitor timer: "idle" or "active"
    ui,          \* the UI thread: [pc, batch, exit]
    deferred,    \* tab.deferred_renderer_events
    handled,     \* events the UI has applied, in order
    produced,    \* productions so far
    superseded,  \* productions replaced by a newer one of their kind
    discarded,   \* productions dropped with their document
    ending       \* how the session ended: "none", "exit", "replaced"

queueVars == <<events, latch, callback, open>>
brokerVars == <<broker, exited, produced, superseded, discarded>>
uiVars == <<ui, deferred, handled, timer, ending>>
vars == <<queueVars, brokerVars, uiVars, posted, missedPost>>

Exited == [kind |-> "exited", doc |-> None, target |-> None, size |-> 0, seq |-> 0,
           ids |-> {}]

IdsOf(es) == UNION {es[i].ids : i \in 1 .. Len(es)}

TypeOK ==
    /\ events \in Seq(Events) /\ deferred \in Seq(Events) /\ handled \in Seq(Events)
    /\ latch \in BOOLEAN /\ callback \in BOOLEAN /\ open \in BOOLEAN
    /\ broker \in [pc : {"ready", "asleep", "awake", "posting", "exiting", "gone"},
                   event : Events \cup {None}]
    /\ exited \in BOOLEAN /\ missedPost \in BOOLEAN
    /\ posted \in Nat
    /\ timer \in {"idle", "active"}
    /\ ui \in [pc : {"launching", "idle", "collect", "check", "handle", "finish",
                     "monitor", "closed"},
               batch : Seq(Events), exit : BOOLEAN]
    /\ produced \in 0 .. MaxProduced
    /\ superseded \in SUBSET (1 .. MaxProduced)
    /\ discarded \in SUBSET (1 .. MaxProduced)
    /\ ending \in {"none", "exit", "replaced"}

Init ==
    /\ events = <<>> /\ latch = FALSE /\ callback = FALSE /\ open = TRUE
    /\ broker = [pc |-> "ready", event |-> None] /\ exited = FALSE
    /\ posted = 0 /\ missedPost = FALSE /\ timer = "idle"
    /\ ui = [pc |-> "launching", batch |-> <<>>, exit |-> FALSE]
    /\ deferred = <<>> /\ handled = <<>>
    /\ produced = 0 /\ superseded = {} /\ discarded = {}
    /\ ending = "none"

(***************************************************************************)
(* The sending side of the queue.                                          *)
(***************************************************************************)

TotalSize(es, kinds) ==
    Total([i \in 1 .. Len(es) |-> IF es[i].kind \in kinds THEN es[i].size ELSE 0])

(* queued_fetch_batches. *)
FetchBatches(es) == Total([i \in 1 .. Len(es) |-> IF es[i].kind = "fetch" THEN 1 ELSE 0])

(* Mutant of Blocked: the event's own bytes are not counted. *)
BlockedAfterwards(es, e) ==
    \/ Len(es) >= MaxEvents
    \/ IF e.kind \in Lossless
       THEN \/ FetchBatches(es) >= MaxFetches
            \/ TotalSize(es, {"storage"}) > MaxStorage
       ELSE TotalSize(es, Merged) > MaxResources

(* The conditions under which send_lossless and send_coalesced wait. *)
Blocked(es, e) ==
    \/ Len(es) >= MaxEvents
    \/ IF e.kind \in Lossless
       THEN \/ FetchBatches(es) >= MaxFetches
            \/ TotalSize(es, {"storage"}) + (IF e.kind = "storage" THEN e.size ELSE 0)
                 > MaxStorage
       ELSE TotalSize(es, Merged) + (IF e.kind \in Merged THEN e.size ELSE 0)
                 > MaxResources

(* Queued events that e replaces: one video frame per session, one cursor  *)
(* per document, one text selection per document and node.                 *)
Replaces(e, q) ==
    /\ e.kind \in Latest /\ q.kind = e.kind
    /\ e.kind # "video" => q.doc = e.doc
    /\ e.kind = "selection" => q.target = e.target

(* e arrives too late to be queued. *)
Outdated(es, e) ==
    \E i \in 1 .. Len(es) :
        /\ Replaces(e, es[i])
        /\ \/ e.kind = "cursor" /\ es[i].seq >= e.seq
           \/ e.kind = "selection" /\ es[i].seq > e.seq

(* Mutant of MergesWithLast: a merge reaches past the events in between. *)
MergesWithLastOfKind(es, e) ==
    /\ e.kind \in Merged
    /\ \E i \in 1 .. Len(es) : es[i].kind = e.kind /\ es[i].doc = e.doc

(* presentations::coalesce and coalesce_runtime: only the adjacent event   *)
(* can merge, and only within the resource budget.                         *)
MergesWithLast(es, e) ==
    /\ e.kind \in Merged /\ es # <<>>
    /\ LET last == es[Len(es)]
       IN  last.kind = e.kind /\ last.doc = e.doc /\ last.size + e.size <= MaxResources

(* An adjacent event of the same kind and document is taken off the queue  *)
(* before its revision, accessibility and wheel deltas are compared with   *)
(* those of e, which may fail.                                             *)
MayFailToMerge(es, e) ==
    /\ e.kind \in Merged /\ es # <<>>
    /\ es[Len(es)].kind = e.kind /\ es[Len(es)].doc = e.doc

(* The queue without the event e merges with, and the merged event. *)
Merge(es, e) ==
    LET i == CHOOSE i \in 1 .. Len(es) : /\ es[i].kind = e.kind /\ es[i].doc = e.doc
                                         /\ \A j \in i + 1 .. Len(es) :
                                               es[j].kind # e.kind \/ es[j].doc # e.doc
    IN  [rest |-> SubSeq(es, 1, i - 1) \o SubSeq(es, i + 1, Len(es)),
         event |-> [e EXCEPT !.ids = @ \cup es[i].ids, !.size = @ + es[i].size]]

(* Notification::request, as part of pushing an event: whether the caller  *)
(* has a callback to deliver after it releases the lock.                   *)
Requests == callback /\ ~latch

(* The event joins the queue, or the broker goes to sleep with it. *)
PushOrSleep(rest, e) ==
    IF Blocked(rest, e)
    THEN /\ events' = rest
         /\ broker' = [pc |-> "asleep", event |-> e]
         /\ UNCHANGED latch
    ELSE /\ events' = Append(rest, e)
         /\ latch' = (latch \/ Requests)
         /\ broker' = [pc |-> IF Requests THEN "posting" ELSE "ready", event |-> None]

(* EventSender::send for an input of the renderer. *)
Send(input) ==
    /\ broker.pc = "ready" /\ produced < MaxProduced
    /\ produced' = produced + 1
    /\ LET n == produced + 1
           e == [kind |-> input.kind, doc |-> input.doc, target |-> input.target,
                 size |-> input.size, seq |-> input.seq, ids |-> {n}]
       IN  \/ /\ ~open
              /\ discarded' = discarded \cup {n}
              /\ UNCHANGED <<events, latch, broker, superseded>>
           \/ /\ open /\ Outdated(events, e)
              /\ superseded' = superseded \cup {n}
              /\ UNCHANGED <<events, latch, broker, discarded>>
           \/ /\ open /\ ~Outdated(events, e) /\ MergesWithLast(events, e)
              /\ LET m == Merge(events, e) IN PushOrSleep(m.rest, m.event)
              /\ UNCHANGED <<superseded, discarded>>
           \* The error ends the renderer; what it sent before is still read.
           \/ /\ open /\ MayFailToMerge(events, e)
              /\ events' = SubSeq(events, 1, Len(events) - 1)
              /\ discarded' = discarded \cup events[Len(events)].ids \cup {n}
              /\ UNCHANGED <<latch, broker, superseded>>
           \* Not mergeable: unlike kinds, or a verdict or reversal kept apart.
           \/ /\ open /\ ~Outdated(events, e)
              /\ LET gone == Selection(events, {q \in Events : Replaces(e, q)})
                     rest == Selection(events, {q \in Events : ~Replaces(e, q)})
                 IN  /\ superseded' = superseded \cup IdsOf(gone)
                     /\ PushOrSleep(rest, e)
              /\ UNCHANGED discarded
    /\ UNCHANGED <<callback, open, exited, uiVars, posted, missedPost>>

(* The waiting broker thread, once notified, takes the lock again. *)
Resume ==
    /\ broker.pc = "awake"
    /\ IF open THEN /\ PushOrSleep(events, broker.event)
                    /\ UNCHANGED discarded
       ELSE /\ broker' = [pc |-> "ready", event |-> None]
            /\ discarded' = discarded \cup broker.event.ids
            /\ UNCHANGED <<events, latch>>
    /\ UNCHANGED <<callback, open, exited, produced, superseded, uiVars, posted, missedPost>>

(* The callback runs outside the lock and posts the wake, or fails to. *)
Deliver ==
    /\ broker.pc = "posting"
    /\ \/ posted' = posted + 1 /\ UNCHANGED missedPost
       \/ missedPost' = TRUE /\ UNCHANGED posted
    /\ broker' = [pc |-> IF exited THEN "gone" ELSE "ready", event |-> None]
    /\ UNCHANGED <<queueVars, exited, produced, superseded, discarded, uiVars>>

(* EventSender::discard_document, when RendererSession::cancel_document    *)
(* asks for it.  The Windows shell replaces the whole session instead.     *)
DiscardDocument(d) ==
    /\ broker.pc = "ready"
    /\ events' = Selection(events, {q \in Events : q.doc # d})
    /\ discarded' = discarded \cup IdsOf(Selection(events, {q \in Events : q.doc = d}))
    /\ UNCHANGED <<latch, callback, open, broker, exited, produced, superseded,
                   uiVars, posted, missedPost>>

(* Broker::finish_exit publishes the terminal snapshot, *)
PublishExit ==
    /\ broker.pc = "ready"
    /\ exited' = TRUE
    /\ broker' = [pc |-> "exiting", event |-> None]
    /\ UNCHANGED <<queueVars, produced, superseded, discarded, uiVars, posted, missedPost>>

(* then offers the Exited event without waiting, and drops the sender. *)
TrySendExited ==
    /\ broker.pc = "exiting"
    /\ IF ~open \/ Blocked(events, Exited)
       THEN /\ broker' = [pc |-> "gone", event |-> None]
            /\ UNCHANGED <<events, latch>>
       ELSE /\ events' = Append(events, Exited)
            /\ latch' = (latch \/ Requests)
            /\ broker' = [pc |-> IF Requests THEN "posting" ELSE "gone", event |-> None]
    /\ UNCHANGED <<callback, open, exited, produced, superseded, discarded, uiVars,
                   posted, missedPost>>

(***************************************************************************)
(* The UI thread.                                                          *)
(***************************************************************************)

(* Mutant of Notified: a pop does not wake the waiting broker. *)
NotNotified == broker

(* Condvar::notify_all. *)
Notified == [broker EXCEPT !.pc = IF @ = "asleep" THEN "awake" ELSE @]

(* watch_renderer_events installs the notifier of a new session; events    *)
(* that came before it wake at once.                                       *)
SetNotifier ==
    /\ ui.pc = "launching"
    /\ callback' = TRUE
    /\ latch' = (events # <<>>)
    /\ \/ events # <<>> /\ posted' = posted + 1 /\ UNCHANGED missedPost
       \/ events # <<>> /\ missedPost' = TRUE /\ UNCHANGED posted
       \/ events = <<>> /\ UNCHANGED <<posted, missedPost>>
    /\ ui' = [ui EXCEPT !.pc = "idle"]
    /\ UNCHANGED <<events, open, brokerVars, deferred, handled, timer, ending>>

(* poll_renderer takes the snapshot and what an earlier turn deferred, or  *)
(* begins to collect a batch.                                              *)
BeginTurn ==
    /\ ui.pc = "idle"
    /\ ui' = [pc |-> IF deferred = <<>> THEN "collect" ELSE "check",
              batch |-> deferred, exit |-> exited]
    /\ deferred' = <<>>
    /\ UNCHANGED <<queueVars, brokerVars, handled, timer, ending, missedPost>>

WakeMessage == posted > 0 /\ BeginTurn /\ posted' = posted - 1
TimerTick == BeginTurn /\ UNCHANGED posted

Same(e, f) == e.kind = "storage" /\ f.kind = "storage" /\ e.doc = f.doc

(* Storage writes of one document at the end of the batch. *)
StorageRun(es) ==
    Cardinality({i \in 1 .. Len(es) : \A j \in i .. Len(es) : Same(es[j], es[Len(es)])})

(* event_batch::collect: EVENTS_PER_TURN events, and then adjacent storage *)
(* writes of the last one's document.                                      *)
Takes(batch) ==
    /\ events # <<>>
    /\ \/ Len(batch) < PerTurn
       \/ /\ Same(batch[Len(batch)], Head(events))
          /\ StorageRun(batch) < StorageItems

Collect ==
    /\ ui.pc = "collect"
    /\ IF Takes(ui.batch)
       THEN /\ ui' = [ui EXCEPT !.batch = Append(@, Head(events))]
            /\ events' = Tail(events)
            /\ broker' = Notified
       ELSE /\ ui' = [ui EXCEPT !.pc = "check"]
            /\ UNCHANGED <<events, broker>>
    /\ UNCHANGED <<latch, callback, open, exited, produced, superseded, discarded,
                   deferred, handled, timer, ending, posted, missedPost>>

(* The snapshot's exit waits while events are queued. *)
CheckRemaining ==
    /\ ui.pc = "check"
    /\ ui' = [ui EXCEPT !.pc = "handle", !.exit = @ /\ events = <<>>]
    /\ UNCHANGED <<queueVars, brokerVars, deferred, handled, timer, ending, posted,
                   missedPost>>

(* event_batch::storage_transaction: the writes applied together. *)
Together(batch) ==
    CHOOSE n \in 1 .. Len(batch) :
        /\ \A i \in 2 .. n : Same(batch[1], batch[i])
        /\ n < Len(batch) => ~Same(batch[1], batch[n + 1])

(* One event, or one storage transaction, is applied; the turn may then    *)
(* yield with the rest deferred.                                           *)
Handle ==
    /\ ui.pc = "handle" /\ ui.batch # <<>>
    /\ LET n == Together(ui.batch)
           rest == SubSeq(ui.batch, n + 1, Len(ui.batch))
           exit == ui.exit \/ Head(ui.batch).kind = "exited"
       IN  /\ handled' = handled \o SubSeq(ui.batch, 1, n)
           /\ \/ /\ ui' = [ui EXCEPT !.batch = rest, !.exit = exit]
                 /\ UNCHANGED deferred
              \/ /\ rest # <<>>
                 /\ ui' = [pc |-> "finish", batch |-> <<>>, exit |-> FALSE]
                 /\ deferred' = deferred \o rest
    /\ UNCHANGED <<queueVars, brokerVars, timer, ending, posted, missedPost>>

(* The coordinator or a channel is full: the writes and everything behind  *)
(* them wait for the next turn.                                            *)
PutBack ==
    /\ ui.pc = "handle" /\ ui.batch # <<>> /\ Head(ui.batch).kind = "storage"
    /\ deferred' = deferred \o ui.batch
    /\ ui' = [pc |-> "finish", batch |-> <<>>, exit |-> FALSE]
    /\ UNCHANGED <<queueVars, brokerVars, handled, timer, ending, posted, missedPost>>

BatchDone ==
    /\ ui.pc = "handle" /\ ui.batch = <<>>
    /\ ui' = [ui EXCEPT !.pc = "finish"]
    /\ UNCHANGED <<queueVars, brokerVars, deferred, handled, timer, ending, posted,
                   missedPost>>

(* EventReceiver::close, with the tab's deferred events. *)
CloseSession(how) ==
    /\ open' = FALSE /\ events' = <<>> /\ latch' = FALSE /\ callback' = FALSE
    /\ discarded' = discarded \cup IdsOf(events) \cup IdsOf(ui.batch) \cup IdsOf(deferred)
    /\ broker' = Notified
    /\ deferred' = <<>>
    /\ ui' = [pc |-> "closed", batch |-> <<>>, exit |-> FALSE]
    /\ ending' = how
    /\ UNCHANGED <<exited, produced, superseded, handled, timer, posted, missedPost>>

(* Mutant of FinishTurn: the exit shown by the newest snapshot is applied *)
(* at once.                                                                *)
FinishTurnOnSnapshot ==
    /\ ui.pc = "finish"
    /\ LET remaining == deferred # <<>> \/ events # <<>>
       IN  IF exited THEN CloseSession("exit")
           ELSE /\ latch' = (latch /\ remaining)
                /\ missedPost' = (missedPost /\ remaining)
                /\ ui' = [ui EXCEPT !.pc = "monitor", !.exit = FALSE]
                /\ UNCHANGED <<events, callback, open, brokerVars, deferred, handled,
                               timer, ending, posted>>

(* finish_renderer_event_turn: the notifier is re-armed only when nothing  *)
(* is left in the window or in the queue, and only then the exit counts.   *)
FinishTurn ==
    /\ ui.pc = "finish"
    /\ LET remaining == deferred # <<>> \/ events # <<>>
       IN  IF ~remaining /\ ui.exit THEN CloseSession("exit")
           ELSE /\ latch' = (latch /\ remaining)
                /\ missedPost' = (missedPost /\ remaining)
                /\ ui' = [ui EXCEPT !.pc = "monitor", !.exit = FALSE]
                /\ UNCHANGED <<events, callback, open, brokerVars, deferred, handled,
                               timer, ending, posted>>

(* Mutant of UpdateMonitor: the window's own deferred events are ignored. *)
UpdateMonitorForQueue ==
    /\ ui.pc = "monitor"
    /\ \/ timer' = "active"
       \/ timer' = "idle" /\ events = <<>>
    /\ ui' = [ui EXCEPT !.pc = "idle"]
    /\ UNCHANGED <<queueVars, brokerVars, deferred, handled, ending, posted, missedPost>>

(* ensure_renderer_monitoring: work left behind asks for the fast timer,   *)
(* and so may loading, input or playback, which are not modelled here.     *)
UpdateMonitor ==
    /\ ui.pc = "monitor"
    /\ \/ timer' = "active"
       \/ timer' = "idle" /\ deferred = <<>> /\ events = <<>>
    /\ ui' = [ui EXCEPT !.pc = "idle"]
    /\ UNCHANGED <<queueVars, brokerVars, deferred, handled, ending, posted, missedPost>>

(* The session is replaced between turns, or by an event of the turn. *)
Replace == ui.pc \in {"idle", "handle"} /\ CloseSession("replaced")

Next ==
    \/ \E input \in Inputs : Send(input)
    \/ \E d \in Cancellable : DiscardDocument(d)
    \/ Resume \/ Deliver \/ PublishExit \/ TrySendExited
    \/ SetNotifier \/ WakeMessage \/ TimerTick
    \/ Collect \/ CheckRemaining \/ Handle \/ PutBack \/ BatchDone
    \/ FinishTurn \/ UpdateMonitor \/ Replace

Spec == Init /\ [][Next]_vars

(* The UI thread and the broker thread keep running; the monitor timer     *)
(* recurs as long as the session exists.  A full destination of a storage  *)
(* write drains, so a turn is not put back for ever.                       *)
Fairness ==
    /\ WF_vars(Resume) /\ WF_vars(Deliver) /\ WF_vars(TrySendExited)
    /\ WF_vars(SetNotifier) /\ WF_vars(TimerTick)
    /\ WF_vars(Collect) /\ WF_vars(CheckRemaining) /\ SF_vars(Handle)
    /\ WF_vars(BatchDone) /\ WF_vars(FinishTurn) /\ WF_vars(UpdateMonitor)

FairSpec == Spec /\ Fairness

(***************************************************************************)
(* Properties.                                                             *)
(***************************************************************************)

Hand == IF broker.event = None THEN <<>> ELSE <<broker.event>>

(* Everything the renderer emitted, from the oldest applied to the newest. *)
Pipeline == handled \o ui.batch \o deferred \o events \o Hand

(* A wake is always owed for a held latch and for waiting work: while the  *)
(* UI is between turns, a wake is posted or about to be, the fast timer    *)
(* runs, or a post failed and the idle timer stands in.  An arrival while  *)
(* the notifier is latched or re-armed cannot fall in between, and a latch *)
(* that nobody will release cannot silence the notifier.  Sessions with a  *)
(* cancelled document, or with a renderer whose presentations contradict   *)
(* each other, are excepted: dropping events between the check and the     *)
(* timer leaves the latch to the idle poll.                                *)
WakeIsOwed ==
    (ui.pc = "idle" /\ discarded = {} /\ (latch \/ events # <<>> \/ deferred # <<>>)) =>
        posted > 0 \/ timer = "active" \/ broker.pc = "posting" \/ missedPost

(* While a batch is unfinished the latch is held, so new arrivals do not   *)
(* post a chain of wakes ahead of native input and painting.               *)
BacklogIsQuiet ==
    (ui.pc \in {"idle", "monitor"} /\ (events # <<>> \/ deferred # <<>>)) => latch

(* Productions come out in the order they went in. *)
DeliveredInOrder ==
    \A i, j \in 1 .. Len(Pipeline) : i < j =>
        \A a \in Pipeline[i].ids, b \in Pipeline[j].ids : a < b

(* No production is lost, delivered twice or reordered by coalescing,      *)
(* waiting, deferring and putting back: each is in one place, in the order *)
(* of production also where several are merged into one event, or it was   *)
(* replaced by a newer one, or went with its document or session.          *)
EveryEventAccounted ==
    /\ DeliveredInOrder
    /\ 1 .. produced = IdsOf(Pipeline) \cup superseded \cup discarded
    /\ \A i, j \in 1 .. Len(Pipeline) : i # j => Pipeline[i].ids \cap Pipeline[j].ids = {}
    /\ IdsOf(Pipeline) \cap (superseded \cup discarded) = {}

(* The queue keeps every bound it declares although merging and replacing  *)
(* happen before the wait and the push after it.                           *)
QueueWithinLimits ==
    /\ Len(events) <= MaxEvents
    /\ TotalSize(events, {"storage"}) <= MaxStorage
    /\ TotalSize(events, Merged) <= MaxResources
    /\ FetchBatches(events) <= MaxFetches

(* At most one video frame, one cursor per document, and one selection per *)
(* document and node is queued: playback, pointer motion and a drag over a *)
(* text field cannot fill the queue.                                       *)
LatestOnly ==
    \A i, j \in 1 .. Len(events) :
        i # j => ~Replaces(events[i], events[j])

(* A session ends by its exit only after everything the renderer emitted   *)
(* before it has been applied, whether the exit came as an event or, when  *)
(* the queue was full, only in the snapshot: ending it discards nothing    *)
(* and nothing is left in the queue, the window or the broker's hand.      *)
OutputBeforeExit ==
    [][(ending # "exit" /\ ending' = "exit") =>
         /\ discarded' = discarded
         /\ 1 .. produced \subseteq IdsOf(handled) \cup superseded \cup discarded]_vars

(* Whenever the renderer falls silent, which the bound makes it do,        *)
(* everything it emitted is applied in the end, or was replaced, or its    *)
(* document or session is gone; and its exit is noticed, also when the     *)
(* exit's own event did not fit into the queue.                            *)
EveryEventHandled ==
    []<>(/\ 1 .. produced \subseteq IdsOf(handled) \cup superseded \cup discarded
         /\ exited => ui.pc = "closed")

(* The types and the bounds of the queue, what is queued at most once, and *)
(* the latch that keeps a backlog quiet.                                   *)
QueueInvariant == TypeOK /\ BacklogIsQuiet /\ QueueWithinLimits /\ LatestOnly
=============================================================================
