# Verification of the browser's cross-process state

TLA+ models of Better Web Browser (Breeze), the TLC configurations that check
them and the proofs that hold for every instance. The code is the reference;
every definition names the lines it models in `PROJECT.json` (`map`), and every
hazard the properties are for is listed there with its line (`hazards`).

## The system

A Windows process per browser instance owns the windows, the tabs, the network,
the profile and one *broker* thread per renderer. Each tab's document lives in a
renderer process of its own. The UI thread (the *shell*) handles window messages
and polls the renderers; the broker thread translates between the shell's calls
and the pipe; a writer thread fills the pipe; the child runs one loop over
messages and document tasks. Network workers and one storage worker are threads
of the browser process.

| Part | State | Operations | Talks to | Hard because |
|---|---|---|---|---|
| `storage/coordinator.rs` | authoritative map and its version, one endpoint (queue, sequences) per document | subscribe, apply (a transaction over a batch of writes), take_if | LocalStorage, shell | all recipients must have room before the commit; versions are computed ahead of it |
| `storage/projection.rs` | base map, journal of unacknowledged writes, visible map | from_snapshot, write, apply | scripts, state lane | writes are synchronous while the authority is elsewhere |
| `broker/state_updates.rs`, `broker/worker/*` | pending updates, one in-flight slot, active document, outgoing transfer | try_send_sync, send, take, complete, discard; one pass of the loop | shell, writer, child | the shell enqueues between the stages of a pass; receipts race cancellation and failure |
| `broker/events*` | bounded event queue, latched notification | send (blocking), try_send, drain, close, set_notifier | broker thread, UI turns | an arrival races the re-arming; merging happens before waiting |
| `windows_app/navigation_transaction.rs` | generation, phase, page, document, deadline, retries, recoveries | begin, accept_page, network_complete, document_submitted, mark_presented, deadline, fail | navigation thread, renderer | late results, hung renderers |
| `windows_app/renderer_lifecycle*` | session, launch in progress, deferred events | launch, replace, poll in turns, finish exit | launcher thread, broker | a turn may yield or replace its own session; the exit is known before the output |
| `broadcast_channel.rs` | channels, shared batches, one delivery queue per tab, browser-wide limits | open, post, close, take_if, retire | shell, every tab | one batch has many owners; every queue of the circle is bounded |
| `indexed_db*`, `renderer_fetch/database*` | databases with version and generation, staged sessions, profile file and backup | open, upgrade, delete, step, commit, retire, idle limit | pages, workers, storage thread, disk | sessions are staged on copies; the file is replaced by renames |
| `broker/flow.rs`, `broker/stream*`, `renderer_fetch/{pump,scheduler}.rs`, `child/connection/fetch*` | credit table, two response lanes, jobs, tracked requests | start, chunk, end, abort, consume, retire | network workers, broker, child | four views of one request; an event of a request that has gone |
| `windows_app/runtime*`, `broker/clock.rs`, `engine/scheduler.rs` | per tab: clock anchor, next delay, unanswered advance; one native wakeup; task heap and logical clock | schedule wakeup, pump, advance, pop task, switch tab | shell, broker, child | one timer for many tabs; the renderer's clock runs behind |
| media and capture processes, sensors, wake locks, notifications | sessions, leases | | shell | retirement; not modelled |
| engine (DOM, CSS, layout, script), codecs, WebGL | trees, streams | | child | sequential; not modelled |

What makes them correct:

* storage: all documents of an origin behave as if they shared one map with one
  history; every write is acknowledged once; queues are bounded and drop
  nothing; a change is missed, or refused, only when it met a document that did
  not run yet;
* state lane: one update per document is unanswered; the slot is free exactly
  when the broker has no transfer, and is freed in the end; no receipt is taken
  for unsolicited; corrections converge; nothing follows a cancellation;
* event queue: every event is queued, applied, superseded by a newer one of its
  kind or dropped with its document; a queued event has a wake-up that is on its
  way; output counts before the exit;
* navigation: only results of the current generation count; a load has a
  renderer or one on the way and a navigation thread while it waits for the
  network; at most one retry; an old session's exit cannot hurt its successor;
  loading ends;
* broadcast: what the limits count is exactly what is queued; a channel receives
  what was posted to it, in order; the traffic of a well-behaved page drains;
* IndexedDB: no committed write is lost under another transaction, a transaction
  commits as a whole, one of the two files is always complete, and every request
  is answered;
* fetch: credit given out is what is unread or on its way, no late event is
  refused, every byte is somewhere, and a response settles unless the page does
  not read it;
* clock: the shell's and the renderer's clock account for the same time, the
  wakeup covers the foreground document's next callback, and overdue callbacks
  run.

## Modules

| Module | Models |
|---|---|
| `StorageArea` | maps, operations, quota, change records (`area.rs`, `changes.rs`) |
| `StorageSync` | the authority, endpoints, projections and lanes of one origin |
| `SharedMap` | the abstract promise of Web Storage: one history of maps |
| `StorageRefinement` | the mapping under which `StorageSync` implements `SharedMap` |
| `SequenceSums`, `SequenceFilters` | the total of a sequence of numbers and the members of a sequence that are in a set (`retain`, `filter`), as recursive functions, which the provers can reason about |
| `StorageSyncProofs`, `NavigationProofs`, `IndexedDbProofs`, `DocumentClockProofs`, `EventQueueProofs`, `StateLaneProofs`, `BroadcastChannelProofs` | proofs about the modules of those names; the first also proves the refinement |
| `SequenceProofs` | lemmas about totals, selections and weights of sequences |
| `StateLane` | one renderer session: lane, broker loop, writer, child |
| `EventQueue` | one session's event queue, its notification and the UI turns |
| `Navigation` | one tab: transaction, launch, navigation threads, event turns |
| `BroadcastChannel` | pages, brokers, event and command queues, the registry |
| `IndexedDb` | clients, the storage worker, sessions and the profile file |
| `FetchStreams` | network workers, lanes, credit table, broker and child |
| `DocumentClock` | tabs of a window, wakeup, advance lane, event loops |
| `MC...` | the instances TLC checks |

`StorageSync` uses the lane as a one-place buffer per tab; `StateLane` is that
buffer in detail, and both have the update that the broker drops because its
document is not active yet. `Navigation` uses an event queue that is bounded and polled;
`EventQueue` shows that it is. `BroadcastChannel` and `DocumentClock` have their
own, smaller copies of the queues between shell, broker and child, because their
hazards are in the way those depend on each other. Operators whose comment says
"Mutant of" are deliberately wrong variants: each property of each passing run
fails when one of them replaces the definition it belongs to, so no property
holds vacuously.

Each module has one invariant named `...Invariant` that is the conjunction of
its type invariant and of the named parts that say what its bookkeeping is at
every moment; the deeper properties are stated separately.

### StorageSync, SharedMap, StorageRefinement

`version`/`hist` are the versions of `LocalStorage`'s area; `queue`, `seqs`,
`live` the endpoints; `proj` the `StorageProjection` of a tab's document; `wire`
the writes on their way to the browser (renderer messages, event queue and the
UI's batch are one FIFO); `lane` and `event` the update the document is working
on. `StorageCoordinator::apply` is split so that renderers run between its
steps: `BeginTransaction` (checks), `Preflight` (one write on the copy, with its
version and change record), then `Defer` (some recipient has no room), `Commit`
or `Reject` (quota or a failed save). Each ends with the publication and the
return of the code. `Pump` is `pump_storage_updates`, `Synchronize` the
renderer's `StorageProjection::apply`, `DispatchEvent` the later storage event
task, `Retire` the loss of the subscription with everything in the old renderer.
`fault` collects the tabs in which a `StorageError::Invalid` was returned.

A document is subscribed on the UI thread (`submission.rs:71-75`) before its load
command is queued, and the child runs it much later. `loading` is the set of
subscribed documents that do not run yet. Until then an update that `Pump` puts
into the lane can be completed and dropped by the broker, which has no such
active document (`Drop`, `commands.rs:187-193`), or, when the broker has started a
streamed response, reach a child without a document, which ends it
(`RefuseEarly`, `child/connection/state.rs:204-208`). `Activate` is the start of
the document; `lost[t]` counts what was dropped. The properties say exactly what
this costs and that it costs no more: `OnlyEarlyChangesMissed` that the dropped
changes are the only ones missed, `FaultsAreEarly` that nobody else's update is
refused, `QuiescentReplicaAgrees` that such a document at rest shows the map of
`lost[t]` versions ago and every other one the authority's map. That no change
is missed at all, as the documentation says, is refuted by `ordered_changes`.

`SharedMap` has no queues: a document stands at a version of one history and has
operations that are undecided, refused, or made a version it has not reached. A
group of a document's oldest undecided operations is applied as a whole or
refused as a whole. The mapping reads the outcome of a write off the updates in
flight.

Left out: other origins (independent), the session area, source URLs, byte
limits of the queues (the item limits are kept and play the same part), and the
exhaustion of 64-bit counters. A batch is at most the queue's length (at most 256 and a few
events against a queue of 4096).

### StateLane

One renderer session with several documents one after another. `stage` is the
place in the broker's loop (`worker.rs`), which the UI thread, the writer thread
and the child interleave with. Buffered and streamed documents, chunk, end and
abort of the body, cancellation by the UI, failure in the child and script
navigation are actions. `exit` records why the session ended, so that "this must
not end the renderer" is an invariant.

Left out: storage snapshot corrections (nothing but tests sends them), page
commands and input (they share the writer's capacity only), exhaustion of the
writer's hard limit, more than one chunk per pass. `Cancel` stands for the
session API; the application replaces the whole renderer instead.

### EventQueue

The broker thread sends an event in two steps, because it merges and replaces
before it waits for room; `broker.event` is what it holds. The latch, the
callback, the posted window message, a failed `PostMessageW` and the monitor
timer's two intervals are separate state; a turn collects, handles, checks for
more and re-arms in separate steps. An event carries the productions it stands
for, so that merged, superseded and dropped productions can be accounted for.
A cursor is replaced by the newest of its document, a text selection by the
newest of its document and target (`events.rs:133`, `:140`), so selections of two
targets are queued side by side. An event that is to be merged is taken off the
queue before the merge can fail (`presentations.rs:19-22`, `:60-63`); then both are
lost, the broker ends the renderer, and `Send` counts them as discarded.

`OutputBeforeExit` says both that the exit which ends a session discards nothing
and that everything emitted has been applied, replaced or dropped by then: the
queue, the window's batch and deferred events and the broker's hand are empty.
`QueueAssumption` assumes that an event by itself fits the budget it is charged
to: a storage or broadcast message is at most a frame of 8 MiB against 32 MiB,
and the transfer of a presentation is refused above the limit when it begins
(`broker/worker/document/presentation.rs:24`).

`WakeIsOwed` has one exception that the code has: when a cancelled document's
events are dropped between the check for more and the choice of the timer's
interval, the latch stays held until the idle poll (`EveryEventHandled` shows
that nothing is lost).

### Navigation

`tab.nav` is the `NavigationTransaction`; `tab.session` the renderer session
with the events its broker has queued; `tab.launch` the launch receiver and what
its channel holds; `tab.fetches` the navigation threads; `mail` the window's
message queue; `turn` the turn `poll_renderer` is in. Operators named after the
transaction's methods are functions on the record. Where the system decides (a
thread cannot be started, a document is refused, the broker has gone) an
operator is the set of possible results. A poll first pumps broadcast deliveries
and storage updates; when that fails the page is contained before the queued
output is collected (`PumpFails`, `events.rs:31-36`), otherwise the turn collects
(`Collect`). The deadline is an action that may
happen any time once it is armed: real time is abstracted.

Left out: history entries, scroll positions, revisions of presentations, the
services retired with a renderer, closing and moving the tab. The launcher's
send and its posted message are one step. A session owned by a tab is never shut
down cleanly (`shutdown` is not called by the application), so exits are crashes
or exceeded task budgets.

### BroadcastChannel

A post goes from the page through the broker and the event queue to the
registry, which makes one batch and queues a delivery to it in every tab with a
matching channel; the shell moves the oldest delivery to the broker's command
queue when there is room, else retries at the next poll. A post that meets a
limit is put back and ends the turn. Navigation, crash, termination and closing
a channel retire what refers to them.

`RestartEncoding` is the charset restart: the same document begins again in a new
realm, whose channel ids start at 1 (`bootstrap/broadcast_channel.js:16`), and
nothing closes the channels of the first one. The registry refuses the second
realm's first channel as a duplicate (`broadcast_channel.rs:79-81`) and the page is
contained. The model has both; `RunningPageIsServed` and `ReceivesInOrder` are
therefore about pages that run in one realm (`OneRealm`), while `ExactAccounting`,
the queue bounds, the ownership of members and every other page's deliveries are
checked through the restart and the containment. No document of the repository
says that a restarted page is served, so this is a hazard in `PROJECT.json` and
not a finding with a run. `Faults` gives, per tab, the documents that may crash,
be terminated or restart.

Left out: the overflow of messages that the child defers while it waits for a
fetch (`child/connection/fetch.rs:238-252`). They are deferred while
`discard_resource_preloads` (`child/document/resources.rs:78`) finishes a fetch
batch, which happens in the load of a document with an immediate refresh, while it
has no realm and no open channel (`child/document/load.rs:82`). The only deliveries
it can then get are for a realm that a charset restart has just abandoned.

### IndexedDb

One origin, one database. A page or worker opens, upgrades, deletes and runs
transactions of several steps; the storage worker executes one request at a time
and stages the writes in a session; a commit writes the profile file in the
steps of `persistence.rs`, any of which may fail or be the last one before the
browser ends. `stamp` numbers database states, so that states with equal version
and generation can be told apart. A record is abstracted to the transaction that
wrote it. Requests have one shape: `Message` is what `idbSend` sends, and
`OfTransaction` adds the transaction it belongs to. A step may fail and drop its
session, or have a result too large for a reply (`database.rs:282-290`): then the
page is told that it failed although the session keeps what was staged; an
upgrade whose results are too large is committed and reported as failed.

An expired session is replaced by an empty one when the transaction goes on; the
code then commits only the later steps, so `CommitIsWhole` is about sessions
that did not expire. `NoLostUpdate` leaves out sessions older than a deletion,
which are finding 2 below.

Left out: the `SecurityError` replies (`database.rs:109-143`), which the shell
gives to clients of an opaque origin, or that are not the document's, without a
job, a session or any other change of state; and a charset restart in the middle
of a transaction. The second realm numbers its transactions from 1 again under
the same session key (`database.rs:81-90`), so it could go on with a session of the
first one: `CommitIsWhole` is about documents that do not restart.

### FetchStreams

One renderer session. A job is the network worker's state machine; a request is
known to the child (`tracked`), to the broker (what it has sent of it), to the
credit table and to a job, and each of the four forgets it at a different
moment. The send of an event is two steps, because the lane is chosen before.
Anything the broker or the child refuses ends the renderer, so `NoRefusal` is
the property that late events are tolerated.

`NoRefusal` excepts the two refusals the code has: the lane change of
`events_in_order` below, and a receipt that the child sends for bytes its page
had still to read when the document failed (`child/connection.rs:322`,
`worker/document.rs:66`). `ResponsesSettle` excepts a page that does not read
its stream.

### DocumentClock

Time is counted in frames. Per tab the shell keeps `next`, `clock` (the instant
of the last advance) and `pending`; `wake` is the window's one native timer.
`slot`, `pipe`, `mail` and `kid` belong to the tab's session. An advance adds its
time before any callback runs; then `run_callback` takes the earliest ready
task, at most as many as the advance allows, and `finish_advance` posts the
marked update. Updates merge in the event queue as in `EventQueue`. Storage
events send the renderer an advance of its own, ahead of the pipe. `lost` is the
time cut off by the 60 s limit of one advance, `cut` records that an advance was
consumed without its mark. What a piece of script may do to the loop is the set
`Scripts`: nothing, `setTimeout`, `setInterval`, `clearTimeout`, or ask for the
animation frame or cancel it. `Elapsed` adds up the advances in a pipe with
`Total` of `SequenceSums`.

Left out: idle callbacks, microtasks (part of the callback), dynamic scripts,
workers, media timers, rendering deadlines, child frames, scroll events; closing
and moving tabs; and the frozen lifecycle (`child/document/scheduling.rs:86-98`),
which drops the time of an advance: no code of the browser sends
`DocumentLifecycle::Frozen`, the protocol only decodes it. A frame is the next whole unit of time.

## Runs

TLC with two workers; times are of one machine.

| Run | Bounds | Properties | Size |
|---|---|---|---|
| `storage_sync` | 2 tabs, 2 keys, 1 value, quota 1 entry/2 bytes, queue 2, batch 2, 2 writes per document of one tab and 1 of the other, 2 loads | `StorageInvariant` `FaultsAreEarly` `QuiescentReplicaAgrees` `ReplicaIsHistory` `OnlyEarlyChangesMissed` `EveryWriteAccounted` `ImplementsSharedMap` `EveryWriteAcknowledged` | 1 min |
| `state_lane` | 2 documents, 2 deltas, 2 cookies, 2 updates in all, writer 2, pipe 1 | `LaneInvariant` `ReceiptsAreSolicited` `DeltasInOrder` `CookiesConverge` `SlotIsFreed` | 2 min |
| `event_queue` | queue 2, 1 fetch batch, 3 events out of seven inputs over two documents (three of them selections, two of one document), turns of 1 | `QueueInvariant` `WakeIsOwed` `EveryEventAccounted` `OutputBeforeExit` `EveryEventHandled` | 2 min |
| `navigation` | 2 loads, 1 queued event plus the exit, 1 waiting message, turns of 2, failing pumps | `NavigationInvariant` `PageIsCurrent` `PaintCountsBeforeExit` `OldExitIsIgnored` `LoadingEnds` | 0.73 million states |
| `broadcast` | 2 tabs, t1 posts twice to two channels of t2, which may close, navigate, crash or be terminated, and restarts at another charset as second document; every queue of the circle 1 | `RegistryInvariant` `ExactAccounting` `ReceivesInOrder` `TrafficDrains` | 4 min |
| `idb` | a page and a worker of one document, 1 open and 1 transaction each, of 2 steps and of 1, deletion, expiry, failing steps, oversized results, failing renames and a crash | `SessionInvariant` `NoLostUpdate` `CommitIsWhole` `Recoverable` `EveryRequestAnswered` | 3 min |
| `fetch` | two batches of two requests (frame script and image, worker fetch and stream), bodies up to 2 chunks, windows and lanes of 1, one worker, one interruption | `FlowInvariant` `NoRefusal` `EveryByteIsSomewhere` `ResponsesSettle` | 1.1 million states |
| `clock` | 2 tabs, 2 documents, 2 timers or frames, 2 units of time, an advance of at most 1, 1 tab switch, 1 other event | `ClockInvariant` `WakeCoversNextCallback` `CallbacksRun` | 0.2 million states |
| `sender_stuck` | 1 tab, 3 channels, 5 posts | violated: finding 1 | |
| `idb_stale_commit` | 2 pages, 1 deletion | violated: finding 2 | |
| `events_in_order` | as `fetch` | violated: finding 3 | |
| `ordered_changes` | as `storage_sync` | violated: finding 4 | |

Why the bounds are enough to be interesting: two writes and a queue of two make
a batch collide with a full recipient; two keys with room for one make a quota
rejection; two loads make a document follow a retired one while the other lives
on, or subscribe while the other's changes are on their way to it. In the lane, two documents let every late message of the
first meet the second, and a writer of two with a pipe of one lets a transfer
wait for room. Two navigations in a tab that already has a page let results of
the first reach the second; with retries and recoveries up to four renderers
follow one another. Queues of one in `broadcast`, `idb` and `fetch` make every
bound be met; one network worker makes two responses share it, and a body of two
chunks against a window of one makes the second wait for a receipt. In the
clock, two units of time against a limit of one make the limit cut, two timers
make ties and intervals that are due again, and the second document may be in
the background when its timer comes. Deadlock is not checked: with bounded
activity each system comes to rest, and the liveness properties say in which
states it may.

### Fairness

* `storage_sync`: the UI pumps whenever a recipient is notified and a deferred
  batch is retried when the poll timer fires, the renderer's loop applies what
  it receives, runs queued events and starts a document that was loaded, and a tab
  whose renderer refused an update is contained. Nothing is assumed of scripts or
  users.
* `state_lane`: weak fairness of the broker's loop (it waits at most 10 ms), of
  the writer, and of the child's message and event tasks.
* `event_queue`: weak fairness of the broker's steps, of the window's messages
  and timer, and of the steps of a turn; strong fairness of handling an event,
  which the renderer's other events may interrupt but not prevent.
* `navigation`: weak fairness of a started turn's steps, of polling, and of
  launcher and navigation threads (both have timeouts); strong fairness of the
  window's messages (posted messages come before the timer, so a chatty
  renderer cannot hold them up) and of the deadline (looked at after every
  poll). The renderer may stop for ever.
* `broadcast`: weak fairness of the child's dispatch, the broker's pass, the
  shell's turn and the delivery pump, for each tab. Posting is not fair.
* `idb`: weak fairness of the storage worker, of each document's delivery of
  requests and replies, and of containing a failed document.
* `fetch`: weak fairness of the network side (a request has a timeout) and of
  broker and child together. A page need not read, abort or go on.
* `clock`: one weak fairness for the shell, the brokers and the renderers:
  something that can go on does. Page, user and time are free, so `CallbacksRun`
  is about what is overdue when time has passed.

### Disagreements with comments and documentation

Four have a run that shows them:

1. `sender_stuck`: a page that posts to several channels of its own tab in
   several tasks can stop for good: shell, broker thread and child each wait for
   a queue that only the next one empties. The comment in
   `engine/script/host_call/broadcast_channel.rs` says a sender cannot deadlock
   with a receiver in its own tab.
2. `idb_stale_commit`: a session staged before `deleteDatabase` commits over the
   database that was created again, when version and generation are the same.
   The documentation says the generation check prevents it.
3. `events_in_order`: a stylesheet or script response whose request is retired
   between the choice of its lane and the send is overtaken by its own next
   event; the broker refuses that one and ends the renderer. The comment says a
   response always uses one lane.
4. `ordered_changes`: a change that another tab commits after a document has
   subscribed, and that is offered to the lane before the broker has taken the
   document's load command, is completed and dropped (`commands.rs:187-193`). The
   document's snapshot is older than the change, so it never learns of it, and
   the next one fails `storage/projection.rs:97` and ends the page.
   `docs/web-storage.md:45` says that other tabs of the origin receive ordered
   changes, and `:53-54` that storage changes cannot coalesce.

Others were met while modelling. They are part of the models, as exceptions
named in the properties or as outcomes:

* state lane: the update of finding 4 (`DeltasInOrder` only asks that deltas
  increase); a delta sent while the body
  still streams meets a child without a runtime and ends the renderer; a failure
  during streaming leaves `streaming_document` set, so that the session would
  refuse its next buffered document (the application does not reuse it);
* fetch: the receipt after a failure, above; a second cancellation forgets the
  first `retired_document`; a chunk of a retired prioritized request goes to the
  other lane without looking at its room;
* clock: an advance that ends in an encoding restart is answered without
  `clock_advanced` (`child/connection/runtime.rs:208`), and a marked
  presentation that opens a tab is given up before its mark is looked at
  (`document_activation.rs:191`); either way `renderer_clock_pending` stays set
  and the document's timers stop until some other marked update, which is the
  `cut` exception of `WakeCoversNextCallback` and `CallbacksRun`. The clock of a
  document lags behind the time of its input handlers, so a timer they set
  counts time that has already passed. One advance adds at most 60 s and the
  rest is dropped (`lost`). The advance that follows a storage event is marked
  too, and answers one that is still on its way. A page restarted for its
  encoding, or put back at the tab limit, takes itself to be visible although
  its tab is not.

## Proofs

Every proof has the same plan: an invariant `Ind`, strong enough to be
inductive, one lemma per action that preserves it, and the properties of the
runs as its consequences. TLC has checked each `Ind` as an invariant of the
component's run. The theorems hold for every value of the constants that the
modules' `ASSUME`s allow.

| Module | Theorems |
|---|---|
| `StorageSyncProofs` | `StorageSound`, `FaultsOnlyEarly`, `ReplicaCorrect`, `ChangesDelivered`, `WritesAccounted`, `QuiescentAgreement`, `TypeCorrect`, `VisibleCorrect`, `TransactionCorrect`, `RetirementClean`, `QueueBounded`, `ForwardOnly`, `SharedMapImplemented` |
| `NavigationProofs` | `NavigationSound`, `PageCorrect`, `PaintFirst`, `OldExitHarmless` |
| `IndexedDbProofs` | `SessionsSound`, `CommitsAreSerial`, `CommitsAreWhole`, `FilesRecover` |
| `DocumentClockProofs` | `ClockSound`, `WakeCovers` |
| `EventQueueProofs` | `QueueSound`, `WakesOwed`, `EventsAccounted`, `ExitLast` |
| `StateLaneProofs` | `LaneIsSound`, `ReceiptsAccepted`, `DeltasArriveInOrder`, `CookiesSettle` |
| `BroadcastChannelProofs` | `AccountsAreExact`, `RegistryIsSound`, `PostsArriveInOrder` |

### Storage

    Ind == TypeOK /\ FaultsAreEarly /\ Starting /\ Docs
           /\ TransactionConsistent /\ RetiredIsEmpty

where `Docs` is, for each live document, the conjunction of `VisibleIsOverlay`,
`ReplicaIsHistory`, `OnlyEarlyChangesMissed` and `EveryWriteAccounted`. None of
them is inductive alone: the update of a document that lost none is valid
(`FaultsAreEarly`) because the updates in flight form a run of versions and
acknowledgements that begins where its base ends (`OnlyEarlyChangesMissed`,
`EveryWriteAccounted`); the base stays a map of the history because that run
records the history's changes; the run stays gapless across a commit because
the transaction's updates are such a run from the current version to the new one
(`TransactionConsistent`); and a dropped update only moves the beginning of the
run, because a document that does not run has written nothing (`Starting`), so
that what is dropped is a foreign change and acknowledges nothing.
The lemmas on `CarriesChanges` and `CarriesAcks` say
how runs start, concatenate and lose their head. The lemmas before them are the
algebra of maps: applying an operation, overlaying a journal, and why an
acknowledgement of one's own first write may skip the rebuild. `QueueBounded` and
`ForwardOnly` follow with `Ind` from one more step lemma each.

`SharedMapImplemented` is the refinement. `Ind` says that the updates of a
transaction record the history's changes, but not that they tell the effect of
each write: two batches with the same changes could answer their writes
differently. `Explained` adds that: every write the transaction has looked at was
within the quota of the map before it, and its answer names a new version exactly
when it changed that map. `RefInd == Ind /\ Explained /\ BatchFits` is inductive,
and under it every step has its counterpart:

| Step | of the shared map |
|---|---|
| `Subscribe`, `Retire`, `Write` | `Open`, `Close`, `Issue` |
| `Synchronize` of another document's change | `Learn` |
| `Synchronize` of an acknowledgement | `Confirm` |
| `Commit` | `Accept` of the batch; the versions reached are those of its updates |
| `Reject` | `Refuse` of the batch |
| `Activate`, `Drop`, `RefuseEarly`, `Pump`, `DispatchEvent`, `BeginTransaction`, `Preflight`, `Defer` | none |

The work is in the mapping of a document's own operations, whose outcome is read
off the updates in flight (`Fate`): the lemmas `OwnWrite`, `OwnLearn`,
`OwnConfirm`, `OwnForeign` and `OwnDecided` say what each step does to them, and
rest on every write being answered once and in order (`CarriesAcks`).

### Navigation

    Ind ==
        /\ GoodTab(tab)
        /\ GoodMail(tab, mail)
        /\ GoodTurn(tab, turn)
        /\ loads \in 0 .. MaxLoads

`GoodTab` says of the tab alone what its phase owes it: a page is the current
generation's, attempts are counted by retries, a launch is only under way where
there is no session, the transaction's document is the session's, and a phase
that needs a renderer has one or a launch on the way. `GoodMail` relates the
window's messages to the tab: a launch that has ended and a navigation that is
awaited have a message, or a thread that will send it. `GoodTurn` is about the
turn `poll_renderer` is in: what is collected, deferred or queued of the
session's events tells of no exit before there is one, and has the paint of a
document that does not count as presented yet. The operators of the transaction
are functions on its record, so the first lemmas say what each does to each
field; a handler is the composition of a few of them, and `Kept` and `Restarted`
name the two ways in which it may leave the tab: with everything the turn relies
on, or with a new navigation.

### IndexedDB

The invariant is built in four layers, each inductive given those before it:

* `Shapes`: types and bounds of clients, lines, queue, replies, sessions, file
  and job, with what the files hold between any two file operations;
  `Recoverable` follows from it;
* `Fresh`: a session has the database's state and generation, or began from an
  older generation, or before the last deletion; with it `NoLostUpdate`;
* `Owned`: a client or document that is gone, and still has a session, has its
  retirement behind every request of its own, in the queue or in its line; with
  it `SessionInvariant`;
* `Orderly`: of a client's current transaction at most one request is on its way
  and an abort behind it, replies answer the step that is awaited, and what the
  client has done is staged in a session that is still there, or no further step
  will be executed; with it `CommitIsWhole`.

### Document clock

    Ind ==
        /\ Shapes
        /\ \A t \in Tabs : GoodTab(ui[t], slot[t], pipe[t], kid[t], mail[t], cut[t], now)
        /\ \A t \in Tabs \ opened : Closed(ui[t])
        /\ Promised(front, ui[front], wake, now)
        /\ Shown(pipe[front], kid[front])

`GoodTab` has one named part per thing that could go wrong in one tab: without a
document there is nothing, and its load is the first message (`Empty`,
`LoadFirst`); the time is conserved (`Conserved`); an unanswered advance is in
slot, pipe or loop, or its mark is in the mail, unless it was cut (`Answered`);
the delay of a loop at rest is in the newest update or known to the shell
(`Told`); tasks have numbers of their own below the next one, and the frame is
queued when the page is visible (`GoodLoop`). `Promised` says that the wakeup is
early enough for the foreground document's record, and `Shown` that the last
thing the foreground renderer hears is that it is visible. `Closed` is what made
it inductive: a new tab takes one that was not open, which therefore has no
document. The sums over the pipe are `Total`s; `SequenceProofs` shows that the
recursive functions behind `Total` and `Selection` exist for every finite
sequence, and what they make of concatenations, tails and extensions.

### Event queue

    Ind == TypeOK /\ Places /\ Marked /\ Accounted /\ Awake /\ Bounded

The pipeline is one sequence: what is applied, the turn's batch, what the window
deferred, the queue, the broker's hand. `Accounted` says that its productions are
in order and, with what was superseded and discarded, all there are; most steps
only move events from one place to the next, and then there is nothing to prove
but associativity. `Places` says which place may hold events in which state of
the two threads: without it a batch could be overtaken by what was deferred, and
an exit could be applied in front of output. `Marked` makes `DiscardDocument`
sound: an event without a production is the exit and belongs to no document, so
dropping no production drops nothing. `Awake` gives the latch a reason: it is held
while there is a backlog, and between turns a held latch is owed a wake; the
stage in which the timer is chosen needs the weaker form that there is still a
backlog. `Bounded` adds to the limits that the waiting event replaces nothing in
the queue, because it is pushed later without looking again. Limits are weights
of sequences (`Weighed`), and a selection weighs no more than what it is taken
from.

### State lane

    Ind ==
        /\ TypeOK /\ ReceiptsAreSolicited /\ SlotMatchesTransfer /\ DeltasInOrder
        /\ Ordered(toChild, PipePairs)
        /\ Alive => Inner

`Inner` holds until the session ends; what the broker and the child do to each
other afterwards concerns nobody. Its parts, and what they are for:

* `Ordered(toChild, PipePairs)`, `Ordered(lifecycle, CommandPairs)`,
  `Ordered(pending, PendingPairs)`: what may stand behind what in a queue, as a set
  of pairs; appending, taking the head and selecting keep such an order, by one
  lemma each;
* `Bounded`, `Fresh`: documents are numbered, a load that still waits in the
  lifecycle channel is new to everything behind it, and a cancelled one is not
  mentioned again;
* `Cancelled`, `FailedIsOver`, `OwnedIsActive`: a document whose cancellation was
  sent, or whose failure is on its way back, is gone for good, and the UI's
  document is the broker's whenever the child may run it. With them a receipt
  for the active document can only come from that document's own update;
* `Solicited`: such an update is the transfer that the broker holds, and it is in
  exactly one place: in the pipe, in its storage event, or in its receipt. From
  it follow `ReceiptsAreSolicited` and `OneUnanswered`;
* `Versions`: a delta in the pipe or waiting is newer than what its document has
  applied and than the deltas ahead of it; from it follows `DeltasInOrder`;
* `Counted`, `Newest`: the mutations the UI has counted and those that its
  document's reports still carry are no more than the document made, which
  makes it the last one that began. Therefore a document that begins to run finds
  no correction decided yet, and the newest one waits, is under way, or has been
  applied; from it follows `CookiesConverge`.

### BroadcastChannel

The invariants come in layers, each inductive given those before it:

* `Shapes` and `Counted`: types, and every counter of the coordinator as the
  number of what it counts: the bytes pending are those of the batches that some
  pending delivery still refers to, each batch has as many recipients as
  deliveries, and no batch comes from a post that is still on its way.
  From it follows `ExactAccounting`. A sum over recipients or batches is written
  as the cardinality of a set of places (pairs of a tab and a position, or of a
  batch and a byte), which the library's theorems on finite sets know; a
  delivery that is taken or purged is a place less;
* `Members`: the registry has at most one channel of each number and tab, and only
  of the current document, at most `MaxChannels` of a tab; the commands on their
  way are the current document's;
* `Served`: the commands of a running page in its first realm, joined over broker turn, event queue and
  outgoing messages into one `Stream`, can all be applied: each post and close
  finds its channel registered by then, each open a new number (`Follows`), and
  at the end of the stream the registry is what the page has open (`Live`). So a
  command of such a page is never refused, which would end its session; a page that
  restarted is excepted, because the code refuses it. From it and the layers before follows `RegistryInvariant`;
* `Fresh`: a number that the page has not used, or whose channel is not open
  yet, occurs in no queue of deliveries and in no record of an admission. Without
  it a channel could be opened under a number for which something is on its way;
* `InOrder`: what a registered channel has received, followed by what lies for it
  in the inbox, among the commands and pending with the coordinator (`Delivered`),
  is exactly the sequence of batches that were admitted for it, unless its page has
  begun again in a second realm. From it follows
  `ReceivesInOrder`. Three of the four places only hand their head to the next
  one; the fan-out adds one batch to the targets and nothing to anyone else.

One assumption on the constants comes from the code. `FanoutAssumption`: all
channels of all tabs but one, the sender, are within the recipients that the
registry admits; the window opens 16 tabs (`MAX_OPEN_TABS`,
`windows_app/tabs.rs:12`) with 128 channels each, well below 65536, so a post is
never refused because of its fan-out. Lists are selected with `Selection`, a
recursive function, about which `SequenceProofs` has the lemmas.

### Only model-checked

* liveness under fairness (`EveryWriteAcknowledged`, `SlotIsFreed`,
  `EveryEventHandled`, `LoadingEnds`, `TrafficDrains`, `EveryRequestAnswered`,
  `ResponsesSettle`, `CallbacksRun`): temporal reasoning with fairness and
  `ENABLED` is out of the prover's reach;
* `FetchStreams` (`FlowInvariant`, `NoRefusal`, `EveryByteIsSomewhere`): its
  properties add the bytes of unequal chunks over all lanes and queues with
  folds over sets, about which no library theorem says anything, and it selects
  with `SelectSeq`. Its sums would have to be restated as in `BroadcastChannel`.

## Not modelled

See `components` in `PROJECT.json`. Most of the repository's lines are the
engine's algorithms on trees and text (DOM, CSS, layout, script bindings,
rendering), codecs and containers, protocol encoding, and platform adapters.
They run in one thread, keep no state that another component shares, and their
difficulty is the data, which a bounded model of the control would leave out; the
repository tests them with unit, fuzz and reference tests. The models cover the
parts where several threads or processes own one piece of state.

Left for later, with state worth modelling: media and capture sessions, wake
locks and sensors (ownership by the visible tab), the native input queue and the
text generation, presentation acknowledgements and viewport updates, idle
callbacks and dynamic scripts, Cache Storage and quotas, closing and moving tabs.

## Plan

1. Done: storage with its proofs and refinement, state lane, event queue,
   navigation, BroadcastChannel, IndexedDB, fetch streams, document clock.
2. Done: the safety invariants of storage, navigation, IndexedDB, the document
   clock, the event queue, the state lane and BroadcastChannel proved, and the
   refinement of the shared map.
3. Proofs to do: `FetchStreams` (`EveryByteIsSomewhere`), with its totals
   restated as cardinalities of sets of places.
4. Ownership of media, capture and wake locks by tabs and documents.
5. The input queue with its acknowledgements, and viewport updates.
