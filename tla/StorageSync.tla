----------------------------- MODULE StorageSync -----------------------------
(***************************************************************************)
(* Synchronisation of one origin's localStorage between the browser and    *)
(* its tabs.                                                               *)
(*                                                                         *)
(* The browser keeps the only authoritative map (StorageCoordinator, over  *)
(* LocalStorage).  The document in each tab holds a StorageProjection: the *)
(* authoritative map as far as it has heard (base), the journal of its own *)
(* synchronous writes that are not acknowledged yet (pending), and the map *)
(* its scripts see (visible).  Writes travel to the browser in order       *)
(* (wire); the coordinator applies a batch of them as one transaction and  *)
(* queues the resulting updates for every subscribed document (queue);     *)
(* each document takes one update at a time through its state lane (lane), *)
(* and a foreign change holds the lane until its storage event has run     *)
(* (event).                                                                *)
(*                                                                         *)
(* The subscription and the load are two messages.  Until the child runs   *)
(* the document (loading) the lane is not reliable: an update that the     *)
(* broker takes before the load command is completed and dropped, and one  *)
(* that the child takes before it has the document is an error.            *)
(*                                                                         *)
(* All browser steps run on the UI thread, so a transaction excludes every *)
(* other browser step; renderers run between its steps.                    *)
(***************************************************************************)
EXTENDS StorageArea

CONSTANTS Tabs,        \* top-level tabs; each holds at most one document
          MaxPending,  \* MAX_QUEUED_BROWSER_WRITES, as StorageProjection uses it
          MaxQueue,    \* MAX_QUEUED_BROWSER_WRITES, as the coordinator uses it
          MaxBatch,    \* writes the UI may group into one transaction
          MaxWrites,   \* bound: writes a document of the tab makes
          MaxLoads     \* bound: documents loaded in all

ASSUME SyncAssumption ==
    /\ None \notin Tabs
    /\ MaxPending \in Nat /\ MaxQueue \in Nat
    /\ MaxBatch \in 1 .. MaxQueue
    /\ MaxWrites \in [Tabs -> Nat] /\ MaxLoads \in Nat

VARIABLES
    version,  \* version of the authoritative map
    hist,     \* hist[v]: the authoritative map at version v; the last is current
    live,     \* tabs whose document is subscribed
    loading,  \* of those, the ones whose document the child does not run yet
    seqs,     \* Endpoint.sequences: last write sequence taken from the tab
    queue,    \* Endpoint.queue: updates the tab has not been sent
    lane,     \* the update in the tab's state lane and not yet applied
    event,    \* tabs whose storage event is queued and has not run
    wire,     \* writes the document issued and the coordinator has not taken
    proj,     \* StorageProjection of the document
    txn,      \* the transaction StorageCoordinator::apply is working on
    fault,    \* tabs in which some step returned a StorageError::Invalid
    loads,    \* documents loaded so far
    lost      \* history: changes the broker dropped on the way to the document

authority == <<version, hist>>
endpoints == <<live, seqs, queue>>
startup == <<loading, lost>>
renderers == <<lane, event, wire, proj>>
vars == <<authority, endpoints, startup, renderers, txn, fault, loads>>

Writes == [seq : Nat, op : Operations]

(* StorageUpdate: ack 0 is another document's change, None is no change. *)
Updates == [ver : Nat, ack : Nat, change : Changes \cup {None}]

Projections == [ver : Nat, base : Maps, visible : Maps,
                pending : Seq(Writes), last : Nat, acked : Nat]

Transactions == [src : Tabs \cup {None}, n : Nat, done : Nat,
                 ver : Nat, maps : Seq(Maps),
                 mine : Seq(Updates), others : Seq(Updates),
                 rejected : BOOLEAN]

local == hist[version]

NoTransaction == [src |-> None, n |-> 0, done |-> 0, ver |-> 0, maps |-> <<>>,
                  mine |-> <<>>, others |-> <<>>, rejected |-> FALSE]

Idle == txn.src = None

(* StorageProjection::from_snapshot. *)
FromSnapshot(v, m) == [ver |-> v, base |-> m, visible |-> m,
                       pending |-> <<>>, last |-> 0, acked |-> 0]

PendingOps(p) == [i \in 1 .. Len(p.pending) |-> p.pending[i].op]

TypeOK ==
    /\ version \in Nat \ {0}
    /\ hist \in Seq(Maps) /\ Len(hist) = version
    /\ live \in SUBSET Tabs /\ loading \in SUBSET live
    /\ lost \in [Tabs -> Nat]
    /\ seqs \in [Tabs -> Nat]
    /\ queue \in [Tabs -> Seq(Updates)]
    /\ lane \in [Tabs -> Seq(Updates)] /\ \A t \in Tabs : Len(lane[t]) <= 1
    /\ event \in SUBSET Tabs
    /\ wire \in [Tabs -> Seq(Writes)]
    /\ proj \in [Tabs -> Projections]
    /\ txn \in Transactions
    /\ fault \in SUBSET Tabs
    /\ loads \in 0 .. MaxLoads

Init ==
    /\ version = 1 /\ hist = <<EmptyMap>>
    /\ live = {} /\ loading = {} /\ lost = [t \in Tabs |-> 0]
    /\ seqs = [t \in Tabs |-> 0]
    /\ queue = [t \in Tabs |-> <<>>]
    /\ lane = [t \in Tabs |-> <<>>] /\ event = {}
    /\ wire = [t \in Tabs |-> <<>>]
    /\ proj = [t \in Tabs |-> FromSnapshot(1, EmptyMap)]
    /\ txn = NoTransaction
    /\ fault = {} /\ loads = 0

(***************************************************************************)
(* Documents come and go.                                                  *)
(***************************************************************************)

(* StorageCoordinator::subscribe: the snapshot and the membership are      *)
(* taken under one lock, and the document starts from that snapshot.  The  *)
(* load command that carries it is only queued for the broker.             *)
Subscribe(t) ==
    /\ Idle
    /\ t \notin live /\ loads < MaxLoads
    /\ live' = live \cup {t} /\ loading' = loading \cup {t}
    /\ lost' = [lost EXCEPT ![t] = 0]
    /\ seqs' = [seqs EXCEPT ![t] = 0]
    /\ queue' = [queue EXCEPT ![t] = <<>>]
    /\ proj' = [proj EXCEPT ![t] = FromSnapshot(version, local)]
    /\ loads' = loads + 1
    /\ UNCHANGED <<authority, lane, event, wire, txn, fault>>

(* The child begins to run the document: the broker has taken the load     *)
(* command and the child has the start, the snapshots and enough of the    *)
(* body.                                                                   *)
Activate(t) ==
    /\ t \in loading \ fault
    /\ loading' = loading \ {t}
    /\ UNCHANGED <<authority, endpoints, lost, renderers, txn, fault, loads>>

(* Broker::process_state_updates before the load command: the update is    *)
(* for a document that is not active, so its slot is completed and it is   *)
(* dropped.                                                                *)
Drop(t) ==
    /\ t \in loading \ fault /\ lane[t] # <<>>
    /\ lane' = [lane EXCEPT ![t] = <<>>]
    /\ lost' = [lost EXCEPT ![t] = @ + 1]
    /\ UNCHANGED <<authority, endpoints, loading, event, wire, proj, txn, fault, loads>>

(* ChildConnection::synchronize_storage before the document: the broker    *)
(* has sent the start of a streamed response, the child still waits for    *)
(* the bytes that make a document, and the update ends its process.        *)
RefuseEarly(t) ==
    /\ t \in loading \ fault /\ lane[t] # <<>>
    /\ fault' = fault \cup {t}
    /\ UNCHANGED <<authority, endpoints, startup, renderers, txn, loads>>

(* The tab navigates, closes or loses its renderer: the subscription is    *)
(* dropped with the updates it queues, and so are the renderer's deferred  *)
(* writes and the update its lane holds.                                   *)
Retire(t) ==
    /\ Idle
    /\ t \in live
    /\ live' = live \ {t} /\ loading' = loading \ {t}
    /\ lost' = [lost EXCEPT ![t] = 0]
    /\ queue' = [queue EXCEPT ![t] = <<>>]
    /\ lane' = [lane EXCEPT ![t] = <<>>]
    /\ event' = event \ {t}
    /\ wire' = [wire EXCEPT ![t] = <<>>]
    /\ fault' = fault \ {t}
    /\ UNCHANGED <<authority, seqs, proj, txn, loads>>

(***************************************************************************)
(* The renderer's side.                                                    *)
(***************************************************************************)

(* StorageProjection::write accepts an operation that changes the visible  *)
(* map.  A Set also needs room in the journal and in the quota; a refused  *)
(* Set throws and changes nothing.                                         *)
Accepts(p, op) ==
    /\ OperationChanges(p.visible, op)
    /\ op.value # None => Len(p.pending) < MaxPending
    /\ WithinQuota(p.visible, op)

Write(t, op) ==
    /\ t \in live \ (fault \cup loading)
    /\ proj[t].last < MaxWrites[t]
    /\ Accepts(proj[t], op)
    /\ LET write == [seq |-> proj[t].last + 1, op |-> op]
       IN  /\ proj' = [proj EXCEPT
                         ![t].visible = ApplyMap(@, op),
                         ![t].pending = Append(@, write),
                         ![t].last = write.seq]
           /\ wire' = [wire EXCEPT ![t] = Append(@, write)]
    /\ UNCHANGED <<authority, endpoints, startup, lane, event, txn, fault, loads>>

(* Mutant of UpdateIsValid: every update must advance the version. *)
UpdateAlwaysAdvances(p, u) == u.ver = p.ver + 1

(* The checks of StorageProjection::apply, in its order. *)
UpdateIsValid(p, u) ==
    /\ u.ack = 0 => u.change # None
    /\ u.ack # 0 => /\ u.ack = p.acked + 1
                    /\ p.pending # <<>> /\ Head(p.pending).seq = u.ack
    /\ IF u.change = None THEN u.ver = p.ver
       ELSE /\ u.ver = p.ver + 1
            /\ u.change.key # None => p.base[u.change.key] = u.change.old
            /\ WithinQuota(p.base, Operation(u.change))
            /\ OperationChanges(p.base, Operation(u.change))

(* Mutant of PreservesProjection: every acknowledgement takes the shortcut. *)
PreservesAlways(p, u) == u.ack # 0

(* Moving the oldest intent into the base leaves the visible map alone     *)
(* when the authority accepted that very operation, or when the operation  *)
(* was a no-op on the base.                                                *)
PreservesProjection(p, u) ==
    /\ u.ack # 0
    /\ p.pending # <<>>
    /\ IF u.change = None
       THEN ~OperationChanges(p.base, Head(p.pending).op)
       ELSE Operation(u.change) = Head(p.pending).op

(* Mutant of ApplyUpdate: an acknowledged write moves into the base even   *)
(* when the authority did not change.                                      *)
ApplyAcknowledged(p, u) ==
    LET base == IF u.ack # 0 THEN ApplyMap(p.base, Head(p.pending).op)
                ELSE ApplyMap(p.base, Operation(u.change))
        kept == IF u.ack = 0 THEN p.pending ELSE Tail(p.pending)
        q == [p EXCEPT !.base = base, !.ver = u.ver, !.pending = kept,
                       !.acked = IF u.ack = 0 THEN @ ELSE u.ack]
    IN  [q EXCEPT !.visible = Overlay(base, PendingOps(q))]

ApplyUpdate(p, u) ==
    LET base == IF u.change = None THEN p.base
                ELSE ApplyMap(p.base, Operation(u.change))
        kept == IF u.ack = 0 THEN p.pending ELSE Tail(p.pending)
        q == [p EXCEPT !.base = base, !.ver = u.ver, !.pending = kept,
                       !.acked = IF u.ack = 0 THEN @ ELSE u.ack]
    IN  IF PreservesProjection(p, u) THEN q
        ELSE [q EXCEPT !.visible = Overlay(base, PendingOps(q))]

(* ChildConnection::synchronize_storage: the projection takes the update.  *)
(* An acknowledgement frees the lane at once; a foreign change first has   *)
(* its event queued.  An update it refuses is an error of the child: no    *)
(* receipt frees the lane and the process ends.                            *)
Synchronize(t) ==
    /\ t \in live \ (fault \cup loading) /\ lane[t] # <<>>
    /\ LET u == Head(lane[t])
       IN  IF UpdateIsValid(proj[t], u)
           THEN /\ proj' = [proj EXCEPT ![t] = ApplyUpdate(@, u)]
                /\ event' = IF u.ack = 0 THEN event \cup {t} ELSE event
                /\ lane' = [lane EXCEPT ![t] = <<>>]
                /\ UNCHANGED fault
           ELSE /\ fault' = fault \cup {t}
                /\ UNCHANGED <<proj, event, lane>>
    /\ UNCHANGED <<authority, endpoints, startup, wire, txn, loads>>

(* The queued storage event runs and its receipt frees the lane. *)
DispatchEvent(t) ==
    /\ t \in event
    /\ event' = event \ {t}
    /\ UNCHANGED <<authority, endpoints, startup, lane, wire, proj, txn, fault, loads>>

(***************************************************************************)
(* The browser's side.                                                     *)
(***************************************************************************)

(* pump_storage_updates: the front update leaves the queue only when the   *)
(* lane admits it.                                                         *)
Pump(t) ==
    /\ Idle
    /\ t \in live \ fault /\ queue[t] # <<>>
    /\ lane[t] = <<>> /\ t \notin event
    /\ lane' = [lane EXCEPT ![t] = <<Head(queue[t])>>]
    /\ queue' = [queue EXCEPT ![t] = Tail(@)]
    /\ UNCHANGED <<authority, live, seqs, startup, event, wire, proj, txn, fault, loads>>

(* StorageCoordinator::apply, up to the preflight loop: n adjacent writes  *)
(* of one source, whose sequences must continue the endpoint's.            *)
BeginTransaction(t, n) ==
    /\ Idle
    /\ t \in live \ fault /\ n <= Len(wire[t])
    /\ IF \A i \in 1 .. n : wire[t][i].seq = seqs[t] + i
       THEN /\ txn' = [NoTransaction EXCEPT !.src = t, !.n = n, !.ver = version]
            /\ UNCHANGED fault
       ELSE /\ fault' = fault \cup {t}
            /\ UNCHANGED txn
    /\ UNCHANGED <<authority, endpoints, startup, renderers, loads>>

(* The state the preflight loop has reached. *)
Working == IF txn.maps = <<>> THEN local ELSE txn.maps[Len(txn.maps)]

(* Mutant of Preflight: a write over the quota is answered on its own and  *)
(* the rest of the batch goes on.                                          *)
PreflightPartly ==
    /\ ~Idle /\ ~txn.rejected /\ txn.done < txn.n
    /\ LET write == wire[txn.src][txn.done + 1]
           change == ChangeBefore(Working, write.op)
           told(ack, c, v) == [ver |-> v, ack |-> ack, change |-> c]
       IN  txn' =
             IF WithinQuota(Working, write.op) /\ OperationChanges(Working, write.op)
             THEN [txn EXCEPT
                     !.done = @ + 1,
                     !.ver = @ + 1,
                     !.maps = Append(@, ApplyMap(Working, write.op)),
                     !.mine = Append(@, told(write.seq, change, txn.ver + 1)),
                     !.others = Append(@, told(0, change, txn.ver + 1))]
             ELSE [txn EXCEPT
                     !.done = @ + 1,
                     !.mine = Append(@, told(write.seq, None, txn.ver))]
    /\ UNCHANGED <<authority, endpoints, startup, renderers, fault, loads>>

(* One iteration of the preflight loop.  The source is told of every write *)
(* and the other documents of the actual changes.                          *)
Preflight ==
    /\ ~Idle /\ ~txn.rejected /\ txn.done < txn.n
    /\ LET write == wire[txn.src][txn.done + 1]
           change == ChangeBefore(Working, write.op)
           told(ack, c, v) == [ver |-> v, ack |-> ack, change |-> c]
       IN  txn' =
             IF ~WithinQuota(Working, write.op)
             THEN [txn EXCEPT !.rejected = TRUE]
             ELSE IF OperationChanges(Working, write.op)
             THEN [txn EXCEPT
                     !.done = @ + 1,
                     !.ver = @ + 1,
                     !.maps = Append(@, ApplyMap(Working, write.op)),
                     !.mine = Append(@, told(write.seq, change, txn.ver + 1)),
                     !.others = Append(@, told(0, change, txn.ver + 1))]
             ELSE [txn EXCEPT
                     !.done = @ + 1,
                     !.mine = Append(@, told(write.seq, None, txn.ver))]
    /\ UNCHANGED <<authority, endpoints, startup, renderers, fault, loads>>

Preflighted == ~Idle /\ (txn.rejected \/ txn.done = txn.n)

(* Mutants of Rejections: one answer for the whole batch, and none. *)
RejectionOnce == <<[ver |-> version, ack |-> seqs[txn.src] + 1, change |-> None]>>
RejectionLost == <<>>

(* A rejected batch acknowledges every write and changes nothing. *)
Rejections == [i \in 1 .. txn.n |->
                 [ver |-> version, ack |-> seqs[txn.src] + i, change |-> None]]

(* The updates make_updates reserves room for, and the room. *)
Reserved(t) == IF t # txn.src THEN (IF txn.rejected THEN <<>> ELSE txn.others)
               ELSE IF txn.rejected THEN Rejections ELSE txn.mine

HasCapacity == \A t \in live : Len(queue[t]) + Len(Reserved(t)) <= MaxQueue

(* A recipient is full: the transaction is put off and nothing changes. *)
Defer ==
    /\ Preflighted /\ ~HasCapacity
    /\ txn' = NoTransaction
    /\ UNCHANGED <<authority, endpoints, startup, renderers, fault, loads>>

(* Mutants of Publish: only the source is told; what another document has  *)
(* not been sent is replaced.                                              *)
PublishToSource(mine, others) ==
    /\ queue' = [queue EXCEPT ![txn.src] = @ \o mine]
    /\ seqs' = [seqs EXCEPT ![txn.src] = @ + txn.n]
    /\ wire' = [wire EXCEPT ![txn.src] = SubSeq(@, txn.n + 1, Len(@))]
    /\ txn' = NoTransaction
    /\ UNCHANGED <<live, startup, lane, event, proj, fault, loads>>

PublishCoalesced(mine, others) ==
    /\ queue' = [t \in Tabs |-> IF t \notin live THEN queue[t]
                                ELSE IF t = txn.src THEN queue[t] \o mine
                                ELSE others]
    /\ seqs' = [seqs EXCEPT ![txn.src] = @ + txn.n]
    /\ wire' = [wire EXCEPT ![txn.src] = SubSeq(@, txn.n + 1, Len(@))]
    /\ txn' = NoTransaction
    /\ UNCHANGED <<live, startup, lane, event, proj, fault, loads>>

(* The rest of StorageCoordinator::apply: every live endpoint receives its *)
(* updates and the source's writes are taken.                              *)
Publish(mine, others) ==
    /\ queue' = [t \in Tabs |-> IF t \notin live THEN queue[t]
                                ELSE IF t = txn.src THEN queue[t] \o mine
                                ELSE queue[t] \o others]
    /\ seqs' = [seqs EXCEPT ![txn.src] = @ + txn.n]
    /\ wire' = [wire EXCEPT ![txn.src] = SubSeq(@, txn.n + 1, Len(@))]
    /\ txn' = NoTransaction
    /\ UNCHANGED <<live, startup, lane, event, proj, fault, loads>>

(* LocalStorage::apply_batch makes the batch durable, then it is published. *)
Commit ==
    /\ Preflighted /\ HasCapacity /\ ~txn.rejected
    /\ version' = txn.ver
    /\ hist' = hist \o txn.maps
    /\ Publish(txn.mine, txn.others)

(* The preflight met the quota, or the commit failed (the disk, or the     *)
(* limit on origins) and LocalStorage rolled the map back.                 *)
Reject ==
    /\ Preflighted /\ HasCapacity
    /\ UNCHANGED authority
    /\ Publish(Rejections, <<>>)

Next ==
    \/ \E t \in Tabs : \/ Subscribe(t) \/ Retire(t)
                       \/ Activate(t) \/ Drop(t) \/ RefuseEarly(t)
                       \/ \E op \in Operations : Write(t, op)
                       \/ Synchronize(t) \/ DispatchEvent(t) \/ Pump(t)
                       \/ \E n \in 1 .. MaxBatch : BeginTransaction(t, n)
    \/ Preflight \/ Defer \/ Commit \/ Reject

Spec == Init /\ [][Next]_vars

(***************************************************************************)
(* Fairness.  Renderers run their loops on their own threads.  The UI      *)
(* thread polls every tab in turn, and each poll pumps one update before   *)
(* it drains the tab's writes, so a tab that stays ready is served even    *)
(* though a transaction keeps disabling the step for a while.  A renderer  *)
(* that refused an update ends, and the shell then drops its document.     *)
(***************************************************************************)
Fairness ==
    /\ \A t \in Tabs : /\ WF_vars(Activate(t))
                       /\ SF_vars(t \in fault /\ Retire(t))
                       /\ WF_vars(Synchronize(t))
                       /\ WF_vars(DispatchEvent(t))
                       /\ SF_vars(Pump(t))
                       /\ SF_vars(\E n \in 1 .. MaxBatch : BeginTransaction(t, n))
    /\ WF_vars(Preflight)
    /\ WF_vars(Defer \/ Commit \/ Reject)

FairSpec == Spec /\ Fairness

(***************************************************************************)
(* Properties.                                                             *)
(***************************************************************************)

(* Updates on their way to tab t, oldest first. *)
InFlight(t) == lane[t] \o queue[t]

(* A check on the way fails only for a document that lost a change, or     *)
(* that a change met, before the child ran it: whatever the interleaving   *)
(* of writers, rejected batches and reloads, every other document sees its *)
(* write sequences, acknowledgements, versions and old values in order.    *)
FaultsAreEarly == \A t \in fault : t \in loading \/ lost[t] > 0

(* What scripts see is the authoritative map as far as the document has    *)
(* heard, under its own unacknowledged writes in order: the incremental    *)
(* update in write, the rebuild in apply and the shortcut that skips the   *)
(* rebuild never drift apart.                                              *)
VisibleIsOverlay ==
    \A t \in live : proj[t].visible = Overlay(proj[t].base, PendingOps(proj[t]))

(* Each document's base is exactly the map the authority had at that       *)
(* version, even when its own writes were rejected or redundant.           *)
ReplicaIsHistory ==
    \A t \in live : /\ proj[t].ver \in 1 .. version
                    /\ proj[t].base = hist[proj[t].ver]

(* c is the record of the change that made version v of history h. *)
Records(h, v, c) ==
    /\ Operation(c) \in Operations
    /\ c = ChangeBefore(h[v - 1], Operation(c))
    /\ OperationChanges(h[v - 1], Operation(c))
    /\ WithinQuota(h[v - 1], Operation(c))
    /\ h[v] = ApplyMap(h[v - 1], Operation(c))

(* The updates us take a document from version from to version to: every   *)
(* version in between is recorded once, in order, and an update without a  *)
(* change repeats the version reached.                                     *)
CarriesChanges(us, h, from, to) ==
    /\ from <= to
    /\ \A i \in 1 .. Len(us) :
          IF us[i].change = None THEN us[i].ver \in from .. to
          ELSE us[i].ver \in from + 1 .. to /\ Records(h, us[i].ver, us[i].change)
    /\ \A i, j \in 1 .. Len(us) : i < j =>
          /\ us[i].ver <= us[j].ver
          /\ us[j].change # None => us[i].ver < us[j].ver
    /\ \A v \in from + 1 .. to : \E i \in 1 .. Len(us) :
          us[i].change # None /\ us[i].ver = v

(* The updates us acknowledge the writes after from up to to, each once    *)
(* and in order; the others are foreign changes.                           *)
CarriesAcks(us, from, to) ==
    /\ from <= to
    /\ \A i \in 1 .. Len(us) :
          IF us[i].ack = 0 THEN us[i].change # None ELSE us[i].ack \in from + 1 .. to
    /\ \A i, j \in 1 .. Len(us) :
          (i < j /\ us[i].ack # 0 /\ us[j].ack # 0) => us[i].ack < us[j].ack
    /\ \A s \in from + 1 .. to : \E i \in 1 .. Len(us) : us[i].ack = s

(* No committed change is duplicated, reordered or coalesced on its way to *)
(* a subscribed document, and none is lost but by the broker before the    *)
(* load: in flight are exactly the versions that its base lacks after      *)
(* those, each recorded with the values it really replaced.                *)
OnlyEarlyChangesMissed ==
    \A t \in live :
        CarriesChanges(InFlight(t), hist, proj[t].ver + lost[t], version)

(* What docs/web-storage.md promises: other tabs of the origin receive the *)
(* ordered changes, and storage changes are not coalesced.  The updates on *)
(* their way to a subscribed document are all that its base lacks.         *)
OrderedChangesReceived ==
    \A t \in live : CarriesChanges(InFlight(t), hist, proj[t].ver, version)

(* Every write a document issued is in exactly one place: waiting for the  *)
(* coordinator, or taken with its one acknowledgement in flight; the       *)
(* journal keeps it, in order, until that acknowledgement.                 *)
EveryWriteAccounted ==
    \A t \in live :
        LET p == proj[t]
        IN  /\ CarriesAcks(InFlight(t), p.acked, seqs[t])
            /\ Len(p.pending) = p.last - p.acked
            /\ \A i \in 1 .. Len(p.pending) : p.pending[i].seq = p.acked + i
            /\ Len(wire[t]) = p.last - seqs[t]
            /\ \A i \in 1 .. Len(wire[t]) :
                  wire[t][i] = p.pending[seqs[t] - p.acked + i]

(* The recipient queue never exceeds its capacity, because room for the    *)
(* whole transaction is found in every recipient before it commits.        *)
QueueIsBounded == \A t \in Tabs : Len(queue[t]) <= MaxQueue

(* When nothing is on its way to or from a document, its scripts see the   *)
(* authoritative map; if the broker dropped changes before the load, they  *)
(* see the map that many versions ago, and no mixture of maps.             *)
QuiescentReplicaAgrees ==
    \A t \in live : (wire[t] = <<>> /\ InFlight(t) = <<>>) =>
                        proj[t].visible = hist[version - lost[t]]

(* The transaction the coordinator is preflighting: its updates take every *)
(* document from the current version to the one it will commit.            *)
TransactionConsistent ==
    IF Idle THEN txn = NoTransaction
    ELSE /\ txn.src \in live
         /\ txn.n \in 1 .. Len(wire[txn.src])
         /\ txn.done \in 0 .. txn.n
         /\ txn.ver = version + Len(txn.maps)
         /\ Len(txn.mine) = txn.done
         /\ \A i \in 1 .. txn.done : txn.mine[i].ack = seqs[txn.src] + i
         /\ \A i \in 1 .. Len(txn.others) : txn.others[i].ack = 0
                                            /\ txn.others[i].change # None
         /\ CarriesChanges(txn.mine, hist \o txn.maps, version, txn.ver)
         /\ CarriesChanges(txn.others, hist \o txn.maps, version, txn.ver)
         /\ txn.rejected => txn.done < txn.n

(* A tab without a subscribed document keeps nothing of the last one: no   *)
(* write, update or queue entry of it can reach the next document.         *)
RetiredIsEmpty ==
    \A t \in Tabs \ live : /\ wire[t] = <<>> /\ lane[t] = <<>> /\ queue[t] = <<>>
                           /\ t \notin fault

(* A document's base only moves forward while it lives, and its journal    *)
(* loses writes from the front only, by acknowledgement.                   *)
ProjectionMovesForward ==
    [][\A t \in live \cap live' :
          /\ proj[t].ver <= proj'[t].ver
          /\ proj[t].acked <= proj'[t].acked
          /\ proj'[t].acked <= seqs'[t]]_vars

(* Every write is acknowledged or its document goes away: a full recipient *)
(* only delays a transaction, and a rejection still acknowledges.          *)
EveryWriteAcknowledged ==
    \A t \in Tabs : \A s \in 1 .. MaxWrites[t] :
        (t \in live /\ proj[t].last >= s) ~> (t \notin live \/ proj[t].acked >= s)

(* The replica is sound: scripts see the confirmed map with the pending    *)
(* writes on top, a transaction's preflight fits the map it commits to,    *)
(* queues keep their bounds, and a retired document leaves nothing behind. *)
StorageInvariant ==
    TypeOK /\ VisibleIsOverlay /\ TransactionConsistent /\ QueueIsBounded /\ RetiredIsEmpty
=============================================================================
