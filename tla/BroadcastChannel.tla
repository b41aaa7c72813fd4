-------------------------- MODULE BroadcastChannel --------------------------
(***************************************************************************)
(* BroadcastChannel messages between the documents of the browser's tabs.  *)
(* A page's channels live in its renderer (child); their commands travel   *)
(* child -> broker -> event queue -> shell, where the registry owns the    *)
(* membership.  An accepted post becomes one batch that the recipients'    *)
(* queues refer to; the shell hands the oldest delivery of a tab to its    *)
(* broker's bounded command queue, the broker to the child.                *)
(*                                                                         *)
(* One action of a page is one task.  A batch stands for its message: the  *)
(* bytes of origin and message together are its size.                      *)
(***************************************************************************)
EXTENDS Integers, Sequences, FiniteSets, FiniteSetsExt, SequenceFilters

CONSTANTS
    Tabs,           \* the tabs of the browser
    Talkers,        \* the tabs whose pages post
    Closers,        \* the tabs whose pages close channels
    Origins, Names, \* origins of documents, names of channels
    Sizes,          \* bytes a post may occupy
    MaxChannels,    \* MAX_CHANNELS_PER_DOCUMENT
    MaxPending,     \* MAX_PENDING_PER_TAB
    MaxRecipients,  \* MAX_PENDING_RECIPIENTS_PER_BROWSER
    MaxBytes,       \* MAX_PENDING_BYTES_PER_BROWSER
    MaxCommands,    \* MAX_QUEUED_BROWSER_COMMANDS
    MaxMessages,    \* MAX_QUEUED_RENDERER_IPC_MESSAGES
    MaxEvents,      \* MAX_QUEUED_RENDERER_EVENTS
    MaxTurn,        \* EVENTS_PER_TURN
    MaxIds,         \* bound, per tab: channels a page ever opens
    MaxPosts,       \* bound: posts of all pages
    MaxDocs,        \* bound, per tab: documents
    Faults          \* per tab: the faults, each with the document it may befall

ASSUME BroadcastAssumption ==
    /\ IsFiniteSet(Tabs) /\ Talkers \subseteq Tabs /\ Closers \subseteq Tabs
    /\ Sizes \subseteq Nat \ {0}
    /\ \A b \in {MaxChannels, MaxPending, MaxRecipients, MaxBytes, MaxCommands,
                 MaxMessages, MaxEvents, MaxTurn} : b \in Nat \ {0}
    /\ MaxIds \in [Tabs -> Nat] /\ MaxPosts \in Nat /\ MaxDocs \in [Tabs -> Nat]
    /\ Faults \in [Tabs -> SUBSET (Nat \X {"crash", "terminate", "restart"})]

(* All channels of all tabs but one are within the fan-out that the        *)
(* registry admits: MAX_OPEN_TABS is 16, and 16 * 128 < 65536.             *)
ASSUME FanoutAssumption ==
    Cardinality(Tabs \X (1 .. MaxChannels)) <= MaxRecipients + 1

VARIABLES
    doc,        \* per tab: the document of its session
    owned,      \* per tab: navigation.owns_document(doc)
    session,    \* per tab: "running", "ending" (process gone), "gone" (broker too), "none"
    origin,     \* per tab: the origin of the committed URL
    page,       \* per tab: id -> name of the channels open in the page
    used,       \* per tab: channel identifiers the page's realm has given out
    restarted,  \* per tab: the document runs in a second realm
    out,        \* per tab: commands written by the child, not yet emitted
    left,       \* per tab: messages the broker still reads in this pass
    events,     \* per tab: RendererEvent queue
    turn,       \* per tab: events the shell has taken or put back
    channels,   \* BroadcastRegistry.channels
    pending,    \* per tab: the queued deliveries
    batches,    \* id -> batch some delivery refers to
    nextBatch, pendingBytes, pendingRecipients,
    commands,   \* per tab: deliveries in the broker's command queue
    inbox,      \* per tab: deliveries on their way to the child
    posts,      \* posts issued so far
    log,        \* per tab: deliveries dispatched in the current realm
    admitted    \* per batch: the recipients it was accepted for

shell    == <<turn, channels, pending, batches, nextBatch, pendingBytes, pendingRecipients>>
identity == <<doc, owned, session, origin>>
child    == <<page, used, restarted, posts, log>>
vars     == <<identity, child, out, left, events, shell, commands, inbox, admitted>>

-----------------------------------------------------------------------------
(* A member of the registry, and a place that an accepted post takes in a  *)
(* tab's queue.                                                            *)
Channel  == [tab : Tabs, doc : Nat, id : Nat, origin : Origins, name : Names]
Delivery == [doc : Nat, id : Nat, batch : Nat]

Same(c, t, id) == c.tab = t /\ c.doc = doc[t] /\ c.id = id

With(f, x, v) == [y \in DOMAIN f \cup {x} |-> IF y = x THEN v ELSE f[y]]

Init ==
    /\ doc = [t \in Tabs |-> 1]
    /\ owned = [t \in Tabs |-> TRUE]
    /\ session = [t \in Tabs |-> "running"]
    /\ origin \in [Tabs -> Origins]
    /\ page = [t \in Tabs |-> << >>]
    /\ used = [t \in Tabs |-> 0]
    /\ restarted = [t \in Tabs |-> FALSE]
    /\ out = [t \in Tabs |-> << >>]
    /\ left = [t \in Tabs |-> MaxMessages]
    /\ events = [t \in Tabs |-> << >>]
    /\ turn = [t \in Tabs |-> << >>]
    /\ channels = << >>
    /\ pending = [t \in Tabs |-> << >>]
    /\ batches = << >>
    /\ nextBatch = 0 /\ pendingBytes = 0 /\ pendingRecipients = 0
    /\ commands = [t \in Tabs |-> << >>]
    /\ inbox = [t \in Tabs |-> << >>]
    /\ posts = 0
    /\ log = [t \in Tabs |-> << >>]
    /\ admitted = << >>

-----------------------------------------------------------------------------
(* The page.  The child writes the commands of a task before it runs the   *)
(* next one, and the write blocks while nobody reads the pipe.             *)

Runs(t) == session[t] = "running" /\ Len(out[t]) < MaxMessages

Writes(t, cmd) == out' = [out EXCEPT ![t] = Append(@, cmd)]

OpenChannel(t) ==
    /\ Runs(t) /\ used[t] < MaxIds[t]
    /\ Cardinality(DOMAIN page[t]) < MaxChannels
    /\ \E n \in Names :
          /\ page' = [page EXCEPT ![t] = With(@, used[t] + 1, n)]
          /\ Writes(t, [op |-> "open", doc |-> doc[t], id |-> used[t] + 1, name |-> n])
    /\ used' = [used EXCEPT ![t] = @ + 1]
    /\ UNCHANGED <<identity, restarted, posts, log, left, events, shell, commands, inbox,
                   admitted>>

PostMessage(t) ==
    /\ Runs(t) /\ t \in Talkers /\ posts < MaxPosts
    /\ \E id \in DOMAIN page[t], s \in Sizes :
          Writes(t, [op |-> "post", doc |-> doc[t], id |-> id, size |-> s])
    /\ posts' = posts + 1
    /\ UNCHANGED <<identity, page, used, restarted, log, left, events, shell, commands, inbox,
                   admitted>>

CloseChannel(t) ==
    /\ Runs(t) /\ t \in Closers
    /\ \E id \in DOMAIN page[t] :
          /\ page' = [page EXCEPT ![t] = Restrict(@, DOMAIN @ \ {id})]
          /\ Writes(t, [op |-> "close", doc |-> doc[t], id |-> id])
    /\ UNCHANGED <<identity, used, restarted, posts, log, left, events, shell, commands, inbox,
                   admitted>>

(* The parser meets another charset: the same document begins again in a   *)
(* new realm, whose identifiers start at 1, and nothing closes the         *)
(* channels of the abandoned one.  A document restarts at most once.       *)
RestartEncoding(t) ==
    /\ <<doc[t], "restart">> \in Faults[t] /\ session[t] = "running" /\ ~restarted[t]
    /\ restarted' = [restarted EXCEPT ![t] = TRUE]
    /\ page' = [page EXCEPT ![t] = << >>]
    /\ used' = [used EXCEPT ![t] = 0]
    /\ log' = [log EXCEPT ![t] = << >>]
    /\ UNCHANGED <<identity, posts, out, left, events, shell, commands, inbox, admitted>>

(* A delivery is a task: it waits until the child can run one.  It is      *)
(* dropped when its channel is no longer open in the page.                 *)
Dispatch(t) ==
    /\ Runs(t) /\ inbox[t] # << >>
    /\ inbox' = [inbox EXCEPT ![t] = Tail(@)]
    /\ log' = IF Head(inbox[t]).id \in DOMAIN page[t]
              THEN [log EXCEPT ![t] = Append(@, Head(inbox[t]))] ELSE log
    /\ UNCHANGED <<identity, page, used, restarted, posts, out, left, events, shell, commands,
                   admitted>>

-----------------------------------------------------------------------------
(* The broker.  A pass hands over queued commands while the writer has     *)
(* room, then reads at most MaxMessages messages; emitting one blocks the  *)
(* thread while the event queue is full.                                   *)

Reading(t) == left[t] > 0 /\ out[t] # << >>

EmitEvent(t) ==
    /\ session[t] \in {"running", "ending"}
    /\ Reading(t) /\ Len(events[t]) < MaxEvents
    /\ events' = [events EXCEPT ![t] = Append(@, Head(out[t]))]
    /\ out' = [out EXCEPT ![t] = Tail(@)]
    /\ left' = [left EXCEPT ![t] = @ - 1]
    /\ UNCHANGED <<identity, child, shell, commands, inbox, admitted>>

SendCommands(t) ==
    /\ session[t] \in {"running", "ending"}
    /\ ~Reading(t)
    /\ commands[t] # << >> \/ left[t] < MaxMessages
    /\ LET n == Min({Len(commands[t]), Max({0, MaxCommands - Len(inbox[t])})})
       IN  /\ commands' = [commands EXCEPT ![t] = SubSeq(@, n + 1, Len(@))]
           /\ inbox' = [inbox EXCEPT ![t] = @ \o SubSeq(commands[t], 1, n)]
           /\ n > 0 \/ left[t] < MaxMessages
    /\ left' = [left EXCEPT ![t] = MaxMessages]
    /\ UNCHANGED <<identity, child, out, events, shell, admitted>>

Crash(t) ==
    /\ <<doc[t], "crash">> \in Faults[t] /\ session[t] = "running"
    /\ session' = [session EXCEPT ![t] = "ending"]
    /\ UNCHANGED <<doc, owned, origin, child, out, left, events, shell, commands, inbox, admitted>>

BrokerExits(t) ==
    /\ session[t] = "ending" /\ ~Reading(t)
    /\ session' = [session EXCEPT ![t] = "gone"]
    /\ out' = [out EXCEPT ![t] = << >>]
    /\ commands' = [commands EXCEPT ![t] = << >>]
    /\ inbox' = [inbox EXCEPT ![t] = << >>]
    /\ UNCHANGED <<doc, owned, origin, child, left, events, shell, admitted>>

-----------------------------------------------------------------------------
(* The registry.  Releasing a sequence of deliveries drops a reference of  *)
(* each one's batch, and a batch without references with its bytes.        *)

Hits(ds, S) == {i \in DOMAIN ds : ds[i] \in S}

OfBatch(b) == {d \in Delivery : d.batch = b}

References(ds, b) == Cardinality(Hits(ds, OfBatch(b)))

(* The bytes of a set of batches, each of them counted once. *)
Bytes(bs) == Cardinality(UNION {{b} \X (1 .. batches[b].size) : b \in bs})

(* Mutant: the bytes of a batch whose last reference is released stay charged. *)
ReleaseWithoutBytes(ds) ==
    LET rest(b) == batches[b].recipients - References(ds, b)
        keep    == {b \in DOMAIN batches : rest(b) # 0}
    IN  /\ batches' = [b \in keep |-> [batches[b] EXCEPT !.recipients = rest(b)]]
        /\ pendingRecipients' = pendingRecipients - Len(ds)
        /\ UNCHANGED pendingBytes

Release(ds) ==
    LET rest(b) == batches[b].recipients - References(ds, b)
        keep    == {b \in DOMAIN batches : rest(b) # 0}
    IN  /\ batches' = [b \in keep |-> [batches[b] EXCEPT !.recipients = rest(b)]]
        /\ pendingRecipients' = pendingRecipients - Len(ds)
        /\ pendingBytes' = pendingBytes - Bytes(DOMAIN batches \ keep)

(* Mutant: a retired tab's channels stay in the registry. *)
RetireQueueOnly(t) ==
    /\ pending' = [pending EXCEPT ![t] = << >>]
    /\ Release(pending[t])
    /\ UNCHANGED <<channels, nextBatch>>

RetireTab(t) ==
    /\ channels' = Selection(channels, {c \in Channel : c.tab # t})
    /\ pending' = [pending EXCEPT ![t] = << >>]
    /\ Release(pending[t])
    /\ UNCHANGED nextBatch

ApplyOpen(t, cmd) ==
    /\ channels' = Append(channels, [tab |-> t, doc |-> cmd.doc, id |-> cmd.id,
                                     origin |-> origin[t], name |-> cmd.name])
    /\ UNCHANGED <<pending, batches, nextBatch, pendingBytes, pendingRecipients, admitted>>

Known(t, id) == \E i \in DOMAIN channels : Same(channels[i], t, id)

(* The deliveries that are queued for a channel go with it. *)
ApplyClose(t, cmd) ==
    LET gone == {d \in Delivery : d.doc = cmd.doc /\ d.id = cmd.id}
    IN  /\ \/ /\ ~Known(t, cmd.id)
              /\ UNCHANGED <<channels, pending, batches, pendingBytes, pendingRecipients>>
           \/ /\ Known(t, cmd.id)
              /\ channels' = Selection(channels, {c \in Channel : ~Same(c, t, cmd.id)})
              /\ pending' = [pending EXCEPT ![t] = Selection(@, Delivery \ gone)]
              /\ Release(Selection(pending[t], gone))
        /\ UNCHANGED <<nextBatch, admitted>>

Member(t, id) == CHOOSE c \in Range(channels) : Same(c, t, id)

(* Every other channel of the sender's origin and name, in opening order. *)
Targets(t, id) ==
    Selection(channels, {c \in Channel : /\ ~Same(c, t, id)
                                        /\ c.origin = origin[t]
                                        /\ c.name = Member(t, id).name})

OfTab(t) == {c \in Channel : c.tab = t}

For(targets, u) == Selection(targets, OfTab(u))

Fits(targets, size) ==
    /\ \A u \in Tabs : For(targets, u) # << >> =>
          Len(pending[u]) + Len(For(targets, u)) <= MaxPending
    /\ pendingRecipients + Len(targets) <= MaxRecipients
    /\ pendingBytes + size <= MaxBytes

Enqueue(targets, size) ==
    LET b == nextBatch + 1
        delivery(c) == [doc |-> c.doc, id |-> c.id, batch |-> b]
    IN  /\ nextBatch' = b
        /\ batches' = With(batches, b, [size |-> size, recipients |-> Len(targets)])
        /\ pendingBytes' = pendingBytes + size
        /\ pendingRecipients' = pendingRecipients + Len(targets)
        /\ pending' = [u \in Tabs |-> pending[u] \o
              [i \in 1..Len(For(targets, u)) |-> delivery(For(targets, u)[i])]]
        /\ admitted' = Append(admitted, Range(targets))

ApplyPost(t, cmd) ==
    LET targets == Targets(t, cmd.id)
    IN  /\ \/ /\ targets = << >>
              /\ UNCHANGED <<pending, batches, nextBatch, pendingBytes,
                             pendingRecipients, admitted>>
           \/ /\ targets # << >>
              /\ Fits(targets, cmd.size)
              /\ Enqueue(targets, cmd.size)
        /\ UNCHANGED channels

Refused(t, cmd) ==  \* apply returns an error
    LET full == Len(Selection(channels, {c \in Channel : c.tab = t /\ c.doc = cmd.doc}))
                   >= MaxChannels
    IN  \/ cmd.op = "open" /\ (Known(t, cmd.id) \/ full)
        \/ /\ cmd.op = "post"
           /\ \/ ~Known(t, cmd.id)
              \/ Member(t, cmd.id).origin # origin[t]
              \/ Len(Targets(t, cmd.id)) > MaxRecipients

-----------------------------------------------------------------------------
(* The shell. *)

Contain(t) ==
    /\ RetireTab(t)
    /\ owned' = [owned EXCEPT ![t] = FALSE]
    /\ UNCHANGED <<doc, session, origin, admitted>>

Collect(t) ==
    /\ session[t] # "none"
    /\ turn[t] = << >> /\ events[t] # << >>
    /\ LET n == Min({MaxTurn, Len(events[t])})
       IN  /\ turn' = [turn EXCEPT ![t] = SubSeq(events[t], 1, n)]
           /\ events' = [events EXCEPT ![t] = SubSeq(@, n + 1, Len(@))]
    /\ UNCHANGED <<identity, child, out, left, channels, pending, batches, nextBatch,
                   pendingBytes, pendingRecipients, commands, inbox, admitted>>

OwnsDocument(t, cmd) == owned[t] /\ cmd.doc = doc[t]

Applied(t, cmd) ==
    \/ /\ ~OwnsDocument(t, cmd)
       /\ UNCHANGED <<identity, channels, pending, batches, nextBatch,
                      pendingBytes, pendingRecipients, admitted>>
    \/ /\ OwnsDocument(t, cmd) /\ Refused(t, cmd)
       /\ Contain(t)
    \/ /\ OwnsDocument(t, cmd) /\ ~Refused(t, cmd)
       /\ \/ cmd.op = "open"  /\ ApplyOpen(t, cmd)
          \/ cmd.op = "post"  /\ ApplyPost(t, cmd)
          \/ cmd.op = "close" /\ ApplyClose(t, cmd)
       /\ UNCHANGED identity

(* An event that does not fit is put back at the front of the turn. *)
ApplyCommand(t) ==
    /\ turn[t] # << >>
    /\ Applied(t, Head(turn[t]))
    /\ turn' = [turn EXCEPT ![t] = Tail(@)]
    /\ UNCHANGED <<child, out, left, events, commands, inbox>>

(* Mutant: the delivery leaves the queue although its destination is full. *)
TakeAnyway(t) ==
    /\ pending[t] # << >> /\ session[t] \in {"running", "ending"}
    /\ commands' = IF Len(commands[t]) < MaxCommands
                   THEN [commands EXCEPT ![t] = Append(@, Head(pending[t]))]
                   ELSE commands
    /\ pending' = [pending EXCEPT ![t] = Tail(@)]
    /\ Release(<<Head(pending[t])>>)
    /\ UNCHANGED <<identity, channels, nextBatch, admitted>>

(* Mutant: the last place of the command queue is never used. *)
TakeIfShort(t) ==
    /\ pending[t] # << >> /\ session[t] \in {"running", "ending"}
    /\ Len(commands[t]) + 1 < MaxCommands
    /\ commands' = [commands EXCEPT ![t] = Append(@, Head(pending[t]))]
    /\ pending' = [pending EXCEPT ![t] = Tail(@)]
    /\ Release(<<Head(pending[t])>>)
    /\ UNCHANGED <<identity, channels, nextBatch, admitted>>

TakeIf(t) ==
    /\ pending[t] # << >> /\ session[t] \in {"running", "ending"}
    /\ Len(commands[t]) < MaxCommands
    /\ commands' = [commands EXCEPT ![t] = Append(@, Head(pending[t]))]
    /\ pending' = [pending EXCEPT ![t] = Tail(@)]
    /\ Release(<<Head(pending[t])>>)
    /\ UNCHANGED <<identity, channels, nextBatch, admitted>>

PumpDeliveries(t) ==
    /\ \/ TakeIf(t)
       \/ /\ pending[t] # << >> /\ session[t] = "gone"
          /\ Contain(t)
          /\ UNCHANGED commands
    /\ UNCHANGED <<child, out, left, events, turn, inbox>>

(* The task manager ends the renderer; its queued events are still handled. *)
Terminate(t) ==
    /\ <<doc[t], "terminate">> \in Faults[t] /\ session[t] = "running"
    /\ RetireTab(t)
    /\ session' = [session EXCEPT ![t] = "ending"]
    /\ UNCHANGED <<doc, owned, origin, child, out, left, events, turn, commands, inbox, admitted>>

FinishExit(t) ==
    /\ session[t] = "gone" /\ turn[t] = << >> /\ events[t] = << >>
    /\ RetireTab(t)
    /\ session' = [session EXCEPT ![t] = "none"]
    /\ UNCHANGED <<doc, owned, origin, child, out, left, events, turn, commands, inbox, admitted>>

(* A navigation retires the tab and replaces its session and its queues. *)
Navigate(t) ==
    /\ doc[t] < MaxDocs[t]
    /\ RetireTab(t)
    /\ doc' = [doc EXCEPT ![t] = @ + 1]
    /\ owned' = [owned EXCEPT ![t] = TRUE]
    /\ session' = [session EXCEPT ![t] = "running"]
    /\ \E o \in Origins : origin' = [origin EXCEPT ![t] = o]
    /\ page' = [page EXCEPT ![t] = << >>]
    /\ used' = [used EXCEPT ![t] = 0]
    /\ restarted' = [restarted EXCEPT ![t] = FALSE]
    /\ log' = [log EXCEPT ![t] = << >>]
    /\ out' = [out EXCEPT ![t] = << >>]
    /\ left' = [left EXCEPT ![t] = MaxMessages]
    /\ events' = [events EXCEPT ![t] = << >>]
    /\ turn' = [turn EXCEPT ![t] = << >>]
    /\ commands' = [commands EXCEPT ![t] = << >>]
    /\ inbox' = [inbox EXCEPT ![t] = << >>]
    /\ UNCHANGED <<posts, admitted>>

-----------------------------------------------------------------------------
Renderer(t) == Dispatch(t) \/ EmitEvent(t) \/ SendCommands(t) \/ BrokerExits(t)
Shell(t)    == Collect(t) \/ ApplyCommand(t) \/ PumpDeliveries(t) \/ FinishExit(t)
Page(t)     == OpenChannel(t) \/ PostMessage(t) \/ CloseChannel(t) \/ RestartEncoding(t)
Fault(t)    == Crash(t) \/ Terminate(t)

Next == \E t \in Tabs : Renderer(t) \/ Shell(t) \/ Page(t) \/ Fault(t) \/ Navigate(t)

(* The child and the broker thread of a tab keep running, and the shell's  *)
(* polls turn to the events, the deliveries and the exit of every tab.     *)
Fairness ==
    \A t \in Tabs :
       /\ WF_vars(Dispatch(t))
       /\ WF_vars(EmitEvent(t) \/ SendCommands(t) \/ BrokerExits(t))
       /\ WF_vars(Collect(t) \/ ApplyCommand(t) \/ FinishExit(t))
       /\ WF_vars(PumpDeliveries(t))

Spec == Init /\ [][Next]_vars
FairSpec == Spec /\ Fairness

-----------------------------------------------------------------------------
(* Properties. *)

Deliveries == [doc : Nat, id : Nat, batch : 1..MaxPosts]

(* The types of the queues and of the registry. *)
TypeOK ==
    /\ \A t \in Tabs : doc[t] \in 1..Max({1, MaxDocs[t]})
    /\ owned \in [Tabs -> BOOLEAN]
    /\ session \in [Tabs -> {"running", "ending", "gone", "none"}]
    /\ origin \in [Tabs -> Origins]
    /\ restarted \in [Tabs -> BOOLEAN]
    /\ \A t \in Tabs :
          /\ DOMAIN page[t] \subseteq 1..used[t]
          /\ used[t] \in 0..MaxIds[t] /\ left[t] \in 0..MaxMessages
          /\ {pending[t], commands[t], inbox[t], log[t]} \subseteq Seq(Deliveries)
          /\ Len(commands[t]) <= MaxCommands /\ Len(events[t]) <= MaxEvents
          /\ \A i \in DOMAIN out[t] : out[t][i].op \in {"open", "post", "close"}
    /\ DOMAIN batches \subseteq 1..nextBatch
    /\ pendingBytes \in Nat /\ pendingRecipients \in Nat
    /\ Len(admitted) = nextBatch /\ nextBatch <= posts

(* The places of the members of S in the queues of all tabs. *)
Places(q, S) == UNION {{t} \X Hits(q[t], S) : t \in Tabs}

(* The registry's counters are exact whatever mix of deliveries, closes    *)
(* and retirements released the references: a batch exists exactly while   *)
(* some queue refers to it, with as many recipients as references, and the *)
(* byte and recipient counters are the sums over what is queued.  An error *)
(* either panics (queued batch exists) or leaks the browser-wide budget.   *)
ExactAccounting ==
    LET refs(b) == Cardinality(Places(pending, OfBatch(b)))
    IN  /\ DOMAIN batches = {b \in 1..nextBatch : refs(b) > 0}
        /\ \A b \in DOMAIN batches : batches[b].recipients = refs(b)
        /\ pendingRecipients = Cardinality(Places(pending, Delivery))
        /\ pendingBytes = Bytes(DOMAIN batches)

(* No fan-out, however many of its recipients share a tab, takes a tab's   *)
(* queue over its limit.                                                   *)
QueuesWithinLimits ==
    /\ \A t \in Tabs : Len(pending[t]) <= MaxPending
    /\ pendingRecipients <= MaxRecipients /\ pendingBytes <= MaxBytes

(* Every member of the registry belongs to the document its tab shows,     *)
(* with the origin the browser derived for it, exactly once: a navigation, *)
(* an exit or a contained failure leaves no member behind, also when       *)
(* commands of the old document were still queued.                         *)
RegistryIsCurrent ==
    /\ \A i \in DOMAIN channels :
          LET c == channels[i]
          IN  /\ c.doc = doc[c.tab] /\ c.origin = origin[c.tab]
              /\ owned[c.tab] /\ session[c.tab] # "none"
    /\ \A i, j \in DOMAIN channels :
          channels[i].tab = channels[j].tab /\ channels[i].id = channels[j].id => i = j

(* A page runs, and has run in one realm only. *)
OneRealm(t) == session[t] = "running" /\ ~restarted[t]

(* What a member that is still open in its page has received, followed by  *)
(* what is queued for it in the child, the broker and the registry, is     *)
(* exactly the posts admitted for it in their admission order: nothing is  *)
(* lost to a full queue, repeated by a retry, reordered, or delivered to a *)
(* channel of another name, origin or document.  A document that restarted *)
(* is excepted: its first realm's members get deliveries which its second  *)
(* realm dispatches to the channels it gave the same identifiers.          *)
ReceivesInOrder ==
    \A i \in DOMAIN channels :
       LET c    == channels[i]
           mine == Selection(log[c.tab] \o inbox[c.tab] \o commands[c.tab] \o pending[c.tab],
                             {d \in Delivery : d.id = c.id})
       IN  OneRealm(c.tab) /\ c.id \in DOMAIN page[c.tab] =>
              [k \in DOMAIN mine |-> mine[k].batch]
                 = Selection([b \in 1..nextBatch |-> b],
                             {b \in 1..nextBatch : c \in admitted[b]})

(* The traffic of a running page is never refused as an error, and the tab *)
(* never contained for it: each command meets the registry the page acted  *)
(* on, however late it is applied.  This is said of a document's first     *)
(* realm: the first channel of a second one has an identifier that the     *)
(* registry still knows, is refused, and the page is contained for it.     *)
RunningPageIsServed ==
    \A t \in Tabs : OneRealm(t) => owned[t]

(* The registry holds the members of the documents that the tabs show, in  *)
(* bounded queues, and every running page is served in its first realm.    *)
RegistryInvariant ==
    TypeOK /\ QueuesWithinLimits /\ RegistryIsCurrent /\ RunningPageIsServed

Waiting(t) == out[t] # << >> \/ events[t] # << >> \/ turn[t] # << >>
InTransit(t) == pending[t] # << >> \/ commands[t] # << >> \/ inbox[t] # << >>

(* Between different tabs, traffic drains whenever the pages fall silent,  *)
(* which the bounds make them do: a post that met a full queue is applied  *)
(* in the end, and every accepted message reaches its page, or finds the   *)
(* channel closed or the page gone.                                        *)
TrafficDrains == []<>(\A t \in Tabs : ~Waiting(t) /\ ~InTransit(t))

(* "so a same-tab receiver cannot deadlock behind its sender": the posts   *)
(* of a page whose receivers are channels of the same page are applied.    *)
SenderIsNotStuck == \A t \in Tabs : Waiting(t) ~> ~Waiting(t)
=============================================================================
