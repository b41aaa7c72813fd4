--------------------------- MODULE DocumentClock ---------------------------
(***************************************************************************)
(* The clock of a document and the callbacks that wait for it.  A          *)
(* document's event loop has a logical clock that moves only when the      *)
(* browser tells it how much time has passed.  The shell keeps, for every  *)
(* tab, the instant of the last advance it sent, the delay the document    *)
(* last asked for and whether an advance is unanswered; the window owns    *)
(* one native wakeup, which belongs to the foreground tab.  An advance     *)
(* goes through a one-place slot to the broker, to the renderer process,   *)
(* and comes back as an update marked clock_advanced.                      *)
(*                                                                         *)
(* Time is counted in frames of the display.  A renderer session has one   *)
(* document, so slot, pipe, mail and the runtime are per tab and are       *)
(* replaced together.  How long the broker and the renderer take is left   *)
(* open: time may pass between any two steps.                              *)
(***************************************************************************)
EXTENDS Integers, Sequences, SequenceSums

CONSTANTS Tabs,          \* tabs the window can have: MAX_OPEN_TABS
          None,
          Delays,        \* delays a page gives to setTimeout and setInterval
          Clamp,         \* most time one advance adds: 60 s in the renderer
          MaxTime,       \* bound: the wall clock
          MaxDocuments,  \* bound: documents submitted
          MaxTimers,     \* bound: timers and frames that pages ask for
          MaxSwitches,   \* bound: tab switches by the user
          MaxEvents      \* bound: inputs, storage events, new tabs, encoding
                         \* restarts and crashes, all together

\* What the variables hold when they are not None.
Advance == [elapsed : Nat, callbacks : Nat]
Wakeup == [tab : Tabs, doc : Nat, deadline : Nat]
Task == [id : Nat, due : Nat, seq : Nat, every : Nat]
Loop == [origin : Nat, logical : Nat, sampled : Nat, tasks : SUBSET Task,
         frame : Nat \cup {None}, visible : BOOLEAN, event : BOOLEAN,
         turn : Nat \cup {None}, seq : Nat, lost : Nat]

ASSUME ClockAssumption ==
    /\ Delays \subseteq Nat /\ Clamp \in Nat \ {0} /\ MaxTime \in Nat
    /\ MaxDocuments \in Nat /\ MaxTimers \in Nat
    /\ MaxSwitches \in Nat /\ MaxEvents \in Nat
    /\ Tabs # {}
    /\ None \notin Nat /\ None \notin Advance /\ None \notin Wakeup /\ None \notin Loop

VARIABLES
    now,      \* the wall clock
    opened,   \* the window's tabs
    front,    \* tabs.active_id()
    ui,       \* per tab: [loading, doc, next, clock, pending]
    wake,     \* RuntimeWakeup.installed
    slot,     \* clock::State.pending of the tab's session
    pipe,     \* messages on their way to the renderer process
    kid,      \* the renderer's DocumentRuntime
    mail,     \* updates in the session's event queue
    left,     \* what may still happen: [document, timer, switch, event]
    cut       \* per tab: an advance was consumed without its mark

uiVars == <<opened, front, ui, wake>>
vars == <<now, opened, front, ui, wake, slot, pipe, kid, mail, left, cut>>

Blank == [loading |-> FALSE, doc |-> 0, next |-> None, clock |-> None,
          pending |-> FALSE]
Later(a, b) == IF a > b THEN a ELSE b
Sooner(a, b) == IF a < b THEN a ELSE b
Before(x, y) == x.due < y.due \/ (x.due = y.due /\ x.seq < y.seq)
Happens(what) ==
    /\ left[what] > 0
    /\ left' = [left EXCEPT ![what] = @ - 1]

-----------------------------------------------------------------------------
(* The event loop of a document: EventLoopScheduler with the timers and    *)
(* the one animation frame of HostState.                                   *)

Fresh(at) ==
    [origin |-> at,        \* the instant that logical time 0 stands for
     logical |-> 0,        \* EventLoopScheduler.now
     sampled |-> now,      \* AnimationFrames.sampled
     tasks |-> {},         \* active tasks: [id, due, seq, every]
     frame |-> None,       \* AnimationFrames.pending
     visible |-> TRUE,
     event |-> FALSE,      \* HostState.storage_event
     turn |-> None,        \* callbacks the advance in progress may still run
     seq |-> 1,            \* next_sequence
     lost |-> 0]           \* time cut off by the clamp

queue_task(k, id, delay, every) ==
    [k EXCEPT !.tasks = @ \cup {[id |-> id, due |-> k.logical + delay,
                                 seq |-> k.seq, every |-> every]},
              !.seq = @ + 1]

cancel_timer(k, id) == [k EXCEPT !.tasks = {x \in @ : x.id # id}]

\* The next display frame after the instant the page has reached: the logical
\* clock and the time since it was last set.
requeue_animation_frame(k) ==
    LET idle == IF k.frame = None THEN k ELSE cancel_timer(k, k.frame)
    IN  IF k.frame = None \/ ~k.visible THEN idle
        ELSE queue_task(idle, k.frame, now - k.sampled + 1, 0)

set_rendering_environment(k, visible) ==
    IF k.visible = visible THEN k
    ELSE requeue_animation_frame([k EXCEPT !.visible = visible])

schedule_animation_frame(k) ==
    LET idle == IF k.frame = None THEN k ELSE cancel_timer(k, k.frame)
    IN  requeue_animation_frame([idle EXCEPT !.frame = k.seq, !.seq = @ + 1])

cancel_animation_frame(k) ==
    IF k.frame = None THEN k ELSE [cancel_timer(k, k.frame) EXCEPT !.frame = None]

\* BinaryHeap order: by due time, then in the order of queueing.
NextTask(k) == CHOOSE x \in k.tasks : \A y \in k.tasks : x = y \/ Before(x, y)

\* Mutant of Ready: a task is ready only after its time.
ReadyAfter(k) == k.tasks # {} /\ NextTask(k).due < k.logical

Ready(k) == k.tasks # {} /\ NextTask(k).due <= k.logical

\* A repeating task is queued again from the current time, before its callback
\* runs.
pop_runnable_task(k) ==
    LET x == NextTask(k)
        rest == [k EXCEPT !.tasks = @ \ {x},
                          !.frame = IF @ = x.id THEN None ELSE @]
    IN  IF x.every = 0 THEN rest ELSE queue_task(rest, x.id, x.every, x.every)

next_timer_micros(k) ==
    IF k.event THEN 0
    ELSE IF k.tasks = {} THEN None
    ELSE Later(NextTask(k).due - k.logical, 0)

setTimeout(k) == {[loop |-> queue_task(k, k.seq, d, 0), made |-> 1] : d \in Delays}

setInterval(k) ==
    {[loop |-> queue_task(k, k.seq, d, Later(d, 1)), made |-> 1] : d \in Delays}

clearTimeout(k) ==
    {[loop |-> cancel_timer(k, x.id), made |-> 0] : x \in {y \in k.tasks : y.id # k.frame}}

\* The event loops that one piece of script may leave, with the timers it made.
Scripts(k) ==
    {[loop |-> k, made |-> 0]} \cup setTimeout(k) \cup setInterval(k)
    \cup clearTimeout(k)
    \cup {[loop |-> schedule_animation_frame(k), made |-> 1]}
    \cup {[loop |-> cancel_animation_frame(k), made |-> 0]}

-----------------------------------------------------------------------------
(* Updates in the event queue.                                             *)

Update(kind, mark, k, opens) ==
    [kind |-> kind, mark |-> mark, next |-> next_timer_micros(k), opens |-> opens]

\* Mutant of coalesce: the mark of the older update is dropped.
coalesceLatest(queue, update) ==
    IF queue # <<>> /\ queue[Len(queue)].kind = update.kind
    THEN [queue EXCEPT ![Len(queue)] = update]
    ELSE Append(queue, update)

\* An update merges with one of its kind at the end of the queue; the merged one
\* has the newer delay and the mark of either.
coalesce(queue, update) ==
    IF queue # <<>> /\ queue[Len(queue)].kind = update.kind
    THEN [queue EXCEPT ![Len(queue)] =
             [update EXCEPT !.mark = @ \/ queue[Len(queue)].mark,
                            !.opens = @ \/ queue[Len(queue)].opens]]
    ELSE Append(queue, update)

Post(t, update) == mail' = [mail EXCEPT ![t] = coalesce(@, update)]

-----------------------------------------------------------------------------
(* The shell's wakeup.                                                     *)

\* What the wakeup becomes when the shell has records u and foreground tab f.  A
\* wakeup already promised to the same document is not postponed.
schedule_script_runtime_wakeup(u, f, installed) ==
    IF u[f].pending \/ u[f].doc = 0 \/ u[f].next = None THEN None
    ELSE LET start == IF u[f].clock = None THEN now ELSE u[f].clock
             requested == [tab |-> f, doc |-> u[f].doc,
                           deadline |-> Later(now, start + u[f].next)]
         IN  IF /\ installed # None
                /\ installed.tab = f /\ installed.doc = u[f].doc
                /\ installed.deadline <= requested.deadline
             THEN installed
             ELSE requested

RouteLifecycle(p, t, state) ==
    IF ui[t].doc = 0 THEN p
    ELSE [p EXCEPT ![t] = Append(@, [kind |-> "lifecycle", visible |-> state])]

\* suspend_active_tab_ui, the change of tab, restore_active_tab_ui: u is what the
\* shell's records are by then.
Activate(t, u) ==
    LET resumed == IF u[t].doc # 0 /\ u[t].clock = None
                   THEN [u EXCEPT ![t].clock = now] ELSE u
    IN  /\ front' = t
        /\ ui' = resumed
        /\ wake' = schedule_script_runtime_wakeup(resumed, t, None)
        /\ pipe' = RouteLifecycle(RouteLifecycle(pipe, front, FALSE), t, TRUE)

activate_tab(t) ==
    /\ t \in opened \ {front}
    /\ Happens("switch")
    /\ Activate(t, ui)
    /\ UNCHANGED <<now, opened, slot, kid, mail, cut>>

\* A new tab becomes the foreground tab and starts a navigation; with all tabs
\* open the tab that asked is suspended and restored.  For a background tab,
\* process_for_tab puts the foreground tab back.
OpenTab(t, u) ==
    LET new == Tabs \ opened
        told == IF new # {} THEN RouteLifecycle(pipe, t, FALSE)
                ELSE RouteLifecycle(RouteLifecycle(pipe, t, FALSE), t, TRUE)
    IN  \E n \in IF new = {} THEN {t} ELSE new :
          LET v == IF new = {} THEN u ELSE [u EXCEPT ![n].loading = TRUE]
          IN  /\ opened' = opened \cup {n}
              /\ IF t = front THEN Activate(n, v)
                 ELSE /\ ui' = v
                      /\ pipe' = told
                      /\ wake' = schedule_script_runtime_wakeup(v, front, wake)
                      /\ UNCHANGED front

-----------------------------------------------------------------------------
(* Documents come and go with their renderer sessions.                     *)

ReplaceSession(t) ==
    /\ slot' = [slot EXCEPT ![t] = None]
    /\ pipe' = [pipe EXCEPT ![t] = <<>>]
    /\ kid' = [kid EXCEPT ![t] = None]
    /\ mail' = [mail EXCEPT ![t] = <<>>]
    /\ cut' = [cut EXCEPT ![t] = FALSE]
    /\ wake' = IF t = front THEN None ELSE wake

begin_navigation(t) ==
    /\ t \in opened
    /\ left.document > 0
    /\ ui' = [ui EXCEPT ![t] = [Blank EXCEPT !.loading = TRUE]]
    /\ ReplaceSession(t)
    /\ UNCHANGED <<now, opened, front, left>>

\* mark_crashed, for a renderer that failed or exited.
contain_page_engine_failure(t) ==
    /\ ui[t].doc # 0
    /\ Happens("event")
    /\ ui' = [ui EXCEPT ![t] = Blank]
    /\ ReplaceSession(t)
    /\ UNCHANGED <<now, opened, front>>

\* The document goes to its renderer.  A background tab is processed through
\* process_for_tab, which looks at the foreground tab's wakeup again.
submit_pending_renderer_document(t) ==
    /\ ui[t].loading
    /\ Happens("document")
    /\ ui' = [ui EXCEPT ![t] = [loading |-> FALSE, doc |-> left.document,
                                next |-> None, clock |-> now, pending |-> FALSE]]
    /\ pipe' = [pipe EXCEPT ![t] =
                  Append(@, [kind |-> "load", at |-> now])
                  \o IF t = front THEN <<>>
                     ELSE <<[kind |-> "lifecycle", visible |-> FALSE]>>]
    /\ wake' = IF t = front THEN wake
               ELSE schedule_script_runtime_wakeup(ui', front, wake)
    /\ UNCHANGED <<now, opened, front, slot, kid, mail, cut>>

-----------------------------------------------------------------------------
(* An advance: the shell, the slot, the broker.                            *)

\* Mutant of clock_send: the newer advance replaces the older.
clock_sendReplacing(pending, elapsed) == [elapsed |-> elapsed, callbacks |-> 1]

clock_send(pending, elapsed) ==
    IF pending = None THEN [elapsed |-> elapsed, callbacks |-> 1]
    ELSE [elapsed |-> pending.elapsed + elapsed, callbacks |-> pending.callbacks + 1]

\* service_due_script_runtime and pump_script_runtime, from WM_TIMER, from the
\* message loop or from its deadline timer.
pump_script_runtime ==
    /\ wake # None
    /\ wake.tab = front /\ wake.doc = ui[front].doc
    /\ now >= wake.deadline
    /\ ~ui[front].pending
    /\ wake' = None
    /\ slot' = [slot EXCEPT ![front] = clock_send(@, now - ui[front].clock)]
    /\ ui' = [ui EXCEPT ![front].clock = now, ![front].next = None,
                        ![front].pending = TRUE]
    /\ UNCHANGED <<now, opened, front, pipe, kid, mail, left, cut>>

process_document_clock(t) ==
    /\ slot[t] # None
    /\ pipe' = [pipe EXCEPT ![t] = Append(@, [kind |-> "advance", by |-> slot[t]])]
    /\ slot' = [slot EXCEPT ![t] = None]
    /\ UNCHANGED <<now, uiVars, kid, mail, left, cut>>

-----------------------------------------------------------------------------
(* The renderer process.                                                   *)

Receives(t, kind) ==
    /\ pipe[t] # <<>> /\ Head(pipe[t]).kind = kind
    /\ kid[t] # None => kid[t].turn = None
    /\ pipe' = [pipe EXCEPT ![t] = Tail(@)]

\* Script runs in loop k, within budget.
Run(t, k, budget) ==
    \E s \in Scripts(k) :
        /\ s.made <= budget.timer
        /\ left' = [budget EXCEPT !.timer = @ - s.made]
        /\ kid' = [kid EXCEPT ![t] = s.loop]

\* The first scripts run and the first update goes out.
load_document(t) ==
    /\ Receives(t, "load")
    /\ Run(t, Fresh(Head(pipe[t]).at), left)
    /\ Post(t, Update("paint", FALSE, kid'[t], FALSE))
    /\ UNCHANGED <<now, uiVars, slot, cut>>

\* An input or its listeners: an update follows when a callback waits, and may
\* follow otherwise.
presentation_after_user_input(t) ==
    \/ \E kind \in {"paint", "report"} : Post(t, Update(kind, FALSE, kid'[t], FALSE))
    \/ next_timer_micros(kid'[t]) = None /\ UNCHANGED mail

apply_lifecycle(t) ==
    /\ Receives(t, "lifecycle")
    /\ Run(t, set_rendering_environment(kid[t], Head(pipe[t]).visible), left)
    /\ presentation_after_user_input(t)
    /\ UNCHANGED <<now, uiVars, slot, cut>>

interact_document(t) ==
    /\ kid[t] # None /\ kid[t].turn = None
    /\ left.event > 0
    /\ Run(t, kid[t], [left EXCEPT !.event = @ - 1])
    /\ presentation_after_user_input(t)
    /\ UNCHANGED <<now, uiVars, slot, pipe, cut>>

\* A storage event is queued as a document task; the renderer sends itself an
\* advance, ahead of the messages it has not read.
synchronize_storage(t) ==
    /\ kid[t] # None /\ kid[t].turn = None /\ ~kid[t].event
    /\ Happens("event")
    /\ kid' = [kid EXCEPT ![t].event = TRUE]
    /\ pipe' = [pipe EXCEPT ![t] =
                  <<[kind |-> "advance", by |-> [elapsed |-> 0, callbacks |-> 1]]>> \o @]
    /\ UNCHANGED <<now, uiVars, slot, mail, cut>>

\* The time of an advance reaches the event loop before any of its callbacks runs.
advance_document(t) ==
    /\ Receives(t, "advance")
    /\ LET by == Head(pipe[t]).by
           step == Sooner(by.elapsed, Clamp)
       IN  kid' = [kid EXCEPT ![t].logical = @ + step,
                              ![t].lost = @ + by.elapsed - step,
                              ![t].sampled = IF step > 0 THEN now ELSE @,
                              ![t].turn = by.callbacks]
    /\ UNCHANGED <<now, uiVars, slot, mail, left, cut>>

\* The parser meets another encoding: the document is loaded again with a new event
\* loop, and its update has no mark.
restart_encoding(t) ==
    /\ Receives(t, "advance")
    /\ left.event > 0
    /\ LET by == Head(pipe[t]).by
           old == kid[t]
       IN  Run(t, Fresh(old.origin + old.logical + old.lost + by.elapsed),
               [left EXCEPT !.event = @ - 1])
    /\ Post(t, Update("paint", FALSE, kid'[t], FALSE))
    /\ cut' = [cut EXCEPT ![t] = TRUE]
    /\ UNCHANGED <<now, uiVars, slot>>

\* A queued document task takes the whole advance; so does an animation frame, and
\* a callback that uses up the slice of time.
run_callback(t) ==
    /\ kid[t] # None /\ kid[t].turn \notin {None, 0}
    /\ \/ /\ kid[t].event
          /\ Run(t, [kid[t] EXCEPT !.event = FALSE, !.turn = 0], left)
       \/ /\ ~kid[t].event /\ Ready(kid[t])
          /\ \E more \in IF NextTask(kid[t]).id = kid[t].frame THEN {0}
                        ELSE {0, kid[t].turn - 1} :
                Run(t, [pop_runnable_task(kid[t]) EXCEPT !.turn = more], left)
    /\ UNCHANGED <<now, uiVars, slot, pipe, mail, cut>>

\* The advance ends when nothing is ready or no callback is left to it.  The page
\* may ask for a new tab.
finish_advance(t) ==
    /\ kid[t] # None /\ kid[t].turn # None
    /\ kid[t].turn = 0 \/ ~(kid[t].event \/ Ready(kid[t]))
    /\ kid' = [kid EXCEPT ![t].turn = None]
    /\ \E kind \in {"paint", "report"}, opens \in BOOLEAN :
          /\ IF opens THEN Happens("event") ELSE UNCHANGED left
          /\ Post(t, Update(kind, TRUE, kid'[t], opens))
    /\ UNCHANGED <<now, uiVars, slot, pipe, cut>>

-----------------------------------------------------------------------------
(* Updates reach the shell.                                                *)

Received(t, m) ==
    [ui EXCEPT ![t].next = m.next, ![t].pending = @ /\ ~m.mark]

TakeUpdate(t) ==
    /\ mail[t] # <<>>
    /\ mail' = [mail EXCEPT ![t] = Tail(@)]

\* activate_renderer_presentation and complete_renderer_runtime_update.
apply_update(t) ==
    /\ TakeUpdate(t)
    /\ ~Head(mail[t]).opens
    /\ ui' = Received(t, Head(mail[t]))
    /\ wake' = schedule_script_runtime_wakeup(ui', front, wake)
    /\ cut' = [cut EXCEPT ![t] = @ /\ ui'[t].pending]
    /\ UNCHANGED <<now, opened, front, slot, pipe, kid, left>>

\* follow_runtime_navigation with target _blank: a presentation is given up before
\* its delay and its mark are looked at, a runtime update after that.
follow_runtime_navigation(t) ==
    /\ TakeUpdate(t)
    /\ Head(mail[t]).opens
    /\ LET m == Head(mail[t])
           u == IF m.kind = "report" THEN Received(t, m) ELSE ui
       IN  /\ OpenTab(t, u)
           /\ cut' = [cut EXCEPT ![t] =
                        IF m.kind = "report" THEN @ /\ u[t].pending ELSE TRUE]
    /\ UNCHANGED <<now, slot, kid, left>>

Tick ==
    /\ now < MaxTime
    /\ now' = now + 1
    /\ UNCHANGED <<uiVars, slot, pipe, kid, mail, left, cut>>

-----------------------------------------------------------------------------
Init ==
    /\ now = 0
    /\ front = CHOOSE t \in Tabs : TRUE
    /\ opened = {front}
    /\ ui = [t \in Tabs |-> Blank]
    /\ wake = None
    /\ slot = [t \in Tabs |-> None]
    /\ pipe = [t \in Tabs |-> <<>>]
    /\ kid = [t \in Tabs |-> None]
    /\ mail = [t \in Tabs |-> <<>>]
    /\ left = [document |-> MaxDocuments, timer |-> MaxTimers,
               switch |-> MaxSwitches, event |-> MaxEvents]
    /\ cut = [t \in Tabs |-> FALSE]

Broker(t) == process_document_clock(t)

Child(t) ==
    \/ load_document(t) \/ apply_lifecycle(t) \/ advance_document(t)
    \/ restart_encoding(t) \/ run_callback(t) \/ finish_advance(t)

Shell(t) == apply_update(t) \/ follow_runtime_navigation(t)

Next ==
    \/ Tick
    \/ pump_script_runtime
    \/ \E t \in Tabs :
          \/ activate_tab(t) \/ begin_navigation(t) \/ contain_page_engine_failure(t)
          \/ submit_pending_renderer_document(t)
          \/ Broker(t) \/ Child(t) \/ Shell(t)
          \/ interact_document(t) \/ synchronize_storage(t)

Spec == Init /\ [][Next]_vars

\* Nothing stops for good while it has work: the shell's message loop with its
\* deadline timer, the broker threads and the renderer processes.  The page, the
\* user and the passing of time are free.
FairSpec ==
    Spec /\ WF_vars(\/ pump_script_runtime
                    \/ \E t \in Tabs : Broker(t) \/ Child(t) \/ Shell(t))

-----------------------------------------------------------------------------
(* Properties.                                                             *)

\* The time that a sequence of messages adds to the clock of its document.
Elapsed(q) ==
    Total([i \in DOMAIN q |-> IF q[i].kind = "advance" THEN q[i].by.elapsed ELSE 0])

InFlight(t) == (IF slot[t] = None THEN 0 ELSE slot[t].elapsed) + Elapsed(pipe[t])

Owned(t) == ui[t].doc # 0 /\ kid[t] # None

TypeOK ==
    /\ now \in 0 .. MaxTime
    /\ front \in opened /\ opened \subseteq Tabs
    /\ ui \in [Tabs -> [loading : BOOLEAN, doc : 0 .. MaxDocuments,
                        next : Nat \cup {None}, clock : (0 .. MaxTime) \cup {None},
                        pending : BOOLEAN]]
    /\ wake \in Wakeup \cup {None}
    /\ slot \in [Tabs -> Advance \cup {None}] /\ kid \in [Tabs -> Loop \cup {None}]
    /\ \A t \in Tabs : ui[t].doc # 0 => ui[t].clock # None
    /\ cut \in [Tabs -> BOOLEAN]

\* The logical clock of a document, the advances on their way to it and the time the
\* clamp cut off add up to the instant the shell last advanced it to: no advance is
\* counted twice or forgotten, whatever slot, storage event or tab switch came
\* between.
TimeIsConserved ==
    \A t \in Tabs : Owned(t) =>
        /\ kid[t].origin + kid[t].logical + kid[t].lost + InFlight(t) = ui[t].clock
        /\ ui[t].clock <= now

\* The native wakeup is for the foreground document, and only while that one has no
\* unanswered advance.
WakeIsForeground ==
    wake # None => /\ wake.tab = front /\ wake.doc = ui[front].doc
                   /\ ~ui[front].pending

\* The frame a page asked for is queued exactly while the page is visible.
FrameIsQueued ==
    \A t \in Tabs : kid[t] # None =>
        (\E x \in kid[t].tasks : x.id = kid[t].frame)
            <=> (kid[t].frame # None /\ kid[t].visible)

\* What the clock's bookkeeping is at every moment, in all tabs: renderer_runtime_clock
\* and the renderer's clock account for the same time, the window's one wakeup is the
\* foreground document's, and a hidden page has no animation frame queued.
ClockInvariant == TypeOK /\ TimeIsConserved /\ WakeIsForeground /\ FrameIsQueued

Quiet(t) ==
    /\ slot[t] = None /\ pipe[t] = <<>> /\ mail[t] = <<>>
    /\ kid[t].turn = None

\* When the foreground document waits for a callback and nothing is on its way
\* between shell and renderer, the window's wakeup is armed for that callback and not
\* later, the document is visible and no answer is awaited.  Excepted is an advance
\* that ended without its mark, by an encoding restart or a page that opened a tab.
WakeCoversNextCallback ==
    Owned(front) /\ Quiet(front) /\ ~cut[front] =>
        /\ kid[front].visible /\ ~ui[front].pending
        /\ next_timer_micros(kid[front]) # None =>
              /\ wake # None
              /\ wake.deadline <= Later(now, ui[front].clock + next_timer_micros(kid[front]))

Overdue(t) ==
    /\ Owned(t) /\ ~cut[t]
    /\ \E x \in kid[t].tasks : kid[t].origin + kid[t].lost + x.due <= now

\* A callback of the foreground document whose time has come runs, is cancelled, or
\* its document goes: again and again nothing is overdue.
CallbacksRun == []<>~Overdue(front)

=============================================================================
