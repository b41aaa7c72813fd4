------------------------ MODULE DocumentClockProofs ------------------------
(***************************************************************************)
(* Proofs about DocumentClock for any number of tabs, timers, documents    *)
(* and switches, any delays, any clamp and any wall clock.                 *)
(*                                                                         *)
(* The invariant is stated tab by tab (GoodTab), over the shell's record   *)
(* u, the slot s, the pipe p, the renderer's loop k, the mail m and the    *)
(* mark c of one tab, and once for the foreground tab (Promised, Shown).   *)
(***************************************************************************)
EXTENDS DocumentClock, SequenceProofs

Messages ==
    [kind : {"load"}, at : Nat] \cup [kind : {"lifecycle"}, visible : BOOLEAN]
    \cup [kind : {"advance"}, by : Advance]

Updates == [kind : {"paint", "report"}, mark : BOOLEAN, next : Nat \cup {None},
            opens : BOOLEAN]

Records == [loading : BOOLEAN, doc : 0 .. MaxDocuments, next : Nat \cup {None},
            clock : (0 .. MaxTime) \cup {None}, pending : BOOLEAN]

Budgets == [document : 0 .. MaxDocuments, timer : Nat, switch : Nat, event : Nat]

Shapes ==
    /\ now \in 0 .. MaxTime
    /\ front \in opened /\ opened \subseteq Tabs
    /\ ui \in [Tabs -> Records]
    /\ wake \in Wakeup \cup {None}
    /\ slot \in [Tabs -> Advance \cup {None}]
    /\ pipe \in [Tabs -> Seq(Messages)]
    /\ kid \in [Tabs -> Loop \cup {None}]
    /\ mail \in [Tabs -> Seq(Updates)]
    /\ left \in Budgets
    /\ cut \in [Tabs -> BOOLEAN]

(***************************************************************************)
(* The event loop of a document.                                           *)
(***************************************************************************)

(* Every task has a number of its own, below the next one. *)
Numbered(k) ==
    /\ \A x \in k.tasks : x.id < k.seq /\ x.seq < k.seq
    /\ \A x, y \in k.tasks : x.seq = y.seq => x = y
    /\ k.frame # None => k.frame < k.seq

Has(k, id) == \E x \in k.tasks : x.id = id

FrameQueued(k) == Has(k, k.frame) <=> (k.frame # None /\ k.visible)

GoodLoop(k, at) == k \in Loop /\ Numbered(k) /\ FrameQueued(k) /\ k.sampled <= at

(***************************************************************************)
(* One tab.                                                                *)
(***************************************************************************)

(* Without a document there is nothing, and only then one can be loading. *)
Empty(u, s, p, k, m) ==
    /\ u.doc = 0 => s = None /\ p = <<>> /\ k = None /\ m = <<>>
    /\ u.loading => u.doc = 0

(* The load is the first thing a renderer receives. *)
LoadFirst(u, p, k) ==
    /\ \A i \in DOMAIN p : p[i].kind = "load" => i = 1 /\ k = None
    /\ u.doc # 0 /\ k = None => p # <<>> /\ p[1].kind = "load"

Owed(s, p) == (IF s = None THEN 0 ELSE s.elapsed) + Elapsed(p)

(* All time up to the shell's anchor is in the loop or on its way. *)
Conserved(u, s, p, k, at) ==
    u.doc # 0 =>
       /\ u.clock \in Nat /\ u.clock <= at
       /\ k = None => p[1].at + Owed(s, p) = u.clock
       /\ k # None => k.origin + k.logical + k.lost + Owed(s, p) = u.clock

Busy(s, p, k) ==
    \/ s # None
    \/ \E i \in DOMAIN p : p[i].kind = "advance"
    \/ k # None /\ k.turn # None

Marked(m) == \E i \in DOMAIN m : m[i].mark

(* An unanswered advance is on its way, or its answer is. *)
Answered(u, s, p, k, m, c) == u.pending /\ ~c => Busy(s, p, k) \/ Marked(m)

(* The shell knows the delay of a loop at rest, or the newest update says. *)
Told(u, s, p, k, m, c) ==
    LET next == next_timer_micros(k)
    IN  k # None /\ ~Busy(s, p, k) /\ next # None =>
           /\ m # <<>> => m[Len(m)].next = next
           /\ m = <<>> /\ ~c => u.next = next

GoodTab(u, s, p, k, m, c, at) ==
    /\ Empty(u, s, p, k, m)
    /\ LoadFirst(u, p, k)
    /\ Conserved(u, s, p, k, at)
    /\ Answered(u, s, p, k, m, c)
    /\ Told(u, s, p, k, m, c)
    /\ k # None => GoodLoop(k, at)

(***************************************************************************)
(* The foreground tab f.                                                   *)
(***************************************************************************)

(* The wakeup is for this tab's document, and at least as early as its     *)
(* record says.                                                            *)
Promised(f, u, w, at) ==
    /\ w # None => w.tab = f /\ w.doc = u.doc /\ u.doc # 0 /\ ~u.pending
    /\ u.doc # 0 /\ ~u.pending /\ u.next # None =>
          w # None /\ w.deadline <= Later(at, u.clock + u.next)

(* The last thing the renderer hears is that its page is visible. *)
Shown(p, k) ==
    \/ \E i \in DOMAIN p :
          /\ p[i].kind = "lifecycle" /\ p[i].visible
          /\ \A j \in DOMAIN p : j > i => p[j].kind # "lifecycle"
    \/ /\ \A i \in DOMAIN p : p[i].kind # "lifecycle"
       /\ k # None => k.visible

(* A tab that the window does not have. *)
Closed(u) == u.doc = 0 /\ ~u.loading

Ind ==
    /\ Shapes
    /\ \A t \in Tabs : GoodTab(ui[t], slot[t], pipe[t], kid[t], mail[t], cut[t], now)
    /\ \A t \in Tabs \ opened : Closed(ui[t])
    /\ Promised(front, ui[front], wake, now)
    /\ Shown(pipe[front], kid[front])

-----------------------------------------------------------------------------
(* What the loop's operations do to a loop.                                *)

(* Script changes tasks, the frame and the next number, nothing else. *)
SameTime(k, r) ==
    /\ r.origin = k.origin /\ r.logical = k.logical /\ r.sampled = k.sampled
    /\ r.event = k.event /\ r.turn = k.turn /\ r.lost = k.lost

(* There is a next task while there are tasks. *)
LEMMA NextTaskExists ==
    ASSUME NEW k \in Loop, Numbered(k), k.tasks # {}
    PROVE  NextTask(k) \in k.tasks
<1> DEFINE Dues == {x.due : x \in k.tasks}
<1>1. \A x \in k.tasks : x.due \in Nat /\ x.seq \in Nat
  BY DEF Loop, Task
<1>2. PICK d \in Dues : \A e \in Dues : d <= e
  <2>1. Dues \in SUBSET Nat /\ Dues # {}
    BY <1>1
  <2> HIDE DEF Dues
  <2> QED
    BY <2>1, LeastNumber
<1> DEFINE Seqs == {x.seq : x \in {y \in k.tasks : y.due = d}}
<1>3. PICK n \in Seqs : \A m \in Seqs : n <= m
  <2>1. Seqs \in SUBSET Nat /\ Seqs # {}
    BY <1>1, <1>2
  <2> HIDE DEF Seqs
  <2> QED
    BY <2>1, LeastNumber
<1>4. PICK x \in k.tasks : x.due = d /\ x.seq = n
  BY <1>3
<1>5. ASSUME NEW y \in k.tasks, x # y
      PROVE  Before(x, y)
  <2>1. y.due \in Dues /\ y.seq # n /\ y.due \in Nat /\ d \in Nat /\ n \in Nat /\ y.seq \in Nat
    BY <1>1, <1>4, <1>5 DEF Numbered
  <2>2. d <= y.due
    BY <2>1, <1>2
  <2>3. CASE y.due = d
    <3>1. y.seq \in Seqs
      BY <2>3
    <3>2. n <= y.seq
      BY <3>1, <1>3
    <3> QED
      BY <2>1, <2>3, <3>2, <1>4 DEF Before
  <2>4. CASE y.due # d
    BY <2>1, <2>2, <2>4, <1>4 DEF Before
  <2> QED
    BY <2>3, <2>4
<1>6. \E z \in k.tasks : \A y \in k.tasks : z = y \/ Before(z, y)
  BY <1>5
<1> QED
  BY <1>6 DEF NextTask

(* The delay a loop asks for is a number or none. *)
LEMMA NextTimerNat ==
    ASSUME NEW k \in Loop, Numbered(k)
    PROVE  next_timer_micros(k) \in Nat \cup {None}
<1>1. CASE ~k.event /\ k.tasks # {}
  <2>1. NextTask(k) \in Task /\ k.logical \in Nat
    BY <1>1, NextTaskExists DEF Loop
  <2>2. NextTask(k).due \in Nat
    BY <2>1 DEF Task
  <2> QED
    BY <1>1, <2>1, <2>2 DEF next_timer_micros, Later
<1> QED
  BY <1>1 DEF next_timer_micros

(* A queued task gets the loop's next number. *)
LEMMA Queued ==
    ASSUME NEW k \in Loop, Numbered(k), NEW id \in Nat, id <= k.seq,
           NEW delay \in Nat, NEW every \in Nat, NEW r, r = queue_task(k, id, delay, every)
    PROVE  /\ r \in Loop /\ Numbered(r) /\ SameTime(k, r)
           /\ r.frame = k.frame /\ r.visible = k.visible /\ r.seq = k.seq + 1
           /\ \A n : Has(r, n) <=> n = id \/ Has(k, n)
<1> DEFINE new == [id |-> id, due |-> k.logical + delay, seq |-> k.seq, every |-> every]
<1>1. new \in Task
  BY DEF Loop, Task
<1> HIDE DEF new
<1>2. /\ k.tasks \cup {new} \in SUBSET Task /\ k.seq + 1 \in Nat /\ k.seq \in Nat
  BY <1>1 DEF Loop
<1>3. r = [k EXCEPT !.tasks = k.tasks \cup {new}, !.seq = k.seq + 1]
  BY DEF queue_task, new
<1>4. r \in Loop
  BY <1>2, <1>3 DEF Loop
<1>5. /\ r.tasks = k.tasks \cup {new} /\ r.seq = k.seq + 1 /\ r.frame = k.frame
      /\ r.visible = k.visible /\ SameTime(k, r)
  BY <1>3 DEF Loop, SameTime
<1>6. new.id = id /\ new.seq = k.seq
  BY DEF new
<1>7. Numbered(r)
  <2>1. \A x \in k.tasks : x.id \in Nat /\ x.seq \in Nat /\ x.id < k.seq /\ x.seq < k.seq
    BY DEF Loop, Task, Numbered
  <2>2. \A x \in r.tasks : x.id < r.seq /\ x.seq < r.seq
    BY <2>1, <1>5, <1>6, <1>2
  <2>3. \A x, y \in r.tasks : x.seq = y.seq => x = y
    BY <2>1, <1>5, <1>6, <1>2 DEF Numbered
  <2>4. r.frame # None => r.frame < r.seq
    BY <1>5, <1>2 DEF Numbered, Loop
  <2> QED
    BY <2>2, <2>3, <2>4 DEF Numbered
<1>8. \A n : Has(r, n) <=> n = id \/ Has(k, n)
  BY <1>5, <1>6 DEF Has
<1> QED
  BY <1>4, <1>5, <1>7, <1>8

(* A cancelled task leaves the others. *)
LEMMA Cancelled ==
    ASSUME NEW k \in Loop, Numbered(k), NEW id, NEW r, r = cancel_timer(k, id)
    PROVE  /\ r \in Loop /\ Numbered(r) /\ SameTime(k, r)
           /\ r.frame = k.frame /\ r.visible = k.visible /\ r.seq = k.seq
           /\ \A n : Has(r, n) <=> n # id /\ Has(k, n)
<1> DEFINE rest == {x \in k.tasks : x.id # id}
<1>1. rest \in SUBSET Task /\ rest \subseteq k.tasks
  BY DEF Loop
<1>2. r = [k EXCEPT !.tasks = rest]
  BY DEF cancel_timer
<1>3. \A n : (\E x \in rest : x.id = n) <=> n # id /\ Has(k, n)
  BY DEF Has
<1> HIDE DEF rest
<1>4. r \in Loop
  BY <1>1, <1>2 DEF Loop
<1>5. /\ r.tasks = rest /\ r.seq = k.seq /\ r.frame = k.frame /\ r.visible = k.visible
      /\ SameTime(k, r)
  BY <1>2 DEF Loop, SameTime
<1>6. Numbered(r)
  BY <1>1, <1>5 DEF Numbered
<1>7. \A n : Has(r, n) <=> n # id /\ Has(k, n)
  BY <1>3, <1>5 DEF Has
<1> QED
  BY <1>4, <1>5, <1>6, <1>7

(* A loop whose frame is queued as it should be, whatever it was before. *)
Sound(k) == k \in Loop /\ Numbered(k) /\ k.sampled <= now

(* None is not an instant, a delay or a timer's identifier. *)
LEMMA NoneIsNoNumber == None \notin Nat
  BY ClockAssumption

(* Queueing the frame again puts it where the page's visibility says. *)
LEMMA Requeued ==
    ASSUME now \in Nat, NEW k, Sound(k), NEW r, r = requeue_animation_frame(k),
           k.frame = None => ~Has(k, k.frame)
    PROVE  GoodLoop(r, now) /\ SameTime(k, r) /\ r.visible = k.visible
<1> DEFINE idle == IF k.frame = None THEN k ELSE cancel_timer(k, k.frame)
<1>1. /\ k \in Loop /\ Numbered(k) /\ k.sampled <= now /\ k.sampled \in Nat
      /\ k.frame \in Nat \cup {None}
  BY DEF Sound, Loop
<1>2. /\ idle \in Loop /\ Numbered(idle) /\ SameTime(k, idle)
      /\ idle.frame = k.frame /\ idle.visible = k.visible /\ idle.seq = k.seq
      /\ ~Has(idle, k.frame)
  <2>1. CASE k.frame = None
    BY <1>1, <2>1 DEF SameTime
  <2>2. CASE k.frame # None
    BY <1>1, <2>2, Cancelled
  <2> QED
    BY <2>1, <2>2
<1> HIDE DEF idle
<1>3. CASE k.frame = None \/ ~k.visible
  <2>1. r = idle
    BY <1>3 DEF requeue_animation_frame, idle
  <2> QED
    BY <1>1, <1>2, <1>3, <2>1 DEF GoodLoop, FrameQueued, SameTime
<1>4. CASE ~(k.frame = None \/ ~k.visible)
  <2> DEFINE delay == now - k.sampled + 1
  <2>1. delay \in Nat /\ 0 \in Nat
    BY <1>1
  <2>2. r = queue_task(idle, k.frame, delay, 0)
    BY <1>4 DEF requeue_animation_frame, idle
  <2> HIDE DEF delay
  <2>3. k.frame \in Nat /\ k.frame <= idle.seq
    BY <1>1, <1>2, <1>4 DEF Numbered, Loop
  <2>4. /\ r \in Loop /\ Numbered(r) /\ SameTime(idle, r)
        /\ r.frame = idle.frame /\ r.visible = idle.visible
        /\ \A n : Has(r, n) <=> n = k.frame \/ Has(idle, n)
    <3>1. idle \in Loop /\ Numbered(idle)
      BY <1>2
    <3> QED
      BY <3>1, <2>1, <2>2, <2>3, Queued
  <2> QED
    BY <1>1, <1>2, <1>4, <2>4 DEF GoodLoop, FrameQueued, SameTime
<1> QED
  BY <1>3, <1>4

(* Showing and hiding the page. *)
LEMMA VisibilitySet ==
    ASSUME now \in Nat, NEW k, GoodLoop(k, now), NEW visible \in BOOLEAN,
           NEW r, r = set_rendering_environment(k, visible)
    PROVE  GoodLoop(r, now) /\ SameTime(k, r) /\ r.visible = visible
<1>1. CASE k.visible = visible
  BY <1>1 DEF set_rendering_environment, SameTime
<1>2. CASE k.visible # visible
  <2> DEFINE s == [k EXCEPT !.visible = visible]
  <2>1. /\ s \in Loop /\ SameTime(k, s) /\ s.visible = visible /\ s.tasks = k.tasks
        /\ s.frame = k.frame /\ s.seq = k.seq /\ s.sampled = k.sampled
    BY DEF GoodLoop, Loop, SameTime
  <2>2. r = requeue_animation_frame(s)
    BY <1>2 DEF set_rendering_environment
  <2> HIDE DEF s
  <2>3. Sound(s) /\ (s.frame = None => ~Has(s, s.frame))
    BY <2>1 DEF Sound, GoodLoop, Numbered, FrameQueued, Has
  <2>4. GoodLoop(r, now) /\ SameTime(s, r) /\ r.visible = s.visible
    BY <2>2, <2>3, Requeued
  <2> QED
    BY <2>1, <2>4 DEF SameTime
<1> QED
  BY <1>1, <1>2

(* The page asks for a frame. *)
LEMMA FrameAsked ==
    ASSUME now \in Nat, NEW k, GoodLoop(k, now), NEW r, r = schedule_animation_frame(k)
    PROVE  GoodLoop(r, now) /\ SameTime(k, r) /\ r.visible = k.visible
<1> DEFINE idle == IF k.frame = None THEN k ELSE cancel_timer(k, k.frame)
           s == [idle EXCEPT !.frame = k.seq, !.seq = idle.seq + 1]
<1>1. k \in Loop /\ Numbered(k) /\ k.sampled <= now
  BY DEF GoodLoop
<1>2. /\ idle \in Loop /\ Numbered(idle) /\ SameTime(k, idle)
      /\ idle.visible = k.visible /\ idle.seq = k.seq
  BY <1>1, Cancelled DEF SameTime
<1>3. r = requeue_animation_frame(s)
  BY DEF schedule_animation_frame
<1> HIDE DEF idle
<1>4. /\ s.tasks = idle.tasks /\ s.frame = idle.seq /\ s.seq = idle.seq + 1
      /\ s.visible = idle.visible /\ SameTime(idle, s)
  BY <1>2 DEF Loop, SameTime
<1>5. idle.seq \in Nat /\ s \in Loop
  <2>1. idle.seq \in Nat
    BY <1>2 DEF Loop
  <2>2. idle.seq + 1 \in Nat /\ k.seq \in Nat
    BY <2>1, <1>2
  <2> QED
    BY <2>1, <2>2, <1>2 DEF Loop
<1> HIDE DEF s
<1>6. Numbered(s)
  <2>1. \A x \in idle.tasks : x.id \in Nat /\ x.seq \in Nat /\ x.id < idle.seq /\ x.seq < idle.seq
    BY <1>2 DEF Loop, Task, Numbered
  <2> QED
    BY <2>1, <1>2, <1>4, <1>5 DEF Numbered
<1>7. Sound(s)
  BY <1>1, <1>2, <1>4, <1>5, <1>6 DEF Sound, SameTime
<1>8. s.frame # None
  BY <1>4, <1>5, NoneIsNoNumber
<1>9. GoodLoop(r, now) /\ SameTime(s, r) /\ r.visible = s.visible
  BY <1>3, <1>7, <1>8, Requeued
<1> QED
  BY <1>2, <1>4, <1>9 DEF SameTime

(* The page gives up its frame. *)
LEMMA FrameCancelled ==
    ASSUME now \in Nat, NEW k, GoodLoop(k, now), NEW r, r = cancel_animation_frame(k)
    PROVE  GoodLoop(r, now) /\ SameTime(k, r) /\ r.visible = k.visible
<1>1. CASE k.frame = None
  BY <1>1 DEF cancel_animation_frame, SameTime
<1>2. CASE k.frame # None
  <2> DEFINE s == cancel_timer(k, k.frame)
  <2>1. /\ s \in Loop /\ Numbered(s) /\ SameTime(k, s) /\ s.visible = k.visible
        /\ s.seq = k.seq
    BY Cancelled DEF GoodLoop
  <2>2. r = [s EXCEPT !.frame = None]
    BY <1>2 DEF cancel_animation_frame
  <2> HIDE DEF s
  <2>3. /\ r \in Loop /\ r.tasks = s.tasks /\ r.frame = None /\ r.seq = s.seq
        /\ r.visible = s.visible /\ SameTime(s, r)
    BY <2>1, <2>2 DEF Loop, SameTime
  <2>4. Numbered(r)
    BY <2>1, <2>3 DEF Numbered
  <2>5. ~Has(r, None)
    BY <2>1, <2>3, NoneIsNoNumber DEF Loop, Task, Has
  <2> QED
    BY <2>1, <2>3, <2>4, <2>5 DEF GoodLoop, FrameQueued, SameTime
<1> QED
  BY <1>1, <1>2

(* What is good of a loop depends on its tasks, frame and clock sample. *)
LEMMA SameTasks ==
    ASSUME NEW at, NEW k, GoodLoop(k, at), NEW r \in Loop, r.tasks = k.tasks,
           r.frame = k.frame, r.visible = k.visible, r.seq = k.seq, r.sampled <= at
    PROVE  GoodLoop(r, at)
  BY DEF GoodLoop, Numbered, FrameQueued, Has

(* Any piece of script leaves a good loop at the same time. *)
LEMMA ScriptGood ==
    ASSUME now \in Nat, NEW k, GoodLoop(k, now), NEW s \in Scripts(k)
    PROVE  /\ s.made \in Nat /\ GoodLoop(s.loop, now) /\ SameTime(k, s.loop)
           /\ s.loop.visible = k.visible
<1> DEFINE r == s.loop
<1>1. k \in Loop /\ Numbered(k) /\ k.seq \in Nat /\ k.frame \in Nat \cup {None}
  BY DEF GoodLoop, Loop
<1>2. CASE s = [loop |-> k, made |-> 0]
  BY <1>2 DEF SameTime
<1>3. CASE \E d \in Delays, every \in Nat :
              s = [loop |-> queue_task(k, k.seq, d, every), made |-> 1]
  <2>1. PICK d \in Delays, every \in Nat :
               s = [loop |-> queue_task(k, k.seq, d, every), made |-> 1]
    BY <1>3
  <2>2. r = queue_task(k, k.seq, d, every) /\ s.made = 1 /\ d \in Nat
    BY <2>1, ClockAssumption
  <2> HIDE DEF r
  <2>3. /\ r \in Loop /\ Numbered(r) /\ SameTime(k, r) /\ r.frame = k.frame
        /\ r.visible = k.visible /\ \A n : Has(r, n) <=> n = k.seq \/ Has(k, n)
    <3>1. k.seq <= k.seq
      BY <1>1
    <3> QED
      BY <2>2, <1>1, <3>1, Queued
  <2>4. k.frame # k.seq
    BY <1>1, NoneIsNoNumber DEF Numbered
  <2> QED
    BY <2>2, <2>3, <2>4 DEF GoodLoop, FrameQueued, SameTime, r
<1>4. CASE s = [loop |-> schedule_animation_frame(k), made |-> 1]
  BY <1>4, FrameAsked
<1>5. CASE \E x \in k.tasks : x.id # k.frame /\ s = [loop |-> cancel_timer(k, x.id), made |-> 0]
  <2>1. PICK x \in k.tasks : x.id # k.frame /\ s = [loop |-> cancel_timer(k, x.id), made |-> 0]
    BY <1>5
  <2>2. r = cancel_timer(k, x.id) /\ s.made = 0
    BY <2>1
  <2> HIDE DEF r
  <2>3. /\ r \in Loop /\ Numbered(r) /\ SameTime(k, r) /\ r.frame = k.frame
        /\ r.visible = k.visible /\ \A n : Has(r, n) <=> n # x.id /\ Has(k, n)
    BY <2>2, <1>1, Cancelled
  <2> QED
    BY <2>1, <2>2, <2>3 DEF GoodLoop, FrameQueued, SameTime, r
<1>6. CASE s = [loop |-> cancel_animation_frame(k), made |-> 0]
  BY <1>6, FrameCancelled
<1>7. \/ s = [loop |-> k, made |-> 0]
      \/ \E d \in Delays, every \in Nat :
              s = [loop |-> queue_task(k, k.seq, d, every), made |-> 1]
      \/ s = [loop |-> schedule_animation_frame(k), made |-> 1]
      \/ \E x \in k.tasks : x.id # k.frame /\ s = [loop |-> cancel_timer(k, x.id), made |-> 0]
      \/ s = [loop |-> cancel_animation_frame(k), made |-> 0]
  <2>1. ASSUME s \in setTimeout(k)
        PROVE  \E d \in Delays : s = [loop |-> queue_task(k, k.seq, d, 0), made |-> 1]
    BY <2>1 DEF setTimeout
  <2>2. ASSUME s \in setInterval(k)
        PROVE  \E d \in Delays : s = [loop |-> queue_task(k, k.seq, d, Later(d, 1)), made |-> 1]
    BY <2>2 DEF setInterval
  <2>3. \A d \in Delays : 0 \in Nat /\ Later(d, 1) \in Nat
    BY ClockAssumption DEF Later
  <2>4. ASSUME s \in clearTimeout(k)
        PROVE  \E x \in k.tasks :
                  x.id # k.frame /\ s = [loop |-> cancel_timer(k, x.id), made |-> 0]
    BY <2>4 DEF clearTimeout
  <2>5. \/ s \in setTimeout(k) \/ s \in setInterval(k) \/ s \in clearTimeout(k)
        \/ s = [loop |-> k, made |-> 0]
        \/ s = [loop |-> schedule_animation_frame(k), made |-> 1]
        \/ s = [loop |-> cancel_animation_frame(k), made |-> 0]
    BY DEF Scripts
  <2> QED
    BY <2>1, <2>2, <2>3, <2>4, <2>5
<1> QED
  BY <1>2, <1>3, <1>4, <1>5, <1>6, <1>7

(* A new loop starts at its origin with nothing queued. *)
LEMMA FreshGood ==
    ASSUME now \in Nat, NEW at \in Nat, NEW k, k = Fresh(at)
    PROVE  /\ GoodLoop(k, now) /\ k.origin = at /\ k.logical = 0 /\ k.lost = 0
           /\ k.turn = None /\ k.visible
<1>1. k \in Loop
  BY DEF Fresh, Loop
<1>2. k.tasks = {} /\ k.frame = None /\ k.sampled = now
  BY DEF Fresh
<1> QED
  BY <1>1, <1>2 DEF Fresh, GoodLoop, Numbered, FrameQueued, Has

(* Popping a callback leaves a good loop. *)
LEMMA Popped ==
    ASSUME NEW at, NEW k, GoodLoop(k, at), k.tasks # {}, NEW r, r = pop_runnable_task(k)
    PROVE  GoodLoop(r, at) /\ SameTime(k, r) /\ r.visible = k.visible
<1> DEFINE x == NextTask(k)
           frame == IF k.frame = x.id THEN None ELSE k.frame
           rest == [k EXCEPT !.tasks = k.tasks \ {x}, !.frame = frame]
<1>1. k \in Loop /\ Numbered(k) /\ k.tasks \subseteq Task /\ k.frame \in Nat \cup {None}
  BY DEF GoodLoop, Loop
<1>2. x \in k.tasks /\ x \in Task
  BY <1>1, NextTaskExists
<1> HIDE DEF x
<1>3. /\ x.id \in Nat /\ x.every \in Nat /\ x.id < k.seq /\ k.seq \in Nat
  BY <1>1, <1>2 DEF Task, Loop, Numbered
<1>4. /\ rest \in Loop /\ rest.tasks = k.tasks \ {x} /\ rest.frame = frame
      /\ rest.visible = k.visible /\ rest.seq = k.seq /\ SameTime(k, rest)
  BY <1>1 DEF Loop, SameTime
<1>5. r = IF x.every = 0 THEN rest ELSE queue_task(rest, x.id, x.every, x.every)
  BY DEF pop_runnable_task, x
<1> HIDE DEF rest
<1>6. Numbered(rest)
  BY <1>1, <1>4 DEF Numbered
<1>7. FrameQueued(rest) /\ (frame # None => frame # x.id)
  <2>1. CASE k.frame = x.id
    <3>1. ~Has(rest, None)
      BY <1>1, <1>4, NoneIsNoNumber DEF Has, Task
    <3> QED
      BY <2>1, <3>1, <1>4 DEF FrameQueued
  <2>2. CASE k.frame # x.id
    <3>1. Has(rest, k.frame) <=> Has(k, k.frame)
      BY <2>2, <1>4, <1>2 DEF Has
    <3> QED
      BY <2>2, <3>1, <1>4 DEF FrameQueued, GoodLoop
  <2> QED
    BY <2>1, <2>2
<1>8. CASE x.every = 0
  BY <1>4, <1>5, <1>6, <1>7, <1>8 DEF GoodLoop, SameTime
<1>9. CASE x.every # 0
  <2>1. r = queue_task(rest, x.id, x.every, x.every) /\ x.id <= rest.seq
    BY <1>3, <1>4, <1>5, <1>9
  <2>2. /\ r \in Loop /\ Numbered(r) /\ SameTime(rest, r)
        /\ r.frame = rest.frame /\ r.visible = rest.visible
        /\ \A n : Has(r, n) <=> n = x.id \/ Has(rest, n)
    BY <2>1, <1>3, <1>4, <1>6, Queued
  <2>3. rest.frame # x.id
    BY <1>3, <1>4, <1>7, NoneIsNoNumber
  <2>4. FrameQueued(r)
    BY <2>2, <2>3, <1>7 DEF FrameQueued
  <2> QED
    BY <2>2, <2>4, <1>4 DEF GoodLoop, SameTime
<1> QED
  BY <1>8, <1>9

-----------------------------------------------------------------------------
(* Mail and pipes.                                                         *)

(* The newest update decides the delay, and no mark is lost. *)
LEMMA PostGood ==
    ASSUME NEW q \in Seq(Updates), NEW m \in Updates, NEW r, r = coalesce(q, m)
    PROVE  /\ r \in Seq(Updates) /\ r # <<>> /\ r[Len(r)].next = m.next
           /\ Marked(q) \/ m.mark => Marked(r)
<1>1. CASE q # <<>> /\ q[Len(q)].kind = m.kind
  <2> DEFINE n == Len(q)
             x == [m EXCEPT !.mark = m.mark \/ q[n].mark, !.opens = m.opens \/ q[n].opens]
  <2>1. n \in DOMAIN q /\ n \in Nat /\ q[n] \in Updates /\ DOMAIN q = 1 .. n
    BY <1>1, ElementOfSeq, LenProperties, EmptySeq
  <2>2. x \in Updates /\ x.next = m.next /\ (x.mark <=> m.mark \/ q[n].mark)
    BY <2>1 DEF Updates
  <2>3. r = [q EXCEPT ![n] = x]
    BY <1>1 DEF coalesce
  <2> HIDE DEF n, x
  <2>4. /\ r \in Seq(Updates) /\ Len(r) = Len(q) /\ r[n] = x
        /\ \A i \in DOMAIN q : i # n => r[i] = q[i]
    BY <2>1, <2>2, <2>3, ExceptSeq
  <2>5. DOMAIN r = DOMAIN q /\ r # <<>>
    BY <1>1, <2>1, <2>4, LenProperties DEF n
  <2>6. Marked(q) \/ m.mark => Marked(r)
    BY <2>1, <2>2, <2>4, <2>5 DEF Marked
  <2> QED
    BY <2>2, <2>4, <2>5, <2>6 DEF n
<1>2. CASE ~(q # <<>> /\ q[Len(q)].kind = m.kind)
  <2>1. r = Append(q, m)
    BY <1>2 DEF coalesce
  <2>2. /\ r \in Seq(Updates) /\ Len(r) = Len(q) + 1 /\ r[Len(q) + 1] = m
        /\ \A i \in 1 .. Len(q) : r[i] = q[i]
    BY <2>1, AppendProperties
  <2>3. DOMAIN q = 1 .. Len(q) /\ DOMAIN r = 1 .. Len(q) + 1 /\ Len(q) \in Nat
    BY <2>2, LenProperties
  <2>4. r # <<>> /\ Len(q) + 1 \in DOMAIN r
    BY <2>2, <2>3
  <2>5. Marked(q) \/ m.mark => Marked(r)
    BY <2>2, <2>3, <2>4 DEF Marked
  <2> QED
    BY <2>2, <2>4, <2>5
<1> QED
  BY <1>1, <1>2

Weight(m) == IF m.kind = "advance" THEN m.by.elapsed ELSE 0
Elapses(q) == [i \in DOMAIN q |-> IF q[i].kind = "advance" THEN q[i].by.elapsed ELSE 0]

(* A message adds a number of frames to the clock. *)
LEMMA WeightNat ==
    ASSUME NEW m \in Messages
    PROVE  Weight(m) \in Nat
<1>1. m.kind = "advance" => m.by \in Advance
  BY DEF Messages
<1> QED
  BY <1>1 DEF Weight, Advance

(* What Elapsed adds up, message by message. *)
LEMMA WeightsSeq ==
    ASSUME NEW q \in Seq(Messages)
    PROVE  /\ Elapses(q) \in Seq(Nat) /\ Len(Elapses(q)) = Len(q)
           /\ \A i \in 1 .. Len(q) : Elapses(q)[i] = Weight(q[i])
           /\ Elapsed(q) = Total(Elapses(q))
<1> DEFINE w == Elapses(q)
<1>1. DOMAIN q = 1 .. Len(q) /\ Len(q) \in Nat
  BY LenProperties
<1>2. w = [i \in 1 .. Len(q) |-> Weight(q[i])]
  BY <1>1 DEF Elapses, Weight
<1>3. \A i \in 1 .. Len(q) : Weight(q[i]) \in Nat
  BY <1>1, ElementOfSeq, WeightNat
<1>4. Elapsed(q) = Total(w)
  BY DEF Elapsed, Elapses
<1> HIDE DEF w
<1>5. w \in Seq(Nat)
  BY <1>1, <1>2, <1>3, IsASeq
<1>6. Len(w) = Len(q)
  BY <1>1, <1>2, <1>5, LenProperties
<1> QED
  BY <1>2, <1>4, <1>5, <1>6 DEF w

(* The messages of a pipe add a number of frames to the clock. *)
LEMMA ElapsedNat ==
    ASSUME NEW q \in Seq(Messages)
    PROVE  Elapsed(q) \in Nat
  BY WeightsSeq, TotalNat

(* An empty pipe adds nothing. *)
LEMMA ElapsedEmpty == Elapsed(<<>>) = 0
<1>1. Elapses(<<>>) = <<>>
  BY DEF Elapses
<1> QED
  BY <1>1, TotalEmpty DEF Elapsed, Elapses

(* The time in a pipe that grows. *)
LEMMA ElapsedAppend ==
    ASSUME NEW q \in Seq(Messages), NEW m \in Messages, NEW r, r = Append(q, m)
    PROVE  Elapsed(r) = Elapsed(q) + Weight(m)
<1>1. r \in Seq(Messages) /\ Len(r) = Len(q) + 1 /\ r[Len(q) + 1] = m
      /\ \A i \in 1 .. Len(q) : r[i] = q[i]
  BY AppendProperties
<1> DEFINE v == Append(Elapses(q), Weight(m))
<1>2. /\ v \in Seq(Nat) /\ Len(v) = Len(q) + 1 /\ v[Len(q) + 1] = Weight(m)
      /\ \A i \in 1 .. Len(q) : v[i] = Weight(q[i])
  BY WeightsSeq, WeightNat, AppendProperties
<1>3. Total(v) = Total(Elapses(q)) + Weight(m)
  BY WeightsSeq, WeightNat, TotalAppend
<1> HIDE DEF v
<1>4. Len(q) \in Nat
  BY LenProperties
<1>5. \A i \in 1 .. Len(q) + 1 : v[i] = Weight(r[i])
  BY <1>1, <1>2, <1>4
<1>6. Elapses(r) = v
  <2>1. /\ Elapses(r) \in Seq(Nat) /\ Len(Elapses(r)) = Len(q) + 1
        /\ \A i \in 1 .. Len(q) + 1 : Elapses(r)[i] = Weight(r[i])
    BY <1>1, WeightsSeq
  <2> QED
    BY <1>2, <1>5, <2>1, SeqEqual
<1> QED
  BY <1>1, <1>3, <1>6, WeightsSeq

(* The time in a pipe that loses its head. *)
LEMMA ElapsedTail ==
    ASSUME NEW q \in Seq(Messages), q # <<>>, NEW r, r = Tail(q)
    PROVE  Elapsed(q) = Weight(q[1]) + Elapsed(r)
<1>1. /\ r \in Seq(Messages) /\ Len(r) = Len(q) - 1 /\ Len(q) \in Nat /\ Len(q) # 0
      /\ \A i \in 1 .. Len(r) : r[i] = q[i + 1]
  BY HeadTailProperties, LenProperties, EmptySeq
<1> DEFINE w == Elapses(q)
<1>2. /\ w \in Seq(Nat) /\ Len(w) = Len(q) /\ \A i \in 1 .. Len(q) : w[i] = Weight(q[i])
      /\ Elapsed(q) = Total(w)
  BY WeightsSeq
<1> HIDE DEF w
<1>3. w # <<>>
  BY <1>1, <1>2, EmptySeq
<1>4. Total(w) = Head(w) + Total(Tail(w))
  BY <1>2, <1>3, TotalTail
<1>5. Head(w) = Weight(q[1])
  BY <1>1, <1>2, <1>3
<1>6. /\ Tail(w) \in Seq(Nat) /\ Len(Tail(w)) = Len(r)
      /\ \A i \in 1 .. Len(r) : Tail(w)[i] = w[i + 1]
  BY <1>1, <1>2, <1>3, HeadTailProperties
<1>7. \A i \in 1 .. Len(r) : i + 1 \in 1 .. Len(q)
  BY <1>1
<1>8. \A i \in 1 .. Len(r) : Tail(w)[i] = Weight(r[i])
  BY <1>1, <1>2, <1>6, <1>7
<1>9. Elapses(r) = Tail(w)
  <2>1. /\ Elapses(r) \in Seq(Nat) /\ Len(Elapses(r)) = Len(r)
        /\ \A i \in 1 .. Len(r) : Elapses(r)[i] = Weight(r[i])
    BY <1>1, WeightsSeq
  <2>2. \A i \in 1 .. Len(Elapses(r)) : Elapses(r)[i] = Tail(w)[i]
    BY <1>8, <2>1
  <2> QED
    BY <1>6, <2>1, <2>2, SeqEqual
<1>10. Elapsed(r) = Total(Tail(w))
  BY <1>1, <1>9, WeightsSeq
<1> QED
  BY <1>2, <1>4, <1>5, <1>10

(* A pipe that grows by something that is no load. *)
LEMMA Piped ==
    ASSUME NEW p \in Seq(Messages), NEW x \in Messages, NEW r, r = Append(p, x)
    PROVE  /\ r \in Seq(Messages) /\ r # <<>> /\ DOMAIN p \subseteq DOMAIN r
           /\ DOMAIN r = DOMAIN p \cup {Len(p) + 1} /\ Len(p) \in Nat
           /\ DOMAIN p = 1 .. Len(p) /\ r[Len(p) + 1] = x
           /\ \A i \in DOMAIN p : r[i] = p[i] /\ i <= Len(p)
<1>1. /\ r \in Seq(Messages) /\ Len(r) = Len(p) + 1 /\ r[Len(p) + 1] = x
      /\ \A i \in 1 .. Len(p) : r[i] = p[i]
  BY AppendProperties
<1>2. Len(p) \in Nat /\ DOMAIN p = 1 .. Len(p) /\ DOMAIN r = 1 .. Len(p) + 1
  BY <1>1, LenProperties
<1>3. r # <<>>
  BY <1>1, <1>2
<1> QED
  BY <1>1, <1>2, <1>3

(* A pipe that loses its head. *)
LEMMA Unpiped ==
    ASSUME NEW p \in Seq(Messages), p # <<>>, NEW r, r = Tail(p)
    PROVE  /\ r \in Seq(Messages) /\ Head(p) = p[1] /\ p[1] \in Messages /\ 1 \in DOMAIN p
           /\ \A i \in DOMAIN r : i \in Nat /\ i + 1 \in DOMAIN p /\ r[i] = p[i + 1]
           /\ \A i \in DOMAIN p : i \in Nat /\ (i # 1 => i - 1 \in DOMAIN r /\ r[i - 1] = p[i])
<1>1. /\ r \in Seq(Messages) /\ Len(r) = Len(p) - 1
      /\ \A i \in 1 .. Len(r) : r[i] = p[i + 1]
  BY HeadTailProperties
<1>2. Len(p) \in Nat /\ Len(p) # 0 /\ DOMAIN p = 1 .. Len(p) /\ DOMAIN r = 1 .. Len(p) - 1
  BY <1>1, LenProperties, EmptySeq
<1>3. Head(p) = p[1] /\ p[1] \in Messages /\ 1 \in DOMAIN p
  BY <1>2, ElementOfSeq
<1>4. \A i \in DOMAIN r : i \in Nat /\ i + 1 \in DOMAIN p /\ r[i] = p[i + 1]
  BY <1>1, <1>2
<1>5. ASSUME NEW i \in DOMAIN p, i # 1
      PROVE  i - 1 \in DOMAIN r /\ r[i - 1] = p[i]
  <2>1. i - 1 \in 1 .. Len(r) /\ (i - 1) + 1 = i
    BY <1>1, <1>2, <1>5
  <2> QED
    BY <2>1, <1>1, <1>2
<1> QED
  BY <1>1, <1>2, <1>3, <1>4, <1>5

(* What the shell's tab is made of. *)
TabShapes(u, s, p, k, m) ==
    /\ u \in Records /\ s \in Advance \cup {None} /\ p \in Seq(Messages)
    /\ k \in Loop \cup {None} /\ m \in Seq(Updates)

Lifecycle(visible) == [kind |-> "lifecycle", visible |-> visible]

(* A lifecycle message changes nothing of what a tab is owed. *)
LEMMA RoutedTab ==
    ASSUME NEW u, NEW s, NEW p, NEW k, NEW m, NEW c, NEW at,
           TabShapes(u, s, p, k, m), GoodTab(u, s, p, k, m, c, at), u.doc # 0,
           NEW visible \in BOOLEAN, NEW r, r = Append(p, Lifecycle(visible))
    PROVE  GoodTab(u, s, r, k, m, c, at) /\ r \in Seq(Messages)
<1> DEFINE x == Lifecycle(visible)
<1>1. x \in Messages /\ x.kind = "lifecycle"
  BY DEF Lifecycle, Messages
<1>2. p \in Seq(Messages)
  BY DEF TabShapes
<1> HIDE DEF x
<1>3. r = Append(p, x)
  BY DEF x
<1>4. /\ r \in Seq(Messages) /\ r # <<>> /\ DOMAIN p \subseteq DOMAIN r
      /\ DOMAIN r = DOMAIN p \cup {Len(p) + 1} /\ Len(p) \in Nat
      /\ DOMAIN p = 1 .. Len(p) /\ r[Len(p) + 1] = x
      /\ \A i \in DOMAIN p : r[i] = p[i] /\ i <= Len(p)
  BY <1>1, <1>2, <1>3, Piped
<1>5. Elapsed(r) = Elapsed(p) + 0
  BY <1>1, <1>2, <1>3, ElapsedAppend DEF Weight
<1>6. Elapsed(r) = Elapsed(p)
  BY <1>5, <1>2, ElapsedNat
<1>7. Owed(s, r) = Owed(s, p)
  BY <1>6 DEF Owed
<1>8. Busy(s, r, k) <=> Busy(s, p, k)
  BY <1>1, <1>4 DEF Busy
<1>9. p # <<>> => r[1] = p[1]
  <2>1. p # <<>> => 1 \in DOMAIN p
    BY <1>2, <1>4, EmptySeq
  <2> QED
    BY <2>1, <1>4
<1>10. Empty(u, s, r, k, m)
  BY DEF GoodTab, Empty
<1>11. LoadFirst(u, r, k)
  <2>1. \A i \in DOMAIN r : r[i].kind = "load" => i \in DOMAIN p /\ p[i].kind = "load"
    BY <1>1, <1>4
  <2> QED
    BY <2>1, <1>4, <1>9 DEF GoodTab, LoadFirst
<1>12. Conserved(u, s, r, k, at)
  BY <1>7, <1>9 DEF GoodTab, Conserved, LoadFirst
<1>13. Answered(u, s, r, k, m, c) /\ Told(u, s, r, k, m, c)
  BY <1>8 DEF GoodTab, Answered, Told
<1> QED
  BY <1>4, <1>10, <1>11, <1>12, <1>13 DEF GoodTab

-----------------------------------------------------------------------------
(* The renderer's steps, for one tab.                                      *)

(* None is not a loop, an advance or a wakeup. *)
LEMMA NoneIsNoRecord == None \notin Loop /\ None \notin Advance /\ None \notin Wakeup
  BY ClockAssumption

NoLoad(p) == \A i \in DOMAIN p : p[i].kind # "load"

(* Behind the head of a pipe there is no load. *)
LEMMA NoLoadBehind ==
    ASSUME NEW u, NEW k, NEW p \in Seq(Messages), p # <<>>, LoadFirst(u, p, k),
           NEW r, r = Tail(p)
    PROVE  NoLoad(r)
<1>1. \A i \in DOMAIN r : i \in Nat /\ i + 1 \in DOMAIN p /\ r[i] = p[i + 1] /\ i # 0
  <2>1. r \in Seq(Messages)
    BY Unpiped
  <2>2. DOMAIN r = 1 .. Len(r) /\ Len(r) \in Nat
    BY <2>1, LenProperties
  <2>3. \A i \in DOMAIN r : i \in Nat /\ i + 1 \in DOMAIN p /\ r[i] = p[i + 1]
    BY Unpiped
  <2> QED
    BY <2>2, <2>3
<1>2. ASSUME NEW i \in DOMAIN r, r[i].kind = "load"
      PROVE  FALSE
  <2>1. i + 1 = 1
    BY <1>1, <1>2 DEF LoadFirst
  <2> QED
    BY <2>1, <1>1
<1> QED
  BY <1>2 DEF NoLoad

(* Once the renderer runs there is no load on the way. *)
LEMMA NoLoadAfter ==
    ASSUME NEW u, NEW p, NEW k, k # None, LoadFirst(u, p, k)
    PROVE  NoLoad(p)
  BY DEF LoadFirst, NoLoad

(* A loop that is told, with a pipe without loads and time accounted for. *)
LEMMA RunningTab ==
    ASSUME NEW u, NEW s, NEW p, NEW k, NEW m, NEW c, NEW at,
           u.doc # 0, ~u.loading, NoLoad(p), GoodLoop(k, at),
           u.clock \in Nat, u.clock <= at,
           k.origin + k.logical + k.lost + Owed(s, p) = u.clock,
           Answered(u, s, p, k, m, c), Told(u, s, p, k, m, c)
    PROVE  GoodTab(u, s, p, k, m, c, at)
<1>1. k # None
  BY NoneIsNoRecord DEF GoodLoop
<1> QED
  BY <1>1 DEF GoodTab, Empty, LoadFirst, NoLoad, Conserved

(* What a running document's tab is. *)
LEMMA OwnedTab ==
    ASSUME NEW u, NEW s, NEW p, NEW k, NEW m, NEW c, NEW at,
           GoodTab(u, s, p, k, m, c, at), k # None \/ p # <<>> \/ s # None \/ m # <<>>
    PROVE  u.doc # 0 /\ ~u.loading /\ u.clock \in Nat /\ u.clock <= at
  BY DEF GoodTab, Empty, Conserved

(* A message that is no advance leaves all time where it was. *)
LEMMA Heard ==
    ASSUME NEW p \in Seq(Messages), p # <<>>, p[1].kind # "advance", NEW r, r = Tail(p),
           NEW s, NEW k, NEW l, k # None => k.turn = None, l.turn = None
    PROVE  /\ Elapsed(r) = Elapsed(p)
           /\ Busy(s, r, l) <=> Busy(s, p, k)
<1>1. r \in Seq(Messages) /\ Elapsed(r) \in Nat
  BY Unpiped, ElapsedNat
<1>2. Elapsed(p) = 0 + Elapsed(r)
  BY ElapsedTail DEF Weight
<1>3. (\E i \in DOMAIN r : r[i].kind = "advance") <=> \E i \in DOMAIN p : p[i].kind = "advance"
  <2>1. ASSUME NEW i \in DOMAIN r, r[i].kind = "advance"
        PROVE  \E j \in DOMAIN p : p[j].kind = "advance"
    <3>1. i + 1 \in DOMAIN p /\ p[i + 1] = r[i]
      BY Unpiped
    <3> QED
      BY <2>1, <3>1
  <2>2. ASSUME NEW i \in DOMAIN p, p[i].kind = "advance"
        PROVE  \E j \in DOMAIN r : r[j].kind = "advance"
    <3>1. i # 1
      BY <2>2
    <3>2. i - 1 \in DOMAIN r /\ r[i - 1] = p[i]
      BY <3>1, Unpiped
    <3> QED
      BY <2>2, <3>2
  <2> QED
    BY <2>1, <2>2
<1> QED
  BY <1>1, <1>2, <1>3 DEF Busy

(* The document loads. *)
LEMMA LoadTab ==
    ASSUME NEW u, NEW s, NEW p, NEW k, NEW m, NEW c, NEW at,
           TabShapes(u, s, p, k, m), GoodTab(u, s, p, k, m, c, at),
           p # <<>>, p[1].kind = "load", NEW r, r = Tail(p),
           NEW l, GoodLoop(l, at), l.origin = p[1].at, l.logical = 0, l.lost = 0,
           l.turn = None,
           NEW x \in Updates, x.next = next_timer_micros(l), NEW n, n = coalesce(m, x)
    PROVE  GoodTab(u, s, r, l, n, c, at)
<1>1. p \in Seq(Messages) /\ m \in Seq(Updates) /\ 1 \in DOMAIN p /\ p[1] \in Messages
  BY Unpiped DEF TabShapes
<1>2. k = None
  BY <1>1 DEF GoodTab, LoadFirst
<1>3. u.doc # 0 /\ ~u.loading /\ u.clock \in Nat /\ u.clock <= at
  BY OwnedTab
<1>4. NoLoad(r)
  BY <1>1, NoLoadBehind DEF GoodTab
<1>5. Elapsed(r) = Elapsed(p) /\ (Busy(s, r, l) <=> Busy(s, p, k))
  BY <1>1, <1>2, Heard
<1>6. n # <<>> /\ n[Len(n)].next = x.next /\ (Marked(m) => Marked(n))
  BY <1>1, PostGood
<1>7. Owed(s, r) = Owed(s, p) /\ p[1].at \in Nat
  BY <1>1, <1>5 DEF Owed, Messages
<1>8. Owed(s, p) \in Nat
  BY <1>1, ElapsedNat DEF Owed, TabShapes, Advance
<1>9. l.origin + l.logical + l.lost + Owed(s, r) = u.clock
  BY <1>2, <1>3, <1>7, <1>8 DEF GoodTab, Conserved
<1>10. Answered(u, s, r, l, n, c) /\ Told(u, s, r, l, n, c)
  BY <1>5, <1>6 DEF GoodTab, Answered, Told
<1> QED
  BY <1>3, <1>4, <1>9, <1>10, RunningTab

(* Script runs at rest: an update follows, or no callback waits. *)
LEMMA ScriptTab ==
    ASSUME NEW u, NEW s, NEW p, NEW k, NEW m, NEW c, NEW at,
           TabShapes(u, s, p, k, m), GoodTab(u, s, p, k, m, c, at),
           k # None, k.turn = None,
           NEW r, r = p \/ (p # <<>> /\ p[1].kind = "lifecycle" /\ r = Tail(p)),
           NEW l, GoodLoop(l, at), SameTime(k, l), NEW n,
           \/ \E x \in Updates : x.next = next_timer_micros(l) /\ n = coalesce(m, x)
           \/ next_timer_micros(l) = None /\ n = m
    PROVE  GoodTab(u, s, r, l, n, c, at)
<1>1. p \in Seq(Messages) /\ m \in Seq(Updates)
  BY DEF TabShapes
<1>2. u.doc # 0 /\ ~u.loading /\ u.clock \in Nat /\ u.clock <= at
  BY OwnedTab
<1>3. NoLoad(r)
  <2>1. NoLoad(p)
    BY NoLoadAfter DEF GoodTab
  <2> QED
    BY <1>1, <2>1, NoLoadBehind DEF GoodTab
<1>4. l.turn = None /\ l \in Loop /\ l # None
  BY NoneIsNoRecord DEF SameTime, GoodLoop
<1>5. Elapsed(r) = Elapsed(p) /\ (Busy(s, r, l) <=> Busy(s, p, k))
  <2>1. CASE r = p
    BY <2>1, <1>4 DEF Busy
  <2>2. CASE p # <<>> /\ p[1].kind = "lifecycle" /\ r = Tail(p)
    <3>1. p[1].kind # "advance"
      BY <2>2
    <3> QED
      BY <2>2, <3>1, <1>1, <1>4, Heard
  <2> QED
    BY <2>1, <2>2
<1>6. Owed(s, r) = Owed(s, p)
  BY <1>5 DEF Owed
<1>7. l.origin + l.logical + l.lost + Owed(s, r) = u.clock
  BY <1>2, <1>6 DEF GoodTab, Conserved, SameTime
<1>8. Marked(m) => Marked(n)
  BY <1>1, PostGood
<1>9. Answered(u, s, r, l, n, c)
  BY <1>5, <1>8 DEF GoodTab, Answered
<1>10. Told(u, s, r, l, n, c)
  <2>1. CASE next_timer_micros(l) = None
    BY <2>1 DEF Told
  <2>2. CASE \E x \in Updates : x.next = next_timer_micros(l) /\ n = coalesce(m, x)
    <3>1. n # <<>> /\ n[Len(n)].next = next_timer_micros(l)
      BY <2>2, <1>1, PostGood, ZenonT(30)
    <3> QED
      BY <3>1 DEF Told
  <2> QED
    BY <2>1, <2>2
<1> QED
  BY <1>2, <1>3, <1>7, <1>9, <1>10, RunningTab

(* Of what is owed, an advance that arrives leaves the rest. *)
Arrives(s, p, r) ==
    \E a \in Nat, b \in Nat :
       p[1].by.elapsed = a /\ Owed(s, r) = b /\ Owed(s, p) = a + b

(* The head of a pipe is an advance. *)
LEMMA AdvanceHeard ==
    ASSUME NEW u, NEW s, NEW p, NEW k, NEW m, NEW c, NEW at,
           TabShapes(u, s, p, k, m), GoodTab(u, s, p, k, m, c, at),
           p # <<>>, p[1].kind = "advance", NEW r, r = Tail(p)
    PROVE  /\ k # None /\ NoLoad(r) /\ r \in Seq(Messages)
           /\ p[1].by \in Advance /\ Arrives(s, p, r)
<1>0. p \in Seq(Messages) /\ (s # None => s \in Advance)
  BY DEF TabShapes
<1>1. u.doc # 0 /\ 1 \in DOMAIN p /\ p[1] \in Messages /\ r \in Seq(Messages)
  BY <1>0, OwnedTab, Unpiped
<1>2. k # None
  BY <1>1 DEF GoodTab, LoadFirst
<1>3. NoLoad(r)
  BY <1>0, NoLoadBehind DEF GoodTab
<1>4. p[1].by \in Advance
  BY <1>1 DEF Messages
<1>5. Elapsed(p) = p[1].by.elapsed + Elapsed(r)
  BY <1>0, ElapsedTail DEF Weight
<1> DEFINE a == p[1].by.elapsed
           b == Elapsed(r)
           d == IF s = None THEN 0 ELSE s.elapsed
<1>6. a \in Nat /\ b \in Nat /\ d \in Nat
  BY <1>0, <1>1, <1>4, ElapsedNat DEF Advance
<1>7. Owed(s, p) = d + (a + b) /\ Owed(s, r) = d + b
  BY <1>5 DEF Owed
<1> HIDE DEF a, b, d
<1>8. d + b \in Nat /\ Owed(s, p) = a + (d + b)
  BY <1>6, <1>7
<1>9. Arrives(s, p, r)
  BY <1>6, <1>7, <1>8 DEF Arrives, a
<1> QED
  BY <1>1, <1>2, <1>3, <1>4, <1>9

(* The time of an advance reaches the loop. *)
LEMMA AdvanceTab ==
    ASSUME NEW u, NEW s, NEW p, NEW k, NEW m, NEW c, NEW at,
           TabShapes(u, s, p, k, m), GoodTab(u, s, p, k, m, c, at),
           p # <<>>, p[1].kind = "advance", NEW r, r = Tail(p),
           NEW l, GoodLoop(l, at), l.turn # None, l.origin = k.origin,
           l.logical + l.lost = k.logical + k.lost + p[1].by.elapsed
    PROVE  GoodTab(u, s, r, l, m, c, at)
<1>1. p \in Seq(Messages) /\ (s # None => s \in Advance)
  BY DEF TabShapes
<1>2. /\ k # None /\ NoLoad(r) /\ r \in Seq(Messages)
      /\ p[1].by \in Advance /\ Arrives(s, p, r)
  BY AdvanceHeard
<1>3. u.doc # 0 /\ ~u.loading /\ u.clock \in Nat /\ u.clock <= at
  BY OwnedTab
<1>4. l \in Loop /\ k \in Loop /\ l # None
  BY <1>2, NoneIsNoRecord DEF GoodLoop, GoodTab
<1>5. /\ l.logical \in Nat /\ l.lost \in Nat /\ k.logical \in Nat /\ k.lost \in Nat
      /\ k.origin \in Nat
  BY <1>4 DEF Loop
<1>8. k.origin + k.logical + k.lost + Owed(s, p) = u.clock
  BY <1>2, <1>3 DEF GoodTab, Conserved
<1>9. l.origin + l.logical + l.lost + Owed(s, r) = u.clock
  <2>1. PICK a \in Nat, b \in Nat :
               p[1].by.elapsed = a /\ Owed(s, r) = b /\ Owed(s, p) = a + b
    BY <1>2 DEF Arrives
  <2> DEFINE o == k.origin
             x == k.logical
             y == k.lost
             v == l.logical
             w == l.lost
  <2>2. /\ o \in Nat /\ x \in Nat /\ y \in Nat /\ v \in Nat /\ w \in Nat
        /\ v + w = x + y + a /\ o + x + y + (a + b) = u.clock
    BY <1>5, <1>8, <2>1
  <2> HIDE DEF o, x, y, v, w
  <2>3. o + v + w + b = u.clock
    BY <1>3, <2>2
  <2> QED
    BY <1>5, <2>1, <2>2, <2>3 DEF o, v, w
<1>10. Busy(s, r, l)
  BY <1>4 DEF Busy
<1>11. Answered(u, s, r, l, m, c) /\ Told(u, s, r, l, m, c)
  BY <1>10 DEF Answered, Told
<1> QED
  BY <1>2, <1>3, <1>9, <1>11, RunningTab

(* The document starts over with the advance's time in its origin. *)
LEMMA RestartTab ==
    ASSUME NEW u, NEW s, NEW p, NEW k, NEW m, NEW c, NEW at,
           TabShapes(u, s, p, k, m), GoodTab(u, s, p, k, m, c, at),
           p # <<>>, p[1].kind = "advance", NEW r, r = Tail(p),
           NEW l, GoodLoop(l, at), l.logical = 0, l.lost = 0,
           l.origin = k.origin + k.logical + k.lost + p[1].by.elapsed,
           NEW x \in Updates, x.next = next_timer_micros(l), NEW n, n = coalesce(m, x)
    PROVE  GoodTab(u, s, r, l, n, TRUE, at)
<1>1. p \in Seq(Messages) /\ (s # None => s \in Advance) /\ m \in Seq(Updates)
  BY DEF TabShapes
<1>2. /\ k # None /\ NoLoad(r) /\ r \in Seq(Messages)
      /\ p[1].by \in Advance /\ Arrives(s, p, r)
  BY AdvanceHeard
<1>3. u.doc # 0 /\ ~u.loading /\ u.clock \in Nat /\ u.clock <= at
  BY OwnedTab
<1>4. k \in Loop
  BY <1>2 DEF GoodLoop, GoodTab
<1>5. k.logical \in Nat /\ k.lost \in Nat /\ k.origin \in Nat
  BY <1>4 DEF Loop
<1>8. k.origin + k.logical + k.lost + Owed(s, p) = u.clock
  BY <1>2, <1>3 DEF GoodTab, Conserved
<1>9. l.origin + l.logical + l.lost + Owed(s, r) = u.clock
  <2>1. PICK a \in Nat, b \in Nat :
               p[1].by.elapsed = a /\ Owed(s, r) = b /\ Owed(s, p) = a + b
    BY <1>2 DEF Arrives
  <2> DEFINE o == k.origin
             g == k.logical
             h == k.lost
  <2>2. /\ o \in Nat /\ g \in Nat /\ h \in Nat
        /\ l.origin = o + g + h + a /\ o + g + h + (a + b) = u.clock
    BY <1>5, <1>8, <2>1
  <2> HIDE DEF o, g, h
  <2>3. o + g + h + a + 0 + 0 + b = u.clock
    BY <1>3, <2>2
  <2> QED
    BY <2>1, <2>2, <2>3
<1>10. n # <<>> /\ n[Len(n)].next = next_timer_micros(l)
  BY <1>1, PostGood
<1>11. Answered(u, s, r, l, n, TRUE) /\ Told(u, s, r, l, n, TRUE)
  BY <1>10 DEF Answered, Told
<1> QED
  BY <1>2, <1>3, <1>9, <1>11, RunningTab

(* A callback runs within an advance. *)
LEMMA CallbackTab ==
    ASSUME NEW u, NEW s, NEW p, NEW k, NEW m, NEW c, NEW at,
           GoodTab(u, s, p, k, m, c, at), k # None,
           NEW l, GoodLoop(l, at), l.turn # None,
           l.origin = k.origin, l.logical = k.logical, l.lost = k.lost
    PROVE  GoodTab(u, s, p, l, m, c, at)
<1>1. u.doc # 0 /\ ~u.loading /\ u.clock \in Nat /\ u.clock <= at /\ NoLoad(p)
  BY OwnedTab, NoLoadAfter DEF GoodTab
<1>2. l.origin + l.logical + l.lost + Owed(s, p) = u.clock
  BY <1>1 DEF GoodTab, Conserved
<1>3. Busy(s, p, l)
  BY NoneIsNoRecord DEF Busy, GoodLoop
<1>4. Answered(u, s, p, l, m, c) /\ Told(u, s, p, l, m, c)
  BY <1>3 DEF Answered, Told
<1> QED
  BY <1>1, <1>2, <1>4, RunningTab

(* An advance ends with its marked update. *)
LEMMA FinishTab ==
    ASSUME NEW u, NEW s, NEW p, NEW k, NEW m, NEW c, NEW at,
           TabShapes(u, s, p, k, m), GoodTab(u, s, p, k, m, c, at), k # None,
           NEW l, GoodLoop(l, at),
           l.origin = k.origin, l.logical = k.logical, l.lost = k.lost,
           NEW x \in Updates, x.next = next_timer_micros(l), x.mark,
           NEW n, n = coalesce(m, x)
    PROVE  GoodTab(u, s, p, l, n, c, at)
<1>1. u.doc # 0 /\ ~u.loading /\ u.clock \in Nat /\ u.clock <= at /\ NoLoad(p)
  BY OwnedTab, NoLoadAfter DEF GoodTab
<1>2. l.origin + l.logical + l.lost + Owed(s, p) = u.clock
  BY <1>1 DEF GoodTab, Conserved
<1>3. n # <<>> /\ n[Len(n)].next = next_timer_micros(l) /\ Marked(n)
  BY PostGood DEF TabShapes
<1>4. Answered(u, s, p, l, n, c) /\ Told(u, s, p, l, n, c)
  BY <1>3 DEF Answered, Told
<1> QED
  BY <1>1, <1>2, <1>4, RunningTab

Own == [kind |-> "advance", by |-> [elapsed |-> 0, callbacks |-> 1]]

(* A storage event waits, and an advance of no time is ahead of the pipe. *)
LEMMA StorageTab ==
    ASSUME NEW u, NEW s, NEW p, NEW k, NEW m, NEW c, NEW at,
           TabShapes(u, s, p, k, m), GoodTab(u, s, p, k, m, c, at), k # None,
           NEW l, GoodLoop(l, at),
           l.origin = k.origin, l.logical = k.logical, l.lost = k.lost,
           NEW r, r = <<Own>> \o p
    PROVE  /\ GoodTab(u, s, r, l, m, c, at)
           /\ r \in Seq(Messages) /\ r # <<>> /\ r[1] = Own /\ Tail(r) = p
<1>1. u.doc # 0 /\ ~u.loading /\ u.clock \in Nat /\ u.clock <= at /\ NoLoad(p)
  BY OwnedTab, NoLoadAfter DEF GoodTab
<1>2. p \in Seq(Messages) /\ Own \in Messages /\ Own.kind = "advance" /\ Own.by.elapsed = 0
  BY DEF TabShapes, Own, Messages, Advance
<1>3. <<Own>> \in Seq(Messages) /\ Len(<<Own>>) = 1 /\ <<Own>>[1] = Own
  BY <1>2
<1>4. /\ r \in Seq(Messages) /\ Len(r) = 1 + Len(p) /\ r[1] = Own
      /\ \A i \in 1 .. Len(p) : r[i + 1] = p[i]
  <2>1. /\ r \in Seq(Messages) /\ Len(r) = 1 + Len(p)
        /\ \A i \in 1 .. 1 + Len(p) : r[i] = IF i <= 1 THEN <<Own>>[i] ELSE p[i - 1]
    BY <1>2, <1>3, ConcatProperties
  <2>2. Len(p) \in Nat
    BY <1>2, LenProperties
  <2>3. r[1] = Own
    BY <1>3, <2>1, <2>2
  <2>4. ASSUME NEW i \in 1 .. Len(p) PROVE r[i + 1] = p[i]
    <3>1. i + 1 \in 1 .. 1 + Len(p) /\ ~(i + 1 <= 1) /\ (i + 1) - 1 = i
      BY <2>2
    <3> QED
      BY <3>1, <2>1
  <2> QED
    BY <2>1, <2>3, <2>4
<1>5. Len(p) \in Nat /\ DOMAIN r = 1 .. 1 + Len(p) /\ DOMAIN p = 1 .. Len(p) /\ r # <<>>
  BY <1>2, <1>4, LenProperties, EmptySeq
<1>6. NoLoad(r)
  <2>1. ASSUME NEW i \in DOMAIN r, i # 1 PROVE r[i].kind # "load"
    <3>1. i - 1 \in 1 .. Len(p) /\ (i - 1) + 1 = i
      BY <1>5, <2>1
    <3>2. r[i] = p[i - 1]
      BY <3>1, <1>4
    <3> QED
      BY <3>1, <3>2, <1>1, <1>5 DEF NoLoad
  <2> QED
    BY <2>1, <1>2, <1>4 DEF NoLoad
<1>7. Tail(r) = p
  <2>1. /\ Tail(r) \in Seq(Messages) /\ Len(Tail(r)) = Len(p)
        /\ \A i \in 1 .. Len(p) : Tail(r)[i] = r[i + 1]
    BY <1>4, <1>5, HeadTailProperties
  <2>2. \A i \in 1 .. Len(Tail(r)) : Tail(r)[i] = p[i]
    BY <2>1, <1>4
  <2> QED
    BY <1>2, <2>1, <2>2, SeqEqual
<1>8. Elapsed(r) = 0 + Elapsed(p)
  BY <1>2, <1>4, <1>5, <1>7, ElapsedTail, ZenonT(30) DEF Weight
<1>9. Owed(s, r) = Owed(s, p)
  BY <1>8, <1>2, ElapsedNat DEF Owed
<1>10. l.origin + l.logical + l.lost + Owed(s, r) = u.clock
  BY <1>1, <1>9 DEF GoodTab, Conserved
<1>11. Busy(s, r, l)
  <2>1. 1 \in DOMAIN r
    BY <1>5
  <2> QED
    BY <2>1, <1>2, <1>4 DEF Busy
<1>12. Answered(u, s, r, l, m, c) /\ Told(u, s, r, l, m, c)
  BY <1>11 DEF Answered, Told
<1>13. GoodTab(u, s, r, l, m, c, at)
  BY <1>1, <1>6, <1>10, <1>12, RunningTab
<1> QED
  BY <1>4, <1>5, <1>7, <1>13

-----------------------------------------------------------------------------
(* The shell's steps, for one tab.                                         *)

(* Mail that loses its head keeps its newest update. *)
LEMMA MailTaken ==
    ASSUME NEW m \in Seq(Updates), m # <<>>, NEW n, n = Tail(m)
    PROVE  /\ n \in Seq(Updates) /\ Head(m) = m[1] /\ m[1] \in Updates
           /\ n # <<>> => n[Len(n)] = m[Len(m)]
           /\ n = <<>> => m[1] = m[Len(m)]
           /\ Marked(m) => m[1].mark \/ Marked(n)
<1>1. /\ n \in Seq(Updates) /\ Len(n) = Len(m) - 1 /\ Len(m) \in Nat /\ Len(m) # 0
      /\ \A i \in 1 .. Len(n) : n[i] = m[i + 1]
  BY HeadTailProperties, LenProperties, EmptySeq
<1>2. DOMAIN m = 1 .. Len(m) /\ DOMAIN n = 1 .. Len(n)
  BY <1>1, LenProperties
<1>3. Head(m) = m[1] /\ m[1] \in Updates
  BY <1>1, <1>2, ElementOfSeq
<1>4. n # <<>> => n[Len(n)] = m[Len(m)]
  <2> SUFFICES ASSUME n # <<>> PROVE n[Len(n)] = m[Len(m)]
    OBVIOUS
  <2>1. Len(n) # 0 /\ Len(n) \in 1 .. Len(n) /\ Len(n) + 1 = Len(m)
    BY <1>1, EmptySeq, LenProperties
  <2>2. n[Len(n)] = m[Len(n) + 1]
    BY <1>1, <2>1
  <2> QED
    BY <2>1, <2>2
<1>5. n = <<>> => m[1] = m[Len(m)]
  <2>1. n = <<>> => Len(n) = 0
    OBVIOUS
  <2>2. Len(n) = 0 => Len(m) = 1
    BY <1>1
  <2> QED
    BY <2>1, <2>2
<1>6. Marked(m) => m[1].mark \/ Marked(n)
  <2> SUFFICES ASSUME NEW i \in DOMAIN m, m[i].mark, i # 1 PROVE Marked(n)
    BY DEF Marked
  <2>1. i - 1 \in 1 .. Len(n) /\ (i - 1) + 1 = i
    BY <1>1, <1>2
  <2>2. n[i - 1] = m[i]
    BY <1>1, <2>1
  <2> QED
    BY <1>2, <2>1, <2>2 DEF Marked
<1> QED
  BY <1>1, <1>3, <1>4, <1>5, <1>6

(* A tab with a document keeps what its pipe and loop say. *)
LEMMA ShellTab ==
    ASSUME NEW u, NEW s, NEW p, NEW k, NEW m, NEW c, NEW at, GoodTab(u, s, p, k, m, c, at),
           u.doc # 0,
           NEW v, v.doc = u.doc, v.loading = u.loading, v.clock = u.clock, NEW n, NEW d,
           Answered(v, s, p, k, n, d), Told(v, s, p, k, n, d)
    PROVE  GoodTab(v, s, p, k, n, d, at)
  BY DEF GoodTab, Empty, LoadFirst, Conserved

(* An update reaches the shell. *)
LEMMA ReceivedTab ==
    ASSUME NEW u, NEW s, NEW p, NEW k, NEW m, NEW c, NEW at,
           TabShapes(u, s, p, k, m), GoodTab(u, s, p, k, m, c, at), m # <<>>,
           NEW v, v = [u EXCEPT !.next = m[1].next, !.pending = u.pending /\ ~m[1].mark],
           NEW n, n = Tail(m), NEW d \in BOOLEAN, d = (c /\ v.pending)
    PROVE  GoodTab(v, s, p, k, n, d, at)
<1>1. m \in Seq(Updates) /\ u \in Records
  BY DEF TabShapes
<1>2. u.doc # 0
  BY OwnedTab
<1>3. /\ v.doc = u.doc /\ v.loading = u.loading /\ v.clock = u.clock
      /\ v.next = m[1].next /\ (v.pending <=> u.pending /\ ~m[1].mark)
  BY <1>1 DEF Records
<1>4. /\ n # <<>> => n[Len(n)] = m[Len(m)]
      /\ n = <<>> => m[1] = m[Len(m)]
      /\ Marked(m) => m[1].mark \/ Marked(n)
  BY <1>1, MailTaken
<1>5. Answered(v, s, p, k, n, d)
  BY <1>3, <1>4 DEF GoodTab, Answered
<1>6. Told(v, s, p, k, n, d)
  BY <1>3, <1>4 DEF GoodTab, Told
<1> QED
  BY <1>2, <1>3, <1>5, <1>6, ShellTab

(* A presentation is given up. *)
LEMMA GivenUpTab ==
    ASSUME NEW u, NEW s, NEW p, NEW k, NEW m, NEW c, NEW at,
           TabShapes(u, s, p, k, m), GoodTab(u, s, p, k, m, c, at), m # <<>>,
           NEW n, n = Tail(m)
    PROVE  GoodTab(u, s, p, k, n, TRUE, at)
<1>1. m \in Seq(Updates) /\ u.doc # 0
  BY OwnedTab DEF TabShapes
<1>2. n # <<>> => n[Len(n)] = m[Len(m)]
  BY <1>1, MailTaken
<1>3. Answered(u, s, p, k, n, TRUE) /\ Told(u, s, p, k, n, TRUE)
  BY <1>2 DEF GoodTab, Answered, Told
<1> QED
  BY <1>1, <1>3, ShellTab

(* The shell sends an advance up to this instant. *)
LEMMA PumpedTab ==
    ASSUME NEW u, NEW s, NEW p, NEW k, NEW m, NEW c, NEW at \in Nat,
           TabShapes(u, s, p, k, m), GoodTab(u, s, p, k, m, c, at), u.doc # 0,
           NEW v, v = [u EXCEPT !.clock = at, !.next = None, !.pending = TRUE],
           NEW z, z = clock_send(s, at - u.clock)
    PROVE  GoodTab(v, z, p, k, m, c, at) /\ z \in Advance
<1>1. /\ u \in Records /\ p \in Seq(Messages) /\ (s # None => s \in Advance)
      /\ k \in Loop \cup {None} /\ u.clock \in Nat /\ u.clock <= at
  BY DEF TabShapes, GoodTab, Conserved
<1>2. v.doc = u.doc /\ v.loading = u.loading /\ v.clock = at /\ v.pending /\ v.next = None
  BY <1>1 DEF Records
<1> DEFINE o == IF s = None THEN 0 ELSE s.elapsed
           e == at - u.clock
<1>3. o \in Nat /\ e \in Nat /\ u.clock + e = at
  BY <1>1 DEF Advance
<1>4. z \in Advance /\ z # None /\ z.elapsed = o + e
  <2>1. z \in Advance /\ z.elapsed = o + e
    BY <1>1, <1>3, SMTT(30) DEF clock_send, Advance
  <2> QED
    BY <2>1, NoneIsNoRecord
<1> DEFINE b == Elapsed(p)
<1>5. b \in Nat /\ Owed(s, p) = o + b /\ Owed(z, p) = (o + e) + b
  BY <1>1, <1>4, ElapsedNat DEF Owed
<1> HIDE DEF o, e, b
<1>6. Conserved(v, z, p, k, at)
  <2>1. CASE k = None
    <3>1. p # <<>> /\ p[1].kind = "load" /\ p[1].at + (o + b) = u.clock
      BY <2>1, <1>5 DEF GoodTab, LoadFirst, Conserved
    <3>2. p[1].at \in Nat
      <4>1. 1 \in DOMAIN p
        BY <1>1, <3>1, Unpiped
      <4>2. p[1] \in Messages
        BY <1>1, <4>1, ElementOfSeq, LenProperties
      <4> QED
        BY <3>1, <4>2 DEF Messages
    <3>3. p[1].at + ((o + e) + b) = at
      BY <3>1, <3>2, <1>1, <1>3, <1>5, SMTT(30)
    <3> QED
      BY <2>1, <3>3, <1>2, <1>5 DEF Conserved
  <2>2. CASE k # None
    <3> DEFINE x == k.origin
               y == k.logical
               w == k.lost
    <3>1. x \in Nat /\ y \in Nat /\ w \in Nat
      BY <2>2, <1>1 DEF Loop
    <3>2. x + y + w + (o + b) = u.clock
      BY <2>2, <1>5 DEF GoodTab, Conserved
    <3> HIDE DEF x, y, w
    <3>3. x + y + w + ((o + e) + b) = at
      BY <3>1, <3>2, <1>1, <1>3, <1>5
    <3> QED
      BY <2>2, <3>3, <1>2, <1>5 DEF Conserved, x, y, w
  <2> QED
    BY <2>1, <2>2
<1>7. Busy(z, p, k)
  BY <1>4 DEF Busy
<1> QED
  BY <1>2, <1>4, <1>6, <1>7 DEF GoodTab, Empty, LoadFirst, Answered, Told

(* The broker passes the advance on. *)
LEMMA PassedTab ==
    ASSUME NEW u, NEW s, NEW p, NEW k, NEW m, NEW c, NEW at,
           TabShapes(u, s, p, k, m), GoodTab(u, s, p, k, m, c, at), s # None,
           NEW r, r = Append(p, [kind |-> "advance", by |-> s])
    PROVE  GoodTab(u, None, r, k, m, c, at) /\ r \in Seq(Messages)
<1> DEFINE x == [kind |-> "advance", by |-> s]
<1>1. x \in Messages /\ x.kind = "advance" /\ x.by = s /\ s \in Advance
  BY DEF TabShapes, Messages
<1>2. p \in Seq(Messages) /\ u.doc # 0
  BY OwnedTab DEF TabShapes
<1> HIDE DEF x
<1>3. r = Append(p, x)
  BY DEF x
<1>4. /\ r \in Seq(Messages) /\ r # <<>> /\ DOMAIN p \subseteq DOMAIN r
      /\ DOMAIN r = DOMAIN p \cup {Len(p) + 1} /\ Len(p) \in Nat
      /\ DOMAIN p = 1 .. Len(p) /\ r[Len(p) + 1] = x
      /\ \A i \in DOMAIN p : r[i] = p[i] /\ i <= Len(p)
  BY <1>1, <1>2, <1>3, Piped
<1>5. Owed(None, r) = Owed(s, p)
  <2>1. Elapsed(r) = Elapsed(p) + s.elapsed
    BY <1>1, <1>2, <1>3, ElapsedAppend DEF Weight
  <2>2. s.elapsed \in Nat /\ Elapsed(p) \in Nat
    BY <1>1, <1>2, ElapsedNat DEF Advance
  <2>3. Owed(None, r) = 0 + Elapsed(r) /\ Owed(s, p) = s.elapsed + Elapsed(p)
    BY DEF Owed
  <2> QED
    BY <2>1, <2>2, <2>3
<1>6. Busy(None, r, k) /\ Busy(s, p, k)
  <2>1. Len(p) + 1 \in DOMAIN r /\ r[Len(p) + 1].kind = "advance"
    BY <1>1, <1>4
  <2> QED
    BY <2>1 DEF Busy
<1>7. p # <<>> => r[1] = p[1]
  <2>1. p # <<>> => 1 \in DOMAIN p
    BY <1>2, <1>4, EmptySeq
  <2> QED
    BY <2>1, <1>4
<1>8. LoadFirst(u, r, k)
  <2>1. \A i \in DOMAIN r : r[i].kind = "load" => i \in DOMAIN p /\ p[i].kind = "load"
    BY <1>1, <1>4
  <2> QED
    BY <2>1, <1>4, <1>7 DEF GoodTab, LoadFirst
<1>9. Conserved(u, None, r, k, at)
  BY <1>5, <1>7 DEF GoodTab, Conserved, LoadFirst
<1>10. Answered(u, None, r, k, m, c) /\ Told(u, None, r, k, m, c)
  BY <1>6 DEF Answered, Told
<1> QED
  BY <1>2, <1>4, <1>8, <1>9, <1>10 DEF GoodTab, Empty

(* A tab without a document. *)
LEMMA EmptyTab ==
    ASSUME NEW u, u.doc = 0, NEW c, NEW at, u.pending => c
    PROVE  GoodTab(u, None, <<>>, None, <<>>, c, at)
  BY DEF GoodTab, Empty, LoadFirst, Conserved, Answered, Told

(* A tab without a document starts to load one. *)
LEMMA LoadingTab ==
    ASSUME NEW u \in Records, u.doc = 0, NEW s, NEW p, NEW k, NEW m, NEW c, NEW at,
           GoodTab(u, s, p, k, m, c, at), NEW v, v = [u EXCEPT !.loading = TRUE]
    PROVE  GoodTab(v, s, p, k, m, c, at) /\ v \in Records /\ v.doc = 0
<1>1. v \in Records /\ v.doc = u.doc /\ v.pending = u.pending
  BY DEF Records
<1>2. s = None /\ p = <<>> /\ k = None /\ m = <<>>
  BY DEF GoodTab, Empty
<1>3. v.pending => c
  BY <1>1, <1>2 DEF GoodTab, Answered, Busy, Marked
<1> QED
  BY <1>1, <1>2, <1>3, EmptyTab

(* A document is submitted at this instant. *)
LEMMA SubmitTab ==
    ASSUME NEW u, NEW s, NEW p, NEW k, NEW m, NEW c, NEW at \in Nat,
           TabShapes(u, s, p, k, m), GoodTab(u, s, p, k, m, c, at), u.loading,
           NEW v, v.doc # 0, ~v.loading, v.clock = at, ~v.pending,
           NEW r, r = Append(p, [kind |-> "load", at |-> at])
    PROVE  GoodTab(v, s, r, k, m, c, at) /\ r \in Seq(Messages)
<1> DEFINE x == [kind |-> "load", at |-> at]
<1>1. x \in Messages /\ x.kind = "load" /\ x.at = at
  BY DEF Messages
<1>2. s = None /\ p = <<>> /\ k = None /\ m = <<>>
  BY DEF GoodTab, Empty
<1>3. p \in Seq(Messages) /\ Len(p) = 0
  BY <1>2
<1> HIDE DEF x
<1>4. r = Append(p, x)
  BY DEF x
<1>5. /\ r \in Seq(Messages) /\ r # <<>> /\ DOMAIN r = {1} /\ r[1] = x
  <2>1. DOMAIN p = {}
    BY <1>2
  <2> QED
    BY <1>1, <1>3, <1>4, <2>1, Piped
<1>6. Elapsed(r) = 0 + 0
  BY <1>1, <1>2, <1>3, <1>4, ElapsedAppend, ElapsedEmpty DEF Weight
<1>7. Owed(s, r) = 0
  BY <1>2, <1>6 DEF Owed
<1>8. r[1].at + Owed(s, r) = v.clock
  BY <1>1, <1>5, <1>7
<1> QED
  BY <1>1, <1>2, <1>5, <1>8 DEF GoodTab, Empty, LoadFirst, Conserved, Answered, Told

(* Time passes over a tab. *)
LEMMA TickTab ==
    ASSUME NEW u, NEW s, NEW p, NEW k, NEW m, NEW c, NEW at \in Nat,
           GoodTab(u, s, p, k, m, c, at), NEW b \in Nat, at <= b
    PROVE  GoodTab(u, s, p, k, m, c, b)
<1>1. Conserved(u, s, p, k, b)
  <2>1. u.doc # 0 => u.clock \in Nat /\ u.clock <= at
    BY DEF GoodTab, Conserved
  <2>2. u.doc # 0 => u.clock <= b
    BY <2>1
  <2> QED
    BY <2>1, <2>2 DEF GoodTab, Conserved
<1>2. k # None => GoodLoop(k, b)
  <2> SUFFICES ASSUME k # None PROVE GoodLoop(k, b)
    OBVIOUS
  <2>1. GoodLoop(k, at) /\ k.sampled \in Nat /\ k.sampled <= at
    BY DEF GoodTab, GoodLoop, Loop
  <2>2. k.sampled <= b
    BY <2>1
  <2> QED
    BY <2>1, <2>2 DEF GoodLoop
<1> QED
  BY <1>1, <1>2 DEF GoodTab

-----------------------------------------------------------------------------
(* The foreground tab's wakeup and what its renderer hears.                *)

(* The wakeup the shell installs keeps its promise, whatever it was before. *)
LEMMA Rescheduled ==
    ASSUME now \in Nat, NEW us, NEW f \in Tabs, us[f] \in Records,
           us[f].doc # 0 => us[f].clock \in Nat, NEW w \in Wakeup \cup {None},
           NEW r, r = schedule_script_runtime_wakeup(us, f, w)
    PROVE  r \in Wakeup \cup {None} /\ Promised(f, us[f], r, now)
<1> DEFINE u == us[f]
<1>1. /\ u.doc \in Nat /\ u.next \in Nat \cup {None} /\ u.pending \in BOOLEAN
      /\ u.doc # 0 => u.clock \in Nat
  BY ClockAssumption DEF Records
<1>2. CASE u.pending \/ u.doc = 0 \/ u.next = None
  <2>1. r = None
    BY <1>2 DEF schedule_script_runtime_wakeup
  <2> QED
    BY <1>2, <2>1 DEF Promised
<1>3. CASE ~(u.pending \/ u.doc = 0 \/ u.next = None)
  <2>1. u.clock \in Nat /\ u.clock # None /\ u.next \in Nat
    BY <1>1, <1>3, NoneIsNoNumber
  <2> DEFINE late == Later(now, u.clock + u.next)
             asked == [tab |-> f, doc |-> u.doc, deadline |-> late]
  <2>2. late \in Nat
    BY <2>1 DEF Later
  <2>3. r = IF /\ w # None /\ w.tab = f /\ w.doc = u.doc /\ w.deadline <= asked.deadline
            THEN w ELSE asked
    BY <1>3, <2>1 DEF schedule_script_runtime_wakeup
  <2> HIDE DEF late
  <2>4. asked \in Wakeup /\ asked.deadline = late /\ asked.tab = f /\ asked.doc = u.doc
    BY <1>1, <2>2 DEF Wakeup
  <2>5. late <= late
    BY <2>2
  <2> HIDE DEF asked
  <2>6. r \in Wakeup /\ r.tab = f /\ r.doc = u.doc /\ r.deadline <= late
    BY <2>3, <2>4, <2>5
  <2> HIDE DEF u
  <2>7. r.deadline <= Later(now, u.clock + u.next)
    BY <2>6 DEF late
  <2>8. r # None
    BY <2>6, NoneIsNoRecord
  <2> QED
    BY <1>3, <2>6, <2>7, <2>8 DEF Promised, u
<1> QED
  BY <1>2, <1>3

(* Time passes over a promise. *)
LEMMA PromiseKept ==
    ASSUME NEW f, NEW u \in Records, NEW w \in Wakeup \cup {None}, NEW at \in Nat,
           NEW b \in Nat, at <= b, u.doc # 0 => u.clock \in Nat, Promised(f, u, w, at)
    PROVE  Promised(f, u, w, b)
<1> SUFFICES ASSUME u.doc # 0, ~u.pending, u.next # None
             PROVE  w # None /\ w.deadline <= Later(b, u.clock + u.next)
  BY DEF Promised
<1> DEFINE d == w.deadline
           e == u.clock + u.next
<1>1. w # None /\ d <= Later(at, e)
  BY DEF Promised
<1>2. d \in Nat /\ e \in Nat
  BY <1>1 DEF Records, Wakeup
<1> HIDE DEF d, e
<1>3. d <= Later(b, e)
  BY <1>1, <1>2 DEF Later
<1> QED
  BY <1>1, <1>3 DEF d, e

(* The renderer is told that its page is visible. *)
LEMMA ShownTold ==
    ASSUME NEW p \in Seq(Messages), NEW r, r = Append(p, Lifecycle(TRUE)), NEW k
    PROVE  Shown(r, k)
<1> DEFINE x == Lifecycle(TRUE)
<1>1. x \in Messages /\ x.kind = "lifecycle" /\ x.visible
  BY DEF Lifecycle, Messages
<1> HIDE DEF x
<1>2. r = Append(p, x)
  BY DEF x
<1>3. /\ DOMAIN r = DOMAIN p \cup {Len(p) + 1} /\ Len(p) \in Nat
      /\ r[Len(p) + 1] = x /\ \A i \in DOMAIN p : i <= Len(p)
      /\ DOMAIN p = 1 .. Len(p)
  BY <1>1, <1>2, Piped
<1>4. \A j \in DOMAIN r : ~(j > Len(p) + 1)
  BY <1>3
<1>5. Len(p) + 1 \in DOMAIN r
  BY <1>3
<1> QED
  BY <1>1, <1>3, <1>4, <1>5 DEF Shown

(* Something else is sent to the renderer. *)
LEMMA ShownSent ==
    ASSUME NEW p \in Seq(Messages), NEW k, Shown(p, k),
           NEW x \in Messages, x.kind # "lifecycle", NEW r, r = Append(p, x)
    PROVE  Shown(r, k)
<1>1. /\ DOMAIN p \subseteq DOMAIN r
      /\ DOMAIN r = DOMAIN p \cup {Len(p) + 1} /\ r[Len(p) + 1] = x
      /\ \A i \in DOMAIN p : r[i] = p[i]
  BY Piped
<1> QED
  BY <1>1 DEF Shown

(* The renderer hears the head of its pipe. *)
LEMMA ShownHeard ==
    ASSUME NEW p \in Seq(Messages), p # <<>>, NEW k, Shown(p, k), NEW r, r = Tail(p),
           NEW l, p[1].kind = "lifecycle" => l.visible = p[1].visible,
           p[1].kind # "lifecycle" => l.visible \/ (k # None /\ l.visible = k.visible)
    PROVE  Shown(r, l)
<1>1. /\ 1 \in DOMAIN p
      /\ \A i \in DOMAIN r : i \in Nat /\ i + 1 \in DOMAIN p /\ r[i] = p[i + 1]
      /\ \A i \in DOMAIN p : i \in Nat /\ (i # 1 => i - 1 \in DOMAIN r /\ r[i - 1] = p[i])
  BY Unpiped
<1>2. r \in Seq(Messages)
  BY Unpiped
<1>3. \A i \in DOMAIN r : i \in Nat /\ i > 0
  BY <1>2, LenProperties
<1>4. CASE \E i \in DOMAIN p : /\ i # 1 /\ p[i].kind = "lifecycle" /\ p[i].visible
                               /\ \A j \in DOMAIN p : j > i => p[j].kind # "lifecycle"
  <2>1. PICK i \in DOMAIN p : /\ i # 1 /\ p[i].kind = "lifecycle" /\ p[i].visible
                              /\ \A j \in DOMAIN p : j > i => p[j].kind # "lifecycle"
    BY <1>4
  <2>2. i - 1 \in DOMAIN r /\ r[i - 1] = p[i] /\ i \in Nat
    BY <1>1, <2>1
  <2>3. ASSUME NEW j \in DOMAIN r, j > i - 1 PROVE r[j].kind # "lifecycle"
    <3>1. j + 1 \in DOMAIN p /\ r[j] = p[j + 1] /\ j \in Nat
      BY <1>1
    <3>2. j + 1 > i
      BY <2>2, <2>3, <3>1
    <3> QED
      BY <2>1, <3>1, <3>2
  <2> QED
    BY <2>1, <2>2, <2>3 DEF Shown
<1>5. CASE /\ p[1].kind = "lifecycle" /\ p[1].visible
           /\ \A j \in DOMAIN p : j > 1 => p[j].kind # "lifecycle"
  <2>1. ASSUME NEW j \in DOMAIN r PROVE r[j].kind # "lifecycle"
    <3>1. j + 1 \in DOMAIN p /\ r[j] = p[j + 1] /\ j + 1 > 1
      BY <1>1, <1>3
    <3> QED
      BY <1>5, <3>1
  <2> QED
    BY <1>5, <2>1 DEF Shown
<1>6. CASE (\A i \in DOMAIN p : p[i].kind # "lifecycle") /\ (k # None => k.visible)
  <2>1. ASSUME NEW j \in DOMAIN r PROVE r[j].kind # "lifecycle"
    <3>1. j + 1 \in DOMAIN p /\ r[j] = p[j + 1]
      BY <1>1
    <3> QED
      BY <1>6, <3>1
  <2> QED
    BY <1>1, <1>6, <2>1 DEF Shown
<1> QED
  BY <1>4, <1>5, <1>6 DEF Shown

(* The renderer sends itself an advance. *)
LEMMA ShownOwn ==
    ASSUME NEW p \in Seq(Messages), NEW k, Shown(p, k), NEW r \in Seq(Messages),
           r # <<>>, r[1] = Own, Tail(r) = p, NEW l, k # None, l.visible = k.visible
    PROVE  Shown(r, l)
<1>1. /\ 1 \in DOMAIN r
      /\ \A i \in DOMAIN p : i \in Nat /\ i + 1 \in DOMAIN r /\ p[i] = r[i + 1]
      /\ \A i \in DOMAIN r : i \in Nat /\ (i # 1 => i - 1 \in DOMAIN p /\ p[i - 1] = r[i])
  BY Unpiped
<1>2. r[1].kind # "lifecycle"
  BY DEF Own
<1>3. CASE \E i \in DOMAIN p :
          /\ p[i].kind = "lifecycle" /\ p[i].visible
          /\ \A j \in DOMAIN p : j > i => p[j].kind # "lifecycle"
  <2>1. PICK i \in DOMAIN p :
          /\ p[i].kind = "lifecycle" /\ p[i].visible
          /\ \A j \in DOMAIN p : j > i => p[j].kind # "lifecycle"
    BY <1>3
  <2>2. i + 1 \in DOMAIN r /\ r[i + 1] = p[i] /\ i \in Nat
    BY <1>1
  <2>3. ASSUME NEW j \in DOMAIN r, j > i + 1 PROVE r[j].kind # "lifecycle"
    <3>1. j \in Nat /\ j # 1 /\ j - 1 > i
      BY <1>1, <2>2, <2>3
    <3>2. j - 1 \in DOMAIN p /\ p[j - 1] = r[j]
      BY <3>1, <1>1
    <3> QED
      BY <2>1, <3>1, <3>2
  <2> QED
    BY <2>1, <2>2, <2>3 DEF Shown
<1>4. CASE (\A i \in DOMAIN p : p[i].kind # "lifecycle") /\ k.visible
  <2>1. ASSUME NEW j \in DOMAIN r, j # 1 PROVE r[j].kind # "lifecycle"
    <3>1. j - 1 \in DOMAIN p /\ p[j - 1] = r[j]
      BY <1>1, <2>1
    <3> QED
      BY <1>4, <3>1
  <2> QED
    BY <1>2, <1>4, <2>1 DEF Shown
<1> QED
  BY <1>3, <1>4 DEF Shown

-----------------------------------------------------------------------------
(* The invariant after a step.                                             *)

(* The tabs other than t stay as they are. *)
OnlyTab(t) ==
    \A x \in Tabs \ {t} :
        /\ ui'[x] = ui[x] /\ slot'[x] = slot[x] /\ pipe'[x] = pipe[x]
        /\ kid'[x] = kid[x] /\ mail'[x] = mail[x] /\ cut'[x] = cut[x]

(* A step disturbs one tab. *)
LEMMA TabStep ==
    ASSUME Ind, NEW t \in Tabs, Shapes', OnlyTab(t), now' = now,
           GoodTab(ui'[t], slot'[t], pipe'[t], kid'[t], mail'[t], cut'[t], now),
           opened \subseteq opened', t \notin opened' => Closed(ui'[t]),
           Promised(front', ui'[front'], wake', now), Shown(pipe'[front'], kid'[front'])
    PROVE  Ind'
<1>1. \A x \in Tabs :
         GoodTab(ui'[x], slot'[x], pipe'[x], kid'[x], mail'[x], cut'[x], now')
  BY DEF Ind, OnlyTab
<1>2. \A x \in Tabs \ opened' : Closed(ui'[x])
  BY DEF Ind, OnlyTab
<1>3. Promised(front', ui'[front'], wake', now')
  OBVIOUS
<1> QED
  BY <1>1, <1>2, <1>3 DEF Ind

(* A step of a tab's broker or renderer, of which the window sees nothing. *)
LEMMA ChildStep ==
    ASSUME Ind, NEW t \in Tabs, Shapes', OnlyTab(t), UNCHANGED <<now, uiVars>>,
           GoodTab(ui[t], slot'[t], pipe'[t], kid'[t], mail'[t], cut'[t], now),
           Shown(pipe[t], kid[t]) => Shown(pipe'[t], kid'[t])
    PROVE  Ind'
<1>1. ui' = ui /\ opened' = opened /\ front' = front /\ wake' = wake /\ now' = now
  BY DEF uiVars
<1>2. Shown(pipe[front], kid[front]) /\ front \in Tabs /\ Promised(front, ui[front], wake, now)
  BY DEF Ind, Shapes
<1>3. Shown(pipe'[front], kid'[front])
  <2>1. CASE front = t
    BY <1>2, <2>1
  <2>2. CASE front # t
    BY <1>2, <2>2 DEF OnlyTab
  <2> QED
    BY <2>1, <2>2
<1>4. t \notin opened' => Closed(ui'[t])
  BY <1>1 DEF Ind
<1> QED
  BY <1>1, <1>2, <1>3, <1>4, TabStep

(* What is there of a tab. *)
LEMMA TabNow ==
    ASSUME Ind, NEW t \in Tabs
    PROVE  /\ TabShapes(ui[t], slot[t], pipe[t], kid[t], mail[t])
           /\ GoodTab(ui[t], slot[t], pipe[t], kid[t], mail[t], cut[t], now)
           /\ kid[t] # None => GoodLoop(kid[t], now)
           /\ pipe[t] \in Seq(Messages) /\ mail[t] \in Seq(Updates)
           /\ cut[t] \in BOOLEAN /\ now \in Nat /\ left \in Budgets
           /\ ui[t].doc # 0 => ui[t].clock \in Nat /\ ui[t].clock <= now
<1>1. /\ TabShapes(ui[t], slot[t], pipe[t], kid[t], mail[t])
      /\ GoodTab(ui[t], slot[t], pipe[t], kid[t], mail[t], cut[t], now)
  BY DEF Ind, Shapes, TabShapes
<1>2. now \in Nat /\ left \in Budgets /\ cut[t] \in BOOLEAN
  BY ClockAssumption DEF Ind, Shapes
<1> QED
  BY <1>1, <1>2 DEF GoodTab, TabShapes, Conserved

(* Something happens that the model bounds. *)
LEMMA Spent ==
    ASSUME left \in Budgets
    PROVE  /\ Happens("event") => left' \in Budgets
           /\ Happens("switch") => left' \in Budgets
           /\ Happens("document") => left' \in Budgets /\ left.document # 0
           /\ left.event > 0 => [left EXCEPT !.event = left.event - 1] \in Budgets
<1>1. /\ left.event \in Nat /\ left.switch \in Nat /\ left.document \in 0 .. MaxDocuments
      /\ MaxDocuments \in Nat
  BY ClockAssumption DEF Budgets
<1>2. left.event > 0 => left.event - 1 \in Nat
  BY <1>1
<1>3. left.switch > 0 => left.switch - 1 \in Nat
  BY <1>1
<1>4. left.document > 0 => left.document - 1 \in 0 .. MaxDocuments /\ left.document # 0
  BY <1>1
<1>5. Happens("event") => left.event > 0 /\ left' = [left EXCEPT !.event = left.event - 1]
  BY DEF Happens
<1>6. Happens("switch") => left.switch > 0 /\ left' = [left EXCEPT !.switch = left.switch - 1]
  BY DEF Happens
<1>7. Happens("document") =>
         left.document > 0 /\ left' = [left EXCEPT !.document = left.document - 1]
  BY DEF Happens
<1>8. left.event > 0 => [left EXCEPT !.event = left.event - 1] \in Budgets
  BY <1>2 DEF Budgets
<1>9. left.switch > 0 => [left EXCEPT !.switch = left.switch - 1] \in Budgets
  BY <1>3 DEF Budgets
<1>10. left.document > 0 => [left EXCEPT !.document = left.document - 1] \in Budgets
  BY <1>4 DEF Budgets
<1> QED
  BY <1>4, <1>5, <1>6, <1>7, <1>8, <1>9, <1>10

(* Script has run in the loop of a tab. *)
LEMMA Ran ==
    ASSUME Ind, NEW t \in Tabs, NEW k, GoodLoop(k, now), NEW b \in Budgets,
           NEW s \in Scripts(k), s.made <= b.timer,
           left' = [b EXCEPT !.timer = b.timer - s.made],
           kid' = [kid EXCEPT ![t] = s.loop]
    PROVE  /\ left' \in Budgets /\ kid' \in [Tabs -> Loop \cup {None}]
           /\ GoodLoop(kid'[t], now) /\ SameTime(k, kid'[t]) /\ kid'[t].visible = k.visible
           /\ next_timer_micros(kid'[t]) \in Nat \cup {None}
           /\ \A x \in Tabs \ {t} : kid'[x] = kid[x]
<1>1. now \in Nat /\ kid \in [Tabs -> Loop \cup {None}]
  BY ClockAssumption DEF Ind, Shapes
<1>2. /\ s.made \in Nat /\ GoodLoop(s.loop, now) /\ SameTime(k, s.loop)
      /\ s.loop.visible = k.visible
  BY <1>1, ScriptGood
<1>3. s.loop \in Loop /\ next_timer_micros(s.loop) \in Nat \cup {None}
  BY <1>2, NextTimerNat DEF GoodLoop
<1>4. left' \in Budgets
  <2>1. b.timer \in Nat
    BY DEF Budgets
  <2>2. b.timer - s.made \in Nat
    BY <1>2, <2>1
  <2> QED
    BY <2>2 DEF Budgets
<1>5. kid'[t] = s.loop /\ \A x \in Tabs \ {t} : kid'[x] = kid[x]
  BY <1>1
<1>6. kid' \in [Tabs -> Loop \cup {None}]
  BY <1>1, <1>3
<1> QED
  BY <1>2, <1>3, <1>4, <1>5, <1>6

(* An update says what its loop asks for. *)
LEMMA Reported ==
    ASSUME NEW kind \in {"paint", "report"}, NEW mark \in BOOLEAN, NEW opens \in BOOLEAN,
           NEW k, next_timer_micros(k) \in Nat \cup {None},
           NEW x, x = Update(kind, mark, k, opens)
    PROVE  x \in Updates /\ x.next = next_timer_micros(k) /\ x.mark = mark
  BY DEF Update, Updates

-----------------------------------------------------------------------------
(* The steps of the renderer process.                                      *)

(* A message leaves the pipe of a tab. *)
LEMMA Left ==
    ASSUME Ind, NEW t \in Tabs, NEW kind, Receives(t, kind)
    PROVE  /\ pipe[t] # <<>> /\ pipe[t][1].kind = kind /\ Head(pipe[t]) = pipe[t][1]
           /\ pipe[t][1] \in Messages
           /\ kid[t] # None => kid[t].turn = None
           /\ pipe'[t] = Tail(pipe[t]) /\ pipe' \in [Tabs -> Seq(Messages)]
           /\ \A x \in Tabs \ {t} : pipe'[x] = pipe[x]
<1>1. pipe \in [Tabs -> Seq(Messages)] /\ pipe[t] \in Seq(Messages)
  BY DEF Ind, Shapes
<1>2. /\ pipe[t] # <<>> /\ Head(pipe[t]).kind = kind
      /\ kid[t] # None => kid[t].turn = None
      /\ pipe' = [pipe EXCEPT ![t] = Tail(pipe[t])]
  BY DEF Receives
<1>3. /\ Tail(pipe[t]) \in Seq(Messages) /\ Head(pipe[t]) = pipe[t][1]
      /\ pipe[t][1] \in Messages
  BY <1>1, <1>2, Unpiped
<1> QED
  BY <1>1, <1>2, <1>3

(* An update joins the mail of a tab. *)
LEMMA Posted ==
    ASSUME Ind, NEW t \in Tabs, NEW x \in Updates,
           mail' = [mail EXCEPT ![t] = coalesce(mail[t], x)]
    PROVE  /\ mail'[t] = coalesce(mail[t], x) /\ mail' \in [Tabs -> Seq(Updates)]
           /\ \A y \in Tabs \ {t} : mail'[y] = mail[y]
<1>1. mail \in [Tabs -> Seq(Updates)] /\ mail[t] \in Seq(Updates)
  BY DEF Ind, Shapes
<1>2. coalesce(mail[t], x) \in Seq(Updates)
  BY <1>1, PostGood
<1> QED
  BY <1>1, <1>2

(* The renderer loads its document. *)
LEMMA IndLoad ==
    ASSUME Ind, NEW t \in Tabs, load_document(t)
    PROVE  Ind'
<1> DEFINE p == pipe[t]
           k == Fresh(p[1].at)
<1>1. /\ p # <<>> /\ p[1].kind = "load" /\ Head(p) = p[1] /\ p[1] \in Messages
      /\ pipe'[t] = Tail(p) /\ pipe' \in [Tabs -> Seq(Messages)]
      /\ \A x \in Tabs \ {t} : pipe'[x] = pipe[x]
  BY Left DEF load_document
<1>2. PICK s \in Scripts(k) : /\ s.made <= left.timer
                              /\ left' = [left EXCEPT !.timer = left.timer - s.made]
                              /\ kid' = [kid EXCEPT ![t] = s.loop]
  BY <1>1 DEF load_document, Run
<1>3. now \in Nat /\ left \in Budgets /\ p \in Seq(Messages) /\ p[1].at \in Nat
  BY <1>1, TabNow DEF Messages
<1>4. /\ GoodLoop(k, now) /\ k.origin = p[1].at /\ k.logical = 0 /\ k.lost = 0
      /\ k.turn = None /\ k.visible
  BY <1>3, FreshGood
<1> HIDE DEF k
<1>5. /\ left' \in Budgets /\ kid' \in [Tabs -> Loop \cup {None}]
      /\ GoodLoop(kid'[t], now) /\ SameTime(k, kid'[t]) /\ kid'[t].visible = k.visible
      /\ next_timer_micros(kid'[t]) \in Nat \cup {None}
      /\ \A x \in Tabs \ {t} : kid'[x] = kid[x]
  BY <1>2, <1>3, <1>4, Ran
<1>6. PICK l, q, n : l = kid'[t] /\ q = pipe'[t] /\ n = mail'[t]
  OBVIOUS
<1> DEFINE x == Update("paint", FALSE, l, FALSE)
<1>7. /\ x \in Updates /\ x.next = next_timer_micros(l)
      /\ GoodLoop(l, now) /\ SameTime(k, l) /\ l.visible = k.visible
  <2>1. /\ next_timer_micros(l) \in Nat \cup {None}
        /\ GoodLoop(l, now) /\ SameTime(k, l) /\ l.visible = k.visible
    BY <1>5, <1>6
  <2> QED
    BY <2>1, Reported
<1>8. /\ mail' = [mail EXCEPT ![t] = coalesce(mail[t], x)]
      /\ UNCHANGED <<now, uiVars, slot, cut>>
  BY <1>6 DEF load_document, Post
<1> HIDE DEF x
<1>9. /\ n = coalesce(mail[t], x) /\ mail' \in [Tabs -> Seq(Updates)]
      /\ \A y \in Tabs \ {t} : mail'[y] = mail[y]
  BY <1>6, <1>7, <1>8, Posted
<1>10. GoodTab(ui[t], slot[t], q, l, n, cut[t], now)
  <2>1. /\ TabShapes(ui[t], slot[t], p, kid[t], mail[t])
        /\ GoodTab(ui[t], slot[t], p, kid[t], mail[t], cut[t], now)
    BY TabNow
  <2>2. l.origin = p[1].at /\ l.logical = 0 /\ l.lost = 0 /\ l.turn = None
    BY <1>4, <1>7 DEF SameTime
  <2>3. q = Tail(p)
    BY <1>1, <1>6
  <2> QED
    BY <2>1, <2>2, <2>3, <1>1, <1>7, <1>9, LoadTab
<1>11. Shown(p, kid[t]) => Shown(q, l)
  <2>1. p # <<>> /\ p[1].kind = "load" /\ l.visible /\ q = Tail(p)
    BY <1>1, <1>4, <1>6, <1>7
  <2> QED
    BY <2>1, <1>1, <1>3, ShownHeard
<1>12. Shapes'
  BY <1>1, <1>5, <1>8, <1>9 DEF Ind, Shapes, uiVars
<1>13. OnlyTab(t)
  BY <1>1, <1>5, <1>8, <1>9 DEF OnlyTab, uiVars
<1>14. /\ GoodTab(ui[t], slot'[t], pipe'[t], kid'[t], mail'[t], cut'[t], now)
       /\ Shown(pipe[t], kid[t]) => Shown(pipe'[t], kid'[t])
  BY <1>6, <1>8, <1>10, <1>11
<1>15. UNCHANGED <<now, uiVars>>
  BY <1>8
<1> QED
  BY <1>12, <1>13, <1>14, <1>15, ChildStep

(* Script has run, and its update follows or nothing waits. *)
LEMMA IndScript ==
    ASSUME Ind, NEW t \in Tabs, kid[t] # None, kid[t].turn = None,
           NEW k, GoodLoop(k, now), SameTime(kid[t], k), NEW b \in Budgets,
           NEW s \in Scripts(k), s.made <= b.timer,
           left' = [b EXCEPT !.timer = b.timer - s.made],
           kid' = [kid EXCEPT ![t] = s.loop],
           presentation_after_user_input(t),
           \/ pipe' = pipe /\ k.visible = kid[t].visible
           \/ Receives(t, "lifecycle") /\ k.visible = pipe[t][1].visible,
           UNCHANGED <<now, uiVars, slot, cut>>
    PROVE  Ind'
<1> DEFINE p == pipe[t]
           m == mail[t]
<1>0. PICK l, q, n : l = kid'[t] /\ q = pipe'[t] /\ n = mail'[t]
  OBVIOUS
<1>1. /\ TabShapes(ui[t], slot[t], p, kid[t], m)
      /\ GoodTab(ui[t], slot[t], p, kid[t], m, cut[t], now)
      /\ p \in Seq(Messages) /\ m \in Seq(Updates)
  BY TabNow
<1>2. /\ left' \in Budgets /\ kid' \in [Tabs -> Loop \cup {None}]
      /\ \A x \in Tabs \ {t} : kid'[x] = kid[x]
      /\ GoodLoop(l, now) /\ SameTime(k, l) /\ l.visible = k.visible
      /\ next_timer_micros(l) \in Nat \cup {None}
  <2>1. /\ left' \in Budgets /\ kid' \in [Tabs -> Loop \cup {None}]
        /\ \A x \in Tabs \ {t} : kid'[x] = kid[x]
        /\ GoodLoop(kid'[t], now) /\ SameTime(k, kid'[t]) /\ kid'[t].visible = k.visible
        /\ next_timer_micros(kid'[t]) \in Nat \cup {None}
    BY Ran
  <2> QED
    BY <2>1, <1>0
<1>3. SameTime(kid[t], l)
  BY <1>2 DEF SameTime
<1>4. /\ \/ \E x \in Updates : x.next = next_timer_micros(l) /\ n = coalesce(m, x)
         \/ next_timer_micros(l) = None /\ n = m
      /\ mail' \in [Tabs -> Seq(Updates)] /\ \A y \in Tabs \ {t} : mail'[y] = mail[y]
  <2>1. CASE next_timer_micros(l) = None /\ UNCHANGED mail
    BY <1>0, <2>1 DEF Ind, Shapes
  <2>2. CASE \E kind \in {"paint", "report"} : Post(t, Update(kind, FALSE, l, FALSE))
    <3>1. PICK kind \in {"paint", "report"} :
                 mail' = [mail EXCEPT ![t] = coalesce(m, Update(kind, FALSE, l, FALSE))]
      BY <2>2 DEF Post
    <3> DEFINE x == Update(kind, FALSE, l, FALSE)
    <3>2. x \in Updates /\ x.next = next_timer_micros(l)
      BY <1>2, Reported, ZenonT(30)
    <3>3. mail' = [mail EXCEPT ![t] = coalesce(mail[t], x)]
      BY <3>1
    <3> HIDE DEF x
    <3>4. /\ mail'[t] = coalesce(m, x) /\ mail' \in [Tabs -> Seq(Updates)]
          /\ \A y \in Tabs \ {t} : mail'[y] = mail[y]
      BY <3>2, <3>3, Posted
    <3> QED
      BY <1>0, <3>2, <3>4
  <2> QED
    BY <1>0, <2>1, <2>2 DEF presentation_after_user_input, Post
<1>5. /\ pipe' \in [Tabs -> Seq(Messages)]
      /\ \A x \in Tabs \ {t} : pipe'[x] = pipe[x]
      /\ \/ q = p /\ k.visible = kid[t].visible
         \/ /\ p # <<>> /\ p[1].kind = "lifecycle" /\ q = Tail(p)
            /\ k.visible = p[1].visible
  <2>1. CASE pipe' = pipe /\ k.visible = kid[t].visible
    BY <1>0, <2>1 DEF Ind, Shapes
  <2>2. CASE Receives(t, "lifecycle") /\ k.visible = pipe[t][1].visible
    BY <1>0, <2>2, Left
  <2> QED
    BY <2>1, <2>2
<1>6. q = p \/ (p # <<>> /\ p[1].kind = "lifecycle" /\ q = Tail(p))
  BY <1>5
<1>7. GoodTab(ui[t], slot[t], q, l, n, cut[t], now)
  <2>1. \/ \E x \in Updates : x.next = next_timer_micros(l) /\ n = coalesce(m, x)
        \/ next_timer_micros(l) = None /\ n = m
    BY <1>4
  <2>2. GoodLoop(l, now)
    BY <1>2
  <2> HIDE DEF p, m
  <2> QED
    BY <1>1, <1>3, <1>6, <2>1, <2>2, ScriptTab
<1>8. Shown(p, kid[t]) => Shown(q, l)
  <2>1. CASE q = p /\ k.visible = kid[t].visible
    BY <2>1, <1>2 DEF Shown
  <2>2. CASE /\ p # <<>> /\ p[1].kind = "lifecycle" /\ q = Tail(p)
             /\ k.visible = p[1].visible
    <3>1. l.visible = p[1].visible
      BY <2>2, <1>2
    <3> QED
      BY <2>2, <3>1, <1>1, ShownHeard
  <2> QED
    BY <1>5, <2>1, <2>2
<1>9. Shapes'
  BY <1>2, <1>4, <1>5 DEF Ind, Shapes, uiVars
<1>10. OnlyTab(t)
  BY <1>2, <1>4, <1>5 DEF OnlyTab, uiVars
<1>11. /\ GoodTab(ui[t], slot'[t], pipe'[t], kid'[t], mail'[t], cut'[t], now)
       /\ Shown(pipe[t], kid[t]) => Shown(pipe'[t], kid'[t])
  BY <1>0, <1>7, <1>8
<1> QED
  BY <1>9, <1>10, <1>11, ChildStep

(* The renderer hears that its page is shown or hidden. *)
LEMMA IndLifecycle ==
    ASSUME Ind, NEW t \in Tabs, apply_lifecycle(t)
    PROVE  Ind'
<1>1. Receives(t, "lifecycle")
  BY DEF apply_lifecycle
<1>2. /\ pipe[t] # <<>> /\ pipe[t][1].kind = "lifecycle" /\ Head(pipe[t]) = pipe[t][1]
      /\ pipe[t][1] \in Messages
      /\ kid[t] # None => kid[t].turn = None
  BY <1>1, Left
<1>3. pipe[t][1].visible \in BOOLEAN
  BY <1>2 DEF Messages
<1>4. kid[t] # None
  BY <1>2, TabNow DEF GoodTab, LoadFirst, Empty
<1> DEFINE k == set_rendering_environment(kid[t], pipe[t][1].visible)
<1>5. PICK s \in Scripts(k) : /\ s.made <= left.timer
                              /\ left' = [left EXCEPT !.timer = left.timer - s.made]
                              /\ kid' = [kid EXCEPT ![t] = s.loop]
  BY <1>2 DEF apply_lifecycle, Run
<1>6. GoodLoop(k, now) /\ SameTime(kid[t], k) /\ k.visible = pipe[t][1].visible
  BY <1>3, <1>4, TabNow, VisibilitySet
<1>7. left \in Budgets
  BY TabNow
<1>8. presentation_after_user_input(t) /\ UNCHANGED <<now, uiVars, slot, cut>>
  BY DEF apply_lifecycle
<1> HIDE DEF k
<1> QED
  BY <1>1, <1>2, <1>4, <1>5, <1>6, <1>7, <1>8, IndScript

(* The user acts on the page. *)
LEMMA IndInteract ==
    ASSUME Ind, NEW t \in Tabs, interact_document(t)
    PROVE  Ind'
<1> DEFINE b == [left EXCEPT !.event = left.event - 1]
           k == kid[t]
<1>1. PICK s \in Scripts(k) : /\ s.made <= b.timer
                              /\ left' = [b EXCEPT !.timer = b.timer - s.made]
                              /\ kid' = [kid EXCEPT ![t] = s.loop]
  BY DEF interact_document, Run
<1>2. k # None /\ k.turn = None /\ left.event > 0
  BY DEF interact_document
<1>3. b \in Budgets
  BY <1>2, TabNow, Spent
<1>4. GoodLoop(k, now) /\ SameTime(kid[t], k)
  BY <1>2, TabNow DEF SameTime
<1>5. presentation_after_user_input(t) /\ UNCHANGED <<now, uiVars, slot, pipe, cut>>
  BY DEF interact_document
<1>6. pipe' = pipe /\ k.visible = kid[t].visible /\ UNCHANGED <<now, uiVars, slot, cut>>
  BY <1>5
<1>7. kid[t] # None /\ kid[t].turn = None
  BY <1>2
<1> HIDE DEF b, k
<1> QED
  BY <1>1, <1>3, <1>4, <1>5, <1>6, <1>7, IndScript

(* A storage event is queued. *)
LEMMA IndStorage ==
    ASSUME Ind, NEW t \in Tabs, synchronize_storage(t)
    PROVE  Ind'
<1> DEFINE p == pipe[t]
           k == kid[t]
           l == [k EXCEPT !.event = TRUE]
           r == <<Own>> \o p
<1>1. /\ TabShapes(ui[t], slot[t], p, k, mail[t])
      /\ GoodTab(ui[t], slot[t], p, k, mail[t], cut[t], now)
      /\ p \in Seq(Messages) /\ left \in Budgets
  BY TabNow
<1>2. /\ k # None /\ Happens("event")
      /\ kid' = [kid EXCEPT ![t] = l] /\ pipe' = [pipe EXCEPT ![t] = r]
      /\ UNCHANGED <<now, uiVars, slot, mail, cut>>
  BY DEF synchronize_storage, Own
<1>3. GoodLoop(k, now) /\ k \in Loop
  BY <1>2, TabNow DEF GoodLoop
<1>4. /\ l \in Loop /\ SameTime(k, [l EXCEPT !.event = k.event])
      /\ l.tasks = k.tasks /\ l.frame = k.frame /\ l.visible = k.visible /\ l.seq = k.seq
      /\ l.sampled = k.sampled
      /\ l.origin = k.origin /\ l.logical = k.logical /\ l.lost = k.lost
  BY <1>3 DEF Loop, SameTime
<1> HIDE DEF l
<1>5. GoodLoop(l, now)
  BY <1>3, <1>4, SameTasks DEF GoodLoop
<1> HIDE DEF p, k
<1>6. /\ GoodTab(ui[t], slot[t], r, l, mail[t], cut[t], now)
      /\ r \in Seq(Messages) /\ r # <<>> /\ r[1] = Own /\ Tail(r) = p
  <2>1. r = <<Own>> \o p
    OBVIOUS
  <2> HIDE DEF r
  <2> QED
    <3>1. k # None /\ l.origin = k.origin /\ l.logical = k.logical /\ l.lost = k.lost
      BY <1>2, <1>4
    <3>2. GoodTab(ui[t], slot[t], r, l, mail[t], cut[t], now)
      BY <1>1, <1>5, <2>1, <3>1, StorageTab
    <3>3. r \in Seq(Messages) /\ r # <<>> /\ r[1] = Own /\ Tail(r) = p
      BY <1>1, <1>5, <2>1, <3>1, StorageTab, SMTT(30)
    <3> QED
      BY <3>2, <3>3
<1> HIDE DEF r
<1>7. Shown(p, k) => Shown(r, l)
  BY <1>1, <1>2, <1>4, <1>6, ShownOwn
<1>8. kid'[t] = l /\ pipe'[t] = r
  BY <1>2 DEF Ind, Shapes
<1>9. left' \in Budgets
  BY <1>1, <1>2, Spent
<1>10. Shapes'
  BY <1>2, <1>4, <1>6, <1>9 DEF Ind, Shapes, uiVars
<1>11. OnlyTab(t)
  BY <1>2 DEF OnlyTab, uiVars, Ind, Shapes
<1>12. UNCHANGED <<now, uiVars>>
  BY <1>2
<1>13. /\ GoodTab(ui[t], slot'[t], pipe'[t], kid'[t], mail'[t], cut'[t], now)
       /\ Shown(pipe[t], kid[t]) => Shown(pipe'[t], kid'[t])
  BY <1>2, <1>6, <1>7, <1>8 DEF p, k
<1> QED
  BY <1>10, <1>11, <1>12, <1>13, ChildStep

(* The time of an advance reaches the loop. *)
LEMMA IndAdvance ==
    ASSUME Ind, NEW t \in Tabs, advance_document(t)
    PROVE  Ind'
<1> DEFINE p == pipe[t]
           k == kid[t]
           by == p[1].by
           step == Sooner(by.elapsed, Clamp)
           sampled == IF step > 0 THEN now ELSE k.sampled
           l == [k EXCEPT !.logical = k.logical + step,
                          !.lost = k.lost + by.elapsed - step,
                          !.sampled = sampled, !.turn = by.callbacks]
<1>1. /\ TabShapes(ui[t], slot[t], p, k, mail[t])
      /\ GoodTab(ui[t], slot[t], p, k, mail[t], cut[t], now)
      /\ p \in Seq(Messages) /\ left \in Budgets /\ now \in Nat
  BY TabNow
<1>2. /\ p # <<>> /\ p[1].kind = "advance" /\ Head(p) = p[1]
      /\ pipe'[t] = Tail(p) /\ pipe' \in [Tabs -> Seq(Messages)]
      /\ \A x \in Tabs \ {t} : pipe'[x] = pipe[x]
  BY Left DEF advance_document
<1>3. k # None /\ by \in Advance
  <2>1. Tail(p) = Tail(p)
    OBVIOUS
  <2> HIDE DEF p, k
  <2> QED
    BY <1>1, <1>2, <2>1, AdvanceHeard
<1>4. GoodLoop(k, now) /\ k \in Loop /\ k.sampled <= now
  BY <1>3, TabNow DEF GoodLoop
<1>5. kid' = [kid EXCEPT ![t] = l] /\ UNCHANGED <<now, uiVars, slot, mail, left, cut>>
  BY <1>2 DEF advance_document
<1>6. /\ k.logical \in Nat /\ k.lost \in Nat /\ k.sampled \in Nat /\ by.elapsed \in Nat
      /\ by.callbacks \in Nat /\ by.callbacks # None
  BY <1>3, <1>4, NoneIsNoNumber DEF Loop, Advance
<1> HIDE DEF k, by
<1>7. step \in Nat /\ step <= by.elapsed
  BY <1>6, ClockAssumption DEF Sooner
<1>8. sampled \in Nat /\ sampled <= now
  BY <1>1, <1>4, <1>6
<1> HIDE DEF step, sampled
<1>9. /\ k.logical + step \in Nat /\ k.lost + by.elapsed - step \in Nat
      /\ (k.logical + step) + (k.lost + by.elapsed - step) = k.logical + k.lost + by.elapsed
  BY <1>6, <1>7
<1>10. /\ l \in Loop /\ l.tasks = k.tasks /\ l.frame = k.frame /\ l.visible = k.visible
       /\ l.seq = k.seq /\ l.sampled <= now
       /\ l.origin = k.origin /\ l.turn # None
       /\ l.logical = k.logical + step /\ l.lost = k.lost + by.elapsed - step
  BY <1>4, <1>6, <1>8, <1>9 DEF Loop
<1>11. l.logical + l.lost = k.logical + k.lost + p[1].by.elapsed
  BY <1>9, <1>10 DEF by
<1> HIDE DEF l
<1>12. GoodLoop(l, now)
  BY <1>4, <1>10, SameTasks
<1> DEFINE r == Tail(p)
<1>13. GoodTab(ui[t], slot[t], r, l, mail[t], cut[t], now)
  <2>1. r = Tail(p)
    OBVIOUS
  <2> HIDE DEF r
  <2> HIDE DEF p
  <2> QED
    BY <1>1, <1>2, <1>10, <1>11, <1>12, <2>1, AdvanceTab
<1>14. Shown(p, k) => Shown(r, l)
  BY <1>1, <1>2, <1>3, <1>10, ShownHeard, ZenonT(30)
<1>15. kid'[t] = l
  BY <1>5 DEF Ind, Shapes
<1>16. Shapes'
  BY <1>2, <1>5, <1>10 DEF Ind, Shapes, uiVars
<1>17. OnlyTab(t)
  BY <1>2, <1>5 DEF OnlyTab, uiVars, Ind, Shapes
<1>18. UNCHANGED <<now, uiVars>>
  BY <1>5
<1>19. /\ GoodTab(ui[t], slot'[t], pipe'[t], kid'[t], mail'[t], cut'[t], now)
       /\ Shown(pipe[t], kid[t]) => Shown(pipe'[t], kid'[t])
  BY <1>2, <1>5, <1>13, <1>14, <1>15 DEF k
<1> QED
  BY <1>16, <1>17, <1>18, <1>19, ChildStep

(* The document is loaded again, for another encoding. *)
LEMMA IndRestart ==
    ASSUME Ind, NEW t \in Tabs, restart_encoding(t)
    PROVE  Ind'
<1> DEFINE p == pipe[t]
           old == kid[t]
           at == old.origin + old.logical + old.lost + p[1].by.elapsed
           k == Fresh(at)
           b == [left EXCEPT !.event = left.event - 1]
<1>1. /\ TabShapes(ui[t], slot[t], p, old, mail[t])
      /\ GoodTab(ui[t], slot[t], p, old, mail[t], cut[t], now)
      /\ p \in Seq(Messages) /\ left \in Budgets /\ now \in Nat
  BY TabNow
<1>2. /\ p # <<>> /\ p[1].kind = "advance" /\ Head(p) = p[1]
      /\ pipe'[t] = Tail(p) /\ pipe' \in [Tabs -> Seq(Messages)]
      /\ \A x \in Tabs \ {t} : pipe'[x] = pipe[x]
  BY Left DEF restart_encoding
<1>3. /\ left.event > 0 /\ cut' = [cut EXCEPT ![t] = TRUE] /\ UNCHANGED <<now, uiVars, slot>>
  BY DEF restart_encoding
<1>4. PICK s \in Scripts(k) : /\ s.made <= b.timer
                              /\ left' = [b EXCEPT !.timer = b.timer - s.made]
                              /\ kid' = [kid EXCEPT ![t] = s.loop]
  BY <1>2 DEF restart_encoding, Run
<1>5. b \in Budgets
  BY <1>1, <1>3, Spent
<1> HIDE DEF b
<1>6. old # None /\ p[1].by \in Advance
  <2>1. Tail(p) = Tail(p)
    OBVIOUS
  <2> HIDE DEF p, old
  <2> QED
    BY <1>1, <1>2, <2>1, AdvanceHeard
<1>7. at \in Nat
  <2>1. old \in Loop
    BY <1>1, <1>6 DEF TabShapes
  <2>2. old.origin \in Nat /\ old.logical \in Nat /\ old.lost \in Nat /\ p[1].by.elapsed \in Nat
    BY <1>6, <2>1 DEF Loop, Advance
  <2> QED
    BY <2>2
<1> HIDE DEF at
<1>8. /\ GoodLoop(k, now) /\ k.origin = at /\ k.logical = 0 /\ k.lost = 0 /\ k.visible
  BY <1>1, <1>7, FreshGood
<1> HIDE DEF k
<1>9. PICK l, n : l = kid'[t] /\ n = mail'[t]
  OBVIOUS
<1>10. /\ left' \in Budgets /\ kid' \in [Tabs -> Loop \cup {None}]
       /\ \A x \in Tabs \ {t} : kid'[x] = kid[x]
       /\ GoodLoop(l, now) /\ SameTime(k, l) /\ l.visible = k.visible
       /\ next_timer_micros(l) \in Nat \cup {None}
  <2>1. /\ left' \in Budgets /\ kid' \in [Tabs -> Loop \cup {None}]
        /\ \A x \in Tabs \ {t} : kid'[x] = kid[x]
        /\ GoodLoop(kid'[t], now) /\ SameTime(k, kid'[t]) /\ kid'[t].visible = k.visible
        /\ next_timer_micros(kid'[t]) \in Nat \cup {None}
    BY <1>4, <1>5, <1>8, Ran
  <2> QED
    BY <2>1, <1>9
<1> DEFINE x == Update("paint", FALSE, l, FALSE)
<1>11. x \in Updates /\ x.next = next_timer_micros(l)
  BY <1>10, Reported
<1>12. mail' = [mail EXCEPT ![t] = coalesce(mail[t], x)]
  BY <1>9 DEF restart_encoding, Post
<1> HIDE DEF x
<1>13. /\ n = coalesce(mail[t], x) /\ mail' \in [Tabs -> Seq(Updates)]
       /\ \A y \in Tabs \ {t} : mail'[y] = mail[y]
  BY <1>9, <1>11, <1>12, Posted
<1>14. l.logical = 0 /\ l.lost = 0 /\ l.origin = at
  BY <1>8, <1>10 DEF SameTime
<1> DEFINE r == Tail(p)
<1>15. GoodTab(ui[t], slot[t], r, l, n, TRUE, now)
  <2>1. r = Tail(p) /\ l.origin = old.origin + old.logical + old.lost + p[1].by.elapsed
    BY <1>14 DEF at
  <2>2. GoodLoop(l, now) /\ l.logical = 0 /\ l.lost = 0
    BY <1>10, <1>14
  <2>3. x \in Updates /\ x.next = next_timer_micros(l) /\ n = coalesce(mail[t], x)
    BY <1>11, <1>13
  <2>4. p # <<>> /\ p[1].kind = "advance"
    BY <1>2
  <2> HIDE DEF r
  <2> HIDE DEF p, old
  <2> QED
    BY <1>1, <2>1, <2>2, <2>3, <2>4, RestartTab
<1>16. Shown(p, old) => Shown(r, l)
  <2>1. l.visible /\ p[1].kind # "lifecycle"
    BY <1>2, <1>8, <1>10
  <2> QED
    BY <1>1, <1>2, <2>1, ShownHeard
<1>17. Shapes'
  BY <1>2, <1>3, <1>10, <1>13 DEF Ind, Shapes, uiVars
<1>18. OnlyTab(t)
  BY <1>2, <1>3, <1>10, <1>13 DEF OnlyTab, uiVars, Ind, Shapes
<1>19. UNCHANGED <<now, uiVars>>
  BY <1>3
<1>20. cut'[t] = TRUE
  BY <1>3 DEF Ind, Shapes
<1>21. /\ GoodTab(ui[t], slot'[t], pipe'[t], kid'[t], mail'[t], cut'[t], now)
       /\ Shown(pipe[t], kid[t]) => Shown(pipe'[t], kid'[t])
  BY <1>2, <1>3, <1>9, <1>15, <1>16, <1>20
<1> QED
  BY <1>17, <1>18, <1>19, <1>21, ChildStep

(* A callback has run in an advance. *)
LEMMA IndRun ==
    ASSUME Ind, NEW t \in Tabs, kid[t] # None, NEW k, GoodLoop(k, now), k.turn # None,
           k.origin = kid[t].origin, k.logical = kid[t].logical, k.lost = kid[t].lost,
           k.visible = kid[t].visible,
           NEW s \in Scripts(k), s.made <= left.timer,
           left' = [left EXCEPT !.timer = left.timer - s.made],
           kid' = [kid EXCEPT ![t] = s.loop],
           UNCHANGED <<now, uiVars, slot, pipe, mail, cut>>
    PROVE  Ind'
<1>1. GoodTab(ui[t], slot[t], pipe[t], kid[t], mail[t], cut[t], now) /\ left \in Budgets
  BY TabNow
<1>2. PICK l : l = kid'[t]
  OBVIOUS
<1>3. /\ left' \in Budgets /\ kid' \in [Tabs -> Loop \cup {None}]
      /\ \A x \in Tabs \ {t} : kid'[x] = kid[x]
      /\ GoodLoop(l, now) /\ SameTime(k, l) /\ l.visible = k.visible
  <2>1. /\ left' \in Budgets /\ kid' \in [Tabs -> Loop \cup {None}]
        /\ \A x \in Tabs \ {t} : kid'[x] = kid[x]
        /\ GoodLoop(kid'[t], now) /\ SameTime(k, kid'[t]) /\ kid'[t].visible = k.visible
    BY <1>1, Ran
  <2> QED
    BY <2>1, <1>2
<1>4. l.turn # None /\ l.origin = kid[t].origin /\ l.logical = kid[t].logical
      /\ l.lost = kid[t].lost
  BY <1>3 DEF SameTime
<1>5. GoodTab(ui[t], slot[t], pipe[t], l, mail[t], cut[t], now)
  BY <1>1, <1>3, <1>4, CallbackTab
<1>6. Shown(pipe[t], kid[t]) => Shown(pipe[t], l)
  BY <1>3 DEF Shown
<1>7. Shapes'
  BY <1>3 DEF Ind, Shapes, uiVars
<1>8. OnlyTab(t)
  BY <1>3 DEF OnlyTab, uiVars
<1>9. /\ GoodTab(ui[t], slot'[t], pipe'[t], kid'[t], mail'[t], cut'[t], now)
      /\ Shown(pipe[t], kid[t]) => Shown(pipe'[t], kid'[t])
  BY <1>2, <1>5, <1>6
<1> QED
  BY <1>7, <1>8, <1>9, ChildStep

(* A callback runs. *)
LEMMA IndCallback ==
    ASSUME Ind, NEW t \in Tabs, run_callback(t)
    PROVE  Ind'
<1> DEFINE k == kid[t]
<1>1. k # None /\ k.turn # None /\ k.turn # 0
  BY DEF run_callback
<1>2. UNCHANGED <<now, uiVars, slot, pipe, mail, cut>>
  BY DEF run_callback
<1>3. GoodLoop(k, now) /\ k \in Loop /\ k.sampled <= now
  BY <1>1, TabNow DEF GoodLoop
<1>4. k.turn \in Nat /\ k.turn - 1 \in Nat /\ 0 # None
  BY <1>1, <1>3, NoneIsNoNumber DEF Loop
<1>5. CASE Run(t, [k EXCEPT !.event = FALSE, !.turn = 0], left)
  <2> DEFINE q == [k EXCEPT !.event = FALSE, !.turn = 0]
  <2>1. PICK s \in Scripts(q) : /\ s.made <= left.timer
                                /\ left' = [left EXCEPT !.timer = left.timer - s.made]
                                /\ kid' = [kid EXCEPT ![t] = s.loop]
    BY <1>5 DEF Run
  <2>2. /\ q \in Loop /\ q.tasks = k.tasks /\ q.frame = k.frame /\ q.visible = k.visible
        /\ q.seq = k.seq /\ q.sampled <= now /\ q.turn # None
        /\ q.origin = k.origin /\ q.logical = k.logical /\ q.lost = k.lost
    BY <1>3, <1>4 DEF Loop
  <2> HIDE DEF q
  <2>3. GoodLoop(q, now)
    BY <1>3, <2>2, SameTasks
  <2> QED
    BY <1>1, <1>2, <2>1, <2>2, <2>3, IndRun
<1>6. ASSUME Ready(k), NEW more \in Nat,
             Run(t, [pop_runnable_task(k) EXCEPT !.turn = more], left)
      PROVE  Ind'
  <2> DEFINE y == pop_runnable_task(k)
             q == [y EXCEPT !.turn = more]
  <2>1. PICK s \in Scripts(q) : /\ s.made <= left.timer
                                /\ left' = [left EXCEPT !.timer = left.timer - s.made]
                                /\ kid' = [kid EXCEPT ![t] = s.loop]
    BY <1>6 DEF Run
  <2>2. k.tasks # {} /\ y = pop_runnable_task(k)
    BY <1>6 DEF Ready
  <2> HIDE DEF y
  <2>3. GoodLoop(y, now) /\ SameTime(k, y) /\ y.visible = k.visible
    <3> HIDE DEF k
    <3> QED
      BY <1>3, <2>2, Popped
  <2>4. /\ q \in Loop /\ q.tasks = y.tasks /\ q.frame = y.frame /\ q.visible = y.visible
        /\ q.seq = y.seq /\ q.sampled <= now /\ q.turn # None
        /\ q.origin = y.origin /\ q.logical = y.logical /\ q.lost = y.lost
    BY <2>3, NoneIsNoNumber DEF Loop, GoodLoop
  <2> HIDE DEF q
  <2>5. GoodLoop(q, now)
    BY <2>3, <2>4, SameTasks
  <2>6. /\ q.origin = k.origin /\ q.logical = k.logical /\ q.lost = k.lost
        /\ q.visible = k.visible
    BY <2>3, <2>4 DEF SameTime
  <2> QED
    BY <1>1, <1>2, <2>1, <2>4, <2>5, <2>6, IndRun
<1>7. \/ Run(t, [k EXCEPT !.event = FALSE, !.turn = 0], left)
      \/ Ready(k) /\ \E more \in Nat : Run(t, [pop_runnable_task(k) EXCEPT !.turn = more], left)
  BY <1>4 DEF run_callback
<1> QED
  BY <1>5, <1>6, <1>7

(* An advance ends. *)
LEMMA IndFinish ==
    ASSUME Ind, NEW t \in Tabs, finish_advance(t)
    PROVE  Ind'
<1> DEFINE k == kid[t]
           l == [k EXCEPT !.turn = None]
<1>1. k # None /\ kid' = [kid EXCEPT ![t] = l] /\ UNCHANGED <<now, uiVars, slot, pipe, cut>>
  BY DEF finish_advance
<1>2. /\ TabShapes(ui[t], slot[t], pipe[t], k, mail[t])
      /\ GoodTab(ui[t], slot[t], pipe[t], k, mail[t], cut[t], now)
      /\ left \in Budgets /\ GoodLoop(k, now)
  BY <1>1, TabNow
<1>3. k \in Loop /\ k.sampled <= now
  BY <1>2 DEF GoodLoop
<1>4. kid'[t] = l
  BY <1>1 DEF Ind, Shapes
<1>5. /\ l \in Loop /\ l.tasks = k.tasks /\ l.frame = k.frame /\ l.visible = k.visible
      /\ l.seq = k.seq /\ l.sampled <= now
      /\ l.origin = k.origin /\ l.logical = k.logical /\ l.lost = k.lost
  BY <1>3 DEF Loop
<1>6. PICK kind \in {"paint", "report"}, opens \in BOOLEAN :
         /\ IF opens THEN Happens("event") ELSE UNCHANGED left
         /\ mail' = [mail EXCEPT ![t] = coalesce(mail[t], Update(kind, TRUE, l, opens))]
  <2>1. PICK kind \in {"paint", "report"}, opens \in BOOLEAN :
         /\ IF opens THEN Happens("event") ELSE UNCHANGED left
         /\ Post(t, Update(kind, TRUE, kid'[t], opens))
    BY DEF finish_advance
  <2> QED
    BY <1>4, <2>1 DEF Post
<1> HIDE DEF l
<1>7. GoodLoop(l, now)
  BY <1>2, <1>5, SameTasks
<1> DEFINE x == Update(kind, TRUE, l, opens)
<1>8. x \in Updates /\ x.next = next_timer_micros(l) /\ x.mark
  <2>1. next_timer_micros(l) \in Nat \cup {None} /\ TRUE \in BOOLEAN
    BY <1>5, <1>7, NextTimerNat DEF GoodLoop
  <2> QED
    BY <2>1, Reported, ZenonT(30)
<1>9. mail' = [mail EXCEPT ![t] = coalesce(mail[t], x)]
  BY <1>6
<1> HIDE DEF x
<1>10. PICK n : n = mail'[t]
  OBVIOUS
<1>11. /\ n = coalesce(mail[t], x) /\ mail' \in [Tabs -> Seq(Updates)]
       /\ \A y \in Tabs \ {t} : mail'[y] = mail[y]
  BY <1>8, <1>9, <1>10, Posted
<1>12. GoodTab(ui[t], slot[t], pipe[t], l, n, cut[t], now)
  <2> HIDE DEF k
  <2> QED
    BY <1>1, <1>2, <1>5, <1>7, <1>8, <1>11, FinishTab
<1>13. Shown(pipe[t], k) => Shown(pipe[t], l)
  BY <1>1, <1>5 DEF Shown
<1>14. left' \in Budgets
  BY <1>2, <1>6, Spent
<1>15. Shapes'
  BY <1>1, <1>5, <1>11, <1>14 DEF Ind, Shapes, uiVars
<1>16. OnlyTab(t)
  BY <1>1, <1>11 DEF OnlyTab, uiVars, Ind, Shapes
<1>17. UNCHANGED <<now, uiVars>>
  BY <1>1
<1>18. /\ GoodTab(ui[t], slot'[t], pipe'[t], kid'[t], mail'[t], cut'[t], now)
       /\ Shown(pipe[t], kid[t]) => Shown(pipe'[t], kid'[t])
  BY <1>1, <1>4, <1>10, <1>12, <1>13
<1> QED
  BY <1>15, <1>16, <1>17, <1>18, ChildStep

(* The broker passes an advance on to the renderer. *)
LEMMA IndBroker ==
    ASSUME Ind, NEW t \in Tabs, process_document_clock(t)
    PROVE  Ind'
<1> DEFINE s == slot[t]
           x == [kind |-> "advance", by |-> s]
           r == Append(pipe[t], x)
<1>1. /\ s # None /\ pipe' = [pipe EXCEPT ![t] = r] /\ slot' = [slot EXCEPT ![t] = None]
      /\ UNCHANGED <<now, uiVars, kid, mail, left, cut>>
  BY DEF process_document_clock
<1>2. /\ TabShapes(ui[t], s, pipe[t], kid[t], mail[t])
      /\ GoodTab(ui[t], s, pipe[t], kid[t], mail[t], cut[t], now)
      /\ pipe[t] \in Seq(Messages) /\ s \in Advance
  BY <1>1, TabNow DEF TabShapes
<1>3. GoodTab(ui[t], None, r, kid[t], mail[t], cut[t], now) /\ r \in Seq(Messages)
  <2>1. r = Append(pipe[t], [kind |-> "advance", by |-> s])
    OBVIOUS
  <2> HIDE DEF r, s
  <2> QED
    BY <1>1, <1>2, <2>1, PassedTab
<1>4. Shown(pipe[t], kid[t]) => Shown(r, kid[t])
  <2>1. x \in Messages /\ x.kind # "lifecycle"
    BY <1>2 DEF Messages
  <2>2. r = Append(pipe[t], x)
    OBVIOUS
  <2> HIDE DEF x, r
  <2> QED
    BY <1>2, <2>1, <2>2, ShownSent
<1> HIDE DEF r
<1>5. slot'[t] = None /\ pipe'[t] = r
  BY <1>1 DEF Ind, Shapes
<1>6. Shapes'
  BY <1>1, <1>3 DEF Ind, Shapes, uiVars
<1>7. OnlyTab(t)
  BY <1>1 DEF OnlyTab, uiVars, Ind, Shapes
<1>8. UNCHANGED <<now, uiVars>>
  BY <1>1
<1>9. /\ GoodTab(ui[t], slot'[t], pipe'[t], kid'[t], mail'[t], cut'[t], now)
      /\ Shown(pipe[t], kid[t]) => Shown(pipe'[t], kid'[t])
  BY <1>1, <1>3, <1>4, <1>5
<1> QED
  BY <1>6, <1>7, <1>8, <1>9, ChildStep

-----------------------------------------------------------------------------
(* The steps of the shell.                                                 *)

(* Time passes. *)
LEMMA IndTick ==
    ASSUME Ind, Tick
    PROVE  Ind'
<1>1. /\ now' = now + 1 /\ now < MaxTime
      /\ UNCHANGED <<uiVars, slot, pipe, kid, mail, left, cut>>
  BY DEF Tick
<1>2. now \in 0 .. MaxTime /\ now \in Nat
  BY ClockAssumption DEF Ind, Shapes
<1>3. now' \in 0 .. MaxTime /\ now' \in Nat /\ now <= now'
  BY <1>1, <1>2, ClockAssumption
<1>4. PICK b : b = now'
  OBVIOUS
<1>5. ASSUME NEW t \in Tabs
      PROVE  GoodTab(ui[t], slot[t], pipe[t], kid[t], mail[t], cut[t], b)
  BY <1>2, <1>3, <1>4, TabNow, TickTab
<1>6. Promised(front, ui[front], wake, b)
  <2>1. /\ front \in Tabs /\ ui[front] \in Records /\ wake \in Wakeup \cup {None}
        /\ Promised(front, ui[front], wake, now)
    BY DEF Ind, Shapes
  <2>2. ui[front].doc # 0 => ui[front].clock \in Nat
    BY <2>1, TabNow
  <2> QED
    BY <1>2, <1>3, <1>4, <2>1, <2>2, PromiseKept
<1>7. Shapes'
  BY <1>1, <1>3 DEF Ind, Shapes, uiVars
<1>8. \A t \in Tabs : GoodTab(ui'[t], slot'[t], pipe'[t], kid'[t], mail'[t], cut'[t], now')
  BY <1>1, <1>4, <1>5 DEF uiVars
<1>9. Promised(front', ui'[front'], wake', now') /\ Shown(pipe'[front'], kid'[front'])
  BY <1>1, <1>4, <1>6 DEF uiVars, Ind
<1>10. \A t \in Tabs \ opened' : Closed(ui'[t])
  BY <1>1 DEF uiVars, Ind
<1> QED
  BY <1>7, <1>8, <1>9, <1>10 DEF Ind

(* The shell sends an advance to the foreground document. *)
LEMMA IndPump ==
    ASSUME Ind, pump_script_runtime
    PROVE  Ind'
<1> DEFINE t == front
           u == ui[t]
           s == slot[t]
           v == [u EXCEPT !.clock = now, !.next = None, !.pending = TRUE]
           z == clock_send(s, now - u.clock)
<1>1. t \in Tabs /\ t \in opened
  BY DEF Ind, Shapes
<1>2. /\ wake # None /\ wake.doc = u.doc /\ wake' = None
      /\ slot' = [slot EXCEPT ![t] = z] /\ ui' = [ui EXCEPT ![t] = v]
      /\ UNCHANGED <<now, opened, front, pipe, kid, mail, left, cut>>
  <2>1. ui' = [ui EXCEPT ![t] = v]
    <3>1. ui \in [Tabs -> Records] /\ u \in Records
      BY <1>1 DEF Ind, Shapes
    <3>2. ui' = [ui EXCEPT ![front].clock = now, ![front].next = None,
                           ![front].pending = TRUE]
      BY DEF pump_script_runtime
    <3> QED
      BY <1>1, <3>1, <3>2 DEF Records
  <2> QED
    BY <2>1 DEF pump_script_runtime
<1>3. /\ TabShapes(u, s, pipe[t], kid[t], mail[t])
      /\ GoodTab(u, s, pipe[t], kid[t], mail[t], cut[t], now)
      /\ now \in Nat /\ u \in Records
  BY <1>1, TabNow DEF TabShapes
<1>4. u.doc # 0
  BY <1>2 DEF Ind, Promised
<1>5. v \in Records /\ v.doc = u.doc /\ v.pending
  <2>1. now \in 0 .. MaxTime
    BY DEF Ind, Shapes
  <2> QED
    BY <1>3, <2>1 DEF Records
<1>6. GoodTab(v, z, pipe[t], kid[t], mail[t], cut[t], now) /\ z \in Advance
  <2>1. v = [u EXCEPT !.clock = now, !.next = None, !.pending = TRUE]
    OBVIOUS
  <2>2. z = clock_send(s, now - u.clock)
    OBVIOUS
  <2> HIDE DEF v, z
  <2> HIDE DEF u, s
  <2> QED
    BY <1>3, <1>4, <2>1, <2>2, PumpedTab
<1> HIDE DEF v, z
<1>7. Promised(t, v, None, now)
  BY <1>5 DEF Promised
<1>8. slot'[t] = z /\ ui'[t] = v
  BY <1>1, <1>2 DEF Ind, Shapes
<1>9. Shapes'
  BY <1>2, <1>5, <1>6 DEF Ind, Shapes
<1>10. OnlyTab(t)
  BY <1>2 DEF OnlyTab, Ind, Shapes
<1>11. GoodTab(ui'[t], slot'[t], pipe'[t], kid'[t], mail'[t], cut'[t], now)
  BY <1>2, <1>6, <1>8
<1>12. Promised(front', ui'[front'], wake', now) /\ Shown(pipe'[front'], kid'[front'])
  BY <1>2, <1>7, <1>8 DEF Ind
<1>13. now' = now /\ opened \subseteq opened' /\ (t \notin opened' => Closed(ui'[t]))
  BY <1>1, <1>2
<1> HIDE DEF t
<1> QED
  BY <1>1, <1>9, <1>10, <1>11, <1>12, <1>13, TabStep

(* All tabs, with the shell's records, pipes, mail and marks a step leaves. *)
AllGood(us, q, ms, cs) ==
    \A x \in Tabs :
        /\ TabShapes(us[x], slot[x], q[x], kid[x], ms[x])
        /\ GoodTab(us[x], slot[x], q[x], kid[x], ms[x], cs[x], now)
        /\ us[x].doc = ui[x].doc

(* Before a step every tab is as the invariant says. *)
LEMMA AllNow ==
    ASSUME Ind
    PROVE  AllGood(ui, pipe, mail, cut)
  BY TabNow DEF AllGood

(* A step of the shell may concern several tabs. *)
LEMMA AllStep ==
    ASSUME Shapes', UNCHANGED <<now, slot, kid>>, NEW us, NEW q, NEW ms, NEW cs,
           ui' = us, pipe' = q, mail' = ms, cut' = cs, AllGood(us, q, ms, cs),
           \A x \in Tabs \ opened' : Closed(us[x]),
           Promised(front', ui'[front'], wake', now), Shown(pipe'[front'], kid[front'])
    PROVE  Ind'
<1>1. \A x \in Tabs :
         GoodTab(ui'[x], slot'[x], pipe'[x], kid'[x], mail'[x], cut'[x], now')
  BY DEF AllGood
<1>2. Promised(front', ui'[front'], wake', now') /\ Shown(pipe'[front'], kid'[front'])
  OBVIOUS
<1>3. \A x \in Tabs \ opened' : Closed(ui'[x])
  OBVIOUS
<1> QED
  BY <1>1, <1>2, <1>3 DEF Ind

Elsewhere(t, q, r) == \A x \in Tabs \ {t} : r[x] = q[x]

(* A tab's renderer is told whether its page shows. *)
LEMMA Routed ==
    ASSUME NEW us, NEW q \in [Tabs -> Seq(Messages)], NEW ms, NEW cs,
           AllGood(us, q, ms, cs), NEW t \in Tabs, NEW state \in BOOLEAN,
           NEW r, r = RouteLifecycle(q, t, state)
    PROVE  /\ r \in [Tabs -> Seq(Messages)] /\ AllGood(us, r, ms, cs)
           /\ Elsewhere(t, q, r)
           /\ state = TRUE => Shown(r[t], kid[t])
<1>1. /\ TabShapes(us[t], slot[t], q[t], kid[t], ms[t])
      /\ GoodTab(us[t], slot[t], q[t], kid[t], ms[t], cs[t], now)
      /\ us[t].doc = ui[t].doc /\ q[t] \in Seq(Messages)
  BY DEF AllGood
<1>2. CASE us[t].doc = 0
  <2>1. r = q
    BY <1>1, <1>2 DEF RouteLifecycle
  <2>2. q[t] = <<>> /\ kid[t] = None
    BY <1>1, <1>2 DEF GoodTab, Empty
  <2>3. Shown(r[t], kid[t])
    BY <2>1, <2>2 DEF Shown
  <2> QED
    BY <2>1, <2>3 DEF Elsewhere
<1>3. CASE us[t].doc # 0
  <2> DEFINE x == Append(q[t], Lifecycle(state))
  <2>1. r = [q EXCEPT ![t] = x]
    BY <1>1, <1>3 DEF RouteLifecycle, Lifecycle
  <2>2. GoodTab(us[t], slot[t], x, kid[t], ms[t], cs[t], now) /\ x \in Seq(Messages)
    <3>1. x = Append(q[t], Lifecycle(state))
      OBVIOUS
    <3> HIDE DEF x
    <3> QED
      BY <1>1, <1>3, <3>1, RoutedTab
  <2>3. state = TRUE => Shown(x, kid[t])
    BY <1>1, ShownTold
  <2> HIDE DEF x
  <2>4. r[t] = x /\ r \in [Tabs -> Seq(Messages)] /\ \A y \in Tabs \ {t} : r[y] = q[y]
    BY <2>1, <2>2
  <2>5. TabShapes(us[t], slot[t], x, kid[t], ms[t])
    BY <1>1, <2>2 DEF TabShapes
  <2>6. AllGood(us, r, ms, cs)
    BY <1>1, <2>2, <2>4, <2>5 DEF AllGood
  <2> QED
    BY <2>3, <2>4, <2>6 DEF Elsewhere
<1> QED
  BY <1>2, <1>3

(* With a document the shell has the instant it advanced it to. *)
LEMMA Anchored ==
    ASSUME NEW us, NEW q, NEW ms, NEW cs, AllGood(us, q, ms, cs), NEW t \in Tabs
    PROVE  /\ us[t] \in Records
           /\ us[t].doc # 0 => us[t].clock \in Nat /\ us[t].clock # None
  BY NoneIsNoNumber DEF AllGood, TabShapes, GoodTab, Conserved

(* Another tab becomes the foreground tab. *)
LEMMA Activated ==
    ASSUME Ind, NEW us, NEW ms, NEW cs, AllGood(us, pipe, ms, cs), NEW t \in Tabs,
           us \in [Tabs -> Records], ui' = us, front' = t,
           wake' = schedule_script_runtime_wakeup(us, t, None),
           pipe' = RouteLifecycle(RouteLifecycle(pipe, front, FALSE), t, TRUE),
           mail' = ms, ms \in [Tabs -> Seq(Updates)], cut' = cs, cs \in [Tabs -> BOOLEAN],
           left' \in Budgets, UNCHANGED <<now, slot, kid>>,
           t \in opened', opened' \subseteq Tabs, \A x \in Tabs \ opened' : Closed(us[x])
    PROVE  Ind'
<1> DEFINE q == RouteLifecycle(pipe, front, FALSE)
           r == RouteLifecycle(q, t, TRUE)
<1>1. now \in Nat /\ front \in Tabs /\ pipe \in [Tabs -> Seq(Messages)]
  BY TabNow DEF Ind, Shapes
<1>2. q \in [Tabs -> Seq(Messages)] /\ AllGood(us, q, ms, cs)
  <2>1. q = RouteLifecycle(pipe, front, FALSE)
    OBVIOUS
  <2> HIDE DEF q
  <2> QED
    BY <1>1, <2>1, Routed
<1>3. r \in [Tabs -> Seq(Messages)] /\ AllGood(us, r, ms, cs) /\ Shown(r[t], kid[t])
  <2>1. r = RouteLifecycle(q, t, TRUE)
    OBVIOUS
  <2> HIDE DEF q, r
  <2> QED
    BY <1>2, <2>1, Routed
<1>4. pipe' = r
  OBVIOUS
<1> HIDE DEF q, r
<1>5. PICK w : w = wake'
  OBVIOUS
<1>6. w \in Wakeup \cup {None} /\ Promised(t, us[t], w, now)
  <2>1. us[t] \in Records /\ (us[t].doc # 0 => us[t].clock \in Nat)
    BY Anchored
  <2>2. None \in Wakeup \cup {None} /\ w = schedule_script_runtime_wakeup(us, t, None)
    BY <1>5
  <2> QED
    BY <1>1, <2>1, <2>2, Rescheduled
<1>7. Shapes'
  BY <1>3, <1>4, <1>5, <1>6 DEF Ind, Shapes
<1>8. Promised(front', ui'[front'], wake', now) /\ Shown(pipe'[front'], kid[front'])
  BY <1>3, <1>4, <1>5, <1>6
<1> QED
  BY <1>3, <1>4, <1>7, <1>8, AllStep

(* A step that leaves the foreground tab its place looks at its wakeup again. *)
LEMMA Looked ==
    ASSUME Ind, NEW us, NEW q, NEW ms, NEW cs, AllGood(us, q, ms, cs),
           us \in [Tabs -> Records], ui' = us, UNCHANGED front,
           wake' = schedule_script_runtime_wakeup(us, front, wake),
           pipe' = q, q \in [Tabs -> Seq(Messages)], q[front] = pipe[front],
           mail' = ms, ms \in [Tabs -> Seq(Updates)], cut' = cs, cs \in [Tabs -> BOOLEAN],
           left' \in Budgets, UNCHANGED <<now, slot, kid>>,
           opened \subseteq opened', opened' \subseteq Tabs,
           \A x \in Tabs \ opened' : Closed(us[x])
    PROVE  Ind'
<1>1. now \in Nat /\ front \in Tabs /\ wake \in Wakeup \cup {None} /\ front \in opened'
  BY TabNow DEF Ind, Shapes
<1>2. PICK w : w = wake'
  OBVIOUS
<1>3. w \in Wakeup \cup {None} /\ Promised(front, us[front], w, now)
  <2>1. us[front] \in Records /\ (us[front].doc # 0 => us[front].clock \in Nat)
    BY <1>1, Anchored
  <2>2. w = schedule_script_runtime_wakeup(us, front, wake)
    BY <1>2
  <2> QED
    BY <1>1, <2>1, <2>2, Rescheduled
<1>4. Shapes'
  BY <1>1, <1>2, <1>3 DEF Ind, Shapes
<1>5. Promised(front', ui'[front'], wake', now) /\ Shown(pipe'[front'], kid[front'])
  BY <1>2, <1>3 DEF Ind
<1> QED
  BY <1>4, <1>5, AllStep

(* The user changes to another tab. *)
LEMMA IndActivate ==
    ASSUME Ind, NEW t \in Tabs, activate_tab(t)
    PROVE  Ind'
<1>1. /\ t \in opened /\ Happens("switch") /\ UNCHANGED <<now, opened, slot, kid, mail, cut>>
      /\ Activate(t, ui)
  BY DEF activate_tab
<1>2. AllGood(ui, pipe, mail, cut)
  BY AllNow
<1>3. ui[t].doc # 0 => ui[t].clock # None
  BY <1>2, Anchored
<1>4. /\ ui' = ui /\ front' = t /\ wake' = schedule_script_runtime_wakeup(ui, t, None)
      /\ pipe' = RouteLifecycle(RouteLifecycle(pipe, front, FALSE), t, TRUE)
  BY <1>1, <1>3 DEF Activate
<1>5. left' \in Budgets
  BY <1>1, TabNow, Spent
<1>6. /\ ui \in [Tabs -> Records] /\ mail \in [Tabs -> Seq(Updates)]
      /\ cut \in [Tabs -> BOOLEAN] /\ opened \subseteq Tabs
      /\ \A x \in Tabs \ opened : Closed(ui[x])
  BY DEF Ind, Shapes
<1> QED
  BY <1>1, <1>2, <1>4, <1>5, <1>6, Activated

(* There is mail for the window's tabs only. *)
LEMMA Mailed ==
    ASSUME Ind, NEW t \in Tabs, mail[t] # <<>>
    PROVE  t \in opened
<1>1. ui[t].doc # 0
  BY TabNow, OwnedTab
<1> QED
  BY <1>1 DEF Ind, Closed

(* The mail of a tab without its oldest update. *)
Taken(t) == [mail EXCEPT ![t] = Tail(mail[t])]

(* The marks once the shell has looked at an update of tab t. *)
Remains(t, us) == [cut EXCEPT ![t] = cut[t] /\ us[t].pending]

(* The shell has looked at an update. *)
LEMMA ReceivedAll ==
    ASSUME Ind, NEW t \in Tabs, mail[t] # <<>>, NEW us, us = Received(t, Head(mail[t])),
           NEW cs, cs = Remains(t, us)
    PROVE  /\ AllGood(us, pipe, Taken(t), cs)
           /\ us \in [Tabs -> Records] /\ Taken(t) \in [Tabs -> Seq(Updates)]
           /\ cs \in [Tabs -> BOOLEAN] /\ Elsewhere(t, ui, us)
<1> DEFINE u == ui[t]
           m == mail[t]
           v == [u EXCEPT !.next = m[1].next, !.pending = u.pending /\ ~m[1].mark]
           n == Tail(m)
           d == cut[t] /\ v.pending
<1>1. /\ TabShapes(u, slot[t], pipe[t], kid[t], m)
      /\ GoodTab(u, slot[t], pipe[t], kid[t], m, cut[t], now)
      /\ m \in Seq(Updates) /\ u \in Records /\ cut[t] \in BOOLEAN
  BY TabNow DEF TabShapes
<1>2. n \in Seq(Updates) /\ Head(m) = m[1] /\ m[1] \in Updates
  BY <1>1, MailTaken
<1>3. v \in Records /\ v.doc = u.doc
  BY <1>1, <1>2 DEF Records, Updates
<1>4. us = [ui EXCEPT ![t] = v]
  <2>1. us = [ui EXCEPT ![t].next = m[1].next, ![t].pending = @ /\ ~m[1].mark]
    BY <1>2 DEF Received
  <2>2. ui \in [Tabs -> Records]
    BY DEF Ind, Shapes
  <2> QED
    BY <1>1, <2>1, <2>2 DEF Records
<1>5. d \in BOOLEAN
  BY <1>1, <1>3 DEF Records
<1>6. GoodTab(v, slot[t], pipe[t], kid[t], n, d, now)
  <2>1. /\ v = [u EXCEPT !.next = m[1].next, !.pending = u.pending /\ ~m[1].mark]
        /\ n = Tail(m) /\ d = (cut[t] /\ v.pending) /\ m # <<>>
    OBVIOUS
  <2> HIDE DEF v, n, d
  <2> HIDE DEF u, m
  <2> QED
    BY <1>1, <1>5, <2>1, ReceivedTab
<1> HIDE DEF v, n
<1>7. us[t] = v /\ us \in [Tabs -> Records] /\ \A x \in Tabs \ {t} : us[x] = ui[x]
  BY <1>3, <1>4 DEF Ind, Shapes
<1>8. cs = [cut EXCEPT ![t] = d]
  BY <1>7 DEF Remains
<1> HIDE DEF d
<1>9. cs[t] = d /\ cs \in [Tabs -> BOOLEAN] /\ \A x \in Tabs \ {t} : cs[x] = cut[x]
  BY <1>5, <1>8 DEF Ind, Shapes
<1> DEFINE ms == Taken(t)
<1>10. ms[t] = n /\ ms \in [Tabs -> Seq(Updates)] /\ \A x \in Tabs \ {t} : ms[x] = mail[x]
  BY <1>2 DEF Taken, n, Ind, Shapes
<1> HIDE DEF ms
<1>11. TabShapes(v, slot[t], pipe[t], kid[t], n)
  BY <1>1, <1>2, <1>3 DEF TabShapes, n
<1>12. AllGood(us, pipe, ms, cs)
  BY <1>3, <1>6, <1>7, <1>9, <1>10, <1>11, AllNow DEF AllGood
<1>13. Elsewhere(t, ui, us)
  BY <1>7 DEF Elsewhere
<1> QED
  BY <1>7, <1>9, <1>10, <1>12, <1>13 DEF ms

(* The shell has given up a presentation. *)
LEMMA GivenUpAll ==
    ASSUME Ind, NEW t \in Tabs, mail[t] # <<>>, NEW cs, cs = [cut EXCEPT ![t] = TRUE]
    PROVE  /\ AllGood(ui, pipe, Taken(t), cs)
           /\ Taken(t) \in [Tabs -> Seq(Updates)] /\ cs \in [Tabs -> BOOLEAN]
<1> DEFINE m == mail[t]
           n == Tail(m)
           ms == Taken(t)
<1>1. /\ TabShapes(ui[t], slot[t], pipe[t], kid[t], m)
      /\ GoodTab(ui[t], slot[t], pipe[t], kid[t], m, cut[t], now)
      /\ m \in Seq(Updates)
  BY TabNow
<1>2. n \in Seq(Updates)
  BY <1>1, MailTaken
<1>3. GoodTab(ui[t], slot[t], pipe[t], kid[t], n, TRUE, now)
  BY <1>1, GivenUpTab
<1>4. ms[t] = n /\ ms \in [Tabs -> Seq(Updates)] /\ \A x \in Tabs \ {t} : ms[x] = mail[x]
  BY <1>2 DEF Taken, Ind, Shapes
<1>5. cs[t] = TRUE /\ cs \in [Tabs -> BOOLEAN] /\ \A x \in Tabs \ {t} : cs[x] = cut[x]
  BY DEF Ind, Shapes
<1>6. TabShapes(ui[t], slot[t], pipe[t], kid[t], n)
  BY <1>1, <1>2 DEF TabShapes
<1> HIDE DEF ms, n
<1>7. AllGood(ui, pipe, ms, cs)
  BY <1>3, <1>4, <1>5, <1>6, AllNow DEF AllGood
<1> QED
  BY <1>4, <1>5, <1>7 DEF ms

(* The shell applies an update. *)
LEMMA IndApply ==
    ASSUME Ind, NEW t \in Tabs, apply_update(t)
    PROVE  Ind'
<1> DEFINE us == Received(t, Head(mail[t]))
           cs == Remains(t, us)
<1>1. /\ mail[t] # <<>> /\ ui' = us /\ mail' = Taken(t) /\ cut' = cs
      /\ wake' = schedule_script_runtime_wakeup(ui', front, wake)
      /\ UNCHANGED <<now, opened, front, slot, pipe, kid, left>>
  BY DEF apply_update, TakeUpdate, Taken, Remains
<1>2. wake' = schedule_script_runtime_wakeup(us, front, wake)
  BY <1>1
<1>3. /\ AllGood(us, pipe, Taken(t), cs)
      /\ us \in [Tabs -> Records] /\ Taken(t) \in [Tabs -> Seq(Updates)]
      /\ cs \in [Tabs -> BOOLEAN] /\ Elsewhere(t, ui, us)
  <2>1. us = Received(t, Head(mail[t])) /\ cs = Remains(t, us)
    OBVIOUS
  <2> HIDE DEF us, cs
  <2> QED
    BY <1>1, <2>1, ReceivedAll
<1> HIDE DEF us, cs
<1>4. /\ left' \in Budgets /\ pipe \in [Tabs -> Seq(Messages)] /\ opened' \subseteq Tabs
      /\ opened \subseteq opened'
  BY <1>1 DEF Ind, Shapes
<1>5. \A x \in Tabs \ opened' : Closed(us[x])
  BY <1>1, <1>3, Mailed DEF Ind, Elsewhere
<1> QED
  BY <1>1, <1>2, <1>3, <1>4, <1>5, Looked

(* A tab that is not open can start to load. *)
LEMMA LoadingAll ==
    ASSUME Ind, NEW us \in [Tabs -> Records], NEW q, NEW ms, NEW cs,
           AllGood(us, q, ms, cs), NEW n \in Tabs \ opened,
           NEW v, v = [us EXCEPT ![n].loading = TRUE]
    PROVE  /\ AllGood(v, q, ms, cs) /\ v \in [Tabs -> Records]
           /\ Elsewhere(n, us, v)
<1> DEFINE y == [us[n] EXCEPT !.loading = TRUE]
<1>1. us[n] \in Records /\ us[n].doc = 0
  BY DEF AllGood, Ind, Closed
<1>2. v = [us EXCEPT ![n] = y]
  OBVIOUS
<1>3. /\ GoodTab(y, slot[n], q[n], kid[n], ms[n], cs[n], now)
      /\ y \in Records /\ y.doc = 0
  <2>1. GoodTab(us[n], slot[n], q[n], kid[n], ms[n], cs[n], now)
    BY DEF AllGood
  <2>2. y = [us[n] EXCEPT !.loading = TRUE]
    OBVIOUS
  <2> HIDE DEF y
  <2> QED
    BY <1>1, <2>1, <2>2, LoadingTab
<1> HIDE DEF y
<1>4. v[n] = y /\ v \in [Tabs -> Records] /\ \A x \in Tabs \ {n} : v[x] = us[x]
  BY <1>2, <1>3
<1>5. TabShapes(y, slot[n], q[n], kid[n], ms[n])
  BY <1>3 DEF AllGood, TabShapes
<1>6. AllGood(v, q, ms, cs)
  BY <1>1, <1>3, <1>4, <1>5 DEF AllGood
<1> QED
  BY <1>1, <1>3, <1>4, <1>6 DEF Elsewhere

(* A page opens a tab. *)
LEMMA IndOpen ==
    ASSUME Ind, NEW t \in opened, NEW us \in [Tabs -> Records], NEW ms, NEW cs,
           AllGood(us, pipe, ms, cs), Elsewhere(t, ui, us), OpenTab(t, us),
           mail' = ms, ms \in [Tabs -> Seq(Updates)], cut' = cs, cs \in [Tabs -> BOOLEAN],
           UNCHANGED <<now, slot, kid, left>>
    PROVE  Ind'
<1> DEFINE new == Tabs \ opened
           N == IF new = {} THEN {t} ELSE new
           V(n) == IF new = {} THEN us ELSE [us EXCEPT ![n].loading = TRUE]
<1>1. /\ opened \subseteq Tabs /\ front \in Tabs /\ pipe \in [Tabs -> Seq(Messages)]
      /\ left' \in Budgets
  BY DEF Ind, Shapes
<1>2. ASSUME NEW n \in N
      PROVE  /\ AllGood(V(n), pipe, ms, cs) /\ V(n) \in [Tabs -> Records]
             /\ n \in Tabs /\ Elsewhere(n, us, V(n))
             /\ V(n)[n].doc # 0 => V(n)[n].clock # None
  <2>1. n \in Tabs
    BY <1>1, <1>2
  <2>2. CASE new = {}
    BY <2>1, <2>2, Anchored DEF Elsewhere
  <2>3. CASE new # {}
    <3> DEFINE v == [us EXCEPT ![n].loading = TRUE]
    <3>1. n \in Tabs \ opened /\ v = [us EXCEPT ![n].loading = TRUE] /\ V(n) = v
      BY <2>3, <1>2
    <3> HIDE DEF v, V
    <3>2. /\ AllGood(v, pipe, ms, cs) /\ v \in [Tabs -> Records]
          /\ Elsewhere(n, us, v)
      BY <3>1, LoadingAll
    <3>3. v[n].doc # 0 => v[n].clock # None
      BY <2>1, <3>2, Anchored
    <3> QED
      BY <2>1, <3>1, <3>2, <3>3
  <2> QED
    BY <2>2, <2>3
<1>3. PICK n \in N :
         /\ opened' = opened \cup {n}
         /\ t = front => Activate(n, V(n))
         /\ t # front =>
               /\ ui' = V(n) /\ UNCHANGED front
               /\ pipe' = IF new # {} THEN RouteLifecycle(pipe, t, FALSE)
                          ELSE RouteLifecycle(RouteLifecycle(pipe, t, FALSE), t, TRUE)
               /\ wake' = schedule_script_runtime_wakeup(V(n), front, wake)
  BY DEF OpenTab
<1>4. PICK v : v = V(n)
  OBVIOUS
<1>5. /\ AllGood(v, pipe, ms, cs) /\ v \in [Tabs -> Records]
      /\ n \in Tabs /\ Elsewhere(n, us, v)
      /\ v[n].doc # 0 => v[n].clock # None
  BY <1>2, <1>4
<1>6. /\ n \in opened' /\ opened' \subseteq Tabs /\ opened \subseteq opened'
      /\ \A x \in Tabs \ opened' : Closed(v[x])
  <2>1. ASSUME NEW x \in Tabs \ opened' PROVE Closed(v[x])
    <3>1. x \in Tabs \ {n} /\ x \in Tabs \ {t} /\ x \in Tabs \ opened
      BY <1>3
    <3>2. v[x] = us[x] /\ us[x] = ui[x]
      BY <1>5, <3>1 DEF Elsewhere
    <3> QED
      BY <3>1, <3>2 DEF Ind
  <2> QED
    BY <1>1, <1>3, <1>5, <2>1
<1>7. CASE t = front
  <2>1. /\ ui' = v /\ front' = n /\ wake' = schedule_script_runtime_wakeup(v, n, None)
        /\ pipe' = RouteLifecycle(RouteLifecycle(pipe, front, FALSE), n, TRUE)
    <3>1. Activate(n, V(n))
      BY <1>3, <1>7
    <3> HIDE DEF V
    <3> QED
      BY <3>1, <1>4, <1>5 DEF Activate
  <2> HIDE DEF V
  <2> QED
    BY <1>1, <1>5, <1>6, <2>1, Activated
<1>8. CASE t # front
  <2> DEFINE q1 == RouteLifecycle(pipe, t, FALSE)
             q2 == RouteLifecycle(q1, t, TRUE)
             q == IF new # {} THEN q1 ELSE q2
  <2>1. ui' = v /\ UNCHANGED front /\ pipe' = q /\
        wake' = schedule_script_runtime_wakeup(v, front, wake)
    <3> HIDE DEF V
    <3> QED
      BY <1>3, <1>4, <1>8
  <2>2. /\ q1 \in [Tabs -> Seq(Messages)] /\ AllGood(v, q1, ms, cs)
        /\ Elsewhere(t, pipe, q1)
    <3>1. q1 = RouteLifecycle(pipe, t, FALSE) /\ t \in Tabs
      BY <1>1
    <3> HIDE DEF q1
    <3> QED
      BY <1>1, <1>5, <3>1, Routed
  <2> HIDE DEF q1
  <2>3. /\ q2 \in [Tabs -> Seq(Messages)] /\ AllGood(v, q2, ms, cs)
        /\ Elsewhere(t, q1, q2)
    <3>1. q2 = RouteLifecycle(q1, t, TRUE) /\ t \in Tabs
      BY <1>1
    <3> HIDE DEF q2
    <3> QED
      BY <2>2, <3>1, Routed
  <2> HIDE DEF q2
  <2>4. q \in [Tabs -> Seq(Messages)] /\ AllGood(v, q, ms, cs) /\ q[front] = pipe[front]
    BY <1>1, <1>8, <2>2, <2>3 DEF Elsewhere
  <2> HIDE DEF q, V
  <2> QED
    BY <1>1, <1>5, <1>6, <2>1, <2>4, Looked
<1> QED
  BY <1>7, <1>8

(* The shell gives an update up for the tab it opens. *)
LEMMA IndFollow ==
    ASSUME Ind, NEW t \in Tabs, follow_runtime_navigation(t)
    PROVE  Ind'
<1> DEFINE report == Head(mail[t]).kind = "report"
           r == Received(t, Head(mail[t]))
<1>1. /\ mail[t] # <<>> /\ mail' = Taken(t) /\ UNCHANGED <<now, slot, kid, left>>
      /\ report => OpenTab(t, r) /\ cut' = Remains(t, r)
      /\ ~report => OpenTab(t, ui) /\ cut' = [cut EXCEPT ![t] = TRUE]
  BY DEF follow_runtime_navigation, TakeUpdate, Taken, Remains
<1>2. t \in opened
  BY <1>1, Mailed
<1>3. CASE report
  <2> DEFINE cs == Remains(t, r)
  <2>1. /\ AllGood(r, pipe, Taken(t), cs)
        /\ r \in [Tabs -> Records] /\ Taken(t) \in [Tabs -> Seq(Updates)]
        /\ cs \in [Tabs -> BOOLEAN] /\ Elsewhere(t, ui, r)
    <3>1. r = Received(t, Head(mail[t])) /\ cs = Remains(t, r)
      OBVIOUS
    <3> HIDE DEF r, cs
    <3> QED
      BY <1>1, <3>1, ReceivedAll
  <2>2. PICK us, ms, c : us = r /\ ms = Taken(t) /\ c = cs
    OBVIOUS
  <2>3. OpenTab(t, us) /\ mail' = ms /\ cut' = c
    BY <1>1, <1>3, <2>2
  <2>4. /\ AllGood(us, pipe, ms, c) /\ us \in [Tabs -> Records]
        /\ ms \in [Tabs -> Seq(Updates)] /\ c \in [Tabs -> BOOLEAN]
        /\ Elsewhere(t, ui, us)
    BY <2>1, <2>2
  <2> QED
    BY <1>1, <1>2, <2>3, <2>4, IndOpen
<1>4. CASE ~report
  <2> DEFINE cs == [cut EXCEPT ![t] = TRUE]
  <2>1. /\ AllGood(ui, pipe, Taken(t), cs)
        /\ Taken(t) \in [Tabs -> Seq(Updates)] /\ cs \in [Tabs -> BOOLEAN]
    BY <1>1, GivenUpAll
  <2>2. PICK us, ms, c : us = ui /\ ms = Taken(t) /\ c = cs
    OBVIOUS
  <2>3. OpenTab(t, us) /\ mail' = ms /\ cut' = c
    BY <1>1, <1>4, <2>2
  <2>4. /\ AllGood(us, pipe, ms, c) /\ us \in [Tabs -> Records]
        /\ ms \in [Tabs -> Seq(Updates)] /\ c \in [Tabs -> BOOLEAN]
        /\ Elsewhere(t, ui, us)
    BY <2>1, <2>2 DEF Ind, Shapes, Elsewhere
  <2> QED
    BY <1>1, <1>2, <2>3, <2>4, IndOpen
<1> QED
  BY <1>3, <1>4

(* A tab gets a new session, or loses the one it had. *)
LEMMA IndReplace ==
    ASSUME Ind, NEW t \in Tabs, NEW v \in Records, v.doc = 0, ~v.pending,
           ui' = [ui EXCEPT ![t] = v], ReplaceSession(t), UNCHANGED <<now, opened, front>>,
           left' \in Budgets, t \notin opened => ~v.loading
    PROVE  Ind'
<1>1. /\ slot' = [slot EXCEPT ![t] = None] /\ pipe' = [pipe EXCEPT ![t] = <<>>]
      /\ kid' = [kid EXCEPT ![t] = None] /\ mail' = [mail EXCEPT ![t] = <<>>]
      /\ cut' = [cut EXCEPT ![t] = FALSE]
      /\ wake' = IF t = front THEN None ELSE wake
  BY DEF ReplaceSession
<1>2. GoodTab(v, None, <<>>, None, <<>>, FALSE, now)
  BY EmptyTab
<1>3. /\ ui'[t] = v /\ slot'[t] = None /\ pipe'[t] = <<>> /\ kid'[t] = None
      /\ mail'[t] = <<>> /\ cut'[t] = FALSE
  BY <1>1 DEF Ind, Shapes
<1>4. OnlyTab(t)
  BY <1>1 DEF OnlyTab, Ind, Shapes
<1>5. Shapes'
  <2>1. <<>> \in Seq(Messages) /\ <<>> \in Seq(Updates)
    OBVIOUS
  <2> QED
    BY <1>1, <2>1 DEF Ind, Shapes
<1>6. Promised(front', ui'[front'], wake', now)
  <2>1. CASE t = front
    BY <1>1, <1>3, <2>1 DEF Promised
  <2>2. CASE t # front
    BY <1>1, <1>4, <2>2 DEF Ind, Shapes, OnlyTab
  <2> QED
    BY <2>1, <2>2
<1>7. Shown(pipe'[front'], kid'[front'])
  <2>1. CASE t = front
    BY <1>3, <2>1 DEF Shown
  <2>2. CASE t # front
    BY <1>4, <2>2 DEF Ind, Shapes, OnlyTab
  <2> QED
    BY <2>1, <2>2
<1>8. GoodTab(ui'[t], slot'[t], pipe'[t], kid'[t], mail'[t], cut'[t], now)
  BY <1>2, <1>3
<1>9. t \notin opened' => Closed(ui'[t])
  BY <1>3 DEF Closed
<1> QED
  BY <1>4, <1>5, <1>6, <1>7, <1>8, <1>9, TabStep

(* A navigation begins. *)
LEMMA IndNavigate ==
    ASSUME Ind, NEW t \in Tabs, begin_navigation(t)
    PROVE  Ind'
<1> DEFINE v == [Blank EXCEPT !.loading = TRUE]
<1>1. v \in Records /\ v.doc = 0 /\ ~v.pending
  <2>1. Blank \in Records /\ Blank.doc = 0 /\ ~Blank.pending
    BY ClockAssumption DEF Blank, Records
  <2> QED
    BY <2>1 DEF Records
<1>2. /\ ui' = [ui EXCEPT ![t] = v] /\ ReplaceSession(t) /\ t \in opened
      /\ UNCHANGED <<now, opened, front, left>>
  BY DEF begin_navigation
<1>3. left' \in Budgets
  BY <1>2 DEF Ind, Shapes
<1> HIDE DEF v
<1> QED
  BY <1>1, <1>2, <1>3, IndReplace

(* A renderer fails or exits. *)
LEMMA IndContain ==
    ASSUME Ind, NEW t \in Tabs, contain_page_engine_failure(t)
    PROVE  Ind'
<1>1. Blank \in Records /\ Blank.doc = 0 /\ ~Blank.pending /\ ~Blank.loading
  BY ClockAssumption DEF Blank, Records
<1>2. /\ ui' = [ui EXCEPT ![t] = Blank] /\ ReplaceSession(t) /\ Happens("event")
      /\ UNCHANGED <<now, opened, front>>
  BY DEF contain_page_engine_failure
<1>3. left' \in Budgets
  BY <1>2, TabNow, Spent
<1> QED
  BY <1>1, <1>2, <1>3, IndReplace

(* A document goes to its renderer. *)
LEMMA IndSubmit ==
    ASSUME Ind, NEW t \in Tabs, submit_pending_renderer_document(t)
    PROVE  Ind'
<1> DEFINE u == ui[t]
           v == [loading |-> FALSE, doc |-> left.document, next |-> None, clock |-> now,
                 pending |-> FALSE]
           load == [kind |-> "load", at |-> now]
           p == Append(pipe[t], load)
           hide == Lifecycle(FALSE)
           r == IF t = front THEN p ELSE Append(p, hide)
<1>1. /\ u.loading /\ Happens("document") /\ ui' = [ui EXCEPT ![t] = v]
      /\ pipe' = [pipe EXCEPT ![t] = p \o IF t = front THEN <<>> ELSE <<hide>>]
      /\ wake' = IF t = front THEN wake ELSE schedule_script_runtime_wakeup(ui', front, wake)
      /\ UNCHANGED <<now, opened, front, slot, kid, mail, cut>>
  BY DEF submit_pending_renderer_document, Lifecycle
<1>2. /\ TabShapes(u, slot[t], pipe[t], kid[t], mail[t])
      /\ GoodTab(u, slot[t], pipe[t], kid[t], mail[t], cut[t], now)
      /\ now \in Nat /\ pipe[t] \in Seq(Messages) /\ left \in Budgets /\ u \in Records
  BY TabNow DEF TabShapes
<1>3. left' \in Budgets /\ left.document # 0
  BY <1>1, <1>2, Spent
<1>4. v \in Records /\ v.doc # 0 /\ ~v.loading /\ v.clock = now /\ ~v.pending /\ v.next = None
  <2>1. left.document \in 0 .. MaxDocuments /\ now \in 0 .. MaxTime
    BY <1>2 DEF Ind, Shapes, Budgets
  <2> QED
    BY <1>3, <2>1 DEF Records
<1> HIDE DEF v
<1>5. t \in opened /\ u.doc = 0
  <2>1. u.doc = 0
    BY <1>1, <1>2 DEF GoodTab, Empty
  <2>2. t \in opened
    BY <1>1 DEF Ind, Closed
  <2> QED
    BY <2>1, <2>2
<1>6. GoodTab(v, slot[t], p, kid[t], mail[t], cut[t], now) /\ p \in Seq(Messages)
  <2>1. p = Append(pipe[t], [kind |-> "load", at |-> now])
    OBVIOUS
  <2> HIDE DEF p, u
  <2> QED
    BY <1>1, <1>2, <1>4, <2>1, SubmitTab
<1>7. hide \in Messages
  BY DEF Lifecycle, Messages
<1>8. Shown(pipe[t], kid[t]) => Shown(p, kid[t])
  <2>1. load \in Messages /\ load.kind # "lifecycle" /\ p = Append(pipe[t], load)
    BY <1>2 DEF Messages
  <2> HIDE DEF load, p
  <2> QED
    BY <1>2, <2>1, ShownSent
<1> HIDE DEF p
<1>9. pipe' = [pipe EXCEPT ![t] = r]
  <2>1. CASE t = front
    <3>1. p \o <<>> = p
      BY <1>6, ConcatEmptySeq
    <3> QED
      BY <1>1, <2>1, <3>1
  <2>2. CASE t # front
    <3>1. Append(p, hide) = p \o <<hide>>
      <4> HIDE DEF hide
      <4> QED
        BY <1>6, <1>7, AppendIsConcat
    <3> QED
      BY <1>1, <2>2, <3>1
  <2> QED
    BY <2>1, <2>2
<1>10. GoodTab(v, slot[t], r, kid[t], mail[t], cut[t], now) /\ r \in Seq(Messages)
  <2>1. CASE t = front
    BY <1>6, <2>1
  <2>2. CASE t # front
    <3>1. TabShapes(v, slot[t], p, kid[t], mail[t])
      BY <1>2, <1>4, <1>6 DEF TabShapes
    <3>2. PICK q : q = Append(p, Lifecycle(FALSE))
      OBVIOUS
    <3>3. GoodTab(v, slot[t], q, kid[t], mail[t], cut[t], now) /\ q \in Seq(Messages)
      BY <1>4, <1>6, <3>1, <3>2, RoutedTab
    <3> QED
      BY <2>2, <3>2, <3>3
  <2> QED
    BY <2>1, <2>2
<1>11. t = front => r = p
  OBVIOUS
<1> HIDE DEF r
<1>12. /\ ui'[t] = v /\ pipe'[t] = r /\ ui' \in [Tabs -> Records]
       /\ pipe' \in [Tabs -> Seq(Messages)]
  BY <1>1, <1>4, <1>9, <1>10 DEF Ind, Shapes
<1>13. OnlyTab(t)
  BY <1>1, <1>9 DEF OnlyTab, Ind, Shapes
<1>14. /\ front \in Tabs /\ front \in opened /\ wake \in Wakeup \cup {None}
       /\ Promised(front, ui[front], wake, now) /\ Shown(pipe[front], kid[front])
  BY DEF Ind, Shapes
<1>15. wake' \in Wakeup \cup {None} /\ Promised(front, ui'[front], wake', now)
  <2>1. CASE t = front
    <3>1. wake = None
      BY <1>5, <1>14, <2>1 DEF Promised
    <3>2. Promised(front, v, None, now)
      BY <1>4 DEF Promised
    <3> QED
      BY <1>1, <1>12, <2>1, <3>1, <3>2
  <2>2. CASE t # front
    <3>1. PICK us, w : us = ui' /\ w = wake'
      OBVIOUS
    <3>2. us[front] = ui[front]
      BY <1>13, <1>14, <2>2, <3>1 DEF OnlyTab
    <3>3. us[front] \in Records /\ (us[front].doc # 0 => us[front].clock \in Nat)
      BY <1>14, <3>2, TabNow DEF TabShapes
    <3>4. w = schedule_script_runtime_wakeup(us, front, wake)
      BY <1>1, <2>2, <3>1
    <3>5. w \in Wakeup \cup {None} /\ Promised(front, us[front], w, now)
      BY <1>2, <1>14, <3>3, <3>4, Rescheduled
    <3> QED
      BY <3>1, <3>5
  <2> QED
    BY <2>1, <2>2
<1>16. Shown(pipe'[front], kid'[front])
  <2>1. CASE t = front
    BY <1>1, <1>8, <1>11, <1>12, <1>14, <2>1
  <2>2. CASE t # front
    BY <1>1, <1>13, <1>14, <2>2 DEF OnlyTab
  <2> QED
    BY <2>1, <2>2
<1>17. Shapes'
  BY <1>1, <1>3, <1>12, <1>15 DEF Ind, Shapes
<1>18. GoodTab(ui'[t], slot'[t], pipe'[t], kid'[t], mail'[t], cut'[t], now)
  BY <1>1, <1>10, <1>12
<1>19. /\ now' = now /\ opened \subseteq opened' /\ (t \notin opened' => Closed(ui'[t]))
       /\ Promised(front', ui'[front'], wake', now) /\ Shown(pipe'[front'], kid'[front'])
  BY <1>1, <1>5, <1>15, <1>16
<1> QED
  BY <1>13, <1>17, <1>18, <1>19, TabStep

-----------------------------------------------------------------------------
(* The invariant, and what it says.                                        *)

(* The window opens with one blank tab. *)
LEMMA IndInit ==
    ASSUME Init
    PROVE  Ind
<1>1. /\ Blank \in Records /\ Blank.doc = 0 /\ ~Blank.pending /\ ~Blank.loading
      /\ now = 0 /\ now \in 0 .. MaxTime
  BY ClockAssumption DEF Init, Blank, Records
<1>2. front \in Tabs /\ opened = {front}
  BY ClockAssumption DEF Init
<1>3. left \in Budgets
  BY ClockAssumption DEF Init, Budgets
<1>4. <<>> \in Seq(Messages) /\ <<>> \in Seq(Updates)
  OBVIOUS
<1>5. /\ wake = None
      /\ ui = [t \in Tabs |-> Blank] /\ slot = [t \in Tabs |-> None]
      /\ pipe = [t \in Tabs |-> <<>>] /\ kid = [t \in Tabs |-> None]
      /\ mail = [t \in Tabs |-> <<>>] /\ cut = [t \in Tabs |-> FALSE]
  BY DEF Init
<1>6. Shapes
  BY <1>1, <1>2, <1>3, <1>4, <1>5 DEF Shapes
<1>7. GoodTab(Blank, None, <<>>, None, <<>>, FALSE, now)
  BY <1>1, EmptyTab
<1>8. \A t \in Tabs : GoodTab(ui[t], slot[t], pipe[t], kid[t], mail[t], cut[t], now)
  BY <1>5, <1>7
<1>9. Promised(front, ui[front], wake, now)
  BY <1>1, <1>2, <1>5 DEF Promised
<1>10. Shown(pipe[front], kid[front])
  BY <1>2, <1>5 DEF Shown
<1>11. \A t \in Tabs \ opened : Closed(ui[t])
  BY <1>1, <1>5 DEF Closed
<1> QED
  BY <1>6, <1>8, <1>9, <1>10, <1>11 DEF Ind

(* Every step keeps it. *)
LEMMA IndNext ==
    ASSUME Ind, [Next]_vars
    PROVE  Ind'
<1>1. CASE UNCHANGED vars
  BY <1>1 DEF Ind, Shapes, vars
<1>2. CASE Tick
  BY <1>2, IndTick
<1>3. CASE pump_script_runtime
  BY <1>3, IndPump
<1>4. ASSUME NEW t \in Tabs, activate_tab(t)
      PROVE  Ind'
  BY <1>4, IndActivate
<1>5. ASSUME NEW t \in Tabs, begin_navigation(t)
      PROVE  Ind'
  BY <1>5, IndNavigate
<1>6. ASSUME NEW t \in Tabs, contain_page_engine_failure(t)
      PROVE  Ind'
  BY <1>6, IndContain
<1>7. ASSUME NEW t \in Tabs, submit_pending_renderer_document(t)
      PROVE  Ind'
  BY <1>7, IndSubmit
<1>8. ASSUME NEW t \in Tabs, Broker(t)
      PROVE  Ind'
  BY <1>8, IndBroker DEF Broker
<1>9. ASSUME NEW t \in Tabs, Child(t)
      PROVE  Ind'
  BY <1>9, IndLoad, IndLifecycle, IndAdvance, IndRestart, IndCallback, IndFinish DEF Child
<1>10. ASSUME NEW t \in Tabs, Shell(t)
       PROVE  Ind'
  BY <1>10, IndApply, IndFollow DEF Shell
<1>11. ASSUME NEW t \in Tabs, interact_document(t) \/ synchronize_storage(t)
       PROVE  Ind'
  BY <1>11, IndInteract, IndStorage
<1> QED
  BY <1>1, <1>2, <1>3, <1>4, <1>5, <1>6, <1>7, <1>8, <1>9, <1>10, <1>11 DEF Next

(* What a tab's invariant says of its clock. *)
LEMMA ClockFromInd ==
    ASSUME Ind
    PROVE  ClockInvariant
<1>1. TypeOK
  <2>1. \A t \in Tabs : ui[t].doc # 0 => ui[t].clock # None
    BY TabNow, NoneIsNoNumber
  <2>2. ui \in [Tabs -> [loading : BOOLEAN, doc : 0 .. MaxDocuments, next : Nat \cup {None},
                         clock : (0 .. MaxTime) \cup {None}, pending : BOOLEAN]]
    BY DEF Ind, Shapes, Records
  <2> QED
    BY <2>1, <2>2 DEF TypeOK, Ind, Shapes
<1>2. TimeIsConserved
  <2> SUFFICES ASSUME NEW t \in Tabs, Owned(t)
               PROVE  /\ kid[t].origin + kid[t].logical + kid[t].lost + InFlight(t)
                            = ui[t].clock
                      /\ ui[t].clock <= now
    BY DEF TimeIsConserved
  <2>1. InFlight(t) = Owed(slot[t], pipe[t])
    BY DEF InFlight, Owed
  <2> QED
    BY <2>1, TabNow DEF GoodTab, Conserved, Owned
<1>3. WakeIsForeground
  BY DEF Ind, Promised, WakeIsForeground
<1>4. FrameIsQueued
  BY TabNow DEF FrameIsQueued, GoodLoop, FrameQueued, Has
<1> QED
  BY <1>1, <1>2, <1>3, <1>4 DEF ClockInvariant

(* A foreground document at rest has its wakeup. *)
LEMMA WakeFromInd ==
    ASSUME Ind
    PROVE  WakeCoversNextCallback
<1> SUFFICES ASSUME Owned(front), Quiet(front), ~cut[front]
             PROVE  /\ kid[front].visible /\ ~ui[front].pending
                    /\ next_timer_micros(kid[front]) # None =>
                          /\ wake # None
                          /\ wake.deadline <=
                                Later(now, ui[front].clock + next_timer_micros(kid[front]))
  BY DEF WakeCoversNextCallback
<1> DEFINE u == ui[front]
           k == kid[front]
<1>1. front \in Tabs /\ Promised(front, u, wake, now) /\ Shown(pipe[front], k)
  BY DEF Ind, Shapes
<1>2. /\ u.doc # 0 /\ k # None /\ k.turn = None
      /\ slot[front] = None /\ pipe[front] = <<>> /\ mail[front] = <<>>
  BY DEF Owned, Quiet
<1>3. ~Busy(slot[front], pipe[front], k) /\ ~Marked(mail[front])
  BY <1>2 DEF Busy, Marked
<1>4. GoodTab(u, slot[front], pipe[front], k, mail[front], cut[front], now)
  BY <1>1, TabNow
<1>5. k.visible
  BY <1>1, <1>2 DEF Shown
<1>6. ~u.pending
  BY <1>3, <1>4 DEF GoodTab, Answered
<1>7. ASSUME next_timer_micros(k) # None
      PROVE  u.next = next_timer_micros(k)
  BY <1>2, <1>3, <1>4, <1>7 DEF GoodTab, Told
<1> QED
  BY <1>1, <1>2, <1>5, <1>6, <1>7 DEF Promised

(* The invariant holds of every behaviour. *)
LEMMA Inductive == Spec => []Ind
<1>1. Init => Ind
  BY IndInit
<1>2. Ind /\ [Next]_vars => Ind'
  BY IndNext
<1> QED
  BY <1>1, <1>2, PTL DEF Spec

(* For any tabs, timers and delays, the shell's clock of a document and    *)
(* the renderer's account for the same time, the window's one wakeup is    *)
(* the foreground document's, and a hidden page has no frame queued.       *)
THEOREM ClockSound == Spec => []ClockInvariant
<1>1. Ind => ClockInvariant
  BY ClockFromInd
<1> QED
  BY <1>1, Inductive, PTL

(* While nothing is on its way between shell and renderer, the foreground  *)
(* document's next callback is covered by the window's wakeup, however     *)
(* pump_script_runtime, its answers and tab switches came before.          *)
THEOREM WakeCovers == Spec => []WakeCoversNextCallback
<1>1. Ind => WakeCoversNextCallback
  BY WakeFromInd
<1> QED
  BY <1>1, Inductive, PTL
=============================================================================
