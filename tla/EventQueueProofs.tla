-------------------------- MODULE EventQueueProofs --------------------------
(***************************************************************************)
(* Proofs about EventQueue for any inputs, documents and bounds.           *)
(*                                                                         *)
(* The pipeline is one sequence through five places; most steps move its   *)
(* events from one place to the next and leave the sequence as it is.  The *)
(* inductive invariant says which place may hold events in which state of  *)
(* the two threads (Places), what an event carries (Marked), that the      *)
(* pipeline accounts for what was emitted (Accounted), that a backlog      *)
(* holds the latch and a latch is owed a wake (Awake), and that the queue  *)
(* keeps its limits while the broker waits with an event (Bounded).        *)
(***************************************************************************)
EXTENDS EventQueue, SequenceProofs, TLAPS

(***************************************************************************)
(* The inductive invariant.                                                *)
(***************************************************************************)

Ordered(es) ==
    \A i, j \in 1 .. Len(es) : i < j => \A a \in es[i].ids, b \in es[j].ids : a < b

Before(es, fs) == \A a \in IdsOf(es), b \in IdsOf(fs) : a < b

(* Which place may hold events while the threads are where they are. *)
Places ==
    /\ broker.event # None <=> broker.pc \in {"asleep", "awake"}
    /\ broker.pc \in {"exiting", "gone"} => exited
    /\ exited => broker.pc \in {"exiting", "posting", "gone"}
    /\ ui.exit => exited
    /\ callback <=> ui.pc \notin {"launching", "closed"}
    /\ open <=> ui.pc # "closed"
    /\ ~open => events = <<>>
    /\ ui.batch # <<>> => ui.pc \in {"collect", "check", "handle"}
    /\ deferred # <<>> => ui.pc \in {"idle", "finish", "monitor"}

(* An event carries a production, or tells of an exit that has happened. *)
MarkedEvents ==
    {e \in Events : IF e.kind = "exited" THEN e.doc = None /\ exited ELSE e.ids # {}}

Marked ==
    /\ handled \in Seq(MarkedEvents) /\ ui.batch \in Seq(MarkedEvents)
    /\ deferred \in Seq(MarkedEvents) /\ events \in Seq(MarkedEvents)
    /\ broker.event \in MarkedEvents \cup {None}

(* The productions up to n are in es, in order, or gone. *)
Accounts(es, n, gone) ==
    /\ Ordered(es)
    /\ 1 .. n = IdsOf(es) \cup gone
    /\ IdsOf(es) \cap gone = {}

Accounted == Accounts(Pipeline, produced, superseded \cup discarded)

Backlog == events # <<>> \/ ui.batch # <<>> \/ deferred # <<>>

WakeUnderWay == posted > 0 \/ broker.pc = "posting" \/ missedPost

(* A backlog holds the latch; a latch that is held between turns is owed a *)
(* wake, and one that is held when a turn ends still has its backlog.      *)
Awake ==
    /\ latch => callback
    /\ callback /\ Backlog => latch
    /\ ui.pc = "idle" /\ discarded = {} /\ latch => WakeUnderWay \/ timer = "active"
    /\ ui.pc = "monitor" /\ discarded = {} /\ latch => WakeUnderWay \/ Backlog

(* No event of the queue is replaced by another or by the waiting one. *)
Bounded ==
    /\ QueueWithinLimits /\ LatestOnly
    /\ broker.event # None =>
         \A i \in 1 .. Len(events) : ~Replaces(broker.event, events[i])

Ind == TypeOK /\ Places /\ Marked /\ Accounted /\ Awake /\ Bounded

(***************************************************************************)
(* The productions of a sequence of events.                                *)
(***************************************************************************)

(* The fields of an event. *)
LEMMA EventFields ==
    ASSUME NEW e \in Events
    PROVE  /\ e.kind \in Kinds /\ e.size \in Nat /\ e.seq \in Nat
           /\ e.ids \subseteq 1 .. MaxProduced
  BY DEF Events

(* A production is in a sequence when one of its events carries it. *)
LEMMA InIds ==
    ASSUME NEW es, NEW x
    PROVE  x \in IdsOf(es) <=> \E i \in 1 .. Len(es) : x \in es[i].ids
  BY DEF IdsOf

(* The productions of a sequence are numbers of productions. *)
LEMMA IdsType ==
    ASSUME NEW es \in Seq(Events)
    PROVE  IdsOf(es) \subseteq 1 .. MaxProduced
<1> SUFFICES ASSUME NEW x \in IdsOf(es)
             PROVE  x \in 1 .. MaxProduced
  OBVIOUS
<1>1. PICK i \in 1 .. Len(es) : x \in es[i].ids
  BY InIds
<1>2. es[i] \in Events
  OBVIOUS
<1> QED
  BY <1>1, <1>2, EventFields

(* Nothing carries nothing. *)
LEMMA IdsEmpty == IdsOf(<<>>) = {}
  BY DEF IdsOf

(* One event carries its own productions. *)
LEMMA IdsSingle ==
    ASSUME NEW e
    PROVE  IdsOf(<<e>>) = e.ids
  BY DEF IdsOf

(* Two sequences carry the productions of both. *)
LEMMA IdsConcat ==
    ASSUME NEW es \in Seq(Events), NEW fs \in Seq(Events)
    PROVE  IdsOf(es \o fs) = IdsOf(es) \cup IdsOf(fs)
<1> DEFINE gs == es \o fs
<1>1. /\ Len(gs) = Len(es) + Len(fs) /\ Len(es) \in Nat /\ Len(fs) \in Nat
      /\ \A i \in 1 .. Len(es) : gs[i] = es[i]
      /\ \A i \in 1 .. Len(fs) : gs[Len(es) + i] = fs[i]
  OBVIOUS
<1> HIDE DEF gs
<1>2. ASSUME NEW x \in IdsOf(gs)
      PROVE  x \in IdsOf(es) \cup IdsOf(fs)
  <2>1. PICK i \in 1 .. Len(gs) : x \in gs[i].ids
    BY <1>2, InIds
  <2>2. CASE i <= Len(es)
    <3>1. i \in 1 .. Len(es) /\ x \in es[i].ids
      BY <1>1, <2>1, <2>2
    <3> QED
      BY <3>1, InIds
  <2>3. CASE ~(i <= Len(es))
    <3> DEFINE j == i - Len(es)
    <3>1. j \in 1 .. Len(fs) /\ i = Len(es) + j
      BY <1>1, <2>3
    <3>2. x \in fs[j].ids
      BY <1>1, <2>1, <3>1
    <3> QED
      BY <3>1, <3>2, InIds
  <2> QED
    BY <2>2, <2>3
<1>3. ASSUME NEW x \in IdsOf(es)
      PROVE  x \in IdsOf(gs)
  <2>1. PICK i \in 1 .. Len(es) : x \in es[i].ids
    BY <1>3, InIds
  <2>2. i \in 1 .. Len(gs) /\ x \in gs[i].ids
    BY <1>1, <2>1
  <2> QED
    BY <2>2, InIds
<1>4. ASSUME NEW x \in IdsOf(fs)
      PROVE  x \in IdsOf(gs)
  <2>1. PICK i \in 1 .. Len(fs) : x \in fs[i].ids
    BY <1>4, InIds
  <2>2. Len(es) + i \in 1 .. Len(gs) /\ x \in gs[Len(es) + i].ids
    BY <1>1, <2>1
  <2> QED
    BY <2>2, InIds
<1> QED
  BY <1>2, <1>3, <1>4 DEF gs

(* Two sequences in a row are in order when each is and the first comes    *)
(* before the second.                                                      *)
LEMMA OrderedConcat ==
    ASSUME NEW es \in Seq(Events), NEW fs \in Seq(Events)
    PROVE  Ordered(es \o fs) <=> Ordered(es) /\ Ordered(fs) /\ Before(es, fs)
<1> DEFINE gs == es \o fs
<1>1. /\ Len(gs) = Len(es) + Len(fs) /\ Len(es) \in Nat /\ Len(fs) \in Nat
      /\ \A i \in 1 .. Len(es) : gs[i] = es[i]
      /\ \A i \in 1 .. Len(fs) : gs[Len(es) + i] = fs[i]
  OBVIOUS
<1> HIDE DEF gs
<1>2. ASSUME Ordered(gs)
      PROVE  Ordered(es) /\ Ordered(fs) /\ Before(es, fs)
  <2>1. Ordered(es)
    <3> SUFFICES ASSUME NEW i \in 1 .. Len(es), NEW j \in 1 .. Len(es), i < j,
                        NEW a \in es[i].ids, NEW b \in es[j].ids
                 PROVE  a < b
      BY DEF Ordered
    <3>1. /\ i \in 1 .. Len(gs) /\ j \in 1 .. Len(gs)
          /\ gs[i] = es[i] /\ gs[j] = es[j]
      BY <1>1
    <3> QED
      BY <1>2, <3>1 DEF Ordered
  <2>2. Ordered(fs)
    <3> SUFFICES ASSUME NEW i \in 1 .. Len(fs), NEW j \in 1 .. Len(fs), i < j,
                        NEW a \in fs[i].ids, NEW b \in fs[j].ids
                 PROVE  a < b
      BY DEF Ordered
    <3>1. /\ Len(es) + i \in 1 .. Len(gs) /\ Len(es) + j \in 1 .. Len(gs)
          /\ Len(es) + i < Len(es) + j
          /\ gs[Len(es) + i] = fs[i] /\ gs[Len(es) + j] = fs[j]
      BY <1>1
    <3> QED
      BY <1>2, <3>1 DEF Ordered
  <2>3. Before(es, fs)
    <3> SUFFICES ASSUME NEW a \in IdsOf(es), NEW b \in IdsOf(fs)
                 PROVE  a < b
      BY DEF Before
    <3>1. PICK i \in 1 .. Len(es) : a \in es[i].ids
      BY InIds
    <3>2. PICK j \in 1 .. Len(fs) : b \in fs[j].ids
      BY InIds
    <3>3. /\ i \in 1 .. Len(gs) /\ Len(es) + j \in 1 .. Len(gs)
          /\ i < Len(es) + j
          /\ gs[i] = es[i] /\ gs[Len(es) + j] = fs[j]
      BY <1>1
    <3> QED
      BY <1>2, <3>1, <3>2, <3>3 DEF Ordered
  <2> QED
    BY <2>1, <2>2, <2>3
<1>3. ASSUME Ordered(es), Ordered(fs), Before(es, fs)
      PROVE  Ordered(gs)
  <2> SUFFICES ASSUME NEW i \in 1 .. Len(gs), NEW j \in 1 .. Len(gs), i < j,
                      NEW a \in gs[i].ids, NEW b \in gs[j].ids
               PROVE  a < b
    BY DEF Ordered
  <2>1. CASE j <= Len(es)
    <3>1. i \in 1 .. Len(es) /\ j \in 1 .. Len(es) /\ gs[i] = es[i] /\ gs[j] = es[j]
      BY <1>1, <2>1
    <3> QED
      BY <1>3, <3>1 DEF Ordered
  <2>2. CASE ~(j <= Len(es)) /\ i <= Len(es)
    <3> DEFINE k == j - Len(es)
    <3>1. k \in 1 .. Len(fs) /\ j = Len(es) + k /\ i \in 1 .. Len(es)
      BY <1>1, <2>2
    <3>2. gs[i] = es[i] /\ gs[j] = fs[k]
      BY <1>1, <3>1
    <3>3. a \in IdsOf(es) /\ b \in IdsOf(fs)
      BY <3>1, <3>2, InIds
    <3> QED
      BY <1>3, <3>3 DEF Before
  <2>3. CASE ~(i <= Len(es))
    <3> DEFINE k == j - Len(es)
               m == i - Len(es)
    <3>1. /\ k \in 1 .. Len(fs) /\ j = Len(es) + k
          /\ m \in 1 .. Len(fs) /\ i = Len(es) + m /\ m < k
      BY <1>1, <2>3
    <3>2. gs[i] = fs[m] /\ gs[j] = fs[k]
      BY <1>1, <3>1
    <3> QED
      BY <1>3, <3>1, <3>2 DEF Ordered
  <2> QED
    BY <1>1, <2>1, <2>2, <2>3
<1> QED
  BY <1>2, <1>3 DEF gs

(* What a selection keeps and what it leaves out. *)
LEMMA IdsSelected ==
    ASSUME NEW es \in Seq(Events), NEW S, NEW x
    PROVE  x \in IdsOf(Selection(es, S))
              <=> \E n \in 1 .. Len(es) : es[n] \in S /\ x \in es[n].ids
<1> DEFINE r == Selection(es, S)
<1>1. PICK h \in [1 .. Len(r) -> 1 .. Len(es)] :
        /\ \A i \in 1 .. Len(r) : es[h[i]] \in S /\ es[h[i]] = r[i]
        /\ \A n \in 1 .. Len(es) : es[n] \in S => \E i \in 1 .. Len(r) : h[i] = n
  BY SelectionEmbeds
<1> HIDE DEF r
<1>2. ASSUME x \in IdsOf(r)
      PROVE  \E n \in 1 .. Len(es) : es[n] \in S /\ x \in es[n].ids
  <2>1. PICK i \in 1 .. Len(r) : x \in r[i].ids
    BY <1>2, InIds
  <2>2. h[i] \in 1 .. Len(es) /\ es[h[i]] \in S /\ es[h[i]] = r[i]
    BY <1>1
  <2> QED
    BY <2>1, <2>2
<1>3. ASSUME NEW n \in 1 .. Len(es), es[n] \in S, x \in es[n].ids
      PROVE  x \in IdsOf(r)
  <2>1. PICK i \in 1 .. Len(r) : h[i] = n
    BY <1>1, <1>3
  <2>2. x \in r[i].ids
    BY <1>1, <1>3, <2>1
  <2> QED
    BY <2>2, InIds
<1> QED
  BY <1>2, <1>3 DEF r

(* What is selected from an ordered sequence is ordered. *)
LEMMA OrderedSelection ==
    ASSUME NEW es \in Seq(Events), NEW S, Ordered(es)
    PROVE  Ordered(Selection(es, S))
<1> DEFINE r == Selection(es, S)
<1>1. PICK h \in [1 .. Len(r) -> 1 .. Len(es)] :
        /\ \A i \in 1 .. Len(r) : es[h[i]] \in S /\ es[h[i]] = r[i]
        /\ \A i, j \in 1 .. Len(r) : i < j => h[i] < h[j]
  BY SelectionEmbeds
<1> HIDE DEF r
<1> SUFFICES ASSUME NEW i \in 1 .. Len(r), NEW j \in 1 .. Len(r), i < j,
                    NEW a \in r[i].ids, NEW b \in r[j].ids
             PROVE  a < b
  BY DEF Ordered, r
<1>2. /\ h[i] \in 1 .. Len(es) /\ h[j] \in 1 .. Len(es) /\ h[i] < h[j]
      /\ a \in es[h[i]].ids /\ b \in es[h[j]].ids
  BY <1>1
<1> QED
  BY <1>2 DEF Ordered

(* In an ordered sequence no production is in two events, so what is       *)
(* selected and what is not share none.                                    *)
LEMMA SelectionSplits ==
    ASSUME NEW es \in Seq(Events), NEW S, NEW R, Ordered(es),
           \A e \in Events : e \in R <=> e \notin S
    PROVE  /\ IdsOf(es) = IdsOf(Selection(es, S)) \cup IdsOf(Selection(es, R))
           /\ IdsOf(Selection(es, S)) \cap IdsOf(Selection(es, R)) = {}
<1>1. \A n \in 1 .. Len(es) : es[n] \in Events
  BY ElementOfSeq
<1>2. ASSUME NEW x
      PROVE  x \in IdsOf(es) <=> x \in IdsOf(Selection(es, S)) \/ x \in IdsOf(Selection(es, R))
  BY <1>1, IdsSelected, InIds
<1>3. ASSUME NEW x \in IdsOf(Selection(es, S)), x \in IdsOf(Selection(es, R))
      PROVE  FALSE
  <2>1. PICK n \in 1 .. Len(es) : es[n] \in S /\ x \in es[n].ids
    BY <1>3, IdsSelected
  <2>2. PICK m \in 1 .. Len(es) : es[m] \in R /\ x \in es[m].ids
    BY <1>3, IdsSelected
  <2>3. m # n
    BY <1>1, <2>1, <2>2
  <2>4. x \in 1 .. MaxProduced
    BY <1>1, <2>1, EventFields
  <2>5. CASE m < n
    BY <2>1, <2>2, <2>4, <2>5 DEF Ordered
  <2>6. CASE n < m
    BY <2>1, <2>2, <2>4, <2>6 DEF Ordered
  <2>7. Len(es) \in Nat
    OBVIOUS
  <2> QED
    BY <2>3, <2>5, <2>6, <2>7
<1> QED
  BY <1>2, <1>3

(***************************************************************************)
(* What the steps do to a sequence that accounts for the productions.      *)
(***************************************************************************)

(* A part of it goes. *)
LEMMA AccountsLose ==
    ASSUME NEW as \in Seq(Events), NEW bs \in Seq(Events), NEW cs \in Seq(Events),
           NEW n, NEW gone, Accounts((as \o bs) \o cs, n, gone)
    PROVE  Accounts(as \o cs, n, gone \cup IdsOf(bs))
<1>1. as \o bs \in Seq(Events)
  BY ConcatProperties
<1>2. /\ IdsOf((as \o bs) \o cs) = IdsOf(as) \cup IdsOf(bs) \cup IdsOf(cs)
      /\ IdsOf(as \o cs) = IdsOf(as) \cup IdsOf(cs)
      /\ IdsOf(as \o bs) = IdsOf(as) \cup IdsOf(bs)
  BY <1>1, IdsConcat
<1>3. /\ Ordered(as \o bs) /\ Ordered(cs) /\ Before(as \o bs, cs)
      /\ Ordered(as) /\ Ordered(bs) /\ Before(as, bs)
  BY <1>1, OrderedConcat DEF Accounts
<1>4. Before(as, cs) /\ Before(bs, cs)
  BY <1>2, <1>3 DEF Before
<1>5. Ordered(as \o cs)
  BY <1>3, <1>4, OrderedConcat
<1>6. IdsOf(bs) \cap IdsOf(as \o cs) = {}
  <2> SUFFICES ASSUME NEW x \in IdsOf(bs), x \in IdsOf(as) \/ x \in IdsOf(cs)
               PROVE  FALSE
    BY <1>2
  <2>1. x < x
    BY <1>3, <1>4 DEF Before
  <2>2. x \in 1 .. MaxProduced
    BY IdsType
  <2> QED
    BY <2>1, <2>2
<1> QED
  BY <1>2, <1>5, <1>6 DEF Accounts

(* Some of its events go. *)
LEMMA AccountsSelect ==
    ASSUME NEW as \in Seq(Events), NEW bs \in Seq(Events), NEW n, NEW gone,
           NEW S, NEW R, \A e \in Events : e \in R <=> e \notin S,
           Accounts(as \o bs, n, gone)
    PROVE  Accounts(as \o Selection(bs, S), n, gone \cup IdsOf(Selection(bs, R)))
<1> DEFINE s == Selection(bs, S)
           r == Selection(bs, R)
<1>1. Ordered(as) /\ Ordered(bs) /\ Before(as, bs)
  BY OrderedConcat DEF Accounts
<1>2. s \in Seq(Events)
  <2>1. s \in Seq(Events \cap S)
    BY SelectionType
  <2> QED
    BY <2>1, SeqMonotonic
<1>3. Ordered(s) /\ IdsOf(bs) = IdsOf(s) \cup IdsOf(r) /\ IdsOf(s) \cap IdsOf(r) = {}
  BY <1>1, OrderedSelection, SelectionSplits
<1> HIDE DEF s, r
<1>4. /\ IdsOf(as \o bs) = IdsOf(as) \cup IdsOf(bs)
      /\ IdsOf(as \o s) = IdsOf(as) \cup IdsOf(s)
  BY <1>2, IdsConcat
<1>5. Ordered(as \o s)
  <2>1. Before(as, s)
    BY <1>1, <1>3 DEF Before
  <2> QED
    BY <1>1, <1>2, <1>3, <2>1, OrderedConcat
<1>6. IdsOf(as) \cap IdsOf(r) = {}
  <2> SUFFICES ASSUME NEW x \in IdsOf(as), x \in IdsOf(r)
               PROVE  FALSE
    OBVIOUS
  <2>1. x < x
    BY <1>1, <1>3 DEF Before
  <2>2. x \in 1 .. MaxProduced
    BY IdsType
  <2> QED
    BY <2>1, <2>2
<1> QED
  BY <1>3, <1>4, <1>5, <1>6 DEF Accounts, s, r

(* A new event joins it: with the next production, with none, *)
LEMMA AccountsAppend ==
    ASSUME NEW es \in Seq(Events), NEW e \in Events, NEW n \in Nat, NEW gone,
           Accounts(es, n, gone), e.ids = {n + 1}
    PROVE  Accounts(es \o <<e>>, n + 1, gone)
<1> DEFINE t == <<e>>
<1>1. t \in Seq(Events) /\ IdsOf(t) = e.ids /\ Ordered(t)
  <2>1. Ordered(t)
    BY DEF Ordered
  <2> QED
    BY <2>1, IdsSingle
<1> HIDE DEF t
<1>2. IdsOf(es) \subseteq 1 .. n /\ gone \subseteq 1 .. n
  BY DEF Accounts
<1>3. Before(es, t)
  BY <1>1, <1>2 DEF Before
<1>4. Ordered(es \o t)
  BY <1>1, <1>3, OrderedConcat DEF Accounts
<1>5. IdsOf(es \o t) = IdsOf(es) \cup {n + 1}
  BY <1>1, IdsConcat
<1>6. 1 .. n + 1 = (1 .. n) \cup {n + 1} /\ n + 1 \notin gone
  BY <1>2
<1>7. 1 .. n = IdsOf(es) \cup gone /\ IdsOf(es) \cap gone = {}
  BY DEF Accounts
<1>8. 1 .. n + 1 = IdsOf(es \o t) \cup gone /\ IdsOf(es \o t) \cap gone = {}
  BY <1>5, <1>6, <1>7
<1> QED
  BY <1>4, <1>8 DEF Accounts, t

(* An event without a production changes no account. *)
LEMMA AccountsQuiet ==
    ASSUME NEW es \in Seq(Events), NEW e \in Events, NEW n, NEW gone,
           Accounts(es, n, gone), e.ids = {}
    PROVE  Accounts(es \o <<e>>, n, gone)
<1> DEFINE t == <<e>>
<1>1. t \in Seq(Events) /\ IdsOf(t) = e.ids /\ Ordered(t)
  <2>1. Ordered(t)
    BY DEF Ordered
  <2> QED
    BY <2>1, IdsSingle
<1> HIDE DEF t
<1>2. Before(es, t)
  BY <1>1 DEF Before
<1>3. Ordered(es \o t)
  BY <1>1, <1>2, OrderedConcat DEF Accounts
<1>4. IdsOf(es \o t) = IdsOf(es)
  <2>1. IdsOf(es \o t) = IdsOf(es) \cup IdsOf(t)
    BY <1>1, IdsConcat
  <2> QED
    BY <1>1, <2>1
<1> QED
  BY <1>3, <1>4 DEF Accounts, t

(* or merged with the last event; or a production goes at once.            *)
LEMMA AccountsMerge ==
    ASSUME NEW es \in Seq(Events), NEW l \in Events, NEW e \in Events, NEW n \in Nat, NEW gone,
           Accounts(es \o <<l>>, n, gone), e.ids = {n + 1} \cup l.ids
    PROVE  Accounts(es \o <<e>>, n + 1, gone)
<1> DEFINE t == <<e>>
           u == <<l>>
<1>1. /\ t \in Seq(Events) /\ IdsOf(t) = e.ids /\ Ordered(t)
      /\ u \in Seq(Events) /\ IdsOf(u) = l.ids
  <2>1. Ordered(t)
    BY DEF Ordered
  <2> QED
    BY <2>1, IdsSingle
<1> HIDE DEF t, u
<1>2. IdsOf(es \o u) = IdsOf(es) \cup l.ids /\ IdsOf(es \o t) = IdsOf(es) \cup e.ids
  BY <1>1, IdsConcat
<1>3. Ordered(es) /\ Before(es, u)
  BY <1>1, OrderedConcat DEF Accounts, u
<1>4. /\ 1 .. n = IdsOf(es) \cup l.ids \cup gone
      /\ (IdsOf(es) \cup l.ids) \cap gone = {}
  BY <1>2 DEF Accounts, u
<1>5. IdsOf(es) \subseteq 1 .. n /\ gone \subseteq 1 .. n
  BY <1>4
<1>6. Before(es, t)
  BY <1>1, <1>3, <1>5 DEF Before
<1>7. Ordered(es \o t)
  BY <1>1, <1>3, <1>6, OrderedConcat
<1>8. 1 .. n + 1 = (1 .. n) \cup {n + 1} /\ n + 1 \notin gone
  BY <1>5
<1>9. 1 .. n + 1 = IdsOf(es \o t) \cup gone /\ IdsOf(es \o t) \cap gone = {}
  BY <1>2, <1>4, <1>8
<1> QED
  BY <1>7, <1>9 DEF Accounts, t

(* A production that is discarded at once is accounted for. *)
LEMMA AccountsGone ==
    ASSUME NEW es, NEW n \in Nat, NEW gone, Accounts(es, n, gone)
    PROVE  Accounts(es, n + 1, gone \cup {n + 1})
<1>1. 1 .. n = IdsOf(es) \cup gone /\ IdsOf(es) \cap gone = {}
  BY DEF Accounts
<1>2. 1 .. n + 1 = (1 .. n) \cup {n + 1} /\ n + 1 \notin 1 .. n
  OBVIOUS
<1>3. 1 .. n + 1 = IdsOf(es) \cup (gone \cup {n + 1}) /\ n + 1 \notin IdsOf(es)
  BY <1>1, <1>2
<1> QED
  BY <1>1, <1>3 DEF Accounts

(***************************************************************************)
(* The limits of the queue.                                                *)
(***************************************************************************)

SizesOf(kinds) == [e \in Events |-> IF e.kind \in kinds THEN e.size ELSE 0]

Fetches == [e \in Events |-> IF e.kind = "fetch" THEN 1 ELSE 0]

WithinLimits(es) ==
    /\ Len(es) <= MaxEvents
    /\ TotalSize(es, {"storage"}) <= MaxStorage
    /\ TotalSize(es, Merged) <= MaxResources
    /\ FetchBatches(es) <= MaxFetches

Distinct(es) == \A i, j \in 1 .. Len(es) : i # j => ~Replaces(es[i], es[j])

(* The weights of the events are natural numbers. *)
LEMMA SizesType ==
    ASSUME NEW kinds
    PROVE  SizesOf(kinds) \in [Events -> Nat] /\ Fetches \in [Events -> Nat]
  BY EventFields DEF SizesOf, Fetches

(* The queue's totals are weights of its sequence. *)
LEMMA TotalsWeighed ==
    ASSUME NEW es \in Seq(Events), NEW kinds
    PROVE  /\ TotalSize(es, kinds) = Weighed(es, SizesOf(kinds))
           /\ FetchBatches(es) = Weighed(es, Fetches)
<1>1. \A i \in 1 .. Len(es) : es[i] \in Events
  BY ElementOfSeq
<1>2. [i \in 1 .. Len(es) |-> IF es[i].kind \in kinds THEN es[i].size ELSE 0]
         = Weights(es, SizesOf(kinds))
  BY <1>1 DEF Weights, SizesOf
<1>3. [i \in 1 .. Len(es) |-> IF es[i].kind = "fetch" THEN 1 ELSE 0]
         = Weights(es, Fetches)
  BY <1>1 DEF Weights, Fetches
<1> QED
  BY <1>2, <1>3 DEF TotalSize, FetchBatches, Weighed

(* The queue's totals are natural numbers. *)
LEMMA TotalsNat ==
    ASSUME NEW es \in Seq(Events), NEW kinds
    PROVE  TotalSize(es, kinds) \in Nat /\ FetchBatches(es) \in Nat
  BY TotalsWeighed, SizesType, WeighedNat

(* An empty queue is within its limits. *)
LEMMA LimitsEmpty == WithinLimits(<<>>)
<1> DEFINE es == <<>>
<1>1. es \in Seq(Events) /\ Len(es) = 0
  OBVIOUS
<1>2. Weighed(es, SizesOf({"storage"})) = 0 /\ Weighed(es, SizesOf(Merged)) = 0
      /\ Weighed(es, Fetches) = 0
  BY WeighedEmpty
<1> HIDE DEF es
<1>3. TotalSize(es, {"storage"}) = 0 /\ TotalSize(es, Merged) = 0 /\ FetchBatches(es) = 0
  BY <1>1, <1>2, TotalsWeighed
<1> QED
  BY <1>1, <1>3, QueueAssumption DEF WithinLimits, es

(* A queue that loses events keeps them. *)
LEMMA LimitsTail ==
    ASSUME NEW es \in Seq(Events), es # <<>>, WithinLimits(es)
    PROVE  WithinLimits(Tail(es))
<1> DEFINE r == Tail(es)
           h == Head(es)
<1>1. r \in Seq(Events) /\ h \in Events /\ Len(r) = Len(es) - 1 /\ Len(es) \in Nat
  BY HeadTailProperties
<1>2. ASSUME NEW w \in [Events -> Nat]
      PROVE  Weighed(r, w) <= Weighed(es, w)
  <2>1. Weighed(es, w) = w[h] + Weighed(r, w)
    BY WeighedTail
  <2>2. w[h] \in Nat /\ Weighed(r, w) \in Nat
    BY <1>1, WeighedNat
  <2> QED
    BY <2>1, <2>2
<1> HIDE DEF r, h
<1>3. /\ Weighed(r, SizesOf({"storage"})) <= Weighed(es, SizesOf({"storage"}))
      /\ Weighed(r, SizesOf(Merged)) <= Weighed(es, SizesOf(Merged))
      /\ Weighed(r, Fetches) <= Weighed(es, Fetches)
  BY <1>2, SizesType
<1>4. /\ TotalSize(r, {"storage"}) <= TotalSize(es, {"storage"})
      /\ TotalSize(r, Merged) <= TotalSize(es, Merged)
      /\ FetchBatches(r) <= FetchBatches(es)
  BY <1>1, <1>3, TotalsWeighed
<1>5. /\ TotalSize(r, {"storage"}) \in Nat /\ TotalSize(es, {"storage"}) \in Nat
      /\ TotalSize(r, Merged) \in Nat /\ TotalSize(es, Merged) \in Nat
      /\ FetchBatches(r) \in Nat /\ FetchBatches(es) \in Nat
  BY <1>1, TotalsNat
<1> QED
  BY <1>1, <1>4, <1>5, QueueAssumption DEF WithinLimits, r

(* A queue from which events are removed stays within its limits. *)
LEMMA LimitsSelection ==
    ASSUME NEW es \in Seq(Events), NEW S, WithinLimits(es)
    PROVE  WithinLimits(Selection(es, S))
<1> DEFINE r == Selection(es, S)
<1>1. r \in Seq(Events)
  <2>1. r \in Seq(Events \cap S)
    BY SelectionType
  <2> QED
    BY <2>1, SeqMonotonic
<1>2. ASSUME NEW w \in [Events -> Nat]
      PROVE  Weighed(r, w) <= Weighed(es, w)
  BY WeighedSelection
<1>3. Len(r) <= Len(es)
  BY SelectionLength
<1> HIDE DEF r
<1>4. /\ Weighed(r, SizesOf({"storage"})) <= Weighed(es, SizesOf({"storage"}))
      /\ Weighed(r, SizesOf(Merged)) <= Weighed(es, SizesOf(Merged))
      /\ Weighed(r, Fetches) <= Weighed(es, Fetches)
  BY <1>2, SizesType
<1>5. /\ TotalSize(r, {"storage"}) <= TotalSize(es, {"storage"})
      /\ TotalSize(r, Merged) <= TotalSize(es, Merged)
      /\ FetchBatches(r) <= FetchBatches(es)
  BY <1>1, <1>4, TotalsWeighed
<1>6. /\ TotalSize(r, {"storage"}) \in Nat /\ TotalSize(es, {"storage"}) \in Nat
      /\ TotalSize(r, Merged) \in Nat /\ TotalSize(es, Merged) \in Nat
      /\ FetchBatches(r) \in Nat /\ FetchBatches(es) \in Nat
      /\ Len(r) \in Nat /\ Len(es) \in Nat
  BY <1>1, TotalsNat
<1> QED
  BY <1>3, <1>5, <1>6, QueueAssumption DEF WithinLimits, r

(* The limits of a longer queue hold of its beginning. *)
LEMMA LimitsBeginning ==
    ASSUME NEW es \in Seq(Events), NEW e \in Events, WithinLimits(Append(es, e))
    PROVE  WithinLimits(es)
<1> DEFINE r == Append(es, e)
<1>1. r \in Seq(Events) /\ Len(r) = Len(es) + 1 /\ Len(es) \in Nat
  BY AppendProperties
<1>2. ASSUME NEW w \in [Events -> Nat]
      PROVE  Weighed(es, w) <= Weighed(r, w)
  <2>1. Weighed(r, w) = Weighed(es, w) + w[e]
    BY WeighedAppend
  <2>2. w[e] \in Nat /\ Weighed(es, w) \in Nat
    BY WeighedNat
  <2> QED
    BY <2>1, <2>2
<1> HIDE DEF r
<1>3. /\ Weighed(es, SizesOf({"storage"})) <= Weighed(r, SizesOf({"storage"}))
      /\ Weighed(es, SizesOf(Merged)) <= Weighed(r, SizesOf(Merged))
      /\ Weighed(es, Fetches) <= Weighed(r, Fetches)
  BY <1>2, SizesType
<1>4. /\ TotalSize(es, {"storage"}) <= TotalSize(r, {"storage"})
      /\ TotalSize(es, Merged) <= TotalSize(r, Merged)
      /\ FetchBatches(es) <= FetchBatches(r)
  BY <1>1, <1>3, TotalsWeighed
<1>5. /\ TotalSize(r, {"storage"}) \in Nat /\ TotalSize(es, {"storage"}) \in Nat
      /\ TotalSize(r, Merged) \in Nat /\ TotalSize(es, Merged) \in Nat
      /\ FetchBatches(r) \in Nat /\ FetchBatches(es) \in Nat
  BY <1>1, TotalsNat
<1> QED
  BY <1>1, <1>4, <1>5, QueueAssumption DEF WithinLimits, r

(* What does not have to wait keeps the limits. *)
LEMMA LimitsPush ==
    ASSUME NEW es \in Seq(Events), NEW e \in Events, WithinLimits(es), ~Blocked(es, e)
    PROVE  WithinLimits(Append(es, e))
<1> DEFINE r == Append(es, e)
<1>1. r \in Seq(Events) /\ Len(r) = Len(es) + 1 /\ Len(es) \in Nat
  BY AppendProperties
<1>2. ASSUME NEW w \in [Events -> Nat]
      PROVE  Weighed(r, w) = Weighed(es, w) + w[e]
  BY WeighedAppend
<1> HIDE DEF r
<1>3. /\ Weighed(r, SizesOf({"storage"})) = Weighed(es, SizesOf({"storage"})) + SizesOf({"storage"})[e]
      /\ Weighed(r, SizesOf(Merged)) = Weighed(es, SizesOf(Merged)) + SizesOf(Merged)[e]
      /\ Weighed(r, Fetches) = Weighed(es, Fetches) + Fetches[e]
  BY <1>2, SizesType
<1>4. /\ SizesOf({"storage"})[e] = IF e.kind = "storage" THEN e.size ELSE 0
      /\ SizesOf(Merged)[e] = IF e.kind \in Merged THEN e.size ELSE 0
      /\ Fetches[e] = IF e.kind = "fetch" THEN 1 ELSE 0
  BY DEF SizesOf, Fetches
<1>5. /\ TotalSize(r, {"storage"}) = TotalSize(es, {"storage"}) + (IF e.kind = "storage" THEN e.size ELSE 0)
      /\ TotalSize(r, Merged) = TotalSize(es, Merged) + (IF e.kind \in Merged THEN e.size ELSE 0)
      /\ FetchBatches(r) = FetchBatches(es) + (IF e.kind = "fetch" THEN 1 ELSE 0)
  BY <1>1, <1>3, <1>4, TotalsWeighed
<1>6. /\ TotalSize(es, {"storage"}) \in Nat /\ TotalSize(es, Merged) \in Nat
      /\ FetchBatches(es) \in Nat /\ e.size \in Nat
  BY <1>1, TotalsNat, EventFields
<1>7. /\ Len(es) < MaxEvents
      /\ e.kind \in Lossless =>
           /\ FetchBatches(es) < MaxFetches
           /\ TotalSize(es, {"storage"}) + (IF e.kind = "storage" THEN e.size ELSE 0) <= MaxStorage
      /\ e.kind \notin Lossless =>
           TotalSize(es, Merged) + (IF e.kind \in Merged THEN e.size ELSE 0) <= MaxResources
  BY <1>1, <1>6, QueueAssumption DEF Blocked
<1>8. CASE e.kind \in Lossless
  <2>1. e.kind \notin Merged
    BY <1>8 DEF Lossless, Merged
  <2> QED
    BY <1>1, <1>5, <1>6, <1>7, <1>8, <2>1, QueueAssumption DEF WithinLimits, r
<1>9. CASE e.kind \notin Lossless
  <2>1. e.kind # "storage" /\ e.kind # "fetch"
    BY <1>9 DEF Lossless
  <2> QED
    BY <1>1, <1>5, <1>6, <1>7, <1>9, <2>1, QueueAssumption DEF WithinLimits, r
<1> QED
  BY <1>8, <1>9

(***************************************************************************)
(* The kinds of which only the newest is queued.                           *)
(***************************************************************************)

Clean(es, e) == \A i \in 1 .. Len(es) : ~Replaces(e, es[i])

(* Taking the head leaves at most one event of each replaceable kind. *)
LEMMA DistinctTail ==
    ASSUME NEW es \in Seq(Events), es # <<>>, Distinct(es)
    PROVE  Distinct(Tail(es))
<1> DEFINE r == Tail(es)
<1>1. /\ Len(r) = Len(es) - 1 /\ Len(es) \in Nat
      /\ \A i \in 1 .. Len(r) : r[i] = es[i + 1]
  BY HeadTailProperties
<1> HIDE DEF r
<1> SUFFICES ASSUME NEW i \in 1 .. Len(r), NEW j \in 1 .. Len(r), i # j
             PROVE  ~Replaces(r[i], r[j])
  BY DEF Distinct, r
<1>2. i + 1 \in 1 .. Len(es) /\ j + 1 \in 1 .. Len(es) /\ i + 1 # j + 1
  BY <1>1
<1> QED
  BY <1>1, <1>2 DEF Distinct

(* Taking the head leaves nothing for an event to replace where there was  *)
(* nothing.                                                                *)
LEMMA CleanTail ==
    ASSUME NEW es \in Seq(Events), es # <<>>, NEW e, Clean(es, e)
    PROVE  Clean(Tail(es), e)
<1> DEFINE r == Tail(es)
<1>1. /\ Len(r) = Len(es) - 1 /\ Len(es) \in Nat
      /\ \A i \in 1 .. Len(r) : r[i] = es[i + 1]
  BY HeadTailProperties
<1> HIDE DEF r
<1> SUFFICES ASSUME NEW i \in 1 .. Len(r)
             PROVE  ~Replaces(e, r[i])
  BY DEF Clean, r
<1>2. i + 1 \in 1 .. Len(es)
  BY <1>1
<1> QED
  BY <1>1, <1>2 DEF Clean

(* A selection has at most one event of each replaceable kind if the       *)
(* sequence has.                                                           *)
LEMMA DistinctSelection ==
    ASSUME NEW es \in Seq(Events), NEW S, Distinct(es)
    PROVE  Distinct(Selection(es, S))
<1> DEFINE r == Selection(es, S)
<1>1. Len(r) \in Nat
  <2>1. r \in Seq(Events \cap S)
    BY SelectionType
  <2> QED
    BY <2>1, LenProperties
<1>2. PICK h \in [1 .. Len(r) -> 1 .. Len(es)] :
        /\ \A i \in 1 .. Len(r) : es[h[i]] \in S /\ es[h[i]] = r[i]
        /\ \A i, j \in 1 .. Len(r) : i < j => h[i] < h[j]
  BY SelectionEmbeds
<1> HIDE DEF r
<1> SUFFICES ASSUME NEW i \in 1 .. Len(r), NEW j \in 1 .. Len(r), i # j
             PROVE  ~Replaces(r[i], r[j])
  BY DEF Distinct, r
<1>3. h[i] \in 1 .. Len(es) /\ h[j] \in 1 .. Len(es) /\ h[i] # h[j]
  BY <1>1, <1>2
<1> QED
  BY <1>2, <1>3 DEF Distinct

(* So has a sequence without its last event. *)
LEMMA DistinctBeginning ==
    ASSUME NEW es \in Seq(Events), NEW e \in Events, Distinct(Append(es, e))
    PROVE  Distinct(es)
<1> DEFINE r == Append(es, e)
<1>1. Len(r) = Len(es) + 1 /\ Len(es) \in Nat /\ \A i \in 1 .. Len(es) : r[i] = es[i]
  BY AppendProperties
<1> HIDE DEF r
<1> SUFFICES ASSUME NEW i \in 1 .. Len(es), NEW j \in 1 .. Len(es), i # j
             PROVE  ~Replaces(es[i], es[j])
  BY DEF Distinct
<1>2. i \in 1 .. Len(r) /\ j \in 1 .. Len(r) /\ r[i] = es[i] /\ r[j] = es[j]
  BY <1>1
<1> QED
  BY <1>2 DEF Distinct, r

(* So has a sequence after a push that replaced what it had to. *)
LEMMA DistinctPush ==
    ASSUME NEW es \in Seq(Events), NEW e \in Events, Distinct(es), Clean(es, e)
    PROVE  Distinct(Append(es, e))
<1> DEFINE r == Append(es, e)
<1>1. /\ Len(r) = Len(es) + 1 /\ Len(es) \in Nat /\ \A i \in 1 .. Len(es) : r[i] = es[i]
      /\ r[Len(es) + 1] = e
  BY AppendProperties
<1> HIDE DEF r
<1> SUFFICES ASSUME NEW i \in 1 .. Len(r), NEW j \in 1 .. Len(r), i # j
             PROVE  ~Replaces(r[i], r[j])
  BY DEF Distinct, r
<1>2. CASE i \in 1 .. Len(es) /\ j \in 1 .. Len(es)
  BY <1>1, <1>2 DEF Distinct
<1>3. CASE i = Len(es) + 1 /\ j \in 1 .. Len(es)
  BY <1>1, <1>3 DEF Clean
<1>4. CASE j = Len(es) + 1 /\ i \in 1 .. Len(es)
  BY <1>1, <1>4 DEF Clean, Replaces
<1> QED
  BY <1>1, <1>2, <1>3, <1>4

(***************************************************************************)
(* The steps.                                                              *)
(***************************************************************************)

(* The places of the pipeline hold sequences of events. *)
LEMMA QueueTypes ==
    ASSUME TypeOK
    PROVE  /\ handled \in Seq(Events) /\ ui.batch \in Seq(Events)
           /\ deferred \in Seq(Events) /\ events \in Seq(Events) /\ Hand \in Seq(Events)
<1>1. broker.event \in Events \cup {None} /\ ui.batch \in Seq(Events)
  BY DEF TypeOK
<1>2. Hand \in Seq(Events)
  <2>1. CASE broker.event = None
    BY <2>1 DEF Hand
  <2>2. CASE broker.event # None
    <3>1. broker.event \in Events
      BY <1>1, <2>2
    <3> QED
      BY <2>2, <3>1 DEF Hand
  <2> QED
    BY <2>1, <2>2
<1> QED
  BY <1>1, <1>2 DEF TypeOK

(* The pipeline is what the window has, followed by what the queue has. *)
LEMMA Regroup ==
    ASSUME NEW h \in Seq(Events), NEW b \in Seq(Events), NEW d \in Seq(Events),
           NEW e \in Seq(Events), NEW k \in Seq(Events)
    PROVE  /\ (((h \o b) \o d) \o e) \o k = ((h \o b) \o d) \o (e \o k)
           /\ (((h \o b) \o d) \o e) \o k = (h \o ((b \o d) \o e)) \o k
           /\ (h \o b) \o d \in Seq(Events) /\ e \o k \in Seq(Events)
           /\ (b \o d) \o e \in Seq(Events)
           /\ (((h \o b) \o d) \o e) \o k \in Seq(Events)
<1> DEFINE u == h \o b
           w == u \o d
           v == b \o d
           x == v \o e
<1>1. u \in Seq(Events) /\ v \in Seq(Events) /\ e \o k \in Seq(Events)
  BY ConcatProperties
<1>2. w = h \o v
  OBVIOUS
<1> HIDE DEF u, v
<1>3. w \in Seq(Events) /\ x \in Seq(Events)
  BY <1>1, ConcatProperties
<1>4. (h \o v) \o e = h \o x
  BY <1>1
<1> HIDE DEF w, x
<1>5. (w \o e) \o k = w \o (e \o k)
  BY <1>3, SMTT(30)
<1>6. (w \o e) \o k = (h \o x) \o k
  BY <1>2, <1>4
<1>7. w \o (e \o k) \in Seq(Events)
  BY <1>1, <1>3, ConcatProperties
<1> QED
  BY <1>1, <1>3, <1>5, <1>6, <1>7 DEF u, v, w, x

(* What the window has of the pipeline. *)
Window == (handled \o ui.batch) \o deferred

(* The pipeline is what the window has, what is queued, and what is in the *)
(* broker's hand.                                                          *)
LEMMA PipelineParts ==
    ASSUME TypeOK
    PROVE  /\ Pipeline = Window \o (events \o Hand)
           /\ Window \in Seq(Events) /\ events \o Hand \in Seq(Events)
           /\ Pipeline \in Seq(Events)
<1> DEFINE k == Hand
           b == ui.batch
<1>1. /\ handled \in Seq(Events) /\ b \in Seq(Events) /\ deferred \in Seq(Events)
      /\ events \in Seq(Events) /\ k \in Seq(Events)
  BY QueueTypes
<1> HIDE DEF k, b
<1> DEFINE w == (handled \o b) \o deferred
<1>2. w \in Seq(Events) /\ events \o k \in Seq(Events)
  BY <1>1, ConcatProperties
<1> HIDE DEF w
<1>3. (w \o events) \o k = w \o (events \o k) /\ (w \o events) \o k \in Seq(Events)
  BY <1>1, <1>2, SMTT(30)
<1> QED
  BY <1>2, <1>3 DEF Pipeline, Window, k, b, w

(* An event that is sent joins the queue, or waits behind what it left     *)
(* there.                                                                  *)
LEMMA Pushed ==
    ASSUME TypeOK, NEW rest \in Seq(Events), NEW e \in Events,
           PushOrSleep(rest, e),
           WithinLimits(rest), Distinct(rest), Clean(rest, e)
    PROVE  /\ events' \in {rest, Append(rest, e)} /\ events' \in Seq(Events)
           /\ broker' \in [pc : {"ready", "asleep", "posting"}, event : {e, None}]
           /\ broker'.event # None <=> broker'.pc = "asleep"
           /\ events' \o Hand' = rest \o <<e>>
           /\ Bounded'
           /\ latch' \in BOOLEAN /\ (latch => latch') /\ (latch' => latch \/ callback)
           /\ latch' /\ ~latch => broker'.pc = "posting"
           /\ callback /\ events' # <<>> /\ (rest # <<>> => latch) => latch'
           /\ rest # <<>> \/ ~Blocked(rest, e) => events' # <<>>
<1>1. e # None /\ latch \in BOOLEAN /\ callback \in BOOLEAN
  BY QueueAssumption DEF TypeOK
<1>2. CASE Blocked(rest, e)
  <2>1. events' = rest /\ broker' = [pc |-> "asleep", event |-> e] /\ latch' = latch
    BY <1>2 DEF PushOrSleep
  <2>2. Hand' = <<e>>
    BY <1>1, <2>1 DEF Hand
  <2>3. Bounded'
    BY <2>1 DEF Bounded, QueueWithinLimits, WithinLimits, LatestOnly, Distinct, Clean
  <2> QED
    BY <1>1, <1>2, <2>1, <2>2, <2>3
<1>3. CASE ~Blocked(rest, e)
  <2>1. /\ events' = Append(rest, e) /\ latch' = (latch \/ (callback /\ ~latch))
        /\ broker' = [pc |-> IF callback /\ ~latch THEN "posting" ELSE "ready", event |-> None]
    BY <1>3 DEF PushOrSleep, Requests
  <2>2. Append(rest, e) \in Seq(Events) /\ Append(rest, e) # <<>> /\ Append(rest, e) = rest \o <<e>>
    BY AppendProperties, AppendIsConcat
  <2>3. Hand' = <<>> /\ broker'.event = None
    BY <2>1 DEF Hand
  <2>4. events' \o <<>> = events'
    BY <2>1, <2>2, ConcatEmptySeq
  <2>5. WithinLimits(Append(rest, e)) /\ Distinct(Append(rest, e))
    BY <1>3, LimitsPush, DistinctPush
  <2>6. Bounded'
    BY <2>1, <2>3, <2>5 DEF Bounded, QueueWithinLimits, WithinLimits, LatestOnly, Distinct
  <2>7. broker' \in [pc : {"ready", "asleep", "posting"}, event : {e, None}]
        /\ broker'.pc # "asleep" /\ (latch' /\ ~latch => broker'.pc = "posting")
    BY <1>1, <2>1
  <2>8. latch' \in BOOLEAN /\ (latch => latch') /\ (latch' => latch \/ callback)
        /\ (callback => latch')
    BY <1>1, <2>1
  <2>9. events' \o Hand' = rest \o <<e>> /\ events' # <<>>
    BY <2>1, <2>2, <2>3, <2>4
  <2> QED
    BY <2>1, <2>2, <2>3, <2>6, <2>7, <2>8, <2>9
<1> QED
  BY <1>2, <1>3

(* The event that absorbs the last one of the queue. *)
LEMMA MergedLast ==
    ASSUME NEW es \in Seq(Events), NEW e \in Events, MergesWithLast(es, e)
    PROVE  \E r \in Seq(Events), l \in Events :
             /\ es = Append(r, l) /\ l.kind = e.kind /\ l.size + e.size <= MaxResources
             /\ Merge(es, e) = [rest |-> r,
                                event |-> [e EXCEPT !.ids = @ \cup l.ids, !.size = @ + l.size]]
<1> DEFINE n == Len(es)
           l == es[n]
           P(i) == /\ es[i].kind = e.kind /\ es[i].doc = e.doc
                   /\ \A j \in i + 1 .. Len(es) : es[j].kind # e.kind \/ es[j].doc # e.doc
           c == CHOOSE i \in 1 .. Len(es) : P(i)
           r == SubSeq(es, 1, n - 1)
<1>1. n \in Nat \ {0} /\ l \in Events
  BY DEF MergesWithLast
<1>2. l.kind = e.kind /\ l.doc = e.doc /\ l.size + e.size <= MaxResources
  BY DEF MergesWithLast
<1>3. n \in 1 .. Len(es) /\ P(n)
  BY <1>1, <1>2
<1>4. \A i \in 1 .. Len(es) : P(i) => i = n
  <2> TAKE i \in 1 .. Len(es)
  <2> HAVE P(i)
  <2>1. ~(n \in i + 1 .. Len(es))
    BY <1>2
  <2> QED
    BY <1>1, <2>1
<1> HIDE DEF P
<1>5. c = n
  BY <1>3, <1>4
<1>6. Merge(es, e) = [rest |-> SubSeq(es, 1, c - 1) \o SubSeq(es, c + 1, Len(es)),
                      event |-> [e EXCEPT !.ids = @ \cup es[c].ids, !.size = @ + es[c].size]]
  BY DEF Merge, P
<1> HIDE DEF c
<1>7. r \in Seq(Events) /\ es = Append(r, l)
  BY LastSplit DEF MergesWithLast
<1>8. SubSeq(es, n + 1, n) = <<>>
  BY <1>1, SubSeqEmpty
<1>9. r \o <<>> = r
  BY <1>7, ConcatEmptySeq
<1>10. Merge(es, e) = [rest |-> r, event |-> [e EXCEPT !.ids = @ \cup l.ids, !.size = @ + l.size]]
  BY <1>5, <1>6, <1>8, <1>9
<1> QED
  BY <1>1, <1>2, <1>7, <1>10

(* Marked events are events. *)
LEMMA MarkedTypes == MarkedEvents \subseteq Events
  BY DEF MarkedEvents

(* A push, or falling asleep over it, keeps all but what the pipeline      *)
(* accounts for.                                                           *)
LEMMA PushKeeps ==
    ASSUME Ind, broker.pc \in {"ready", "awake"}, open,
           UNCHANGED <<callback, open, exited, uiVars, posted, missedPost>>,
           discarded \subseteq discarded',
           NEW rest \in Seq(MarkedEvents), NEW e \in MarkedEvents,
           PushOrSleep(rest, e),
           WithinLimits(rest), Distinct(rest), Clean(rest, e),
           rest # <<>> => events # <<>>,
           events # <<>> => rest # <<>> \/ ~Blocked(rest, e)
    PROVE  /\ Places' /\ Marked' /\ Awake' /\ Bounded'
           /\ events' \in Seq(Events) /\ latch' \in BOOLEAN
           /\ broker' \in [pc : {"ready", "asleep", "posting"}, event : Events \cup {None}]
           /\ Pipeline' = Window \o (rest \o <<e>>)
           /\ Pipeline' = (Window \o rest) \o <<e>>
<1>1. rest \in Seq(Events) /\ e \in Events
  BY MarkedTypes, SeqMonotonic
<1>2. TypeOK
  BY DEF Ind
<1>3. /\ events' \in {rest, Append(rest, e)} /\ events' \in Seq(Events)
      /\ broker' \in [pc : {"ready", "asleep", "posting"}, event : {e, None}]
      /\ broker'.event # None <=> broker'.pc = "asleep"
      /\ events' \o Hand' = rest \o <<e>>
      /\ Bounded'
      /\ latch' \in BOOLEAN /\ (latch => latch') /\ (latch' => latch \/ callback)
      /\ latch' /\ ~latch => broker'.pc = "posting"
      /\ callback /\ events' # <<>> /\ (rest # <<>> => latch) => latch'
      /\ rest # <<>> \/ ~Blocked(rest, e) => events' # <<>>
  BY <1>1, <1>2, Pushed
<1>4. /\ handled' = handled /\ ui' = ui /\ deferred' = deferred /\ timer' = timer
      /\ ending' = ending /\ callback' = callback /\ open' = open /\ exited' = exited
      /\ posted' = posted /\ missedPost' = missedPost
  BY DEF uiVars
<1>5. Places'
  <2>1. ~exited /\ broker'.pc \notin {"exiting", "gone", "awake"}
    BY <1>3 DEF Ind, Places
  <2> QED
    BY <1>3, <1>4, <2>1 DEF Ind, Places
<1>6. Marked'
  <2>1. MarkedEvents' = MarkedEvents
    BY <1>4 DEF MarkedEvents
  <2>2. Append(rest, e) \in Seq(MarkedEvents)
    BY AppendProperties
  <2>3. events' \in Seq(MarkedEvents) /\ broker'.event \in MarkedEvents \cup {None}
    BY <1>3, <2>2
  <2> QED
    BY <1>4, <2>1, <2>3 DEF Ind, Marked
<1>7. Awake'
  <2>1. latch => callback
    BY DEF Ind, Awake
  <2>2. callback' /\ Backlog' => latch'
    <3>1. callback /\ Backlog => latch
      BY DEF Ind, Awake
    <3>2. CASE events' # <<>>
      BY <1>3, <1>4, <3>1, <3>2 DEF Backlog
    <3>3. CASE events' = <<>>
      BY <1>3, <1>4, <3>1, <3>3 DEF Backlog
    <3> QED
      BY <3>2, <3>3
  <2>3. WakeUnderWay => WakeUnderWay'
    <3>1. broker.pc # "posting"
      OBVIOUS
    <3> QED
      BY <1>4, <3>1 DEF WakeUnderWay
  <2>4. latch' => latch \/ WakeUnderWay'
    BY <1>3 DEF WakeUnderWay
  <2>5. Backlog => Backlog'
    BY <1>3, <1>4 DEF Backlog
  <2>6. discarded' = {} => discarded = {}
    OBVIOUS
  <2>7. ui.pc = "idle" /\ discarded = {} /\ latch => WakeUnderWay \/ timer = "active"
    BY DEF Ind, Awake
  <2>8. ui.pc = "monitor" /\ discarded = {} /\ latch => WakeUnderWay \/ Backlog
    BY DEF Ind, Awake
  <2> QED
    BY <1>3, <1>4, <2>1, <2>2, <2>3, <2>4, <2>5, <2>6, <2>7, <2>8 DEF Awake
<1>8. Pipeline' = Window \o (rest \o <<e>>)
  <2>1. TypeOK
    BY <1>2
  <2> DEFINE k == Hand'
             q == events'
             b == ui.batch
             w == Window
  <2>2. k \in Seq(Events)
    <3>1. broker'.event = None \/ broker'.event = e
      BY <1>3
    <3>2. CASE broker'.event = None
      BY <3>2 DEF Hand
    <3>3. CASE broker'.event = e
      <4>1. Hand' = IF broker'.event = None THEN <<>> ELSE <<broker'.event>>
        BY DEF Hand
      <4> QED
        BY <1>1, <3>3, <4>1
    <3> QED
      BY <3>1, <3>2, <3>3
  <2>3. Pipeline' = (w \o q) \o k
    BY <1>4 DEF Pipeline, Window
  <2>4. w \in Seq(Events) /\ q \in Seq(Events)
    BY <1>2, <1>3, PipelineParts
  <2> HIDE DEF k, q, w
  <2>5. (w \o q) \o k = w \o (q \o k)
    BY <2>2, <2>4
  <2> QED
    BY <1>3, <2>3, <2>5 DEF k, q, w
<1>9. Window \o (rest \o <<e>>) = (Window \o rest) \o <<e>>
  <2> DEFINE w == Window
             k == <<e>>
  <2>1. w \in Seq(Events) /\ k \in Seq(Events)
    BY <1>1, <1>2, PipelineParts
  <2> HIDE DEF w, k
  <2>2. w \o (rest \o k) = (w \o rest) \o k
    BY <1>1, <2>1
  <2> QED
    BY <2>2 DEF w, k
<1>10. broker' \in [pc : {"ready", "asleep", "posting"}, event : Events \cup {None}]
  BY <1>1, <1>3
<1> QED
  BY <1>3, <1>5, <1>6, <1>7, <1>8, <1>9, <1>10

(* An event that fits by itself does not wait at an empty queue. *)
LEMMA FitsAlone ==
    ASSUME NEW e \in Events,
           e.size <= IF e.kind \in Merged THEN MaxResources ELSE MaxStorage
    PROVE  ~Blocked(<<>>, e)
<1> DEFINE es == <<>>
<1>1. es \in Seq(Events) /\ Len(es) = 0
  OBVIOUS
<1>2. Weighed(es, SizesOf({"storage"})) = 0 /\ Weighed(es, SizesOf(Merged)) = 0
      /\ Weighed(es, Fetches) = 0
  BY WeighedEmpty
<1> HIDE DEF es
<1>3. TotalSize(es, {"storage"}) = 0 /\ TotalSize(es, Merged) = 0 /\ FetchBatches(es) = 0
  BY <1>1, <1>2, TotalsWeighed
<1>4. e.size \in Nat /\ (e.kind \in Merged => e.kind \notin Lossless)
  BY EventFields DEF Merged, Lossless
<1>5. ~Blocked(es, e)
  <2>1. e.kind = "storage" => e.kind \notin Merged
    BY DEF Merged
  <2> QED
    BY <1>1, <1>3, <1>4, <2>1, QueueAssumption DEF Blocked
<1> QED
  BY <1>5 DEF es

(* With nothing in the broker's hand the pipeline ends in the queue. *)
LEMMA EmptyHand ==
    ASSUME TypeOK, broker.event = None
    PROVE  Hand = <<>> /\ Pipeline = Window \o events
<1>1. Hand = <<>>
  BY DEF Hand
<1>2. events \o <<>> = events
  BY QueueTypes, ConcatEmptySeq
<1> QED
  BY <1>1, <1>2, PipelineParts

(* A presentation that cannot be merged with the last event: both go. *)
LEMMA FailedMergeStep ==
    ASSUME Ind, NEW n, n = produced + 1, n \in 1 .. MaxProduced,
           events # <<>>, broker.event = None, open,
           events[Len(events)].ids # {},
           events' = SubSeq(events, 1, Len(events) - 1),
           discarded' = discarded \cup events[Len(events)].ids \cup {n},
           produced' = n, UNCHANGED <<latch, broker, superseded>>,
           UNCHANGED <<callback, open, exited, uiVars, posted, missedPost>>
    PROVE  Ind'
<1> DEFINE r == SubSeq(events, 1, Len(events) - 1)
           l == events[Len(events)]
           gone == superseded \cup discarded
<1>1. /\ TypeOK /\ Places /\ Marked /\ Accounted /\ Awake /\ Bounded
      /\ produced \in Nat /\ MaxProduced \in Nat
  BY QueueAssumption DEF Ind, TypeOK
<1>2. /\ handled' = handled /\ ui' = ui /\ deferred' = deferred /\ timer' = timer
      /\ ending' = ending /\ callback' = callback /\ open' = open /\ exited' = exited
      /\ latch' = latch /\ superseded' = superseded /\ broker' = broker
      /\ posted' = posted /\ missedPost' = missedPost
      /\ events' = r /\ discarded' = (discarded \cup l.ids) \cup {n}
  BY DEF uiVars
<1>3. events \in Seq(MarkedEvents) /\ events \in Seq(Events) /\ Window \in Seq(Events)
  BY <1>1, PipelineParts DEF Marked, TypeOK
<1>4. WithinLimits(events) /\ Distinct(events)
  BY <1>1 DEF Bounded, QueueWithinLimits, WithinLimits, LatestOnly, Distinct
<1>5. l \in Events /\ r \in Seq(Events) /\ events = Append(r, l)
  <2>1. Len(events) \in 1 .. Len(events)
    BY <1>3, EmptySeq, LenProperties
  <2>2. l \in Events
    BY <1>3, <2>1, ElementOfSeq
  <2> QED
    BY <1>3, <2>2, LastSplit
<1>6. /\ Len(events) = Len(r) + 1 /\ Len(r) \in Nat
      /\ \A i \in 1 .. Len(r) : r[i] = events[i]
  BY <1>5, AppendProperties
<1> HIDE DEF r, l
<1>7. r \in Seq(MarkedEvents)
  <2>1. \A i \in 1 .. Len(r) : r[i] \in MarkedEvents
    BY <1>3, <1>6
  <2>2. r \in [1 .. Len(r) -> Events]
    BY <1>5, LenProperties
  <2> QED
    BY <1>6, <2>1, <2>2
<1>8. WithinLimits(r) /\ Distinct(r)
  BY <1>4, <1>5, LimitsBeginning, DistinctBeginning
<1>9. discarded' # {}
  BY <1>2
<1>10. TypeOK'
  <2>1. discarded' \in SUBSET (1 .. MaxProduced)
    <3>1. discarded \in SUBSET (1 .. MaxProduced) /\ l.ids \subseteq 1 .. MaxProduced
      BY <1>1, <1>5, EventFields DEF TypeOK
    <3> QED
      BY <1>2, <3>1
  <2>2. produced' \in 0 .. MaxProduced
    BY <1>1
  <2> QED
    BY <1>1, <1>2, <1>5, <2>1, <2>2 DEF TypeOK
<1>11. Places'
  BY <1>1, <1>2 DEF Places
<1>12. Marked'
  <2>1. MarkedEvents' = MarkedEvents
    BY <1>2 DEF MarkedEvents
  <2> QED
    BY <1>1, <1>2, <1>7, <2>1 DEF Marked
<1>13. Accounted'
  <2> DEFINE w == Window
             b == <<l>>
             z == <<>>
             v == w \o r
  <2>1. b \in Seq(Events) /\ z \in Seq(Events) /\ w \in Seq(Events) /\ v \in Seq(Events)
    BY <1>3, <1>5, ConcatProperties
  <2>2. events = r \o b
    BY <1>5, AppendIsConcat
  <2>3. IdsOf(b) = l.ids
    BY IdsSingle
  <2>4. Accounts(w \o events, produced, gone)
    BY <1>1, EmptyHand DEF Accounted
  <2>5. Pipeline' = (w \o r) \o <<>>
    BY <1>2 DEF Pipeline, Hand, Window
  <2> HIDE DEF w, b
  <2>6. w \o (r \o b) = (w \o r) \o b
    BY <1>5, <2>1
  <2>7. Accounts(v \o b, produced, gone)
    BY <2>2, <2>4, <2>6
  <2>8. v \o z = v
    BY <2>1, ConcatEmptySeq
  <2>9. (v \o b) \o z = v \o b
    BY <2>1, ConcatProperties, ConcatEmptySeq
  <2>10. Pipeline' = v
    BY <2>5, <2>8
  <2> HIDE DEF v, z, gone
  <2>11. Accounts(v, produced, gone \cup IdsOf(b))
    <3>1. v \in Seq(Events) /\ b \in Seq(Events) /\ z \in Seq(Events)
      BY <2>1
    <3>2. Accounts((v \o b) \o z, produced, gone)
      BY <2>7, <2>9
    <3>3. Accounts(v \o z, produced, gone \cup IdsOf(b))
      BY <3>1, <3>2, AccountsLose
    <3> QED
      BY <2>8, <3>3
  <2>12. Accounts(v, produced + 1, (gone \cup IdsOf(b)) \cup {produced + 1})
    BY <1>1, <2>11, AccountsGone
  <2>13. superseded' \cup discarded' = (gone \cup IdsOf(b)) \cup {produced + 1}
    BY <1>2, <2>3 DEF gone
  <2>14. Accounts(Pipeline', produced', superseded' \cup discarded')
    BY <2>10, <2>12, <2>13
  <2> QED
    BY <2>14 DEF Accounted, Accounts, Ordered, IdsOf
<1>14. Awake'
  BY <1>1, <1>2, <1>9 DEF Awake, Backlog
<1>15. Bounded'
  BY <1>1, <1>2, <1>8 DEF Bounded, QueueWithinLimits, WithinLimits, LatestOnly, Distinct,
                          TotalSize, FetchBatches, Replaces
<1> QED
  BY <1>10, <1>11, <1>12, <1>13, <1>14, <1>15 DEF Ind

(* EventSender::send. *)
LEMMA SendStep ==
    ASSUME Ind, NEW input \in Inputs, Send(input)
    PROVE  Ind'
<1> DEFINE n == produced + 1
           e == [kind |-> input.kind, doc |-> input.doc, target |-> input.target,
                 size |-> input.size, seq |-> input.seq, ids |-> {n}]
           gone == superseded \cup discarded
<1>1. /\ TypeOK /\ Places /\ Marked /\ Accounted /\ Awake /\ Bounded
      /\ broker.pc = "ready" /\ broker.event = None
      /\ produced \in Nat /\ n \in 1 .. MaxProduced /\ MaxProduced \in Nat
  BY QueueAssumption DEF Ind, Places, Send, TypeOK
<1>2. /\ e \in Events /\ e.kind = input.kind /\ e.kind # "exited" /\ e.ids = {n}
      /\ e.size <= IF e.kind \in Merged THEN MaxResources ELSE MaxStorage
  <2>1. /\ input.kind \in Kinds \ {"exited"} /\ input.seq \in Nat
        /\ input.size \in 0 .. (IF input.kind \in Merged THEN MaxResources ELSE MaxStorage)
    BY QueueAssumption
  <2>2. MaxResources \in Nat /\ MaxStorage \in Nat
    BY QueueAssumption
  <2>3. input.size \in Nat
        /\ input.size <= IF input.kind \in Merged THEN MaxResources ELSE MaxStorage
    BY <2>1, <2>2
  <2> QED
    BY <1>1, <2>1, <2>3 DEF Events
<1>3. e \in MarkedEvents
  BY <1>2 DEF MarkedEvents
<1> HIDE DEF e
<1>4. /\ produced' = n
      /\ UNCHANGED <<callback, open, exited, uiVars, posted, missedPost>>
      /\ handled' = handled /\ ui' = ui /\ deferred' = deferred /\ timer' = timer
      /\ ending' = ending /\ callback' = callback /\ open' = open /\ exited' = exited
      /\ posted' = posted /\ missedPost' = missedPost
  BY DEF Send, uiVars
<1>5. Accounts(Window \o events, produced, gone)
  BY <1>1, EmptyHand DEF Accounted
<1>6. events \in Seq(MarkedEvents) /\ events \in Seq(Events) /\ Window \in Seq(Events)
  BY <1>1, PipelineParts DEF Marked, TypeOK
<1>7. WithinLimits(events) /\ Distinct(events)
  BY <1>1 DEF Bounded, QueueWithinLimits, WithinLimits, LatestOnly, Distinct
<1>8. superseded \in SUBSET (1 .. MaxProduced) /\ discarded \in SUBSET (1 .. MaxProduced)
  BY <1>1 DEF TypeOK
<1>9. ASSUME UNCHANGED <<events, latch, broker>>,
             \/ discarded' = discarded \cup {n} /\ superseded' = superseded
             \/ superseded' = superseded \cup {n} /\ discarded' = discarded
      PROVE  Ind'
  <2>1. superseded' \cup discarded' = gone \cup {n}
    BY <1>9
  <2>2. Pipeline' = Window \o events
    <3>1. Pipeline' = Pipeline
      BY <1>4, <1>9 DEF Pipeline, Hand
    <3> QED
      BY <1>1, <3>1, EmptyHand
  <2>3. Accounted'
    <3>1. Accounts(Window \o events, produced + 1, gone \cup {produced + 1})
      BY <1>1, <1>5, AccountsGone
    <3>2. Accounts(Pipeline', produced', superseded' \cup discarded')
      BY <1>4, <2>1, <2>2, <3>1
    <3> QED
      BY <3>2 DEF Accounted, Accounts, Ordered, IdsOf
  <2>4. TypeOK'
    <3>1. superseded' \in SUBSET (1 .. MaxProduced) /\ discarded' \in SUBSET (1 .. MaxProduced)
      BY <1>1, <1>8, <1>9
    <3>2. produced' \in 0 .. MaxProduced
      BY <1>1, <1>4
    <3> HIDE DEF n
    <3> QED
      BY <1>1, <1>4, <1>9, <3>1, <3>2 DEF TypeOK
  <2>5. Places'
    BY <1>1, <1>4, <1>9 DEF Places
  <2>6. Marked'
    BY <1>1, <1>4, <1>9 DEF Marked, MarkedEvents
  <2>7. Awake'
    BY <1>1, <1>4, <1>9 DEF Awake, Backlog, WakeUnderWay
  <2>8. Bounded'
    BY <1>1, <1>9 DEF Bounded, QueueWithinLimits, LatestOnly, TotalSize, FetchBatches, Replaces
  <2> QED
    BY <2>3, <2>4, <2>5, <2>6, <2>7, <2>8 DEF Ind
<1>10. CASE ~open /\ discarded' = discarded \cup {n} /\ UNCHANGED <<events, latch, broker, superseded>>
  BY <1>9, <1>10
<1>11. CASE superseded' = superseded \cup {n} /\ UNCHANGED <<events, latch, broker, discarded>>
  BY <1>9, <1>11
<1>12. ASSUME open, NEW rest \in Seq(MarkedEvents), NEW f \in MarkedEvents,
              PushOrSleep(rest, f), WithinLimits(rest), Distinct(rest), Clean(rest, f),
              rest # <<>> => events # <<>>,
              events # <<>> => rest # <<>> \/ ~Blocked(rest, f),
              discarded' = discarded, superseded' \in SUBSET (1 .. MaxProduced),
              Accounts((Window \o rest) \o <<f>>, n, superseded' \cup discarded')
       PROVE  Ind'
  <2>1. discarded \subseteq discarded'
    BY <1>12
  <2>2. /\ Places' /\ Marked' /\ Awake' /\ Bounded'
        /\ events' \in Seq(Events) /\ latch' \in BOOLEAN
        /\ broker' \in [pc : {"ready", "asleep", "posting"}, event : Events \cup {None}]
        /\ Pipeline' = (Window \o rest) \o <<f>>
    BY <1>1, <1>4, <1>12, <2>1, PushKeeps
  <2>3. TypeOK'
    BY <1>1, <1>4, <1>8, <1>12, <2>2 DEF TypeOK
  <2>4. Accounted'
    <3>1. Accounts(Pipeline', produced', superseded' \cup discarded')
      BY <1>4, <1>12, <2>2
    <3> QED
      BY <3>1 DEF Accounted, Accounts, Ordered, IdsOf
  <2> QED
    BY <2>2, <2>3, <2>4 DEF Ind
<1>13. ASSUME open, MergesWithLast(events, e),
              PushOrSleep(Merge(events, e).rest, Merge(events, e).event),
              UNCHANGED <<superseded, discarded>>
       PROVE  Ind'
  <2>1. PICK r \in Seq(Events), l \in Events :
           /\ events = Append(r, l) /\ l.kind = e.kind /\ l.size + e.size <= MaxResources
           /\ Merge(events, e) = [rest |-> r,
                                  event |-> [e EXCEPT !.ids = @ \cup l.ids, !.size = @ + l.size]]
    BY <1>2, <1>6, <1>13, MergedLast
  <2> DEFINE f == [e EXCEPT !.ids = @ \cup l.ids, !.size = @ + l.size]
  <2>2. /\ f \in Events /\ f.kind = e.kind /\ f.size = e.size + l.size
        /\ f.ids = {n} \cup l.ids
    <3>1. l.size \in Nat /\ e.size \in Nat /\ l.ids \subseteq 1 .. MaxProduced
      BY <1>2, EventFields
    <3> DEFINE x == e.ids \cup l.ids
               y == e.size + l.size
    <3>2. f = [e EXCEPT !.ids = x, !.size = y]
      OBVIOUS
    <3>3. x \in SUBSET (1 .. MaxProduced) /\ y \in Nat /\ x = {n} \cup l.ids
      BY <1>1, <1>2, <3>1
    <3> HIDE DEF x
    <3>4. y = e.size + l.size
      OBVIOUS
    <3> HIDE DEF y, f
    <3>5. f \in Events
      BY <1>2, <3>2, <3>3 DEF Events
    <3>6. f.ids = x /\ f.size = y /\ f.kind = e.kind
      BY <1>2, <3>2 DEF Events
    <3> QED
      BY <3>3, <3>4, <3>5, <3>6
  <2> HIDE DEF f
  <2>3. f \in MarkedEvents
    BY <1>2, <2>2 DEF MarkedEvents
  <2>4. r \in Seq(MarkedEvents)
    <3>1. /\ Len(events) = Len(r) + 1 /\ Len(r) \in Nat
          /\ \A i \in 1 .. Len(r) : r[i] = events[i]
      BY <2>1, AppendProperties
    <3>2. \A i \in 1 .. Len(r) : r[i] \in MarkedEvents
      BY <1>6, <3>1
    <3>3. r \in [1 .. Len(r) -> Events]
      BY <2>1, LenProperties
    <3> QED
      BY <3>1, <3>2, <3>3
  <2>5. WithinLimits(r) /\ Distinct(r)
    BY <1>7, <2>1, LimitsBeginning, DistinctBeginning
  <2>6. f.kind \in Merged
    BY <1>13, <2>2 DEF MergesWithLast
  <2>7. Clean(r, f)
    BY <2>6 DEF Clean, Replaces, Merged, Latest
  <2>8. r # <<>> \/ ~Blocked(r, f)
    <3>1. f.size <= MaxResources
      <4>1. l.size \in Nat /\ e.size \in Nat
        BY <1>2, EventFields
      <4> QED
        BY <2>1, <2>2, <4>1
    <3>2. ~Blocked(<<>>, f)
      BY <2>2, <2>6, <3>1, FitsAlone
    <3> QED
      BY <3>2
  <2>9. events # <<>>
    BY <1>13 DEF MergesWithLast
  <2>10. Accounts((Window \o r) \o <<f>>, produced + 1, gone)
    <3> DEFINE w == Window
               s == <<l>>
               v == w \o r
    <3>1. s \in Seq(Events) /\ events = r \o s /\ w \in Seq(Events) /\ v \in Seq(Events)
      <4>1. events = r \o <<l>>
        BY <2>1, AppendIsConcat
      <4> QED
        BY <1>6, <2>1, <4>1, ConcatProperties
    <3> HIDE DEF w, s
    <3>2. w \o (r \o s) = (w \o r) \o s
      BY <2>1, <3>1
    <3>3. Accounts(v \o s, produced, gone)
      BY <1>5, <3>1, <3>2 DEF w
    <3> HIDE DEF v
    <3>4. Accounts(v \o <<l>>, produced, gone)
      BY <3>3 DEF s
    <3>5. f.ids = {produced + 1} \cup l.ids
      BY <2>2
    <3> HIDE DEF n, gone
    <3>6. Accounts(v \o <<f>>, produced + 1, gone)
      BY <1>1, <2>1, <2>2, <3>1, <3>4, <3>5, AccountsMerge
    <3> QED
      BY <3>6 DEF v, w
  <2>11. superseded' \cup discarded' = gone
    BY <1>13
  <2>12. Merge(events, e).rest = r /\ Merge(events, e).event = f
    BY <2>1 DEF f
  <2>13. PushOrSleep(r, f)
    BY <1>13, <2>12
  <2> QED
    BY <1>8, <1>12, <1>13, <2>3, <2>4, <2>5, <2>7, <2>8, <2>9, <2>10, <2>11, <2>13
<1>14. ASSUME open,
              superseded' = superseded \cup IdsOf(Selection(events, {q \in Events : Replaces(e, q)})),
              PushOrSleep(Selection(events, {q \in Events : ~Replaces(e, q)}), e),
              discarded' = discarded
       PROVE  Ind'
  <2> DEFINE S == {q \in Events : ~Replaces(e, q)}
             R == {q \in Events : Replaces(e, q)}
             rest == Selection(events, S)
             out == Selection(events, R)
  <2>1. rest \in Seq(MarkedEvents \cap S) /\ rest \in Seq(MarkedEvents) /\ rest \in Seq(Events)
    <3>1. rest \in Seq(MarkedEvents \cap S)
      BY <1>6, SelectionType
    <3>2. MarkedEvents \cap S \subseteq MarkedEvents /\ MarkedEvents \subseteq Events
      BY MarkedTypes
    <3> QED
      BY <3>1, <3>2, SeqMonotonic
  <2>2. Clean(rest, e)
    <3>1. \A i \in 1 .. Len(rest) : rest[i] \in S
      BY <2>1, ElementOfSeq
    <3> QED
      BY <3>1 DEF Clean
  <2>3. WithinLimits(rest) /\ Distinct(rest)
    BY <1>6, <1>7, LimitsSelection, DistinctSelection
  <2>4. rest # <<>> => events # <<>>
    BY SelectionEmpty
  <2>5. rest # <<>> \/ ~Blocked(rest, e)
    BY <1>2, FitsAlone
  <2>6. out \in Seq(Events) /\ IdsOf(out) \in SUBSET (1 .. MaxProduced)
    <3>1. out \in Seq(Events \cap R)
      BY <1>6, SelectionType
    <3>2. out \in Seq(Events)
      BY <3>1, SeqMonotonic
    <3> QED
      BY <3>2, IdsType
  <2>7. \A q \in Events : q \in R <=> q \notin S
    OBVIOUS
  <2> DEFINE w == Window
  <2> HIDE DEF S, R
  <2>8. Accounts(w \o rest, produced, gone \cup IdsOf(out))
    <3>1. w \in Seq(Events) /\ Accounts(w \o events, produced, gone)
      BY <1>5, <1>6
    <3> HIDE DEF w, gone
    <3> QED
      BY <1>6, <2>7, <3>1, AccountsSelect
  <2>9. w \o rest \in Seq(Events)
    BY <1>6, <2>1, ConcatProperties
  <2>10. superseded' \cup discarded' = gone \cup IdsOf(out)
    BY <1>14 DEF R
  <2>11. Accounts((w \o rest) \o <<e>>, produced + 1, superseded' \cup discarded')
    <3> DEFINE v == w \o rest
               g == superseded' \cup discarded'
    <3>1. v \in Seq(Events) /\ Accounts(v, produced, g)
      BY <2>8, <2>9, <2>10
    <3> HIDE DEF v, g
    <3>2. Accounts(v \o <<e>>, produced + 1, g)
      BY <1>1, <1>2, <3>1, AccountsAppend
    <3> QED
      BY <3>2 DEF v, g
  <2>12. PushOrSleep(rest, e) /\ superseded' \in SUBSET (1 .. MaxProduced)
    BY <1>8, <1>14, <2>6 DEF S, R
  <2> HIDE DEF rest
  <2> QED
    BY <1>3, <1>12, <1>14, <2>1, <2>2, <2>3, <2>4, <2>5, <2>11, <2>12 DEF w
<1>15. ASSUME open, MayFailToMerge(events, e),
              events' = SubSeq(events, 1, Len(events) - 1),
              discarded' = discarded \cup events[Len(events)].ids \cup {n},
              UNCHANGED <<latch, broker, superseded>>
       PROVE  Ind'
  <2>1. events # <<>> /\ events[Len(events)].kind = e.kind
    BY <1>15 DEF MayFailToMerge
  <2>2. events[Len(events)].ids # {}
    <3>1. Len(events) \in 1 .. Len(events)
      BY <1>6, <2>1, EmptySeq, LenProperties
    <3>2. events[Len(events)] \in MarkedEvents
      BY <1>6, <3>1, ElementOfSeq
    <3> QED
      BY <1>2, <2>1, <3>2 DEF MarkedEvents
  <2> QED
    BY <1>1, <1>4, <1>15, <2>1, <2>2, FailedMergeStep
<1> QED
  BY <1>10, <1>11, <1>13, <1>14, <1>15 DEF Send, e

(* The pipeline's account after a step, unfolded. *)
LEMMA AccountedNext ==
    ASSUME Accounts(Pipeline', produced', superseded' \cup discarded')
    PROVE  Accounted'
  BY DEF Accounted, Accounts, Ordered, IdsOf

(* A step that only moves events along the pipeline keeps the account. *)
LEMMA AccountedMoves ==
    ASSUME Accounted, Pipeline' = Pipeline, UNCHANGED <<produced, superseded, discarded>>
    PROVE  Accounted'
<1>1. Accounts(Pipeline', produced', superseded' \cup discarded')
  BY DEF Accounted
<1> QED
  BY <1>1, AccountedNext

(* The queue and the waiting event stay. *)
LEMMA BoundedStays ==
    ASSUME Bounded, UNCHANGED events, broker'.event = broker.event
    PROVE  Bounded'
  BY DEF Bounded, QueueWithinLimits, LatestOnly, TotalSize, FetchBatches, Replaces

(* No event stops being marked, because an exit is not taken back. *)
LEMMA MarkedStays ==
    ASSUME Marked, exited => exited',
           handled' = handled, ui'.batch = ui.batch, deferred' = deferred,
           events' = events, broker'.event = broker.event
    PROVE  Marked'
<1>1. MarkedEvents \subseteq MarkedEvents'
  BY DEF MarkedEvents
<1>2. Seq(MarkedEvents) \subseteq Seq(MarkedEvents')
  BY <1>1, SeqMonotonic
<1> QED
  BY <1>1, <1>2 DEF Marked

(* The broker thread, once notified, takes the lock again. *)
LEMMA ResumeStep ==
    ASSUME Ind, Resume
    PROVE  Ind'
<1> DEFINE e == broker.event
           gone == superseded \cup discarded
<1>1. /\ TypeOK /\ Places /\ Marked /\ Accounted /\ Awake /\ Bounded
      /\ broker.pc = "awake"
  BY DEF Ind, Resume
<1>2. e # None /\ e \in MarkedEvents /\ e \in Events
  BY <1>1, MarkedTypes DEF Places, Marked
<1>3. /\ UNCHANGED <<callback, open, exited, uiVars, posted, missedPost>>
      /\ handled' = handled /\ ui' = ui /\ deferred' = deferred /\ timer' = timer
      /\ ending' = ending /\ callback' = callback /\ open' = open /\ exited' = exited
      /\ posted' = posted /\ missedPost' = missedPost
      /\ produced' = produced /\ superseded' = superseded
  BY DEF Resume, uiVars
<1>4. Hand = <<e>>
  BY <1>2 DEF Hand
<1>5. CASE open
  <2>1. PushOrSleep(events, e) /\ discarded' = discarded
    BY <1>5 DEF Resume
  <2>2. /\ WithinLimits(events) /\ Distinct(events) /\ Clean(events, e)
        /\ events \in Seq(MarkedEvents)
    BY <1>1, <1>2 DEF Bounded, QueueWithinLimits, WithinLimits, LatestOnly, Distinct, Clean,
                      Marked
  <2>3. discarded \subseteq discarded'
    BY <2>1
  <2>4. /\ Places' /\ Marked' /\ Awake' /\ Bounded'
        /\ events' \in Seq(Events) /\ latch' \in BOOLEAN
        /\ broker' \in [pc : {"ready", "asleep", "posting"}, event : Events \cup {None}]
        /\ Pipeline' = Window \o (events \o <<e>>)
    BY <1>1, <1>2, <1>3, <1>5, <2>1, <2>2, <2>3, PushKeeps
  <2>5. Pipeline' = Pipeline
    BY <1>1, <1>4, <2>4, PipelineParts
  <2>6. Accounted'
    BY <1>1, <1>3, <2>1, <2>5, AccountedMoves
  <2>7. TypeOK'
    BY <1>1, <1>3, <2>1, <2>4 DEF TypeOK
  <2> QED
    BY <2>4, <2>6, <2>7 DEF Ind
<1>6. CASE ~open
  <2>1. /\ broker' = [pc |-> "ready", event |-> None] /\ discarded' = discarded \cup e.ids
        /\ events' = events /\ latch' = latch
    BY <1>6 DEF Resume
  <2>2. Hand' = <<>>
    BY <2>1 DEF Hand
  <2>3. Accounts(Window \o events, produced, gone \cup IdsOf(Hand))
    <3> DEFINE h == Hand
               w == Window
               a == w \o events
               z == <<>>
    <3>1. /\ h \in Seq(Events) /\ w \in Seq(Events) /\ events \in Seq(Events)
          /\ a \in Seq(Events) /\ z \in Seq(Events)
      BY <1>1, QueueTypes, PipelineParts
    <3>2. Accounts(w \o (events \o h), produced, gone)
      BY <1>1, PipelineParts DEF Accounted
    <3> HIDE DEF h, w, z
    <3>3. w \o (events \o h) = a \o h /\ a \o h \in Seq(Events)
      BY <3>1
    <3> HIDE DEF a, gone
    <3>4. (a \o h) \o z = a \o h /\ a \o z = a
      BY <3>1, <3>3, ConcatEmptySeq DEF z
    <3>5. Accounts((a \o h) \o z, produced, gone)
      BY <3>2, <3>3, <3>4
    <3>6. Accounts(a \o z, produced, gone \cup IdsOf(h))
      BY <3>1, <3>5, AccountsLose
    <3> QED
      BY <3>4, <3>6 DEF a, w, h
  <2>4. IdsOf(Hand) = e.ids
    BY <1>4, IdsSingle
  <2>5. Pipeline' = Window \o events
    <3>1. Pipeline' = (Window \o events) \o <<>>
      BY <1>3, <2>1, <2>2 DEF Pipeline, Window
    <3>2. Window \o events \in Seq(Events)
      BY <1>1, PipelineParts, QueueTypes, ConcatProperties
    <3> QED
      BY <3>1, <3>2, ConcatEmptySeq
  <2>6. superseded' \cup discarded' = gone \cup IdsOf(Hand)
    BY <1>3, <2>1, <2>4
  <2>7. Accounted'
    BY <1>3, <2>3, <2>5, <2>6, AccountedNext
  <2>8. TypeOK'
    <3>1. discarded' \in SUBSET (1 .. MaxProduced)
      BY <1>1, <1>2, <2>1, EventFields DEF TypeOK
    <3> QED
      BY <1>1, <1>3, <2>1, <3>1 DEF TypeOK
  <2>9. Places'
    BY <1>1, <1>3, <1>6, <2>1 DEF Places
  <2>10. Marked'
    BY <1>1, <1>3, <2>1 DEF Marked, MarkedEvents
  <2>11. Awake'
    BY <1>1, <1>3, <1>6, <2>1 DEF Awake, Backlog, WakeUnderWay, Places
  <2>12. Bounded'
    BY <1>1, <2>1 DEF Bounded, QueueWithinLimits, LatestOnly, TotalSize, FetchBatches, Replaces
  <2> QED
    BY <2>7, <2>8, <2>9, <2>10, <2>11, <2>12 DEF Ind
<1> QED
  BY <1>5, <1>6

(* The callback posts the wake, or the post fails. *)
LEMMA DeliverStep ==
    ASSUME Ind, Deliver
    PROVE  Ind'
<1>1. /\ TypeOK /\ Places /\ Marked /\ Accounted /\ Awake /\ Bounded
      /\ broker.pc = "posting" /\ broker.event = None
  BY DEF Ind, Deliver, Places
<1>2. /\ handled' = handled /\ ui' = ui /\ deferred' = deferred /\ timer' = timer
      /\ ending' = ending /\ callback' = callback /\ open' = open /\ exited' = exited
      /\ events' = events /\ latch' = latch /\ produced' = produced
      /\ superseded' = superseded /\ discarded' = discarded
      /\ broker' = [pc |-> IF exited THEN "gone" ELSE "ready", event |-> None]
      /\ \/ posted' = posted + 1 /\ missedPost' = missedPost
         \/ missedPost' = TRUE /\ posted' = posted
  BY DEF Deliver, uiVars, queueVars
<1>3. posted \in Nat /\ posted' \in Nat /\ missedPost' \in BOOLEAN
  <2>1. posted \in Nat /\ missedPost \in BOOLEAN
    BY <1>1 DEF TypeOK
  <2>2. CASE posted' = posted + 1 /\ missedPost' = missedPost
    BY <2>1, <2>2
  <2>3. CASE missedPost' = TRUE /\ posted' = posted
    BY <2>1, <2>3
  <2> QED
    BY <1>2, <2>2, <2>3
<1>4. TypeOK'
  BY <1>1, <1>2, <1>3 DEF TypeOK
<1>5. Places'
  BY <1>1, <1>2 DEF Places
<1>6. Marked'
  BY <1>1, <1>2, MarkedStays
<1>7. Accounted'
  <2>1. Pipeline' = Pipeline
    BY <1>1, <1>2 DEF Pipeline, Hand
  <2> QED
    BY <1>1, <1>2, <2>1, AccountedMoves
<1>8. Awake'
  <2>1. WakeUnderWay'
    BY <1>2, <1>3 DEF WakeUnderWay
  <2>2. Backlog' <=> Backlog
    BY <1>2 DEF Backlog
  <2> QED
    BY <1>1, <1>2, <2>1, <2>2 DEF Awake
<1>9. Bounded'
  BY <1>1, <1>2, BoundedStays
<1> QED
  BY <1>4, <1>5, <1>6, <1>7, <1>8, <1>9 DEF Ind

(* Broker::finish_exit publishes the snapshot. *)
LEMMA PublishExitStep ==
    ASSUME Ind, PublishExit
    PROVE  Ind'
<1>1. /\ TypeOK /\ Places /\ Marked /\ Accounted /\ Awake /\ Bounded
      /\ broker.pc = "ready" /\ broker.event = None
  BY DEF Ind, PublishExit, Places
<1>2. /\ handled' = handled /\ ui' = ui /\ deferred' = deferred /\ timer' = timer
      /\ ending' = ending /\ callback' = callback /\ open' = open /\ exited' = TRUE
      /\ events' = events /\ latch' = latch /\ produced' = produced
      /\ superseded' = superseded /\ discarded' = discarded
      /\ broker' = [pc |-> "exiting", event |-> None]
      /\ posted' = posted /\ missedPost' = missedPost
  BY DEF PublishExit, uiVars, queueVars
<1>3. TypeOK'
  BY <1>1, <1>2 DEF TypeOK
<1>4. Places'
  BY <1>1, <1>2 DEF Places
<1>5. Marked'
  BY <1>1, <1>2, MarkedStays
<1>6. Accounted'
  <2>1. Pipeline' = Pipeline
    BY <1>1, <1>2 DEF Pipeline, Hand
  <2> QED
    BY <1>1, <1>2, <2>1, AccountedMoves
<1>7. Awake'
  BY <1>1, <1>2 DEF Awake, Backlog, WakeUnderWay
<1>8. Bounded'
  BY <1>1, <1>2, BoundedStays
<1> QED
  BY <1>3, <1>4, <1>5, <1>6, <1>7, <1>8 DEF Ind

(* EventSender::discard_document.  If it drops no production it drops      *)
(* nothing, because only the exit carries none and it has no document.     *)
LEMMA DiscardStep ==
    ASSUME Ind, NEW d \in Cancellable, DiscardDocument(d)
    PROVE  Ind'
<1> DEFINE S == {q \in Events : q.doc # d}
           R == {q \in Events : q.doc = d}
           out == Selection(events, R)
           gone == superseded \cup discarded
<1>1. /\ TypeOK /\ Places /\ Marked /\ Accounted /\ Awake /\ Bounded
      /\ broker.pc = "ready" /\ broker.event = None
  BY DEF Ind, DiscardDocument, Places
<1>2. /\ handled' = handled /\ ui' = ui /\ deferred' = deferred /\ timer' = timer
      /\ ending' = ending /\ callback' = callback /\ open' = open /\ exited' = exited
      /\ latch' = latch /\ produced' = produced /\ superseded' = superseded
      /\ broker' = broker /\ posted' = posted /\ missedPost' = missedPost
      /\ events' = Selection(events, S) /\ discarded' = discarded \cup IdsOf(out)
  BY DEF DiscardDocument, uiVars, queueVars
<1>3. /\ events \in Seq(MarkedEvents) /\ events \in Seq(Events) /\ Window \in Seq(Events)
  BY <1>1, PipelineParts DEF Marked, TypeOK
<1>4. WithinLimits(events) /\ Distinct(events)
  BY <1>1 DEF Bounded, QueueWithinLimits, WithinLimits, LatestOnly, Distinct
<1>5. events' \in Seq(MarkedEvents) /\ events' \in Seq(Events)
  <2>1. events' \in Seq(MarkedEvents \cap S)
    BY <1>2, <1>3, SelectionType
  <2>2. MarkedEvents \cap S \subseteq MarkedEvents /\ MarkedEvents \subseteq Events
    BY MarkedTypes
  <2> QED
    BY <2>1, <2>2, SeqMonotonic
<1>6. IdsOf(out) \in SUBSET (1 .. MaxProduced)
  <2>1. out \in Seq(Events \cap R)
    BY <1>3, SelectionType
  <2>2. out \in Seq(Events)
    BY <2>1, SeqMonotonic
  <2> QED
    BY <2>2, IdsType
<1>7. \A q \in Events : q \in R <=> q \notin S
  OBVIOUS
<1>8. IdsOf(out) = {} => events' = events
  <2> SUFFICES ASSUME IdsOf(out) = {}
               PROVE  \A n \in 1 .. Len(events) : events[n] \in S
    BY <1>2, <1>3, SelectionAll
  <2> TAKE n \in 1 .. Len(events)
  <2>1. events[n] \in Events /\ events[n] \in MarkedEvents
    BY <1>3, ElementOfSeq
  <2>2. SUFFICES ASSUME events[n].doc = d
                 PROVE  FALSE
    BY <2>1
  <2>3. d # None
    BY QueueAssumption
  <2>4. events[n].ids # {}
    BY <2>1, <2>2, <2>3 DEF MarkedEvents
  <2>5. PICK x : x \in events[n].ids
    BY <2>4
  <2>6. events[n] \in R
    BY <2>1, <2>2
  <2>7. x \in IdsOf(out)
    BY <1>3, <2>5, <2>6, IdsSelected
  <2> QED
    BY <2>7
<1>9. events' # <<>> => events # <<>>
  BY <1>2, SelectionEmpty
<1>10. WithinLimits(events') /\ Distinct(events')
  BY <1>2, <1>3, <1>4, LimitsSelection, DistinctSelection
<1>11. TypeOK'
  <2>1. discarded' \in SUBSET (1 .. MaxProduced)
    BY <1>1, <1>2, <1>6 DEF TypeOK
  <2> QED
    BY <1>1, <1>2, <1>5, <2>1 DEF TypeOK
<1>12. Places'
  BY <1>1, <1>2, <1>9 DEF Places
<1>13. Marked'
  BY <1>1, <1>2, <1>5 DEF Marked, MarkedEvents
<1>14. Accounted'
  <2> DEFINE w == Window
  <2>1. w \in Seq(Events) /\ Accounts(w \o events, produced, gone)
    BY <1>1, <1>3, EmptyHand DEF Accounted
  <2> HIDE DEF S, R, w, gone
  <2>2. Accounts(w \o Selection(events, S), produced, gone \cup IdsOf(out))
    BY <1>3, <1>7, <2>1, AccountsSelect
  <2>3. Pipeline' = (w \o events') \o <<>>
    BY <1>1, <1>2 DEF Pipeline, Hand, Window, w
  <2>4. w \o events' \in Seq(Events)
    BY <1>5, <2>1, ConcatProperties
  <2>5. Pipeline' = w \o Selection(events, S)
    BY <1>2, <2>3, <2>4, ConcatEmptySeq
  <2>6. superseded' \cup discarded' = gone \cup IdsOf(out)
    BY <1>2 DEF gone
  <2> QED
    BY <1>2, <2>2, <2>5, <2>6, AccountedNext
<1>15. Awake'
  <2>1. Backlog' => Backlog
    BY <1>2, <1>9 DEF Backlog
  <2>2. discarded' = {} => discarded = {} /\ (Backlog => Backlog')
    BY <1>2, <1>8 DEF Backlog
  <2>3. WakeUnderWay' <=> WakeUnderWay
    BY <1>2 DEF WakeUnderWay
  <2> QED
    BY <1>1, <1>2, <2>1, <2>2, <2>3 DEF Awake
<1>16. Bounded'
  BY <1>1, <1>2, <1>10 DEF Bounded, QueueWithinLimits, WithinLimits, LatestOnly, Distinct
<1> QED
  BY <1>11, <1>12, <1>13, <1>14, <1>15, <1>16 DEF Ind

(* The Exited event is offered without waiting. *)
LEMMA TrySendExitedStep ==
    ASSUME Ind, TrySendExited
    PROVE  Ind'
<1>1. /\ TypeOK /\ Places /\ Marked /\ Accounted /\ Awake /\ Bounded
      /\ broker.pc = "exiting" /\ broker.event = None /\ exited
  BY DEF Ind, TrySendExited, Places
<1>2. /\ handled' = handled /\ ui' = ui /\ deferred' = deferred /\ timer' = timer
      /\ ending' = ending /\ callback' = callback /\ open' = open /\ exited' = exited
      /\ produced' = produced /\ superseded' = superseded /\ discarded' = discarded
      /\ posted' = posted /\ missedPost' = missedPost
  BY DEF TrySendExited, uiVars
<1>3. CASE ~open \/ Blocked(events, Exited)
  <2>1. broker' = [pc |-> "gone", event |-> None] /\ events' = events /\ latch' = latch
    BY <1>3 DEF TrySendExited
  <2>2. TypeOK'
    BY <1>1, <1>2, <2>1 DEF TypeOK
  <2>3. Places'
    BY <1>1, <1>2, <2>1 DEF Places
  <2>4. Marked'
    BY <1>1, <1>2, <2>1, MarkedStays
  <2>5. Accounted'
    <3>1. Pipeline' = Pipeline
      BY <1>1, <1>2, <2>1 DEF Pipeline, Hand
    <3> QED
      BY <1>1, <1>2, <3>1, AccountedMoves
  <2>6. Awake'
    BY <1>1, <1>2, <2>1 DEF Awake, Backlog, WakeUnderWay
  <2>7. Bounded'
    BY <1>1, <2>1, BoundedStays
  <2> QED
    BY <2>2, <2>3, <2>4, <2>5, <2>6, <2>7 DEF Ind
<1>4. CASE open /\ ~Blocked(events, Exited)
  <2> DEFINE e == Exited
  <2>1. /\ events' = Append(events, e) /\ latch' = (latch \/ (callback /\ ~latch))
        /\ broker' = [pc |-> IF callback /\ ~latch THEN "posting" ELSE "gone", event |-> None]
    BY <1>4 DEF TrySendExited, Requests
  <2>2. e \in Events /\ e.kind = "exited" /\ e.doc = None /\ e.ids = {}
    <3>1. "exited" \in Kinds
      BY DEF Kinds
    <3> QED
      BY <3>1 DEF Exited, Events
  <2> HIDE DEF e
  <2>3. e \in MarkedEvents
    BY <1>1, <2>2 DEF MarkedEvents
  <2>4. events \in Seq(MarkedEvents) /\ events \in Seq(Events) /\ Window \in Seq(Events)
    BY <1>1, PipelineParts DEF Marked, TypeOK
  <2>5. events' \in Seq(MarkedEvents) /\ events' \in Seq(Events) /\ events' # <<>>
    BY <2>1, <2>2, <2>3, <2>4, AppendProperties
  <2>6. WithinLimits(events) /\ Distinct(events)
    BY <1>1 DEF Bounded, QueueWithinLimits, WithinLimits, LatestOnly, Distinct
  <2>7. Clean(events, e)
    BY <2>2 DEF Clean, Replaces, Latest
  <2>8. WithinLimits(events') /\ Distinct(events')
    BY <1>4, <2>1, <2>2, <2>4, <2>6, <2>7, LimitsPush, DistinctPush DEF e
  <2>9. latch \in BOOLEAN /\ callback \in BOOLEAN
    BY <1>1 DEF TypeOK
  <2>10. /\ latch' \in BOOLEAN /\ (callback => latch') /\ (latch' => latch \/ callback)
         /\ (latch' /\ ~latch => broker'.pc = "posting")
         /\ broker'.pc \in {"posting", "gone"} /\ broker'.event = None
         /\ broker' \in [pc : {"posting", "gone"}, event : {None}]
    BY <2>1, <2>9
  <2>11. TypeOK'
    BY <1>1, <1>2, <2>5, <2>10 DEF TypeOK
  <2>12. Places'
    BY <1>1, <1>2, <1>4, <2>10 DEF Places
  <2>13. Marked'
    BY <1>1, <1>2, <2>5, <2>10 DEF Marked, MarkedEvents
  <2>14. Accounted'
    <3> DEFINE w == Window
               v == w \o events
               gone == superseded \cup discarded
    <3>1. v \in Seq(Events) /\ Accounts(v, produced, gone)
      BY <1>1, <2>4, EmptyHand, ConcatProperties DEF Accounted
    <3>2. Pipeline' = (w \o events') \o <<>>
      BY <1>1, <1>2, <2>10 DEF Pipeline, Hand, Window
    <3>3. w \o events' = v \o <<e>>
      <4> DEFINE k == <<e>>
      <4>1. events' = events \o k /\ k \in Seq(Events)
        BY <2>1, <2>2, <2>4, AppendIsConcat
      <4> HIDE DEF w, k
      <4>2. w \o (events \o k) = (w \o events) \o k
        BY <2>4, <4>1 DEF w
      <4> QED
        BY <4>1, <4>2 DEF k
    <3> HIDE DEF v, gone, w
    <3>4. Accounts(v \o <<e>>, produced, gone)
      BY <2>2, <3>1, AccountsQuiet
    <3>5. v \o <<e>> \in Seq(Events)
      BY <2>2, <3>1, ConcatProperties
    <3>6. Pipeline' = v \o <<e>>
      BY <3>2, <3>3, <3>5, ConcatEmptySeq
    <3> QED
      BY <1>2, <3>4, <3>6, AccountedNext DEF gone
  <2>15. Awake'
    <3>1. latch' => latch \/ WakeUnderWay'
      BY <2>10 DEF WakeUnderWay
    <3>2. WakeUnderWay => WakeUnderWay'
      BY <1>1, <1>2 DEF WakeUnderWay
    <3>3. Backlog'
      BY <2>5 DEF Backlog
    <3> QED
      BY <1>1, <1>2, <2>10, <3>1, <3>2, <3>3 DEF Awake
  <2>16. Bounded'
    BY <2>8, <2>10 DEF Bounded, QueueWithinLimits, WithinLimits, LatestOnly, Distinct
  <2> QED
    BY <2>11, <2>12, <2>13, <2>14, <2>15, <2>16 DEF Ind
<1> QED
  BY <1>3, <1>4

(***************************************************************************)
(* The steps of the window.                                                *)
(***************************************************************************)

(* watch_renderer_events. *)
LEMMA SetNotifierStep ==
    ASSUME Ind, SetNotifier
    PROVE  Ind'
<1>1. /\ TypeOK /\ Places /\ Marked /\ Accounted /\ Awake /\ Bounded
      /\ ui.pc = "launching"
  BY DEF Ind, SetNotifier
<1>2. /\ handled' = handled /\ deferred' = deferred /\ timer' = timer
      /\ ending' = ending /\ callback' = TRUE /\ open' = open /\ exited' = exited
      /\ events' = events /\ latch' = (events # <<>>) /\ produced' = produced
      /\ superseded' = superseded /\ discarded' = discarded /\ broker' = broker
      /\ ui' = [ui EXCEPT !.pc = "idle"]
  BY DEF SetNotifier, brokerVars
<1>3. /\ ui'.pc = "idle" /\ ui'.batch = ui.batch /\ ui'.exit = ui.exit
      /\ ui' \in [pc : {"idle"}, batch : Seq(Events), exit : BOOLEAN]
  BY <1>1, <1>2 DEF TypeOK
<1>4. ui.batch = <<>> /\ deferred = <<>>
  BY <1>1 DEF Places
<1>5. /\ posted' \in Nat /\ missedPost' \in BOOLEAN
      /\ events # <<>> => posted' > 0 \/ missedPost'
  <2>1. posted \in Nat /\ missedPost \in BOOLEAN
    BY <1>1 DEF TypeOK
  <2>2. CASE events # <<>> /\ posted' = posted + 1 /\ missedPost' = missedPost
    BY <2>1, <2>2
  <2>3. CASE events # <<>> /\ missedPost' = TRUE /\ posted' = posted
    BY <2>1, <2>3
  <2>4. CASE events = <<>> /\ missedPost' = missedPost /\ posted' = posted
    BY <2>1, <2>4
  <2> QED
    BY <2>2, <2>3, <2>4 DEF SetNotifier
<1>6. TypeOK'
  BY <1>1, <1>2, <1>3, <1>5 DEF TypeOK
<1>7. Places'
  BY <1>1, <1>2, <1>3, <1>4 DEF Places
<1>8. Marked'
  BY <1>1, <1>2, <1>3, MarkedStays
<1>9. Accounted'
  <2>1. Pipeline' = Pipeline
    BY <1>2, <1>3 DEF Pipeline, Hand
  <2> QED
    BY <1>1, <1>2, <2>1, AccountedMoves
<1>10. Awake'
  BY <1>2, <1>3, <1>4, <1>5 DEF Awake, Backlog, WakeUnderWay
<1>11. Bounded'
  BY <1>1, <1>2, BoundedStays
<1> QED
  BY <1>6, <1>7, <1>8, <1>9, <1>10, <1>11 DEF Ind

(* An empty place in the pipeline. *)
LEMMA EmptyPlace ==
    ASSUME NEW h \in Seq(Events), NEW b \in Seq(Events)
    PROVE  (h \o <<>>) \o b = (h \o b) \o <<>> /\ (h \o b) \o <<>> = h \o b
<1>1. h \o <<>> = h
  BY ConcatEmptySeq
<1>2. h \o b \in Seq(Events)
  BY ConcatProperties
<1> QED
  BY <1>1, <1>2, ConcatEmptySeq

(* poll_renderer begins a turn with what an earlier one deferred. *)
LEMMA BeginTurnStep ==
    ASSUME Ind, BeginTurn, posted' \in Nat
    PROVE  Ind'
<1>1. /\ TypeOK /\ Places /\ Marked /\ Accounted /\ Awake /\ Bounded
      /\ ui.pc = "idle"
  BY DEF Ind, BeginTurn
<1>2. /\ handled' = handled /\ deferred' = <<>> /\ timer' = timer
      /\ ending' = ending /\ callback' = callback /\ open' = open /\ exited' = exited
      /\ events' = events /\ latch' = latch /\ produced' = produced
      /\ superseded' = superseded /\ discarded' = discarded /\ broker' = broker
      /\ ui' = [pc |-> IF deferred = <<>> THEN "collect" ELSE "check",
                batch |-> deferred, exit |-> exited]
      /\ missedPost' = missedPost
  BY DEF BeginTurn, queueVars, brokerVars
<1>3. ui.batch = <<>>
  BY <1>1 DEF Places
<1>4. TypeOK'
  <2>1. /\ exited \in BOOLEAN /\ deferred \in Seq(Events) /\ <<>> \in Seq(Events)
    BY <1>1 DEF TypeOK
  <2>2. ui' \in [pc : {"collect", "check"}, batch : Seq(Events), exit : BOOLEAN]
    BY <1>2, <2>1
  <2> QED
    BY <1>1, <1>2, <2>1, <2>2 DEF TypeOK
<1>5. Places'
  BY <1>1, <1>2 DEF Places
<1>6. Marked'
  <2>1. MarkedEvents' = MarkedEvents
    BY <1>2 DEF MarkedEvents
  <2>2. deferred' \in Seq(MarkedEvents) /\ ui'.batch \in Seq(MarkedEvents)
    BY <1>1, <1>2 DEF Marked
  <2> QED
    BY <1>1, <1>2, <2>1, <2>2 DEF Marked
<1>7. Accounted'
  <2>1. (handled \o <<>>) \o deferred = (handled \o deferred) \o <<>>
    BY <1>1, EmptyPlace DEF TypeOK
  <2>2. Pipeline = (((handled \o <<>>) \o deferred) \o events) \o Hand
    BY <1>3 DEF Pipeline
  <2>3. Pipeline' = (((handled \o deferred) \o <<>>) \o events) \o Hand
    BY <1>2 DEF Pipeline, Hand
  <2> QED
    BY <1>1, <1>2, <2>1, <2>2, <2>3, AccountedMoves
<1>8. Awake'
  <2>1. Backlog' => Backlog
    BY <1>2 DEF Backlog
  <2>2. ui'.pc \notin {"idle", "monitor"}
    BY <1>2
  <2> QED
    BY <1>1, <1>2, <2>1, <2>2 DEF Awake
<1>9. Bounded'
  BY <1>1, <1>2, BoundedStays
<1> QED
  BY <1>4, <1>5, <1>6, <1>7, <1>8, <1>9 DEF Ind

(* The window's wake message and its timer keep the invariant. *)
LEMMA WakeStep ==
    ASSUME Ind, WakeMessage \/ TimerTick
    PROVE  Ind'
<1>1. posted \in Nat
  BY DEF Ind, TypeOK
<1>2. posted' \in Nat
  BY <1>1 DEF WakeMessage, TimerTick
<1> QED
  BY <1>2, BeginTurnStep DEF WakeMessage, TimerTick

(* The turn goes on without moving an event. *)
LEMMA CheckRemainingStep ==
    ASSUME Ind, CheckRemaining
    PROVE  Ind'
<1>1. /\ TypeOK /\ Places /\ Marked /\ Accounted /\ Awake /\ Bounded
      /\ ui.pc = "check"
  BY DEF Ind, CheckRemaining
<1>2. /\ handled' = handled /\ deferred' = deferred /\ timer' = timer
      /\ ending' = ending /\ callback' = callback /\ open' = open /\ exited' = exited
      /\ events' = events /\ latch' = latch /\ produced' = produced
      /\ superseded' = superseded /\ discarded' = discarded /\ broker' = broker
      /\ posted' = posted /\ missedPost' = missedPost
      /\ ui' = [ui EXCEPT !.pc = "handle", !.exit = @ /\ events = <<>>]
  BY DEF CheckRemaining, queueVars, brokerVars
<1>3. /\ ui'.pc = "handle" /\ ui'.batch = ui.batch /\ (ui'.exit => ui.exit)
      /\ ui' \in [pc : {"handle"}, batch : Seq(Events), exit : BOOLEAN]
  BY <1>1, <1>2 DEF TypeOK
<1>4. TypeOK'
  BY <1>1, <1>2, <1>3 DEF TypeOK
<1>5. Places'
  BY <1>1, <1>2, <1>3 DEF Places
<1>6. Marked'
  BY <1>1, <1>2, <1>3, MarkedStays
<1>7. Accounted'
  <2>1. Pipeline' = Pipeline
    BY <1>2, <1>3 DEF Pipeline, Hand
  <2> QED
    BY <1>1, <1>2, <2>1, AccountedMoves
<1>8. Awake'
  BY <1>1, <1>2, <1>3 DEF Awake, Backlog, WakeUnderWay
<1>9. Bounded'
  BY <1>1, <1>2, BoundedStays
<1> QED
  BY <1>4, <1>5, <1>6, <1>7, <1>8, <1>9 DEF Ind

(* The end of a batch keeps the invariant. *)
LEMMA BatchDoneStep ==
    ASSUME Ind, BatchDone
    PROVE  Ind'
<1>1. /\ TypeOK /\ Places /\ Marked /\ Accounted /\ Awake /\ Bounded
      /\ ui.pc = "handle" /\ ui.batch = <<>>
  BY DEF Ind, BatchDone
<1>2. /\ handled' = handled /\ deferred' = deferred /\ timer' = timer
      /\ ending' = ending /\ callback' = callback /\ open' = open /\ exited' = exited
      /\ events' = events /\ latch' = latch /\ produced' = produced
      /\ superseded' = superseded /\ discarded' = discarded /\ broker' = broker
      /\ posted' = posted /\ missedPost' = missedPost
      /\ ui' = [ui EXCEPT !.pc = "finish"]
  BY DEF BatchDone, queueVars, brokerVars
<1>3. /\ ui'.pc = "finish" /\ ui'.batch = ui.batch /\ ui'.exit = ui.exit
      /\ ui' \in [pc : {"finish"}, batch : Seq(Events), exit : BOOLEAN]
  BY <1>1, <1>2 DEF TypeOK
<1>4. TypeOK'
  BY <1>1, <1>2, <1>3 DEF TypeOK
<1>5. Places'
  BY <1>1, <1>2, <1>3 DEF Places
<1>6. Marked'
  BY <1>1, <1>2, <1>3, MarkedStays
<1>7. Accounted'
  <2>1. Pipeline' = Pipeline
    BY <1>2, <1>3 DEF Pipeline, Hand
  <2> QED
    BY <1>1, <1>2, <2>1, AccountedMoves
<1>8. Awake'
  BY <1>1, <1>2, <1>3 DEF Awake, Backlog, WakeUnderWay
<1>9. Bounded'
  BY <1>1, <1>2, BoundedStays
<1> QED
  BY <1>4, <1>5, <1>6, <1>7, <1>8, <1>9 DEF Ind

(* ensure_renderer_monitoring: the slow timer is for a window without work. *)
LEMMA UpdateMonitorStep ==
    ASSUME Ind, UpdateMonitor
    PROVE  Ind'
<1>1. /\ TypeOK /\ Places /\ Marked /\ Accounted /\ Awake /\ Bounded
      /\ ui.pc = "monitor" /\ ui.batch = <<>>
  BY DEF Ind, UpdateMonitor, Places
<1>2. /\ handled' = handled /\ deferred' = deferred
      /\ ending' = ending /\ callback' = callback /\ open' = open /\ exited' = exited
      /\ events' = events /\ latch' = latch /\ produced' = produced
      /\ superseded' = superseded /\ discarded' = discarded /\ broker' = broker
      /\ posted' = posted /\ missedPost' = missedPost
      /\ ui' = [ui EXCEPT !.pc = "idle"]
      /\ \/ timer' = "active"
         \/ timer' = "idle" /\ deferred = <<>> /\ events = <<>>
  BY DEF UpdateMonitor, queueVars, brokerVars
<1>3. /\ ui'.pc = "idle" /\ ui'.batch = ui.batch /\ ui'.exit = ui.exit
      /\ ui' \in [pc : {"idle"}, batch : Seq(Events), exit : BOOLEAN]
  BY <1>1, <1>2 DEF TypeOK
<1>4. TypeOK'
  BY <1>1, <1>2, <1>3 DEF TypeOK
<1>5. Places'
  BY <1>1, <1>2, <1>3 DEF Places
<1>6. Marked'
  BY <1>1, <1>2, <1>3, MarkedStays
<1>7. Accounted'
  <2>1. Pipeline' = Pipeline
    BY <1>2, <1>3 DEF Pipeline, Hand
  <2> QED
    BY <1>1, <1>2, <2>1, AccountedMoves
<1>8. Awake'
  BY <1>1, <1>2, <1>3 DEF Awake, Backlog, WakeUnderWay
<1>9. Bounded'
  BY <1>1, <1>2, BoundedStays
<1> QED
  BY <1>4, <1>5, <1>6, <1>7, <1>8, <1>9 DEF Ind

(* An event goes from the front of one sequence to the end of the one      *)
(* before it.                                                              *)
LEMMA TakeFirst ==
    ASSUME NEW h \in Seq(Events), NEW b \in Seq(Events), NEW es \in Seq(Events), es # <<>>
    PROVE  (h \o Append(b, Head(es))) \o Tail(es) = (h \o b) \o es
<1> DEFINE f == Head(es)
           x == <<f>>
           t == Tail(es)
<1>1. f \in Events /\ t \in Seq(Events)
  BY HeadTailProperties
<1>2. es = x \o t
  OBVIOUS
<1> HIDE DEF f, t
<1>3. x \in Seq(Events) /\ Append(b, f) = b \o x
  BY <1>1, AppendIsConcat
<1> HIDE DEF x
<1> DEFINE u == h \o b
<1>4. h \o (b \o x) = u \o x /\ u \in Seq(Events)
  BY <1>3
<1> HIDE DEF u
<1>5. (u \o x) \o t = u \o (x \o t)
  <2>1. u \in Seq(Events) /\ x \in Seq(Events) /\ t \in Seq(Events)
    BY <1>1, <1>3, <1>4
  <2> QED
    BY <2>1, SMTT(30)
<1> QED
  BY <1>2, <1>3, <1>4, <1>5 DEF u, f, t

(* event_batch::collect. *)
LEMMA CollectStep ==
    ASSUME Ind, Collect
    PROVE  Ind'
<1>1. /\ TypeOK /\ Places /\ Marked /\ Accounted /\ Awake /\ Bounded
      /\ ui.pc = "collect" /\ deferred = <<>>
  BY DEF Ind, Collect, Places
<1>2. /\ handled' = handled /\ deferred' = deferred /\ timer' = timer
      /\ ending' = ending /\ callback' = callback /\ open' = open /\ exited' = exited
      /\ latch' = latch /\ produced' = produced
      /\ superseded' = superseded /\ discarded' = discarded
      /\ posted' = posted /\ missedPost' = missedPost
  BY DEF Collect
<1>3. CASE Takes(ui.batch)
  <2> DEFINE h == Head(events)
             t == Tail(events)
             b == ui.batch
  <2>1. /\ ui' = [ui EXCEPT !.batch = Append(@, h)] /\ events' = t
        /\ broker' = Notified /\ events # <<>>
    BY <1>3 DEF Collect, Takes
  <2>2. /\ b \in Seq(Events) /\ b \in Seq(MarkedEvents) /\ handled \in Seq(Events)
        /\ events \in Seq(Events) /\ events \in Seq(MarkedEvents)
    BY <1>1 DEF TypeOK, Marked
  <2>3. h \in MarkedEvents /\ t \in Seq(MarkedEvents) /\ h \in Events /\ t \in Seq(Events)
    BY <2>1, <2>2, HeadTailProperties
  <2> DEFINE a == Append(b, h)
  <2>4. a \in Seq(MarkedEvents) /\ a \in Seq(Events)
    BY <2>2, <2>3, AppendProperties
  <2>5. (handled \o a) \o t = (handled \o b) \o events
    BY <2>1, <2>2, TakeFirst
  <2>6. WithinLimits(t) /\ Distinct(t) /\ (broker.event # None => Clean(t, broker.event))
    <3>1. WithinLimits(events) /\ Distinct(events)
          /\ (broker.event # None => Clean(events, broker.event))
      BY <1>1 DEF Bounded, QueueWithinLimits, WithinLimits, LatestOnly, Distinct, Clean
    <3>2. WithinLimits(t) /\ Distinct(t)
      BY <2>1, <2>2, <3>1, LimitsTail, DistinctTail
    <3>3. CASE broker.event # None
      <4> DEFINE k == broker.event
      <4>1. Clean(events, k)
        BY <3>1, <3>3
      <4> HIDE DEF k
      <4>2. Clean(t, k)
        BY <2>1, <2>2, <4>1, CleanTail
      <4> QED
        BY <3>2, <4>2 DEF k
    <3> QED
      BY <3>2, <3>3
  <2>7. /\ ui'.pc = "collect" /\ ui'.batch = a /\ ui'.exit = ui.exit
        /\ ui' \in [pc : {"collect"}, batch : Seq(Events), exit : BOOLEAN]
    <3>1. ui' = [ui EXCEPT !.batch = a]
      BY <2>1
    <3> HIDE DEF a
    <3> QED
      BY <1>1, <2>4, <3>1 DEF TypeOK
  <2>8. /\ broker'.event = broker.event
        /\ broker'.pc = (IF broker.pc = "asleep" THEN "awake" ELSE broker.pc)
        /\ broker' \in [pc : {"ready", "asleep", "awake", "posting", "exiting", "gone"},
                        event : Events \cup {None}]
    <3>1. broker' = [broker EXCEPT !.pc = IF broker.pc = "asleep" THEN "awake" ELSE broker.pc]
      BY <2>1 DEF Notified
    <3> QED
      BY <1>1, <3>1 DEF TypeOK
  <2> HIDE DEF t, h, a, b
  <2>9. TypeOK'
    BY <1>1, <1>2, <2>1, <2>3, <2>7, <2>8 DEF TypeOK
  <2>10. Places'
    BY <1>1, <1>2, <2>1, <2>7, <2>8 DEF Places
  <2>11. Marked'
    <3>1. MarkedEvents' = MarkedEvents
      BY <1>2 DEF MarkedEvents
    <3> QED
      BY <1>1, <1>2, <2>1, <2>3, <2>4, <2>7, <2>8, <3>1 DEF Marked
  <2>12. Accounted'
    <3>1. Pipeline' = (((handled \o a) \o <<>>) \o t) \o Hand
      BY <1>1, <1>2, <2>1, <2>7, <2>8 DEF Pipeline, Hand
    <3>2. Pipeline = (((handled \o b) \o <<>>) \o events) \o Hand
      BY <1>1 DEF Pipeline, b
    <3>3. handled \o a \in Seq(Events) /\ handled \o b \in Seq(Events)
      BY <2>2, <2>4, ConcatProperties
    <3>4. (handled \o a) \o <<>> = handled \o a /\ (handled \o b) \o <<>> = handled \o b
      BY <3>3, ConcatEmptySeq
    <3>5. Pipeline' = Pipeline
      BY <2>5, <3>1, <3>2, <3>4
    <3> QED
      BY <1>1, <1>2, <3>5, AccountedMoves
  <2>13. Awake'
    <3>1. Backlog
      BY <2>1 DEF Backlog
    <3> QED
      BY <1>1, <1>2, <2>7, <3>1 DEF Awake
  <2>14. Bounded'
    BY <2>1, <2>6, <2>8 DEF Bounded, QueueWithinLimits, WithinLimits, LatestOnly, Distinct, Clean
  <2> QED
    BY <2>9, <2>10, <2>11, <2>12, <2>13, <2>14 DEF Ind
<1>4. CASE ~Takes(ui.batch)
  <2>1. ui' = [ui EXCEPT !.pc = "check"] /\ events' = events /\ broker' = broker
    BY <1>4 DEF Collect
  <2>2. /\ ui'.pc = "check" /\ ui'.batch = ui.batch /\ ui'.exit = ui.exit
        /\ ui' \in [pc : {"check"}, batch : Seq(Events), exit : BOOLEAN]
    BY <1>1, <2>1 DEF TypeOK
  <2>3. TypeOK'
    BY <1>1, <1>2, <2>1, <2>2 DEF TypeOK
  <2>4. Places'
    BY <1>1, <1>2, <2>1, <2>2 DEF Places
  <2>5. Marked'
    BY <1>1, <1>2, <2>1, <2>2, MarkedStays
  <2>6. Accounted'
    <3>1. Pipeline' = Pipeline
      BY <1>2, <2>1, <2>2 DEF Pipeline, Hand
    <3> QED
      BY <1>1, <1>2, <3>1, AccountedMoves
  <2>7. Awake'
    BY <1>1, <1>2, <2>1, <2>2 DEF Awake, Backlog, WakeUnderWay
  <2>8. Bounded'
    BY <1>1, <2>1, BoundedStays
  <2> QED
    BY <2>3, <2>4, <2>5, <2>6, <2>7, <2>8 DEF Ind
<1> QED
  BY <1>3, <1>4

(* A storage transaction ends with the last of the adjacent writes. *)
LEMMA TogetherWithin ==
    ASSUME NEW b \in Seq(Events), b # <<>>
    PROVE  Together(b) \in 1 .. Len(b)
<1> DEFINE T == {n \in 1 .. Len(b) : n < Len(b) => ~Same(b[1], b[n + 1])}
<1>1. Len(b) \in Nat /\ Len(b) >= 1
  OBVIOUS
<1>2. T \in SUBSET Nat /\ Len(b) \in T
  BY <1>1
<1>3. PICK m \in T : \A n \in T : m <= n
  BY <1>2, LeastNumber
<1>4. m \in 1 .. Len(b) /\ (m < Len(b) => ~Same(b[1], b[m + 1]))
  BY <1>3
<1>5. \A i \in 2 .. m : Same(b[1], b[i])
  <2> TAKE i \in 2 .. m
  <2> DEFINE k == i - 1
  <2>1. k \in 1 .. Len(b) /\ k < m /\ k + 1 = i
    BY <1>1, <1>4
  <2>2. k \notin T
    <3> SUFFICES ASSUME k \in T
                 PROVE  FALSE
      OBVIOUS
    <3> HIDE DEF T, k
    <3>1. m <= k
      BY <1>3
    <3> QED
      BY <1>1, <1>4, <2>1, <3>1
  <2> QED
    BY <2>1, <2>2
<1>6. \E n \in 1 .. Len(b) : /\ \A i \in 2 .. n : Same(b[1], b[i])
                             /\ n < Len(b) => ~Same(b[1], b[n + 1])
  BY <1>4, <1>5
<1> QED
  BY <1>6 DEF Together

(* One event or one transaction is applied; the rest stays or is deferred. *)
LEMMA HandleStep ==
    ASSUME Ind, Handle
    PROVE  Ind'
<1> DEFINE b == ui.batch
           n == Together(b)
           first == SubSeq(b, 1, n)
           rest == SubSeq(b, n + 1, Len(b))
           exit == ui.exit \/ Head(b).kind = "exited"
<1>1. /\ TypeOK /\ Places /\ Marked /\ Accounted /\ Awake /\ Bounded
      /\ ui.pc = "handle" /\ deferred = <<>> /\ b # <<>>
  BY DEF Ind, Handle, Places
<1>2. /\ handled' = handled \o first /\ timer' = timer
      /\ ending' = ending /\ callback' = callback /\ open' = open /\ exited' = exited
      /\ events' = events /\ latch' = latch /\ produced' = produced
      /\ superseded' = superseded /\ discarded' = discarded /\ broker' = broker
      /\ posted' = posted /\ missedPost' = missedPost
      /\ \/ ui' = [ui EXCEPT !.batch = rest, !.exit = exit] /\ deferred' = deferred
         \/ /\ ui' = [pc |-> "finish", batch |-> <<>>, exit |-> FALSE]
            /\ deferred' = deferred \o rest
  BY DEF Handle, queueVars, brokerVars
<1>3. b \in Seq(Events) /\ b \in Seq(MarkedEvents) /\ handled \in Seq(Events)
      /\ handled \in Seq(MarkedEvents)
  BY <1>1 DEF TypeOK, Marked
<1>4. n \in 1 .. Len(b) /\ Len(b) \in Nat
  BY <1>1, <1>3, TogetherWithin
<1>5. exit \in BOOLEAN /\ (exit => exited)
  <2>1. Head(b) \in MarkedEvents
    BY <1>1, <1>3, HeadTailProperties
  <2>2. Head(b).kind = "exited" => exited
    BY <2>1 DEF MarkedEvents
  <2> QED
    BY <1>1, <2>2 DEF TypeOK, Places
<1> HIDE DEF n
<1>6. first \in Seq(MarkedEvents) /\ rest \in Seq(MarkedEvents)
  <2>1. \A i \in 1 .. Len(b) : b[i] \in MarkedEvents
    BY <1>3, ElementOfSeq
  <2>2. n \in Int /\ 1 \in Int /\ n + 1 \in Int /\ Len(b) \in Int
        /\ (\A i \in 1 .. n : b[i] \in MarkedEvents)
        /\ (\A i \in n + 1 .. Len(b) : b[i] \in MarkedEvents)
    BY <1>4, <2>1
  <2> DEFINE m == n + 1
             l == Len(b)
  <2>3. m \in Int /\ l \in Int /\ \A i \in m .. l : b[i] \in MarkedEvents
    BY <2>2
  <2> HIDE DEF m, l, b
  <2>4. SubSeq(b, m, l) \in Seq(MarkedEvents)
    BY <2>3, SubSeqProperties
  <2>5. SubSeq(b, 1, n) \in Seq(MarkedEvents)
    BY <2>2, SubSeqProperties
  <2> QED
    BY <2>4, <2>5 DEF m, l
<1>7. first \in Seq(Events) /\ rest \in Seq(Events)
  BY <1>6, MarkedTypes, SeqMonotonic
<1>8. b = first \o rest
  <2> DEFINE l == Len(b)
  <2>1. n \in 0 .. l /\ l \in n .. l /\ 1 \in 1 .. l + 1 /\ n \in 1 - 1 .. l
    BY <1>4
  <2> HIDE DEF b
  <2>2. SubSeq(b, 1, n) \o SubSeq(b, n + 1, l) = SubSeq(b, 1, l)
    BY <1>3, <2>1, ConcatAdjacentSubSeq
  <2>3. SubSeq(b, 1, l) = b
    BY <1>3, SubSeqFull
  <2> QED
    BY <2>2, <2>3
<1> HIDE DEF first, rest, exit
<1>9. handled \o first \in Seq(Events) /\ handled \o first \in Seq(MarkedEvents)
  BY <1>3, <1>6, <1>7, ConcatProperties
<1>10. deferred \o rest = rest
  BY <1>1, <1>7, ConcatEmptySeq
<1>11. ui' \in [pc : {"handle", "finish"}, batch : {rest, <<>>}, exit : BOOLEAN]
       /\ (ui'.exit => exited)
       /\ \/ ui'.pc = "handle" /\ ui'.batch = rest /\ deferred' = <<>>
          \/ ui'.pc = "finish" /\ ui'.batch = <<>> /\ deferred' = rest
  <2>1. CASE ui' = [ui EXCEPT !.batch = rest, !.exit = exit] /\ deferred' = deferred
    BY <1>1, <1>5, <2>1 DEF TypeOK
  <2>2. CASE /\ ui' = [pc |-> "finish", batch |-> <<>>, exit |-> FALSE]
             /\ deferred' = deferred \o rest
    BY <1>10, <2>2
  <2> QED
    BY <1>2, <2>1, <2>2
<1>12. TypeOK'
  <2>1. <<>> \in Seq(Events)
    OBVIOUS
  <2>2. ui' \in [pc : {"handle", "finish"}, batch : Seq(Events), exit : BOOLEAN]
        /\ deferred' \in Seq(Events)
    BY <1>7, <1>11, <2>1
  <2> QED
    BY <1>1, <1>2, <1>9, <2>2 DEF TypeOK
<1>13. Places'
  BY <1>1, <1>2, <1>11 DEF Places
<1>14. Marked'
  <2>1. MarkedEvents' = MarkedEvents
    BY <1>2 DEF MarkedEvents
  <2>2. <<>> \in Seq(MarkedEvents)
    OBVIOUS
  <2>3. ui'.batch \in Seq(MarkedEvents) /\ deferred' \in Seq(MarkedEvents)
    BY <1>6, <1>11, <2>2
  <2> QED
    BY <1>1, <1>2, <1>9, <2>1, <2>3 DEF Marked
<1>15. Accounted'
  <2>1. (handled \o first) \o rest = handled \o b
    BY <1>3, <1>7, <1>8
  <2> DEFINE p == handled \o first
             q == handled \o b
             z == <<>>
  <2>2. /\ (p \o rest) \o z = q /\ (p \o z) \o rest = q /\ q \o z = q
    <3>1. p \in Seq(Events) /\ q \in Seq(Events)
      BY <1>3, <1>9, ConcatProperties
    <3> HIDE DEF p, q
    <3>2. q \o z = q /\ p \o z = p
      BY <3>1, ConcatEmptySeq
    <3> QED
      BY <2>1, <3>2 DEF p, q
  <2>3. Pipeline = ((q \o z) \o events) \o Hand
    BY <1>1 DEF Pipeline
  <2>4. Pipeline' = (q \o events) \o Hand
    <3>1. Hand' = Hand
      BY <1>2 DEF Hand
    <3>2. Pipeline' = ((p \o ui'.batch) \o deferred') \o events \o Hand
      BY <1>2, <3>1 DEF Pipeline
    <3> HIDE DEF p, q, z
    <3>3. CASE ui'.batch = rest /\ deferred' = <<>>
      BY <2>2, <3>2, <3>3 DEF z
    <3>4. CASE ui'.batch = <<>> /\ deferred' = rest
      BY <2>2, <3>2, <3>4 DEF z
    <3> QED
      BY <1>11, <3>3, <3>4
  <2>5. Pipeline' = Pipeline
    BY <2>2, <2>3, <2>4
  <2> QED
    BY <1>1, <1>2, <2>5, AccountedMoves
<1>16. Awake'
  <2>1. Backlog
    BY <1>1 DEF Backlog
  <2> QED
    BY <1>1, <1>2, <1>11, <2>1 DEF Awake
<1>17. Bounded'
  BY <1>1, <1>2, BoundedStays
<1> QED
  BY <1>12, <1>13, <1>14, <1>15, <1>16, <1>17 DEF Ind

(* The writes and everything behind them wait for the next turn. *)
LEMMA PutBackStep ==
    ASSUME Ind, PutBack
    PROVE  Ind'
<1> DEFINE b == ui.batch
<1>1. /\ TypeOK /\ Places /\ Marked /\ Accounted /\ Awake /\ Bounded
      /\ ui.pc = "handle" /\ deferred = <<>> /\ b # <<>>
  BY DEF Ind, PutBack, Places
<1>2. b \in Seq(Events) /\ b \in Seq(MarkedEvents) /\ handled \in Seq(Events)
  BY <1>1 DEF TypeOK, Marked
<1>3. deferred \o b = b
  BY <1>1, <1>2, ConcatEmptySeq
<1>4. /\ handled' = handled /\ timer' = timer
      /\ ending' = ending /\ callback' = callback /\ open' = open /\ exited' = exited
      /\ events' = events /\ latch' = latch /\ produced' = produced
      /\ superseded' = superseded /\ discarded' = discarded /\ broker' = broker
      /\ posted' = posted /\ missedPost' = missedPost
      /\ ui' = [pc |-> "finish", batch |-> <<>>, exit |-> FALSE]
      /\ deferred' = b
  BY <1>3 DEF PutBack, queueVars, brokerVars
<1>5. TypeOK'
  <2>1. <<>> \in Seq(Events)
    OBVIOUS
  <2>2. ui' \in [pc : {"finish"}, batch : Seq(Events), exit : BOOLEAN]
    BY <1>4, <2>1
  <2> QED
    BY <1>1, <1>2, <1>4, <2>2 DEF TypeOK
<1>6. Places'
  BY <1>1, <1>4 DEF Places
<1>7. Marked'
  <2>1. MarkedEvents' = MarkedEvents
    BY <1>4 DEF MarkedEvents
  <2>2. <<>> \in Seq(MarkedEvents)
    OBVIOUS
  <2>3. ui'.batch \in Seq(MarkedEvents) /\ deferred' \in Seq(MarkedEvents)
    BY <1>2, <1>4, <2>2
  <2> QED
    BY <1>1, <1>4, <2>1, <2>3 DEF Marked
<1>8. Accounted'
  <2>1. (handled \o <<>>) \o b = (handled \o b) \o <<>>
    BY <1>2, EmptyPlace
  <2>2. Pipeline = (((handled \o b) \o <<>>) \o events) \o Hand
    BY <1>1 DEF Pipeline
  <2>3. Pipeline' = (((handled \o <<>>) \o b) \o events) \o Hand
    BY <1>4 DEF Pipeline, Hand
  <2> QED
    BY <1>1, <1>4, <2>1, <2>2, <2>3, AccountedMoves
<1>9. Awake'
  <2>1. Backlog
    BY <1>1 DEF Backlog
  <2> QED
    BY <1>1, <1>4, <2>1 DEF Awake
<1>10. Bounded'
  BY <1>1, <1>4, BoundedStays
<1> QED
  BY <1>5, <1>6, <1>7, <1>8, <1>9, <1>10 DEF Ind

(* EventReceiver::close takes what the queue and the window still have.    *)
LEMMA CloseStep ==
    ASSUME Ind, NEW how \in {"exit", "replaced"}, CloseSession(how)
    PROVE  Ind'
<1> DEFINE b == ui.batch
           k == Hand
           all == (b \o deferred) \o events
           gone == superseded \cup discarded
<1>1. /\ TypeOK /\ Places /\ Marked /\ Accounted /\ Awake /\ Bounded
  BY DEF Ind
<1>2. /\ handled' = handled /\ deferred' = <<>> /\ timer' = timer
      /\ ending' = how /\ callback' = FALSE /\ open' = FALSE /\ exited' = exited
      /\ events' = <<>> /\ latch' = FALSE /\ produced' = produced
      /\ superseded' = superseded /\ broker' = Notified
      /\ discarded' = ((discarded \cup IdsOf(events)) \cup IdsOf(b)) \cup IdsOf(deferred)
      /\ posted' = posted /\ missedPost' = missedPost
      /\ ui' = [pc |-> "closed", batch |-> <<>>, exit |-> FALSE]
  BY DEF CloseSession
<1>3. /\ handled \in Seq(Events) /\ b \in Seq(Events) /\ deferred \in Seq(Events)
      /\ events \in Seq(Events) /\ k \in Seq(Events)
  BY <1>1, QueueTypes
<1>4. /\ broker'.event = broker.event
      /\ broker'.pc = (IF broker.pc = "asleep" THEN "awake" ELSE broker.pc)
      /\ broker' \in [pc : {"ready", "asleep", "awake", "posting", "exiting", "gone"},
                      event : Events \cup {None}]
  <2>1. broker' = [broker EXCEPT !.pc = IF broker.pc = "asleep" THEN "awake" ELSE broker.pc]
    BY <1>2 DEF Notified
  <2> QED
    BY <1>1, <2>1 DEF TypeOK
<1>5. TypeOK'
  <2>1. <<>> \in Seq(Events) /\ ui' \in [pc : {"closed"}, batch : Seq(Events), exit : BOOLEAN]
    BY <1>2
  <2>2. discarded' \in SUBSET (1 .. MaxProduced)
    <3>1. discarded \in SUBSET (1 .. MaxProduced)
      BY <1>1 DEF TypeOK
    <3>2. /\ IdsOf(events) \subseteq 1 .. MaxProduced /\ IdsOf(b) \subseteq 1 .. MaxProduced
          /\ IdsOf(deferred) \subseteq 1 .. MaxProduced
      BY <1>3, IdsType
    <3> QED
      BY <1>2, <3>1, <3>2
  <2> QED
    BY <1>1, <1>2, <1>4, <2>1, <2>2 DEF TypeOK
<1>6. Places'
  BY <1>1, <1>2, <1>4 DEF Places
<1>7. Marked'
  <2>1. MarkedEvents' = MarkedEvents /\ <<>> \in Seq(MarkedEvents)
    BY <1>2 DEF MarkedEvents
  <2> QED
    BY <1>1, <1>2, <1>4, <2>1 DEF Marked
<1>8. Accounted'
  <2>1. /\ b \o deferred \in Seq(Events) /\ all \in Seq(Events)
        /\ (((handled \o b) \o deferred) \o events) \o k = (handled \o all) \o k
    <3> HIDE DEF b, k
    <3>1. b \o deferred \in Seq(Events)
      BY <1>3, ConcatProperties
    <3>2. all \in Seq(Events)
      BY <1>3, <3>1, ConcatProperties
    <3> DEFINE h == handled
               d == deferred
               e == events
    <3>3. /\ h \in Seq(Events) /\ b \in Seq(Events) /\ d \in Seq(Events)
          /\ e \in Seq(Events) /\ k \in Seq(Events)
      BY <1>3
    <3> HIDE DEF h, d, e
    <3>4. (((h \o b) \o d) \o e) \o k = (h \o ((b \o d) \o e)) \o k
      <4> DEFINE v == b \o d
      <4>1. (h \o b) \o d = h \o v /\ v \in Seq(Events)
        BY <3>3
      <4> HIDE DEF v
      <4>2. (h \o v) \o e = h \o (v \o e)
        BY <3>3, <4>1, SMTT(30)
      <4> QED
        BY <4>1, <4>2 DEF v
    <3> QED
      BY <3>1, <3>2, <3>4 DEF h, d, e
  <2>2. IdsOf(all) = (IdsOf(b) \cup IdsOf(deferred)) \cup IdsOf(events)
    <3> DEFINE v == b \o deferred
    <3>1. IdsOf(v) = IdsOf(b) \cup IdsOf(deferred) /\ v \in Seq(Events)
      BY <1>3, <2>1, IdsConcat
    <3> HIDE DEF v
    <3>2. IdsOf(v \o events) = IdsOf(v) \cup IdsOf(events)
      BY <1>3, <3>1, IdsConcat
    <3> QED
      BY <3>1, <3>2 DEF v
  <2>3. Accounts((handled \o all) \o k, produced, gone)
    BY <1>1, <2>1 DEF Accounted, Pipeline
  <2> HIDE DEF all, k, gone
  <2>4. Accounts(handled \o k, produced, gone \cup IdsOf(all))
    BY <1>3, <2>1, <2>3, AccountsLose
  <2>5. superseded' \cup discarded' = gone \cup IdsOf(all)
    BY <1>2, <2>2 DEF gone
  <2>6. Pipeline' = handled \o k
    <3>1. Hand' = k
      BY <1>4 DEF Hand, k
    <3>2. Pipeline' = (((handled \o <<>>) \o <<>>) \o <<>>) \o k
      BY <1>2, <3>1 DEF Pipeline
    <3>3. handled \o <<>> = handled
      BY <1>3, ConcatEmptySeq
    <3> QED
      BY <3>2, <3>3
  <2> QED
    BY <1>2, <2>4, <2>5, <2>6, AccountedNext
<1>9. Awake'
  BY <1>2 DEF Awake
<1>10. Bounded'
  <2>1. WithinLimits(<<>>)
    BY LimitsEmpty
  <2> DEFINE z == <<>>
  <2>2. events' = z /\ Len(z) = 0 /\ WithinLimits(z)
    BY <1>2, <2>1
  <2> HIDE DEF z
  <2>3. QueueWithinLimits'
    BY <2>2 DEF QueueWithinLimits, WithinLimits
  <2>4. LatestOnly'
    BY <2>2 DEF LatestOnly
  <2> QED
    BY <2>2, <2>3, <2>4 DEF Bounded
<1> QED
  BY <1>5, <1>6, <1>7, <1>8, <1>9, <1>10 DEF Ind

(* finish_renderer_event_turn. *)
LEMMA FinishTurnStep ==
    ASSUME Ind, FinishTurn
    PROVE  Ind'
<1> DEFINE remaining == deferred # <<>> \/ events # <<>>
<1>1. /\ TypeOK /\ Places /\ Marked /\ Accounted /\ Awake /\ Bounded
      /\ ui.pc = "finish" /\ ui.batch = <<>>
  BY DEF Ind, FinishTurn, Places
<1>2. CASE ~remaining /\ ui.exit
  <2>1. CloseSession("exit")
    BY <1>2 DEF FinishTurn
  <2> QED
    BY <2>1, CloseStep
<1>3. CASE ~(~remaining /\ ui.exit)
  <2>1. /\ handled' = handled /\ deferred' = deferred /\ timer' = timer
        /\ ending' = ending /\ callback' = callback /\ open' = open /\ exited' = exited
        /\ events' = events /\ latch' = (latch /\ remaining) /\ produced' = produced
        /\ superseded' = superseded /\ discarded' = discarded /\ broker' = broker
        /\ posted' = posted /\ missedPost' = (missedPost /\ remaining)
        /\ ui' = [ui EXCEPT !.pc = "monitor", !.exit = FALSE]
    BY <1>3 DEF FinishTurn, brokerVars
  <2>2. /\ ui'.pc = "monitor" /\ ui'.batch = ui.batch /\ ui'.exit = FALSE
        /\ ui' \in [pc : {"monitor"}, batch : Seq(Events), exit : BOOLEAN]
    BY <1>1, <2>1 DEF TypeOK
  <2>3. TypeOK'
    <3>1. latch' \in BOOLEAN /\ missedPost' \in BOOLEAN
      BY <2>1
    <3> HIDE DEF remaining
    <3> QED
      BY <1>1, <2>1, <2>2, <3>1 DEF TypeOK
  <2>4. Places'
    BY <1>1, <2>1, <2>2 DEF Places
  <2>5. Marked'
    BY <1>1, <2>1, <2>2, MarkedStays
  <2>6. Accounted'
    <3>1. Pipeline' = Pipeline
      BY <2>1, <2>2 DEF Pipeline, Hand
    <3> QED
      BY <1>1, <2>1, <3>1, AccountedMoves
  <2>7. Awake'
    BY <1>1, <2>1, <2>2 DEF Awake, Backlog
  <2>8. Bounded'
    BY <1>1, <2>1, BoundedStays
  <2> QED
    BY <2>3, <2>4, <2>5, <2>6, <2>7, <2>8 DEF Ind
<1> QED
  BY <1>2, <1>3

(***************************************************************************)
(* The invariant is inductive, and what follows from it.                   *)
(***************************************************************************)

(* The invariant holds at the start. *)
LEMMA IndInit == Init => Ind
<1> SUFFICES ASSUME Init
             PROVE  Ind
  OBVIOUS
<1> DEFINE z == <<>>
<1>1. z \in Seq(Events) /\ z \in Seq(MarkedEvents) /\ Len(z) = 0 /\ WithinLimits(z)
      /\ IdsOf(z) = {}
  BY LimitsEmpty, IdsEmpty
<1>2. /\ events = z /\ deferred = z /\ handled = z
      /\ ui.batch = z /\ ui.pc = "launching" /\ ui.exit = FALSE
      /\ ui = [pc |-> "launching", batch |-> z, exit |-> FALSE]
      /\ broker = [pc |-> "ready", event |-> None]
      /\ latch = FALSE /\ callback = FALSE /\ open = TRUE /\ exited = FALSE
      /\ posted = 0 /\ missedPost = FALSE /\ timer = "idle" /\ produced = 0
      /\ superseded = {} /\ discarded = {} /\ ending = "none"
  BY DEF Init
<1>3. Pipeline = z
  BY <1>2 DEF Pipeline, Hand
<1>4. Places
  BY <1>2 DEF Places
<1>5. Awake
  BY <1>2 DEF Awake, Backlog
<1> HIDE DEF z
<1>6. TypeOK
  <2>1. MaxProduced \in Nat
    BY QueueAssumption
  <2>2. /\ broker \in [pc : {"ready"}, event : Events \cup {None}]
        /\ ui \in [pc : {"launching"}, batch : Seq(Events), exit : BOOLEAN]
    BY <1>1, <1>2
  <2>3. produced \in 0 .. MaxProduced /\ posted \in Nat
    BY <1>2, <2>1
  <2> QED
    BY <1>1, <1>2, <2>2, <2>3 DEF TypeOK
<1>7. Marked
  BY <1>1, <1>2 DEF Marked
<1>8. Accounted
  BY <1>1, <1>2, <1>3 DEF Accounted, Accounts, Ordered
<1>9. Bounded
  BY <1>1, <1>2 DEF Bounded, QueueWithinLimits, WithinLimits, LatestOnly
<1> QED
  BY <1>4, <1>5, <1>6, <1>7, <1>8, <1>9 DEF Ind

(* A stuttering step keeps the invariant. *)
LEMMA IndStutter ==
    ASSUME Ind, UNCHANGED vars
    PROVE  Ind'
<1>1. /\ events' = events /\ latch' = latch /\ callback' = callback /\ open' = open
      /\ broker' = broker /\ exited' = exited /\ produced' = produced
      /\ superseded' = superseded /\ discarded' = discarded
      /\ ui' = ui /\ deferred' = deferred /\ handled' = handled /\ timer' = timer
      /\ ending' = ending /\ posted' = posted /\ missedPost' = missedPost
  BY DEF vars, queueVars, brokerVars, uiVars
<1>2. TypeOK'
  BY <1>1 DEF Ind, TypeOK
<1>3. Places'
  BY <1>1 DEF Ind, Places
<1>4. Marked'
  BY <1>1, MarkedStays DEF Ind
<1>5. Accounted'
  <2>1. Pipeline' = Pipeline
    BY <1>1 DEF Pipeline, Hand
  <2> QED
    BY <1>1, <2>1, AccountedMoves DEF Ind
<1>6. Awake'
  BY <1>1 DEF Ind, Awake, Backlog, WakeUnderWay
<1>7. Bounded'
  BY <1>1, BoundedStays DEF Ind
<1> QED
  BY <1>2, <1>3, <1>4, <1>5, <1>6, <1>7 DEF Ind

(* Every step keeps the invariant. *)
LEMMA IndNext == Ind /\ [Next]_vars => Ind'
<1> SUFFICES ASSUME Ind, [Next]_vars
             PROVE  Ind'
  OBVIOUS
<1>1. ASSUME NEW input \in Inputs, Send(input) PROVE Ind'
  BY <1>1, SendStep
<1>2. ASSUME NEW d \in Cancellable, DiscardDocument(d) PROVE Ind'
  BY <1>2, DiscardStep
<1>3. CASE Resume
  BY <1>3, ResumeStep
<1>4. CASE Deliver
  BY <1>4, DeliverStep
<1>5. CASE PublishExit
  BY <1>5, PublishExitStep
<1>6. CASE TrySendExited
  BY <1>6, TrySendExitedStep
<1>7. CASE SetNotifier
  BY <1>7, SetNotifierStep
<1>8. CASE WakeMessage \/ TimerTick
  BY <1>8, WakeStep
<1>9. CASE Collect
  BY <1>9, CollectStep
<1>10. CASE CheckRemaining
  BY <1>10, CheckRemainingStep
<1>11. CASE Handle
  BY <1>11, HandleStep
<1>12. CASE PutBack
  BY <1>12, PutBackStep
<1>13. CASE BatchDone
  BY <1>13, BatchDoneStep
<1>14. CASE FinishTurn
  BY <1>14, FinishTurnStep
<1>15. CASE UpdateMonitor
  BY <1>15, UpdateMonitorStep
<1>16. CASE Replace
  <2>1. CloseSession("replaced")
    BY <1>16 DEF Replace
  <2> QED
    BY <2>1, CloseStep
<1>17. CASE UNCHANGED vars
  BY <1>17, IndStutter
<1> QED
  BY <1>1, <1>2, <1>3, <1>4, <1>5, <1>6, <1>7, <1>8, <1>9, <1>10, <1>11, <1>12, <1>13,
     <1>14, <1>15, <1>16, <1>17 DEF Next

(* The invariant holds in every reachable state. *)
LEMMA Inductive == Spec => []Ind
  BY IndInit, IndNext, PTL DEF Spec

(* A backlog keeps the latch between turns and before the timer is set,    *)
(* so new arrivals post no chain of wakes, and the queue stays within the  *)
(* bounds and the at-most-once kinds events.rs declares.                   *)
THEOREM QueueSound == Spec => []QueueInvariant
<1>1. Ind => QueueInvariant
  <2> SUFFICES ASSUME Ind
               PROVE  QueueInvariant
    OBVIOUS
  <2>1. BacklogIsQuiet
    BY DEF Ind, Places, Awake, Backlog, BacklogIsQuiet
  <2> QED
    BY <2>1 DEF Ind, Bounded, QueueInvariant
<1> QED
  BY <1>1, Inductive, PTL

(* Work that waits between turns is owed a wake: posted, about to be,      *)
(* stood in for by the fast timer, or known to have been missed.           *)
THEOREM WakesOwed == Spec => []WakeIsOwed
<1>1. Ind => WakeIsOwed
  <2> SUFFICES ASSUME Ind, ui.pc = "idle", discarded = {},
                      latch \/ events # <<>> \/ deferred # <<>>
               PROVE  posted > 0 \/ timer = "active" \/ broker.pc = "posting" \/ missedPost
    BY DEF WakeIsOwed
  <2>1. latch
    BY DEF Ind, Places, Awake, Backlog
  <2> QED
    BY <2>1 DEF Ind, Awake, WakeUnderWay
<1> QED
  BY <1>1, Inductive, PTL

(* No production is lost, doubled or reordered by coalescing, waiting,     *)
(* batching, deferring and putting back.                                   *)
THEOREM EventsAccounted == Spec => []EveryEventAccounted
<1>1. Ind => EveryEventAccounted
  <2> SUFFICES ASSUME Ind
               PROVE  EveryEventAccounted
    OBVIOUS
  <2> DEFINE p == Pipeline
  <2>1. p \in Seq(Events) /\ Accounts(p, produced, superseded \cup discarded)
    BY PipelineParts DEF Ind, Accounted
  <2>2. DeliveredInOrder
    BY <2>1 DEF Accounts, Ordered, DeliveredInOrder
  <2>3. /\ 1 .. produced = IdsOf(Pipeline) \cup superseded \cup discarded
        /\ IdsOf(Pipeline) \cap (superseded \cup discarded) = {}
    BY <2>1 DEF Accounts
  <2> HIDE DEF p
  <2>4. \A i, j \in 1 .. Len(p) : i # j => p[i].ids \cap p[j].ids = {}
    <3> SUFFICES ASSUME NEW i \in 1 .. Len(p), NEW j \in 1 .. Len(p), i # j,
                        NEW x \in p[i].ids, x \in p[j].ids
                 PROVE  FALSE
      OBVIOUS
    <3>1. x \in 1 .. MaxProduced /\ Len(p) \in Nat
      <4>1. p[i] \in Events
        BY <2>1
      <4> QED
        BY <2>1, <4>1, EventFields
    <3>2. CASE i < j
      BY <2>1, <3>1, <3>2 DEF Accounts, Ordered
    <3>3. CASE j < i
      BY <2>1, <3>1, <3>3 DEF Accounts, Ordered
    <3> QED
      BY <3>1, <3>2, <3>3
  <2> QED
    BY <2>2, <2>3, <2>4 DEF EveryEventAccounted, p
<1> QED
  BY <1>1, Inductive, PTL

(* The exit ends a session only when nothing is queued, deferred or in the *)
(* broker's hand: finish_renderer_event_turn drops no output.              *)
THEOREM ExitLast == Spec => OutputBeforeExit
<1>1. Ind /\ [Next]_vars =>
        [(ending # "exit" /\ ending' = "exit") =>
            /\ discarded' = discarded
            /\ 1 .. produced \subseteq IdsOf(handled) \cup superseded \cup discarded]_vars
  <2> SUFFICES ASSUME Ind, Next, ending # "exit", ending' = "exit"
               PROVE  /\ discarded' = discarded
                      /\ 1 .. produced \subseteq IdsOf(handled) \cup superseded \cup discarded
    OBVIOUS
  <2>1. FinishTurn /\ ~(deferred # <<>> \/ events # <<>>) /\ ui.exit
    <3>1. CASE FinishTurn
      BY <3>1 DEF FinishTurn
    <3>2. CASE Replace
      BY <3>2 DEF Replace, CloseSession
    <3>3. CASE WakeMessage \/ TimerTick
      BY <3>3 DEF WakeMessage, TimerTick, BeginTurn
    <3>4. CASE \E input \in Inputs : Send(input)
      BY <3>4 DEF Send, uiVars
    <3>5. CASE \E d \in Cancellable : DiscardDocument(d)
      BY <3>5 DEF DiscardDocument, uiVars
    <3>6. CASE Resume \/ Deliver \/ PublishExit \/ TrySendExited
      BY <3>6 DEF Resume, Deliver, PublishExit, TrySendExited, uiVars
    <3>7. CASE SetNotifier \/ Collect \/ CheckRemaining \/ Handle \/ PutBack \/ BatchDone \/ UpdateMonitor
      BY <3>7 DEF SetNotifier, Collect, CheckRemaining, Handle, PutBack, BatchDone, UpdateMonitor
    <3> QED
      BY <3>1, <3>2, <3>3, <3>4, <3>5, <3>6, <3>7 DEF Next
  <2> DEFINE z == <<>>
  <2>2. /\ events = z /\ deferred = z /\ ui.batch = z /\ Hand = z
        /\ IdsOf(z) = {} /\ z \in Seq(Events) /\ handled \in Seq(Events)
    <3>1. broker.event = None /\ ui.batch = <<>>
      BY <2>1 DEF Ind, Places, FinishTurn
    <3> QED
      BY <2>1, <3>1, IdsEmpty DEF Hand, Ind, TypeOK
  <2>3. CloseSession("exit")
    BY <2>1 DEF FinishTurn
  <2> HIDE DEF z
  <2>4. discarded' = discarded
    BY <2>2, <2>3 DEF CloseSession
  <2>5. Pipeline = handled
    <3>1. handled \o z = handled
      BY <2>2, ConcatEmptySeq DEF z
    <3> QED
      BY <2>2, <3>1 DEF Pipeline
  <2>6. 1 .. produced = IdsOf(handled) \cup (superseded \cup discarded)
    BY <2>5 DEF Ind, Accounted, Accounts
  <2> QED
    BY <2>4, <2>6
<1> QED
  BY <1>1, Inductive, PTL DEF Spec, OutputBeforeExit
=============================================================================
