-------------------------- MODULE NavigationProofs --------------------------
(***************************************************************************)
(* Proofs about Navigation for every number of navigations, every bound on *)
(* the queues and every size of a turn.                                    *)
(*                                                                         *)
(* The inductive invariant has three parts: what holds of the tab alone    *)
(* (GoodTab), what relates the tab to the messages of its window           *)
(* (GoodMail), and what relates it to the turn of events that the UI       *)
(* thread is consuming (GoodTurn).                                         *)
(***************************************************************************)
EXTENDS Navigation, SequenceTheorems, TLAPS

Elements(s) == {s[i] : i \in DOMAIN s}

Ends == {"complete", "error"}

(***************************************************************************)
(* The inductive invariant.                                                *)
(***************************************************************************)

(* The page is the current one, and kept while a renderer may need it. *)
PageOfNavigation(n) ==
    /\ n.page # 0 => n.page = n.gen
    /\ n.page # 0 <=> n.phase \in {"WaitingForRenderer", "WaitingForFirstPresentation"}

(* Submissions are counted by the retries; the last one may be under way. *)
AttemptsCounted(n) ==
    /\ n.attempts <= n.retries + 1
    /\ n.phase \in {"Fetching", "WaitingForRenderer"} => n.attempts <= n.retries

(* A session is launched only where there is none, and what a session left *)
(* behind goes with it.                                                    *)
SessionAlone(t) ==
    /\ t.launch # "none" => t.session = NoSession
    /\ t.session.id = 0 => t.session = NoSession
    /\ t.session = NoSession => t.deferred = <<>>

(* The document of the transaction is the one in the session, and a        *)
(* session that waits for a document has neither one nor a picture.        *)
DocumentInSession(t) ==
    /\ t.nav.doc # 0 => t.session # NoSession /\ t.session.doc = t.nav.doc
    /\ t.nav.phase = "WaitingForFirstPresentation" => t.nav.doc # 0
    /\ t.nav.phase \in {"Fetching", "WaitingForRenderer"} =>
          ~t.session.active /\ ~t.session.painted

RendererOnTheWay(t) ==
    /\ t.nav.phase = "WaitingForRenderer" => t.launch # "none"
    /\ t.nav.phase = "Fetching" => t.launch # "none" \/ t.session # NoSession

GoodTab(t) ==
    /\ t \in Tabs
    /\ PageOfNavigation(t.nav) /\ AttemptsCounted(t.nav)
    /\ SessionAlone(t) /\ DocumentInSession(t) /\ RendererOnTheWay(t)

Messages == [kind : {"headers", "complete", "error", "launched"}, gen : Nat]

(* The end of navigation gen is still to come: its thread is running, or   *)
(* its last message waits behind the first after messages.                 *)
EndFollows(fetches, m, gen, after) ==
    \/ \E f \in fetches : f.gen = gen
    \/ \E j \in DOMAIN m : j > after /\ m[j].gen = gen /\ m[j].kind \in Ends

GoodMail(t, m) ==
    /\ m \in Seq(Messages)
    /\ t.launch \in {"ready", "failed"} => \E i \in DOMAIN m : m[i].kind = "launched"
    /\ t.nav.pending => EndFollows(t.fetches, m, t.nav.gen, 0)
    /\ \A i \in DOMAIN m : m[i].kind = "headers" => EndFollows(t.fetches, m, m[i].gen, i)

Turns == [sid : 0 .. 1, events : Seq(Events), exit : Exits]

(* The events of the tab's session that have not been applied. *)
Unapplied(t, u) ==
    Elements(t.deferred) \cup Elements(t.session.events)
    \cup (IF u.sid = t.session.id THEN Elements(u.events) ELSE {})

(* Nothing tells of an exit before the session has exited, and the paint   *)
(* of a document that counts as not presented is still to be applied.      *)
GoodTurn(t, u) ==
    /\ u \in Turns
    /\ u.sid = 0 => u = NoTurn
    /\ u.events # <<>> => t.deferred = <<>>
    /\ t.session.exit = "none" =>
          /\ \A e \in Unapplied(t, u) : e.kind \notin {"crash", "budget"}
          /\ u.sid = t.session.id => u.exit = "none"
    /\ t.nav.phase = "WaitingForFirstPresentation" /\ t.session.painted =>
          \E e \in Unapplied(t, u) : e.kind = "presentation" /\ e.doc = t.session.doc

Ind ==
    /\ GoodTab(tab)
    /\ GoodMail(tab, mail)
    /\ GoodTurn(tab, turn)
    /\ loads \in 0 .. MaxLoads

(***************************************************************************)
(* What the operations on a tab do.                                        *)
(***************************************************************************)

(* The tab lost its session, or never had one, and no page waits for its   *)
(* first presentation.                                                     *)
Restarted(t, r) ==
    /\ r.session = NoSession /\ r.deferred = <<>> /\ r.launch \in {"none", "running"}
    /\ r.nav.phase # "WaitingForFirstPresentation"
    /\ t.fetches \subseteq r.fetches
    /\ r.nav.pending => \/ t.nav.pending /\ r.nav.gen = t.nav.gen
                        \/ \E f \in r.fetches : f.gen = r.nav.gen

(* No session is one of the sessions. *)
LEMMA NoSessionType ==
    NoSession \in Sessions /\ NoSession.id = 0
<1>1. <<>> \in Seq(Events)
  BY EmptySeq
<1> QED
  BY <1>1 DEF NoSession, Sessions, Exits

(* The fields of a good tab. *)
LEMMA TabFields ==
    ASSUME NEW t \in Tabs
    PROVE  /\ t.nav \in Transactions /\ t.session \in Sessions
           /\ t.launch \in {"none", "running", "ready", "failed"}
           /\ t.deferred \in Seq(Events)
           /\ t.fetches \subseteq [gen : Nat, headers : BOOLEAN]
           /\ t.nav.gen \in Nat \ {0} /\ t.nav.phase \in Phases
           /\ t.nav.pending \in BOOLEAN /\ t.nav.page \in Nat /\ t.nav.doc \in Nat
           /\ t.nav.armed \in BOOLEAN /\ t.nav.retries \in 0 .. 1
           /\ t.nav.recoveries \in 0 .. 1 /\ t.nav.attempts \in Nat
           /\ t.session.id \in 0 .. 1 /\ t.session.doc \in Nat
           /\ t.session.active \in BOOLEAN /\ t.session.painted \in BOOLEAN
           /\ t.session.exit \in Exits /\ t.session.events \in Seq(Events)
  BY DEF Tabs, Transactions, Sessions, MaxRetries, MaxRecoveries

(* What the transaction's operations leave. *)
LEMMA FailFields ==
    ASSUME NEW n \in Transactions
    PROVE  /\ Fail(n) \in Transactions
           /\ Fail(n).phase = "Failed" /\ Fail(n).page = 0 /\ Fail(n).doc = 0
           /\ Fail(n).pending = FALSE /\ Fail(n).gen = n.gen
           /\ Fail(n).retries = n.retries /\ Fail(n).attempts = n.attempts
           /\ Fail(n).recoveries = n.recoveries
  BY DEF Fail, Transactions, Phases

(* What an invalidated transaction holds. *)
LEMMA InvalidateFields ==
    ASSUME NEW n \in Transactions
    PROVE  /\ Invalidate(n) \in Transactions
           /\ Invalidate(n).phase = "Failed" /\ Invalidate(n).page = 0
           /\ Invalidate(n).doc = 0 /\ Invalidate(n).pending = FALSE
           /\ Invalidate(n).retries = 0 /\ Invalidate(n).attempts = 0
<1> DEFINE f == Fail(n)
<1>1. /\ f \in Transactions /\ f.phase = "Failed" /\ f.page = 0 /\ f.doc = 0
      /\ f.pending = FALSE
  BY FailFields
<1>2. Invalidate(n) = [f EXCEPT !.gen = @ + 1, !.retries = 0, !.attempts = 0]
  BY DEF Invalidate
<1> HIDE DEF f
<1>3. f.gen + 1 \in Nat \ {0} /\ 0 \in 0 .. MaxRetries /\ 0 \in Nat
  BY <1>1 DEF Transactions, MaxRetries
<1> QED
  BY <1>1, <1>2, <1>3 DEF Transactions

(* What a transaction holds when its page is fetched. *)
LEMMA BeginFetchFields ==
    ASSUME NEW n \in Transactions
    PROVE  /\ BeginFetch(n) \in Transactions
           /\ BeginFetch(n).phase = "Fetching" /\ BeginFetch(n).page = 0
           /\ BeginFetch(n).doc = 0 /\ BeginFetch(n).pending = TRUE
           /\ BeginFetch(n).retries = 0 /\ BeginFetch(n).attempts = 0
<1>1. n.gen + 1 \in Nat \ {0} /\ 0 \in 0 .. MaxRetries /\ 0 \in Nat
  BY DEF Transactions, MaxRetries
<1>2. "Fetching" \in Phases
  BY DEF Phases
<1> QED
  BY <1>1, <1>2 DEF BeginFetch, Transactions

(* A navigation the user or the page begins, and the recovery. *)
Begun(n, m) == m = BeginNavigation(n) \/ (CanRecover(n) /\ m = BeginRecovery(n))

(* What a transaction holds when a navigation or the recovery begins. *)
LEMMA BegunFields ==
    ASSUME NEW n \in Transactions, NEW m, Begun(n, m)
    PROVE  /\ m \in Transactions /\ m.phase = "Fetching" /\ m.page = 0 /\ m.doc = 0
           /\ m.pending = TRUE /\ m.retries = 0 /\ m.attempts = 0
<1>1. CASE m = BeginNavigation(n)
  <2>1. 0 \in 0 .. MaxRecoveries
    BY DEF MaxRecoveries
  <2>2. [n EXCEPT !.recoveries = 0] \in Transactions
    BY <2>1 DEF Transactions
  <2> QED
    BY <1>1, <2>2, BeginFetchFields DEF BeginNavigation
<1>2. CASE CanRecover(n) /\ m = BeginRecovery(n)
  <2>1. n.recoveries + 1 \in 0 .. MaxRecoveries
    BY <1>2 DEF CanRecover, Transactions, MaxRecoveries
  <2>2. [n EXCEPT !.recoveries = @ + 1] \in Transactions
    BY <2>1 DEF Transactions
  <2> QED
    BY <1>2, <2>2, BeginFetchFields DEF BeginRecovery
<1> QED
  BY <1>1, <1>2 DEF Begun

(* A retry is granted while one is left; otherwise the navigation fails. *)
LEMMA FailAttemptFields ==
    ASSUME NEW n \in Transactions, AttemptsCounted(n), PageOfNavigation(n),
           n.phase = "WaitingForFirstPresentation", NEW m, m = FailRendererAttempt(n)
    PROVE  /\ m \in Transactions /\ m.phase \in {"WaitingForRenderer", "Failed"}
           /\ m.doc = 0 /\ m.gen = n.gen /\ (m.pending => n.pending)
           /\ AttemptsCounted(m) /\ PageOfNavigation(m)
<1>1. CASE n.retries < MaxRetries
  <2>1. n.retries + 1 \in 0 .. MaxRetries /\ 0 \in Nat
    BY <1>1 DEF Transactions, MaxRetries
  <2>2. "WaitingForRenderer" \in Phases
    BY DEF Phases
  <2>3. m = [n EXCEPT !.doc = 0, !.armed = FALSE, !.retries = n.retries + 1,
                      !.phase = "WaitingForRenderer"]
    BY <1>1 DEF FailRendererAttempt
  <2>4. /\ m \in Transactions /\ m.phase = "WaitingForRenderer" /\ m.doc = 0
        /\ m.gen = n.gen /\ m.page = n.page /\ m.pending = n.pending
        /\ m.retries = n.retries + 1 /\ m.attempts = n.attempts
    BY <2>1, <2>2, <2>3, ZenonT(30) DEF Transactions
  <2>5. AttemptsCounted(m)
    <3>1. n.attempts \in Nat /\ n.retries \in Nat
      BY DEF Transactions
    <3> QED
      BY <2>4, <3>1 DEF AttemptsCounted
  <2>6. PageOfNavigation(m)
    BY <2>4 DEF PageOfNavigation
  <2> QED
    BY <2>4, <2>5, <2>6
<1>2. CASE ~(n.retries < MaxRetries)
  <2>1. m = [n EXCEPT !.doc = 0, !.armed = FALSE, !.pending = FALSE,
                      !.phase = "Failed", !.page = 0]
    BY <1>2 DEF FailRendererAttempt
  <2>2. /\ m \in Transactions /\ m.phase = "Failed" /\ m.doc = 0 /\ m.page = 0
        /\ m.gen = n.gen /\ m.pending = FALSE
        /\ m.retries = n.retries /\ m.attempts = n.attempts
    <3>1. "Failed" \in Phases /\ 0 \in Nat
      BY DEF Phases
    <3> QED
      BY <2>1, <3>1 DEF Transactions
  <2>3. AttemptsCounted(m)
    BY <2>2 DEF AttemptsCounted
  <2>4. PageOfNavigation(m)
    BY <2>2 DEF PageOfNavigation
  <2> QED
    BY <2>2, <2>3, <2>4
<1> QED
  BY <1>1, <1>2

(* A crashed tab is good whatever it was. *)
LEMMA CrashedGood ==
    ASSUME NEW t \in Tabs
    PROVE  GoodTab(MarkCrashed(t)) /\ Restarted(t, MarkCrashed(t))
<1> DEFINE n == Invalidate(t.nav)
           r == MarkCrashed(t)
<1>1. /\ n \in Transactions /\ n.phase = "Failed" /\ n.page = 0 /\ n.doc = 0
      /\ n.pending = FALSE /\ n.attempts = 0 /\ n.retries = 0
  BY TabFields, InvalidateFields
<1>2. /\ r \in Tabs /\ r.nav = n /\ r.session = NoSession /\ r.launch = "none"
      /\ r.deferred = <<>> /\ r.fetches = t.fetches
  <2>1. <<>> \in Seq(Events)
    BY EmptySeq
  <2> QED
    BY <1>1, <2>1, NoSessionType DEF MarkCrashed, Tabs
<1> HIDE DEF n, r
<1>3. PageOfNavigation(r.nav) /\ AttemptsCounted(r.nav)
  BY <1>1, <1>2 DEF PageOfNavigation, AttemptsCounted
<1>4. SessionAlone(r) /\ DocumentInSession(r) /\ RendererOnTheWay(r)
  BY <1>1, <1>2, NoSessionType DEF SessionAlone, DocumentInSession, RendererOnTheWay
<1>5. GoodTab(r) /\ Restarted(t, r)
  BY <1>1, <1>2, <1>3, <1>4 DEF GoodTab, Restarted
<1> QED
  BY <1>5 DEF r

(* A renderer is launched for a tab whose old one has been given up. *)
LEMMA LaunchGood ==
    ASSUME NEW t \in Tabs, t.session = NoSession, t.launch = "none", t.deferred = <<>>,
           t.nav.phase \in {"Fetching", "WaitingForRenderer"}, t.nav.doc = 0,
           PageOfNavigation(t.nav), AttemptsCounted(t.nav),
           NEW r \in StartRenderer(t)
    PROVE  /\ GoodTab(r)
           /\ \/ r = MarkCrashed(t)
              \/ r.nav = t.nav /\ r.session = NoSession /\ r.launch = "running"
                 /\ r.deferred = <<>> /\ r.fetches = t.fetches
<1>1. CASE r = MarkCrashed(t)
  BY <1>1, CrashedGood
<1>2. CASE r = [t EXCEPT !.launch = "running"]
  <2>1. /\ r \in Tabs /\ r.nav = t.nav /\ r.session = NoSession /\ r.launch = "running"
        /\ r.deferred = <<>> /\ r.fetches = t.fetches
    BY <1>2 DEF Tabs
  <2>2. SessionAlone(r) /\ RendererOnTheWay(r)
    BY <2>1, NoSessionType DEF SessionAlone, RendererOnTheWay
  <2>3. DocumentInSession(r)
    BY <2>1 DEF DocumentInSession, NoSession
  <2> QED
    BY <2>1, <2>2, <2>3 DEF GoodTab
<1> QED
  BY <1>1, <1>2 DEF StartRenderer

(* What replace_renderer_for_navigation leaves. *)
LEMMA ReplacedFields ==
    ASSUME NEW t \in Tabs, NEW n \in Transactions,
           NEW r, r = ReplaceRenderer([t EXCEPT !.nav = n])
    PROVE  /\ r \in Tabs /\ r.nav = n /\ r.session = NoSession /\ r.launch = "none"
           /\ r.deferred = <<>> /\ r.fetches = t.fetches
<1>1. <<>> \in Seq(Events)
  BY EmptySeq
<1> QED
  BY <1>1, NoSessionType DEF ReplaceRenderer, Tabs

(* The navigation that begins waits for its renderer and for its thread,   *)
(* unless one of them could not be started.                                *)
LEMMA StartNavigationGood ==
    ASSUME NEW t \in Tabs, NEW n, Begun(t.nav, n), NEW r \in StartNavigation(t, n)
    PROVE  /\ GoodTab(r) /\ Restarted(t, r)
<1> DEFINE e == ReplaceRenderer([t EXCEPT !.nav = n])
           f == [gen |-> n.gen, headers |-> FALSE]
<1>1. /\ n \in Transactions /\ n.phase = "Fetching" /\ n.page = 0 /\ n.doc = 0
      /\ n.pending = TRUE /\ n.retries = 0 /\ n.attempts = 0
  BY TabFields, BegunFields
<1>2. /\ e \in Tabs /\ e.nav = n /\ e.session = NoSession /\ e.launch = "none"
      /\ e.deferred = <<>> /\ e.fetches = t.fetches
  BY <1>1, ReplacedFields
<1>3. PageOfNavigation(e.nav) /\ AttemptsCounted(e.nav)
  BY <1>1, <1>2 DEF PageOfNavigation, AttemptsCounted
<1>4. PICK q \in StartRenderer(e) : \/ r = [q EXCEPT !.fetches = @ \cup {f}]
                                    \/ r = [q EXCEPT !.nav = Fail(@)]
  BY DEF StartNavigation
<1>5. f \in [gen : Nat, headers : BOOLEAN] /\ f.gen = n.gen
  BY <1>1 DEF Transactions
<1> HIDE DEF e, f
<1>6. /\ GoodTab(q)
      /\ \/ q = MarkCrashed(e)
         \/ q.nav = e.nav /\ q.session = NoSession /\ q.launch = "running"
            /\ q.deferred = <<>> /\ q.fetches = e.fetches
  BY <1>1, <1>2, <1>3, LaunchGood
<1>7. /\ q \in Tabs /\ q.session = NoSession /\ q.launch \in {"none", "running"}
      /\ q.deferred = <<>> /\ t.fetches \subseteq q.fetches
      /\ q.nav.phase \in {"Fetching", "Failed"} /\ q.nav \in Transactions
      /\ q.nav = n \/ ~q.nav.pending
  <2>1. CASE q = MarkCrashed(e)
    <3>1. e.nav \in Transactions /\ q \in Tabs
      BY <1>2, <1>6, TabFields DEF GoodTab
    <3>2. /\ q.nav = Invalidate(e.nav) /\ q.session = NoSession /\ q.launch = "none"
          /\ q.deferred = <<>> /\ q.fetches = e.fetches
      BY <1>2, <2>1 DEF MarkCrashed, Tabs
    <3> QED
      BY <1>2, <3>1, <3>2, InvalidateFields
  <2>2. CASE q # MarkCrashed(e)
    BY <1>1, <1>2, <1>6, <2>2 DEF GoodTab
  <2> QED
    BY <2>1, <2>2
<1>8. /\ PageOfNavigation(q.nav) /\ AttemptsCounted(q.nav)
      /\ SessionAlone(q) /\ DocumentInSession(q) /\ RendererOnTheWay(q)
  BY <1>6 DEF GoodTab
<1>9. CASE r = [q EXCEPT !.fetches = @ \cup {f}]
  <2>1. q.fetches \cup {f} \in SUBSET [gen : Nat, headers : BOOLEAN]
    BY <1>5, <1>7, TabFields
  <2>2. /\ r \in Tabs /\ r.nav = q.nav /\ r.session = q.session /\ r.launch = q.launch
        /\ r.deferred = q.deferred /\ r.fetches = q.fetches \cup {f}
    BY <1>7, <1>9, <2>1 DEF Tabs
  <2>3. GoodTab(r)
    BY <1>8, <2>2 DEF GoodTab, SessionAlone, DocumentInSession, RendererOnTheWay
  <2>4. r.nav.pending => \E g \in r.fetches : g.gen = r.nav.gen
    BY <1>5, <1>7, <2>2
  <2> QED
    BY <1>7, <2>2, <2>3, <2>4 DEF Restarted
<1>10. CASE r = [q EXCEPT !.nav = Fail(@)]
  <2>1. /\ Fail(q.nav) \in Transactions
        /\ Fail(q.nav).phase = "Failed" /\ Fail(q.nav).page = 0 /\ Fail(q.nav).doc = 0
        /\ Fail(q.nav).pending = FALSE
        /\ Fail(q.nav).retries = q.nav.retries /\ Fail(q.nav).attempts = q.nav.attempts
    BY <1>7, FailFields
  <2>2. /\ r \in Tabs /\ r.nav = Fail(q.nav) /\ r.session = q.session
        /\ r.launch = q.launch /\ r.deferred = q.deferred /\ r.fetches = q.fetches
    BY <1>7, <1>10, <2>1 DEF Tabs
  <2>3. PageOfNavigation(r.nav) /\ AttemptsCounted(r.nav)
    BY <1>8, <2>1, <2>2 DEF PageOfNavigation, AttemptsCounted
  <2>4. SessionAlone(r) /\ DocumentInSession(r) /\ RendererOnTheWay(r)
    BY <1>8, <2>1, <2>2 DEF SessionAlone, DocumentInSession, RendererOnTheWay
  <2> QED
    BY <1>7, <2>1, <2>2, <2>3, <2>4 DEF GoodTab, Restarted
<1> QED
  BY <1>4, <1>9, <1>10

(* The next attempt at a page that was not presented in time. *)
LEMMA NextAttemptGood ==
    ASSUME NEW t, GoodTab(t), t.nav.phase = "WaitingForFirstPresentation",
           NEW r \in NextAttempt(t)
    PROVE  GoodTab(r) /\ Restarted(t, r)
<1> DEFINE n == FailRendererAttempt(t.nav)
           e == ReplaceRenderer([t EXCEPT !.nav = n])
<1>1. /\ t \in Tabs /\ t.nav \in Transactions /\ AttemptsCounted(t.nav)
      /\ PageOfNavigation(t.nav)
  BY TabFields DEF GoodTab
<1>2. /\ n \in Transactions /\ n.phase \in {"WaitingForRenderer", "Failed"}
      /\ n.doc = 0 /\ n.gen = t.nav.gen /\ (n.pending => t.nav.pending)
      /\ AttemptsCounted(n) /\ PageOfNavigation(n)
  BY <1>1, FailAttemptFields
<1>3. /\ e \in Tabs /\ e.nav = n /\ e.session = NoSession /\ e.launch = "none"
      /\ e.deferred = <<>> /\ e.fetches = t.fetches
  BY <1>1, <1>2, ReplacedFields
<1>4. r \in IF n.phase = "WaitingForRenderer" THEN StartRenderer(e) ELSE {MarkCrashed(e)}
  BY DEF NextAttempt
<1> HIDE DEF n, e
<1>5. CASE r = MarkCrashed(e)
  <2>1. GoodTab(r) /\ Restarted(e, r)
    BY <1>3, <1>5, CrashedGood
  <2> QED
    BY <1>2, <1>3, <2>1 DEF Restarted
<1>6. CASE r # MarkCrashed(e)
  <2>1. n.phase = "WaitingForRenderer" /\ r \in StartRenderer(e)
    BY <1>4, <1>6
  <2>2. GoodTab(r) /\ r.nav = e.nav /\ r.session = NoSession /\ r.launch = "running"
        /\ r.deferred = <<>> /\ r.fetches = e.fetches
    BY <1>2, <1>3, <1>6, <2>1, LaunchGood
  <2> QED
    BY <1>2, <1>3, <2>1, <2>2 DEF Restarted
<1> QED
  BY <1>5, <1>6

(* The exit of the tab's renderer. *)
LEMMA FinishExitGood ==
    ASSUME NEW t, GoodTab(t), NEW exit, NEW r \in FinishExit(t, exit)
    PROVE  GoodTab(r) /\ Restarted(t, r)
<1>1. t \in Tabs
  BY DEF GoodTab
<1>2. CASE exit = "budget" /\ ~IsLoading(t.nav) /\ CanRecover(t.nav)
  <2>1. PICK q \in StartNavigation(t, BeginRecovery(t.nav)) :
           r = IF IsLoading(q.nav) THEN q ELSE MarkCrashed(q)
    BY <1>2 DEF FinishExit
  <2>2. GoodTab(q) /\ Restarted(t, q)
    BY <1>1, <1>2, StartNavigationGood DEF Begun
  <2>3. CASE r = MarkCrashed(q)
    <3>1. GoodTab(r) /\ Restarted(q, r) /\ q \in Tabs
      BY <2>2, <2>3, CrashedGood DEF GoodTab
    <3>2. ~r.nav.pending
      <4>1. r.nav = Invalidate(q.nav)
        BY <2>3, <3>1 DEF MarkCrashed, Tabs
      <4> QED
        BY <3>1, <4>1, TabFields, InvalidateFields
    <3> QED
      BY <2>2, <3>1, <3>2 DEF Restarted
  <2> QED
    BY <2>1, <2>2, <2>3
<1>3. CASE ~(exit = "budget" /\ ~IsLoading(t.nav) /\ CanRecover(t.nav))
           /\ t.nav.phase = "WaitingForFirstPresentation"
  BY <1>3, NextAttemptGood DEF FinishExit
<1>4. CASE ~(exit = "budget" /\ ~IsLoading(t.nav) /\ CanRecover(t.nav))
           /\ t.nav.phase # "WaitingForFirstPresentation"
  BY <1>1, <1>4, CrashedGood DEF FinishExit
<1> QED
  BY <1>2, <1>3, <1>4

(* The tab goes on with what it had; a page that begins to wait for its    *)
(* first presentation has not been painted.                                *)
Kept(t, r) ==
    /\ r.launch = t.launch /\ r.deferred = t.deferred /\ r.fetches = t.fetches
    /\ r.session.id = t.session.id /\ r.session.exit = t.session.exit
    /\ r.session.events = t.session.events
    /\ r.nav.pending => t.nav.pending /\ r.nav.gen = t.nav.gen
    /\ r.nav.phase = "WaitingForFirstPresentation" /\ r.session.painted =>
          /\ t.nav.phase = "WaitingForFirstPresentation" /\ t.session.painted
          /\ r.session.doc = t.session.doc

(* A tab that does not change keeps what a turn relies on. *)
LEMMA KeptRefl ==
    ASSUME NEW t
    PROVE  Kept(t, t)
  BY DEF Kept

(* A failure that leaves the renderer alone. *)
LEMMA FailedGood ==
    ASSUME NEW t \in Tabs, PageOfNavigation(t.nav), AttemptsCounted(t.nav),
           SessionAlone(t), NEW r, r = [t EXCEPT !.nav = Fail(@)]
    PROVE  GoodTab(r) /\ Kept(t, r)
<1> DEFINE n == Fail(t.nav)
<1>1. /\ n \in Transactions /\ n.phase = "Failed" /\ n.page = 0 /\ n.doc = 0
      /\ n.pending = FALSE /\ n.retries = t.nav.retries /\ n.attempts = t.nav.attempts
  BY TabFields, FailFields
<1> HIDE DEF n
<1>2. /\ r \in Tabs /\ r.nav = n /\ r.session = t.session
      /\ r.launch = t.launch /\ r.deferred = t.deferred /\ r.fetches = t.fetches
  BY <1>1 DEF Tabs, n
<1>3. PageOfNavigation(r.nav) /\ AttemptsCounted(r.nav)
  BY <1>1, <1>2 DEF PageOfNavigation, AttemptsCounted
<1>4. SessionAlone(r) /\ DocumentInSession(r) /\ RendererOnTheWay(r)
  BY <1>1, <1>2 DEF SessionAlone, DocumentInSession, RendererOnTheWay
<1> QED
  BY <1>1, <1>2, <1>3, <1>4 DEF GoodTab, Kept

(* The document that waits is given to the session, if there is one. *)
LEMMA SubmitGood ==
    ASSUME NEW t \in Tabs, PageOfNavigation(t.nav), AttemptsCounted(t.nav),
           SessionAlone(t), DocumentInSession(t),
           t.nav.phase # "WaitingForRenderer" => RendererOnTheWay(t),
           NEW r \in SubmitDocument(t)
    PROVE  GoodTab(r) /\ (Kept(t, r) \/ Restarted(t, r))
<1>1. CASE t.nav.phase # "WaitingForRenderer"
  <2>1. r = t
    BY <1>1 DEF SubmitDocument
  <2> QED
    BY <1>1, <2>1, KeptRefl DEF GoodTab
<1>2. CASE t.nav.phase = "WaitingForRenderer" /\ t.session = NoSession
  <2>1. r \in StartRenderer(t)
    BY <1>2 DEF SubmitDocument
  <2>2. CASE t.launch # "none"
    <3>1. r = t
      BY <2>1, <2>2 DEF StartRenderer
    <3>2. RendererOnTheWay(t)
      BY <1>2, <2>2 DEF RendererOnTheWay
    <3> QED
      BY <3>1, <3>2, KeptRefl DEF GoodTab
  <2>3. CASE t.launch = "none"
    <3>1. t.nav.doc = 0 /\ t.deferred = <<>>
      BY <1>2 DEF DocumentInSession, SessionAlone
    <3>2. /\ GoodTab(r)
          /\ \/ r = MarkCrashed(t)
             \/ r.nav = t.nav /\ r.session = NoSession /\ r.launch = "running"
                /\ r.deferred = <<>> /\ r.fetches = t.fetches
      BY <1>2, <2>1, <2>3, <3>1, LaunchGood
    <3> QED
      BY <1>2, <3>2, CrashedGood DEF Restarted
  <2> QED
    BY <2>2, <2>3
<1>3. CASE t.nav.phase = "WaitingForRenderer" /\ t.session # NoSession
  <2> DEFINE n == DocumentSubmitted(t.nav)
             s == [t.session EXCEPT !.doc = t.nav.gen,
                                    !.active = t.session.exit = "none"]
  <2>1. \/ r = [t EXCEPT !.nav = n, !.session = s]
        \/ r = [t EXCEPT !.nav = Fail(@)]
        \/ r = MarkCrashed([t EXCEPT !.nav = Fail(@)])
    <3>1. [t EXCEPT !.nav = DocumentSubmitted(@), !.session.doc = t.nav.gen,
                    !.session.active = t.session.exit = "none"]
            = [t EXCEPT !.nav = n, !.session = s]
      BY DEF Tabs, Sessions
    <3> QED
      BY <1>3, <3>1 DEF SubmitDocument
  <2>2. CASE r = [t EXCEPT !.nav = n, !.session = s]
    <3>1. /\ t.nav \in Transactions /\ t.nav.gen \in Nat \ {0} /\ t.nav.attempts \in Nat
          /\ t.nav.retries \in Nat /\ t.session \in Sessions
      BY TabFields
    <3>2. /\ n \in Transactions /\ n.doc = t.nav.gen /\ n.gen = t.nav.gen
          /\ n.phase = "WaitingForFirstPresentation" /\ n.pending = t.nav.pending
          /\ n.page = t.nav.page /\ n.retries = t.nav.retries
          /\ n.attempts = t.nav.attempts + 1
      <4>1. "WaitingForFirstPresentation" \in Phases /\ t.nav.attempts + 1 \in Nat
        BY <3>1 DEF Phases
      <4> QED
        BY <3>1, <4>1 DEF DocumentSubmitted, Transactions
    <3>3. /\ s \in Sessions /\ s.id = t.session.id /\ s.doc = t.nav.gen
          /\ s.exit = t.session.exit /\ s.events = t.session.events
          /\ s.painted = t.session.painted
      <4>1. (t.session.exit = "none") \in BOOLEAN
        OBVIOUS
      <4> QED
        BY <3>1, <4>1 DEF Sessions
    <3> HIDE DEF n, s
    <3>4. /\ r \in Tabs /\ r.nav = n /\ r.session = s
          /\ r.launch = t.launch /\ r.deferred = t.deferred /\ r.fetches = t.fetches
      BY <2>2, <3>2, <3>3 DEF Tabs
    <3>5. /\ t.session.id # 0 /\ t.launch = "none" /\ ~t.session.painted
      BY <1>3 DEF SessionAlone, DocumentInSession
    <3>6. PageOfNavigation(r.nav)
      BY <1>3, <3>2, <3>4 DEF PageOfNavigation
    <3>7. AttemptsCounted(r.nav)
      BY <1>3, <3>1, <3>2, <3>4 DEF AttemptsCounted
    <3>8. r.session # NoSession
      BY <3>3, <3>4, <3>5, NoSessionType
    <3>9. SessionAlone(r) /\ DocumentInSession(r) /\ RendererOnTheWay(r)
      BY <3>1, <3>2, <3>3, <3>4, <3>5, <3>8 DEF SessionAlone, DocumentInSession, RendererOnTheWay
    <3> QED
      BY <3>2, <3>3, <3>4, <3>5, <3>6, <3>7, <3>9 DEF GoodTab, Kept
  <2>3. CASE r = [t EXCEPT !.nav = Fail(@)]
    BY <2>3, FailedGood
  <2>4. CASE r = MarkCrashed([t EXCEPT !.nav = Fail(@)])
    <3> DEFINE q == [t EXCEPT !.nav = Fail(@)]
    <3>1. GoodTab(q) /\ Kept(t, q)
      BY FailedGood
    <3>2. GoodTab(r) /\ Restarted(q, r)
      BY <2>4, <3>1, CrashedGood DEF GoodTab
    <3> HIDE DEF q
    <3> QED
      BY <3>1, <3>2 DEF Restarted, Kept
  <2> QED
    BY <2>1, <2>2, <2>3, <2>4
<1> QED
  BY <1>1, <1>2, <1>3

(***************************************************************************)
(* The window's messages.                                                  *)
(***************************************************************************)

(* Neither outcome disturbs what the messages promise. *)
LEMMA MovedMail ==
    ASSUME NEW t, NEW r, NEW m, GoodMail(t, m), Kept(t, r) \/ Restarted(t, r)
    PROVE  GoodMail(r, m)
<1>1. t.fetches \subseteq r.fetches
  BY DEF Kept, Restarted
<1>2. \A gen, after : EndFollows(t.fetches, m, gen, after) => EndFollows(r.fetches, m, gen, after)
  BY <1>1 DEF EndFollows
<1>3. r.launch \in {"ready", "failed"} => r.launch = t.launch
  BY DEF Kept, Restarted
<1>4. r.nav.pending => \/ t.nav.pending /\ r.nav.gen = t.nav.gen
                       \/ \E f \in r.fetches : f.gen = r.nav.gen
  BY DEF Kept, Restarted
<1>5. r.nav.pending => EndFollows(r.fetches, m, r.nav.gen, 0)
  BY <1>2, <1>4 DEF GoodMail, EndFollows
<1> QED
  BY <1>2, <1>3, <1>5 DEF GoodMail

(* The first message leaves the queue. *)
LEMMA PopMail ==
    ASSUME NEW t, NEW m, GoodMail(t, m), m # <<>>, NEW s, s.fetches = t.fetches,
           s.launch \in {"ready", "failed"} =>
              s.launch = t.launch /\ Head(m).kind # "launched",
           s.nav.pending => EndFollows(t.fetches, m, s.nav.gen, 1)
    PROVE  GoodMail(s, Tail(m))
<1> DEFINE L == Len(m)
           q == Tail(m)
<1>1. /\ m \in Seq(Messages) /\ L \in Nat /\ DOMAIN m = 1 .. L /\ L >= 1
      /\ q \in Seq(Messages) /\ DOMAIN q = 1 .. L - 1 /\ Head(m) = m[1]
      /\ \A i \in 1 .. L - 1 : q[i] = m[i + 1]
  BY HeadTailProperties, LenProperties, EmptySeq DEF GoodMail
<1> HIDE DEF L, q
<1>2. ASSUME NEW gen, NEW after \in Nat, EndFollows(t.fetches, m, gen, after + 1)
      PROVE  EndFollows(s.fetches, q, gen, after)
  <2>1. CASE \E f \in t.fetches : f.gen = gen
    BY <2>1 DEF EndFollows
  <2>2. CASE \E j \in 1 .. L : j > after + 1 /\ m[j].gen = gen /\ m[j].kind \in Ends
    <3>1. PICK j \in 1 .. L : j > after + 1 /\ m[j].gen = gen /\ m[j].kind \in Ends
      BY <2>2
    <3>2. j - 1 \in 1 .. L - 1 /\ j - 1 > after /\ q[j - 1] = m[j]
      BY <1>1, <3>1
    <3> QED
      BY <1>1, <3>1, <3>2 DEF EndFollows
  <2> QED
    BY <1>1, <1>2, <2>1, <2>2 DEF EndFollows
<1>3. s.nav.pending => EndFollows(s.fetches, q, s.nav.gen, 0)
  BY <1>2
<1>4. ASSUME NEW i \in 1 .. L - 1, q[i].kind = "headers"
      PROVE  EndFollows(s.fetches, q, q[i].gen, i)
  <2>1. i + 1 \in 1 .. L /\ q[i] = m[i + 1] /\ i \in Nat
    BY <1>1
  <2>2. EndFollows(t.fetches, m, m[i + 1].gen, i + 1)
    BY <1>1, <1>4, <2>1 DEF GoodMail
  <2> QED
    BY <1>2, <2>1, <2>2
<1>5. ASSUME s.launch \in {"ready", "failed"}
      PROVE  \E i \in 1 .. L - 1 : q[i].kind = "launched"
  <2>1. PICK i \in 1 .. L : m[i].kind = "launched"
    BY <1>1, <1>5 DEF GoodMail
  <2>2. i # 1
    BY <1>1, <1>5, <2>1
  <2>3. i - 1 \in 1 .. L - 1 /\ q[i - 1] = m[i]
    BY <1>1, <2>2
  <2> QED
    BY <2>1, <2>3
<1>6. GoodMail(s, q)
  BY <1>1, <1>3, <1>4, <1>5 DEF GoodMail
<1> QED
  BY <1>6 DEF q

(* A message that ends nothing leaves what was promised. *)
LEMMA EndIsNotFirst ==
    ASSUME NEW t, NEW m, GoodMail(t, m), m # <<>>, NEW gen,
           EndFollows(t.fetches, m, gen, 0), Head(m).gen = gen => Head(m).kind \notin Ends
    PROVE  EndFollows(t.fetches, m, gen, 1)
<1>1. /\ m \in Seq(Messages) /\ DOMAIN m = 1 .. Len(m) /\ Len(m) \in Nat /\ Head(m) = m[1]
  BY HeadTailProperties, LenProperties DEF GoodMail
<1> QED
  BY <1>1 DEF EndFollows

(* A message is posted; what it ends is no longer running. *)
LEMMA PostMail ==
    ASSUME NEW t, NEW m, GoodMail(t, m), NEW e \in Messages, NEW s, s.nav = t.nav,
           s.launch \in {"ready", "failed"} => s.launch = t.launch \/ e.kind = "launched",
           \A f \in t.fetches :
              (\E g \in s.fetches : g.gen = f.gen) \/ (e.gen = f.gen /\ e.kind \in Ends),
           e.kind = "headers" => \E g \in s.fetches : g.gen = e.gen
    PROVE  GoodMail(s, Append(m, e))
<1> DEFINE L == Len(m)
           q == Append(m, e)
<1>1. /\ m \in Seq(Messages) /\ L \in Nat /\ DOMAIN m = 1 .. L
      /\ q \in Seq(Messages) /\ DOMAIN q = 1 .. L + 1 /\ q[L + 1] = e
      /\ \A i \in 1 .. L : q[i] = m[i]
  BY AppendProperties, LenProperties DEF GoodMail
<1> HIDE DEF L, q
<1>2. ASSUME NEW gen, NEW after \in 0 .. L, EndFollows(t.fetches, m, gen, after)
      PROVE  EndFollows(s.fetches, q, gen, after)
  <2>1. CASE \E f \in t.fetches : f.gen = gen
    <3>1. (\E g \in s.fetches : g.gen = gen) \/ (q[L + 1].gen = gen /\ q[L + 1].kind \in Ends)
      BY <1>1, <2>1
    <3>2. L + 1 \in 1 .. L + 1 /\ L + 1 > after
      BY <1>1
    <3> QED
      BY <1>1, <3>1, <3>2 DEF EndFollows
  <2>2. CASE \E j \in 1 .. L : j > after /\ m[j].gen = gen /\ m[j].kind \in Ends
    <3>1. \A j \in 1 .. L : j \in 1 .. L + 1
      BY <1>1
    <3> QED
      BY <1>1, <2>2, <3>1 DEF EndFollows
  <2> QED
    BY <1>1, <1>2, <2>1, <2>2 DEF EndFollows
<1>3. s.nav.pending => EndFollows(s.fetches, q, s.nav.gen, 0)
  BY <1>1, <1>2 DEF GoodMail
<1>4. ASSUME NEW i \in 1 .. L + 1, q[i].kind = "headers"
      PROVE  EndFollows(s.fetches, q, q[i].gen, i)
  <2>1. CASE i \in 1 .. L
    <3>1. i \in 0 .. L /\ q[i] = m[i] /\ i \in DOMAIN m
      BY <1>1, <2>1
    <3>2. EndFollows(t.fetches, m, m[i].gen, i)
      BY <1>4, <3>1 DEF GoodMail
    <3> QED
      BY <1>2, <3>1, <3>2
  <2>2. CASE i = L + 1
    BY <1>1, <1>4, <2>2 DEF EndFollows
  <2> QED
    BY <1>1, <2>1, <2>2
<1>5. ASSUME s.launch \in {"ready", "failed"}
      PROVE  \E i \in 1 .. L + 1 : q[i].kind = "launched"
  <2>1. CASE e.kind = "launched"
    BY <1>1, <2>1
  <2>2. CASE s.launch = t.launch
    <3>1. PICK i \in 1 .. L : m[i].kind = "launched"
      BY <1>1, <1>5, <2>2 DEF GoodMail
    <3> QED
      BY <1>1, <3>1
  <2> QED
    BY <1>5, <2>1, <2>2
<1>6. GoodMail(s, q)
  BY <1>1, <1>3, <1>4, <1>5 DEF GoodMail
<1> QED
  BY <1>6 DEF q

(***************************************************************************)
(* The turn.                                                               *)
(***************************************************************************)

(* The empty sequence has no elements. *)
LEMMA EmptyElements ==
    Elements(<<>>) = {}
  BY EmptySeq DEF Elements

(* The elements of the sequences that the UI thread builds. *)
LEMMA ConcatElements ==
    ASSUME NEW S, NEW a \in Seq(S), NEW b \in Seq(S)
    PROVE  a \o b \in Seq(S) /\ Elements(a \o b) = Elements(a) \cup Elements(b)
<1> DEFINE A == Len(a)
           B == Len(b)
           c == a \o b
<1>1. /\ A \in Nat /\ B \in Nat /\ DOMAIN a = 1 .. A /\ DOMAIN b = 1 .. B
      /\ c \in Seq(S) /\ DOMAIN c = 1 .. A + B
      /\ \A i \in 1 .. A + B : c[i] = IF i <= A THEN a[i] ELSE b[i - A]
  BY LenProperties, ConcatProperties
<1> HIDE DEF A, B, c
<1>2. ASSUME NEW i \in 1 .. A + B
      PROVE  c[i] \in Elements(a) \cup Elements(b)
  <2>1. CASE i <= A
    <3>1. i \in 1 .. A /\ c[i] = a[i]
      BY <1>1, <2>1
    <3> QED
      BY <1>1, <3>1 DEF Elements
  <2>2. CASE ~(i <= A)
    <3>1. i - A \in 1 .. B /\ c[i] = b[i - A]
      BY <1>1, <2>2
    <3> QED
      BY <1>1, <3>1 DEF Elements
  <2> QED
    BY <2>1, <2>2
<1>3. ASSUME NEW i \in 1 .. A
      PROVE  i \in 1 .. A + B /\ c[i] = a[i]
  BY <1>1
<1>4. ASSUME NEW i \in 1 .. B
      PROVE  A + i \in 1 .. A + B /\ c[A + i] = b[i]
  BY <1>1
<1>5. Elements(c) = Elements(a) \cup Elements(b)
  <2>1. Elements(c) \subseteq Elements(a) \cup Elements(b)
    <3>1. Elements(c) = {c[i] : i \in 1 .. A + B}
      BY <1>1 DEF Elements
    <3> QED
      BY <1>2, <3>1
  <2>2. Elements(a) \subseteq Elements(c)
    BY <1>1, <1>3 DEF Elements
  <2>3. Elements(b) \subseteq Elements(c)
    <3>1. Elements(b) = {b[i] : i \in 1 .. B} /\ Elements(c) = {c[i] : i \in 1 .. A + B}
      BY <1>1 DEF Elements
    <3>2. \A i \in 1 .. B : b[i] \in Elements(c)
      BY <1>4, <3>1
    <3> QED
      BY <3>1, <3>2
  <2> QED
    BY <2>1, <2>2, <2>3
<1> QED
  BY <1>1, <1>5 DEF c

(* Appending adds one element. *)
LEMMA AppendElements ==
    ASSUME NEW S, NEW a \in Seq(S), NEW e \in S
    PROVE  Append(a, e) \in Seq(S) /\ Elements(Append(a, e)) = Elements(a) \cup {e}
<1> DEFINE A == Len(a)
           c == Append(a, e)
<1>1. /\ A \in Nat /\ DOMAIN a = 1 .. A /\ c \in Seq(S) /\ DOMAIN c = 1 .. A + 1
      /\ c[A + 1] = e /\ \A i \in 1 .. A : c[i] = a[i]
  BY LenProperties, AppendProperties
<1> HIDE DEF A, c
<1>2. \A i \in 1 .. A + 1 : i \in 1 .. A \/ i = A + 1
  BY <1>1
<1>3. A + 1 \in 1 .. A + 1 /\ \A i \in 1 .. A : i \in 1 .. A + 1
  BY <1>1
<1>4. Elements(c) = Elements(a) \cup {e}
  BY <1>1, <1>2, <1>3 DEF Elements
<1> QED
  BY <1>1, <1>4 DEF c

(* Taking the head removes at most one element. *)
LEMMA TailElements ==
    ASSUME NEW S, NEW a \in Seq(S), a # <<>>
    PROVE  /\ Head(a) \in S /\ Tail(a) \in Seq(S)
           /\ Elements(a) = {Head(a)} \cup Elements(Tail(a))
<1> DEFINE A == Len(a)
           c == Tail(a)
<1>1. /\ A \in Nat /\ DOMAIN a = 1 .. A /\ A >= 1 /\ c \in Seq(S) /\ DOMAIN c = 1 .. A - 1
      /\ Head(a) = a[1] /\ Head(a) \in S /\ \A i \in 1 .. A - 1 : c[i] = a[i + 1]
  BY LenProperties, HeadTailProperties, EmptySeq
<1> HIDE DEF A, c
<1>2. \A i \in 1 .. A - 1 : i + 1 \in 1 .. A
  BY <1>1
<1>3. \A i \in 1 .. A : i = 1 \/ (i - 1 \in 1 .. A - 1 /\ c[i - 1] = a[i])
  BY <1>1
<1>4. Elements(a) = {Head(a)} \cup Elements(c)
  <2>1. Elements(a) = {a[i] : i \in 1 .. A} /\ Elements(c) = {c[i] : i \in 1 .. A - 1}
    BY <1>1 DEF Elements
  <2>2. Elements(c) \subseteq Elements(a)
    BY <1>1, <1>2, <2>1
  <2>3. \A i \in 1 .. A : a[i] \in {Head(a)} \cup Elements(c)
    BY <1>1, <1>3, <2>1
  <2>4. Head(a) \in Elements(a)
    BY <1>1, <2>1
  <2> QED
    BY <2>1, <2>2, <2>3, <2>4
<1> QED
  BY <1>1, <1>4 DEF c

(* A prefix and the rest have the elements of the whole. *)
LEMMA SplitElements ==
    ASSUME NEW S, NEW a \in Seq(S), NEW n \in 0 .. Len(a)
    PROVE  /\ SubSeq(a, 1, n) \in Seq(S) /\ SubSeq(a, n + 1, Len(a)) \in Seq(S)
           /\ Elements(a) = Elements(SubSeq(a, 1, n)) \cup Elements(SubSeq(a, n + 1, Len(a)))
<1> DEFINE A == Len(a)
           b == SubSeq(a, 1, n)
           c == SubSeq(a, n + 1, A)
<1>0. A \in Nat /\ DOMAIN a = 1 .. A /\ n \in 0 .. A /\ \A i \in 1 .. A : a[i] \in S
  BY LenProperties, ElementOfSeq
<1>1. /\ b \in Seq(S) /\ DOMAIN b = 1 .. n /\ \A i \in 1 .. n : b[i] = a[i]
  BY <1>0, SubSeqProperties
<1>2. /\ c \in Seq(S) /\ DOMAIN c = 1 .. A - n /\ \A i \in 1 .. A - n : c[i] = a[n + i]
  <2>1. n + 1 \in 1 .. A + 1 /\ A \in n .. A
    BY <1>0
  <2>2. \A i \in n + 1 .. A : a[i] \in S
    BY <1>0
  <2> QED
    BY <1>0, <2>1, <2>2, SubSeqProperties
<1> HIDE DEF A, b, c
<1>3. \A i \in 1 .. A : i \in 1 .. n \/ (i - n \in 1 .. A - n /\ c[i - n] = a[i])
  BY <1>0, <1>2, SMTT(30)
<1>4. /\ \A i \in 1 .. n : i \in 1 .. A
      /\ \A i \in 1 .. A - n : n + i \in 1 .. A
  BY <1>0
<1>5. Elements(a) = Elements(b) \cup Elements(c)
  <2>1. /\ Elements(a) = {a[i] : i \in 1 .. A} /\ Elements(b) = {b[i] : i \in 1 .. n}
        /\ Elements(c) = {c[i] : i \in 1 .. A - n}
    BY <1>0, <1>1, <1>2 DEF Elements
  <2>2. Elements(b) \subseteq Elements(a)
    BY <1>1, <1>4, <2>1
  <2>3. Elements(c) \subseteq Elements(a)
    BY <1>2, <1>4, <2>1
  <2>4. \A i \in 1 .. A : a[i] \in Elements(b) \cup Elements(c)
    BY <1>1, <1>3, <2>1
  <2> QED
    BY <2>1, <2>2, <2>3, <2>4
<1> QED
  BY <1>1, <1>2, <1>5 DEF A, b, c

(* A tab without a session owes the turn nothing. *)
LEMMA RestartedTurn ==
    ASSUME NEW t, NEW r, NEW u \in Turns, u.sid = 0 => u = NoTurn, Restarted(t, r)
    PROVE  GoodTurn(r, u)
<1>1. /\ r.session.id = 0 /\ r.session.events = <<>> /\ r.deferred = <<>>
      /\ r.session.painted = FALSE
  BY DEF Restarted, NoSession
<1>2. Unapplied(r, u) = {}
  <2>1. u.sid = 0 => Elements(u.events) = {}
    BY EmptyElements DEF NoTurn
  <2> QED
    BY <1>1, <2>1, EmptyElements DEF Unapplied
<1>3. u.sid = 0 => u.exit = "none"
  BY DEF NoTurn
<1> QED
  BY <1>1, <1>2, <1>3 DEF GoodTurn

(* A turn stays good when its tab keeps what the turn relies on. *)
LEMMA KeptTurn ==
    ASSUME NEW t, NEW r, NEW u, GoodTurn(t, u), Kept(t, r)
    PROVE  GoodTurn(r, u)
<1>1. Unapplied(r, u) = Unapplied(t, u)
  BY DEF Kept, Unapplied
<1> QED
  BY <1>1 DEF GoodTurn, Kept

(* So it does when the tab begins a navigation. *)
LEMMA MovedTurn ==
    ASSUME NEW t, NEW r, NEW u, GoodTurn(t, u), Kept(t, r) \/ Restarted(t, r)
    PROVE  GoodTurn(r, u)
<1>1. CASE Kept(t, r)
  BY <1>1, KeptTurn
<1>2. CASE Restarted(t, r)
  <2>1. u \in Turns /\ (u.sid = 0 => u = NoTurn)
    BY DEF GoodTurn
  <2> QED
    BY <1>2, <2>1, RestartedTurn
<1> QED
  BY <1>1, <1>2

(* Between turns nothing is owed to a session that holds no events. *)
LEMMA IdleTurn ==
    ASSUME NEW t, t.deferred = <<>>, t.session.events = <<>>, ~t.session.painted
    PROVE  GoodTurn(t, NoTurn)
<1>1. NoTurn \in Turns /\ NoTurn.events = <<>> /\ NoTurn.exit = "none"
  BY EmptySeq DEF NoTurn, Turns, Exits
<1>2. Unapplied(t, NoTurn) = {}
  BY <1>1, EmptyElements DEF Unapplied
<1> QED
  BY <1>1, <1>2 DEF GoodTurn

(***************************************************************************)
(* The messages the UI thread handles.                                     *)
(***************************************************************************)

(* The result of a launch, looked up by the UI thread, leaves tab, mail and turn good. *)
LEMMA FinishLaunchGood ==
    ASSUME NEW t, NEW m, GoodTab(t), GoodMail(t, m), m # <<>>, GoodTurn(t, NoTurn),
           Head(m).kind = "launched", NEW r \in FinishLaunch(t)
    PROVE  GoodTab(r) /\ GoodMail(r, Tail(m)) /\ GoodTurn(r, NoTurn)
<1> DEFINE g == [t EXCEPT !.launch = "none"]
           fresh == [NoSession EXCEPT !.id = 1]
           s == [g EXCEPT !.session = fresh]
<1>1. /\ t \in Tabs /\ PageOfNavigation(t.nav) /\ AttemptsCounted(t.nav)
      /\ SessionAlone(t) /\ DocumentInSession(t) /\ RendererOnTheWay(t)
  BY DEF GoodTab
<1>2. /\ g \in Tabs /\ g.nav = t.nav /\ g.session = t.session /\ g.launch = "none"
      /\ g.deferred = t.deferred /\ g.fetches = t.fetches
  BY <1>1 DEF Tabs
<1>3. /\ fresh \in Sessions /\ fresh.id = 1 /\ ~fresh.active /\ ~fresh.painted
      /\ fresh.events = <<>> /\ fresh.exit = "none"
  <2>1. 1 \in 0 .. 1
    OBVIOUS
  <2> QED
    BY <2>1, NoSessionType DEF NoSession, Sessions
<1>4. t.nav.pending => EndFollows(t.fetches, m, t.nav.gen, 1)
  BY EndIsNotFirst DEF GoodMail, Ends
<1>5. CASE t.launch \notin {"ready", "failed"}
  <2>1. r = t
    BY <1>5 DEF FinishLaunch
  <2> QED
    BY <1>4, <1>5, <2>1, PopMail
<1>6. CASE t.launch \in {"ready", "failed"}
  <2>1. t.session = NoSession /\ t.deferred = <<>> /\ t.nav.doc = 0
    BY <1>1, <1>6 DEF SessionAlone, DocumentInSession
  <2>2. r = MarkCrashed(g) \/ (t.launch = "ready" /\ r \in SubmitDocument(s))
    BY <1>6 DEF FinishLaunch
  <2> HIDE DEF g, fresh
  <2>3. CASE r = MarkCrashed(g)
    <3>1. GoodTab(r) /\ Restarted(g, r)
      BY <1>2, <2>3, CrashedGood
    <3>2. GoodMail(g, Tail(m))
      BY <1>2, <1>4, PopMail
    <3>3. GoodTurn(g, NoTurn)
      BY <1>2, <2>1, IdleTurn DEF NoSession
    <3> QED
      BY <3>1, <3>2, <3>3, MovedMail, MovedTurn
  <2>4. CASE r \in SubmitDocument(s)
    <3>1. /\ s \in Tabs /\ s.nav = t.nav /\ s.session = fresh /\ s.launch = "none"
          /\ s.deferred = <<>> /\ s.fetches = t.fetches
      BY <1>2, <1>3, <2>1 DEF Tabs
    <3> HIDE DEF s
    <3>2. s.session # NoSession
      BY <1>3, <3>1, NoSessionType
    <3>3. t.nav.phase # "WaitingForFirstPresentation"
      BY <1>1, <2>1 DEF DocumentInSession
    <3>4. SessionAlone(s) /\ DocumentInSession(s)
      BY <1>3, <2>1, <3>1, <3>2, <3>3 DEF SessionAlone, DocumentInSession
    <3>5. s.nav.phase # "WaitingForRenderer" => RendererOnTheWay(s)
      BY <3>2 DEF RendererOnTheWay
    <3>6. GoodTab(r) /\ (Kept(s, r) \/ Restarted(s, r))
      BY <1>1, <2>4, <3>1, <3>4, <3>5, SubmitGood
    <3>7. GoodMail(s, Tail(m))
      BY <1>4, <3>1, PopMail
    <3>8. GoodTurn(s, NoTurn)
      BY <1>3, <3>1, IdleTurn
    <3> QED
      BY <3>6, <3>7, <3>8, MovedMail, MovedTurn
  <2> QED
    BY <2>2, <2>3, <2>4
<1> QED
  BY <1>5, <1>6

(* The end of the network changes the deadline only. *)
LEMMA NetworkCompleteGood ==
    ASSUME NEW t, GoodTab(t), NEW r, r = [t EXCEPT !.nav = NetworkComplete(@)]
    PROVE  GoodTab(r) /\ Kept(t, r) /\ ~r.nav.pending
<1> DEFINE n == NetworkComplete(t.nav)
<1>1. /\ t \in Tabs /\ PageOfNavigation(t.nav) /\ AttemptsCounted(t.nav)
      /\ SessionAlone(t) /\ DocumentInSession(t) /\ RendererOnTheWay(t)
  BY DEF GoodTab
<1>2. /\ n \in Transactions /\ n.phase = t.nav.phase /\ n.page = t.nav.page
      /\ n.doc = t.nav.doc /\ n.gen = t.nav.gen /\ n.pending = FALSE
      /\ n.retries = t.nav.retries /\ n.attempts = t.nav.attempts
  <2>1. (t.nav.armed \/ t.nav.phase = "WaitingForFirstPresentation") \in BOOLEAN
    OBVIOUS
  <2> QED
    BY <1>1, <2>1, TabFields DEF NetworkComplete, Transactions
<1> HIDE DEF n
<1>3. /\ r \in Tabs /\ r.nav = n /\ r.session = t.session
      /\ r.launch = t.launch /\ r.deferred = t.deferred /\ r.fetches = t.fetches
  BY <1>1, <1>2 DEF Tabs, n
<1>4. PageOfNavigation(r.nav) /\ AttemptsCounted(r.nav)
  BY <1>1, <1>2, <1>3 DEF PageOfNavigation, AttemptsCounted
<1>5. SessionAlone(r) /\ DocumentInSession(r) /\ RendererOnTheWay(r)
  BY <1>1, <1>2, <1>3 DEF SessionAlone, DocumentInSession, RendererOnTheWay
<1> QED
  BY <1>2, <1>3, <1>4, <1>5 DEF GoodTab, Kept

(* So does the result of a navigation thread. *)
LEMMA FinishNavigationGood ==
    ASSUME NEW t, NEW m, GoodTab(t), GoodMail(t, m), m # <<>>, GoodTurn(t, NoTurn),
           Head(m).kind # "launched", NEW r \in FinishNavigation(t, Head(m))
    PROVE  GoodTab(r) /\ GoodMail(r, Tail(m)) /\ GoodTurn(r, NoTurn)
<1> DEFINE h == Head(m)
<1>1. /\ t \in Tabs /\ PageOfNavigation(t.nav) /\ AttemptsCounted(t.nav)
      /\ SessionAlone(t) /\ DocumentInSession(t) /\ RendererOnTheWay(t)
  BY DEF GoodTab
<1>2. h \in Messages /\ h = m[1] /\ 1 \in DOMAIN m
  BY HeadTailProperties, LenProperties, EmptySeq DEF GoodMail
<1>3. h.kind \in {"headers", "complete", "error"}
  BY <1>2 DEF Messages
<1> HIDE DEF h
<1>4. CASE h.kind = "headers" /\ AcceptsPage(t.nav, h.gen)
  <2> DEFINE n == AcceptPage(t.nav, h.gen)
             a == [t EXCEPT !.nav = n]
  <2>1. r \in SubmitDocument(a)
    BY <1>4 DEF FinishNavigation, h
  <2>2. h.gen = t.nav.gen /\ t.nav.phase = "Fetching"
    BY <1>4 DEF AcceptsPage
  <2>3. /\ n \in Transactions /\ n.phase = "WaitingForRenderer" /\ n.page = t.nav.gen
        /\ n.doc = t.nav.doc /\ n.gen = t.nav.gen
        /\ n.retries = t.nav.retries /\ n.attempts = t.nav.attempts
    <3>1. "WaitingForRenderer" \in Phases /\ t.nav.gen \in Nat
      BY <1>1, TabFields DEF Phases
    <3> QED
      BY <1>1, <2>2, <3>1, TabFields DEF AcceptPage, Transactions
  <2> HIDE DEF n
  <2>4. /\ a \in Tabs /\ a.nav = n /\ a.session = t.session
        /\ a.launch = t.launch /\ a.deferred = t.deferred /\ a.fetches = t.fetches
    BY <1>1, <2>3 DEF Tabs
  <2> HIDE DEF a
  <2>5. t.nav.gen # 0
    BY <1>1, TabFields
  <2>6. PageOfNavigation(a.nav) /\ AttemptsCounted(a.nav)
    BY <1>1, <2>2, <2>3, <2>4, <2>5 DEF PageOfNavigation, AttemptsCounted
  <2>7. SessionAlone(a) /\ DocumentInSession(a)
    BY <1>1, <2>2, <2>3, <2>4 DEF SessionAlone, DocumentInSession
  <2>8. GoodTab(r) /\ (Kept(a, r) \/ Restarted(a, r))
    BY <2>1, <2>3, <2>4, <2>6, <2>7, SubmitGood
  <2>9. EndFollows(t.fetches, m, a.nav.gen, 1)
    BY <1>2, <1>4, <2>2, <2>3, <2>4 DEF GoodMail
  <2>10. GoodMail(a, Tail(m))
    BY <2>4, <2>9, PopMail
  <2>11. GoodTurn(a, NoTurn)
    BY <2>3, <2>4 DEF GoodTurn, Unapplied
  <2> QED
    BY <2>8, <2>10, <2>11, MovedMail, MovedTurn
<1>5. CASE h.kind = "complete" /\ h.gen = t.nav.gen
  <2>1. r = [t EXCEPT !.nav = NetworkComplete(@)]
    BY <1>5 DEF FinishNavigation, h
  <2>2. GoodTab(r) /\ Kept(t, r) /\ ~r.nav.pending
    BY <2>1, NetworkCompleteGood
  <2>3. GoodMail(r, Tail(m))
    BY <2>2, PopMail DEF Kept
  <2> QED
    BY <2>2, <2>3, MovedTurn
<1>6. CASE h.kind = "error" /\ h.gen = t.nav.gen
  <2>1. r = MarkCrashed(t) \/ r = [t EXCEPT !.nav = Fail(@)]
    BY <1>6 DEF FinishNavigation, h
  <2>2. CASE r = MarkCrashed(t)
    <3>1. GoodTab(r) /\ Restarted(t, r) /\ t.nav \in Transactions
      BY <1>1, <2>2, CrashedGood, TabFields
    <3>2. ~r.nav.pending /\ r.fetches = t.fetches
      BY <1>1, <2>2, <3>1, InvalidateFields DEF MarkCrashed, Tabs
    <3>3. GoodMail(r, Tail(m))
      BY <3>1, <3>2, PopMail DEF Restarted
    <3> QED
      BY <3>1, <3>3, MovedTurn
  <2>3. CASE r = [t EXCEPT !.nav = Fail(@)]
    <3>1. GoodTab(r) /\ Kept(t, r) /\ t.nav \in Transactions
      BY <1>1, <2>3, FailedGood, TabFields
    <3>2. ~r.nav.pending
      BY <1>1, <2>3, <3>1, FailFields DEF Tabs
    <3>3. GoodMail(r, Tail(m))
      BY <3>1, <3>2, PopMail DEF Kept
    <3> QED
      BY <3>1, <3>3, MovedTurn
  <2> QED
    BY <2>1, <2>2, <2>3
<1>7. CASE /\ ~(h.kind = "headers" /\ AcceptsPage(t.nav, h.gen))
           /\ ~(h.kind = "complete" /\ h.gen = t.nav.gen)
           /\ ~(h.kind = "error" /\ h.gen = t.nav.gen)
  <2>1. r = t
    BY <1>7 DEF FinishNavigation, h
  <2>2. t.nav.pending => EndFollows(t.fetches, m, t.nav.gen, 1)
    <3>1. Head(m).gen = t.nav.gen => Head(m).kind \notin Ends
      BY <1>7 DEF Ends, h
    <3> QED
      BY <3>1, EndIsNotFirst DEF GoodMail
  <2> QED
    BY <2>1, <2>2, PopMail
<1> QED
  BY <1>4, <1>5, <1>6, <1>7

(***************************************************************************)
(* The turn of events.                                                     *)
(***************************************************************************)

(* The first presentation ends the wait for it. *)
LEMMA MarkPresentedGood ==
    ASSUME NEW t, GoodTab(t), NEW r, r = [t EXCEPT !.nav = MarkPresented(@)]
    PROVE  GoodTab(r) /\ Kept(t, r) /\ r.nav.phase # "WaitingForFirstPresentation"
<1> DEFINE n == MarkPresented(t.nav)
<1>1. /\ t \in Tabs /\ PageOfNavigation(t.nav) /\ AttemptsCounted(t.nav)
      /\ SessionAlone(t) /\ DocumentInSession(t) /\ RendererOnTheWay(t)
  BY DEF GoodTab
<1>2. CASE t.nav.phase # "WaitingForFirstPresentation"
  <2>1. r = t
    BY <1>1, <1>2 DEF MarkPresented, Tabs
  <2> QED
    BY <1>2, <2>1, KeptRefl
<1>3. CASE t.nav.phase = "WaitingForFirstPresentation"
  <2>1. /\ n \in Transactions /\ n.phase = "Presented" /\ n.page = 0
        /\ n.doc = t.nav.doc /\ n.gen = t.nav.gen /\ n.pending = t.nav.pending
        /\ n.retries = t.nav.retries /\ n.attempts = t.nav.attempts
    <3>1. "Presented" \in Phases /\ 0 \in Nat
      BY DEF Phases
    <3> QED
      BY <1>1, <1>3, <3>1, TabFields DEF MarkPresented, Transactions
  <2> HIDE DEF n
  <2>2. /\ r \in Tabs /\ r.nav = n /\ r.session = t.session
        /\ r.launch = t.launch /\ r.deferred = t.deferred /\ r.fetches = t.fetches
    BY <1>1, <2>1 DEF Tabs, n
  <2>3. PageOfNavigation(r.nav) /\ AttemptsCounted(r.nav)
    BY <1>1, <2>1, <2>2 DEF PageOfNavigation, AttemptsCounted
  <2>4. SessionAlone(r) /\ DocumentInSession(r) /\ RendererOnTheWay(r)
    BY <1>1, <2>1, <2>2 DEF SessionAlone, DocumentInSession, RendererOnTheWay
  <2> QED
    BY <2>1, <2>2, <2>3, <2>4 DEF GoodTab, Kept
<1> QED
  BY <1>2, <1>3

(* What an event may do to the tab; the presentation of the tab's document *)
(* ends its wait.                                                          *)
LEMMA EventGood ==
    ASSUME NEW t, GoodTab(t), NEW e \in Events, NEW may \in BOOLEAN,
           NEW r \in EventOutcomes(t, e, may)
    PROVE  /\ GoodTab(r) /\ (Kept(t, r) \/ Restarted(t, r))
           /\ e.kind = "presentation" /\ OwnsDocument(t.nav, e.doc) =>
                 r.nav.phase # "WaitingForFirstPresentation"
           /\ e.kind = "navigate" /\ r # t => may
<1>1. t \in Tabs
  BY DEF GoodTab
<1>2. CASE r = t /\ ~(e.kind = "presentation" /\ OwnsDocument(t.nav, e.doc))
  BY <1>2, KeptRefl
<1>3. CASE e.kind = "presentation" /\ OwnsDocument(t.nav, e.doc)
  <2>1. r = [t EXCEPT !.nav = MarkPresented(@)] \/ r = MarkCrashed(t)
    BY <1>3 DEF EventOutcomes
  <2>2. CASE r = [t EXCEPT !.nav = MarkPresented(@)]
    BY <1>3, <2>2, MarkPresentedGood
  <2>3. CASE r = MarkCrashed(t)
    BY <1>1, <1>3, <2>3, CrashedGood DEF Restarted
  <2> QED
    BY <2>1, <2>2, <2>3
<1>4. CASE e.kind = "failed" /\ OwnsDocument(t.nav, e.doc)
  <2>1. r = MarkCrashed(t)
    BY <1>4 DEF EventOutcomes
  <2> QED
    BY <1>1, <1>4, <2>1, CrashedGood
<1>5. CASE e.kind = "navigate" /\ OwnsDocument(t.nav, e.doc) /\ r # t
  <2>1. may /\ r \in StartNavigation(t, BeginNavigation(t.nav))
    BY <1>5 DEF EventOutcomes
  <2> QED
    BY <1>1, <1>5, <2>1, StartNavigationGood DEF Begun
<1> QED
  BY <1>2, <1>3, <1>4, <1>5 DEF EventOutcomes

(* The turn goes on with the rest of its events. *)
LEMMA TurnGoesOn ==
    ASSUME NEW t, NEW r, NEW u, GoodTab(t), GoodTurn(t, u), u.events # <<>>,
           Kept(t, r),
           Head(u.events).kind = "presentation" /\ OwnsDocument(t.nav, Head(u.events).doc) =>
              r.nav.phase # "WaitingForFirstPresentation",
           NEW v, v = [u EXCEPT !.events = Tail(u.events),
                         !.exit = IF Head(u.events).kind \in Exits
                                  THEN Head(u.events).kind ELSE @]
    PROVE  GoodTurn(r, v)
<1> DEFINE e == Head(u.events)
           rest == Tail(u.events)
<1>1. /\ u \in Turns /\ u.events \in Seq(Events) /\ u.exit \in Exits /\ u.sid \in 0 .. 1
      /\ t.deferred = <<>>
  BY DEF GoodTurn, Turns
<1>2. e \in Events /\ rest \in Seq(Events) /\ Elements(u.events) = {e} \cup Elements(rest)
  BY <1>1, TailElements
<1>3. /\ v \in Turns /\ v.sid = u.sid /\ v.events = rest
      /\ v.exit = IF e.kind \in Exits THEN e.kind ELSE u.exit
  BY <1>1, <1>2 DEF Turns
<1>4. u.sid # 0
  BY DEF GoodTurn, NoTurn
<1> HIDE DEF e, rest
<1>5. /\ Unapplied(r, v) \subseteq Unapplied(t, u)
      /\ u.sid = t.session.id => e \in Unapplied(t, u)
      /\ \A x \in Unapplied(t, u) : x \in Unapplied(r, v) \/ x = e
  BY <1>2, <1>3 DEF Unapplied, Kept
<1>6. ASSUME r.session.exit = "none"
      PROVE  /\ \A x \in Unapplied(r, v) : x.kind \notin {"crash", "budget"}
             /\ v.sid = r.session.id => v.exit = "none"
  <2>1. t.session.exit = "none" /\ t.session.id = r.session.id
    BY <1>6 DEF Kept
  <2>2. \A x \in Unapplied(t, u) : x.kind \notin {"crash", "budget"}
    BY <2>1 DEF GoodTurn
  <2>3. u.sid = t.session.id => e.kind \notin {"crash", "budget"} /\ u.exit = "none"
    BY <1>5, <2>1, <2>2 DEF GoodTurn
  <2> QED
    BY <1>3, <1>5, <2>1, <2>2, <2>3 DEF Exits
<1>7. ASSUME r.nav.phase = "WaitingForFirstPresentation" /\ r.session.painted
      PROVE  \E x \in Unapplied(r, v) : x.kind = "presentation" /\ x.doc = r.session.doc
  <2>1. /\ t.nav.phase = "WaitingForFirstPresentation" /\ t.session.painted
        /\ r.session.doc = t.session.doc
    BY <1>7 DEF Kept
  <2>2. PICK x \in Unapplied(t, u) : x.kind = "presentation" /\ x.doc = t.session.doc
    BY <2>1 DEF GoodTurn
  <2>3. x # e
    <3>1. t.nav.doc # 0 /\ t.session.doc = t.nav.doc
      BY <2>1 DEF GoodTab, DocumentInSession
    <3> QED
      BY <1>7, <2>2, <3>1 DEF OwnsDocument, e
  <2> QED
    BY <1>5, <2>1, <2>2, <2>3
<1>8. r.deferred = <<>>
  BY <1>1 DEF Kept
<1> QED
  BY <1>3, <1>4, <1>6, <1>7, <1>8 DEF GoodTurn

(* The turn yields: the rest of its events is deferred. *)
LEMMA TurnYields ==
    ASSUME NEW r, NEW v, GoodTab(r), GoodTurn(r, v), v.sid # 0, v.events # <<>>,
           NEW s, s = DeferEvents(r, v.sid, v.events),
           NEW w, w = [v EXCEPT !.events = <<>>, !.exit = "none"]
    PROVE  /\ GoodTab(s) /\ GoodTurn(s, w)
           /\ s.nav = r.nav /\ s.launch = r.launch /\ s.fetches = r.fetches
<1>1. /\ v \in Turns /\ v.events \in Seq(Events) /\ v.sid \in 0 .. 1
  BY DEF GoodTurn, Turns
<1>2. /\ w \in Turns /\ w.sid = v.sid /\ w.events = <<>> /\ w.exit = "none"
  <2>1. <<>> \in Seq(Events) /\ "none" \in Exits
    BY EmptySeq DEF Exits
  <2> QED
    BY <1>1, <2>1 DEF Turns
<1>3. CASE r.session.id = v.sid
  <2>1. s = [r EXCEPT !.deferred = v.events]
    BY <1>3 DEF DeferEvents
  <2>2. /\ s \in Tabs /\ s.nav = r.nav /\ s.session = r.session /\ s.launch = r.launch
        /\ s.deferred = v.events /\ s.fetches = r.fetches
    BY <1>1, <2>1 DEF GoodTab, Tabs
  <2>3. GoodTab(s)
    <3>1. r.session # NoSession
      BY <1>3, NoSessionType
    <3> QED
      BY <2>2, <3>1 DEF GoodTab, SessionAlone, DocumentInSession, RendererOnTheWay
  <2>4. Unapplied(s, w) = Unapplied(r, v)
    <3>1. Elements(r.deferred) = {}
      BY EmptyElements DEF GoodTurn
    <3>2. Unapplied(s, w) = Elements(v.events) \cup Elements(r.session.events)
      BY <1>2, <2>2, EmptyElements DEF Unapplied
    <3>3. Unapplied(r, v) = Elements(r.deferred) \cup Elements(r.session.events)
                            \cup Elements(v.events)
      BY <1>3 DEF Unapplied
    <3> QED
      BY <3>1, <3>2, <3>3
  <2>5. GoodTurn(s, w)
    BY <1>2, <2>2, <2>4 DEF GoodTurn
  <2> QED
    BY <2>2, <2>3, <2>5
<1>4. CASE r.session.id # v.sid
  <2>1. s = r
    BY <1>4 DEF DeferEvents
  <2>2. Unapplied(s, w) = Unapplied(r, v)
    BY <1>2, <1>4, <2>1 DEF Unapplied
  <2>3. GoodTurn(s, w)
    BY <1>2, <1>4, <2>1, <2>2 DEF GoodTurn
  <2> QED
    BY <2>1, <2>3
<1> QED
  BY <1>3, <1>4

(***************************************************************************)
(* Every step preserves the invariant.                                     *)
(***************************************************************************)

(* A new tab is good. *)
LEMMA InitInd ==
    Init => Ind
<1> SUFFICES ASSUME Init PROVE Ind
  OBVIOUS
<1> DEFINE n == tab.nav
<1>1. /\ n \in Transactions /\ n.gen = 1 /\ n.phase = "WaitingForRenderer"
      /\ n.pending = FALSE /\ n.page = 1 /\ n.doc = 0 /\ n.retries = 0 /\ n.attempts = 0
  <2>1. /\ 1 \in Nat \ {0} /\ 0 \in 0 .. MaxRetries /\ 0 \in 0 .. MaxRecoveries
        /\ "WaitingForRenderer" \in Phases
    BY DEF MaxRetries, MaxRecoveries, Phases
  <2> QED
    BY <2>1 DEF Init, Transactions
<1>2. /\ tab.session = NoSession /\ tab.launch = "running" /\ tab.deferred = <<>>
      /\ tab.fetches = {} /\ turn = NoTurn /\ mail = <<>> /\ loads = 0
  BY DEF Init
<1>3. tab \in Tabs
  <2>1. <<>> \in Seq(Events) /\ {} \in SUBSET [gen : Nat, headers : BOOLEAN]
    BY EmptySeq
  <2> HIDE DEF n
  <2>2. tab = [nav |-> n, session |-> NoSession, launch |-> "running",
               deferred |-> <<>>, fetches |-> {}]
    BY DEF Init, n
  <2> QED
    BY <1>1, <2>1, <2>2, NoSessionType DEF Tabs
<1> HIDE DEF n
<1>4. PageOfNavigation(tab.nav) /\ AttemptsCounted(tab.nav)
  BY <1>1 DEF PageOfNavigation, AttemptsCounted, n
<1>5. SessionAlone(tab) /\ DocumentInSession(tab) /\ RendererOnTheWay(tab)
  BY <1>1, <1>2 DEF SessionAlone, DocumentInSession, RendererOnTheWay, NoSession, n
<1>6. GoodMail(tab, mail)
  BY <1>1, <1>2, EmptySeq DEF GoodMail, n
<1>7. GoodTurn(tab, turn)
  BY <1>2, IdleTurn DEF NoSession
<1>8. loads \in 0 .. MaxLoads
  BY <1>2, NavigationAssumption
<1> QED
  BY <1>3, <1>4, <1>5, <1>6, <1>7, <1>8 DEF Ind, GoodTab

(* The user or the page begins a navigation. *)
LEMMA NavigateInd ==
    ASSUME Ind, Navigate
    PROVE  Ind'
<1>1. GoodTab(tab') /\ Restarted(tab, tab')
  BY StartNavigationGood DEF Ind, GoodTab, Navigate, Begun
<1>2. GoodMail(tab', mail') /\ GoodTurn(tab', turn')
  BY <1>1, MovedMail, MovedTurn DEF Ind, Navigate
<1>3. loads' \in 0 .. MaxLoads
  BY NavigationAssumption DEF Ind, Navigate
<1> QED
  BY <1>1, <1>2, <1>3 DEF Ind

(* The window takes a message. *)
LEMMA HandleMailInd ==
    ASSUME Ind, HandleMail
    PROVE  Ind'
<1>1. GoodTab(tab) /\ GoodMail(tab, mail) /\ GoodTurn(tab, NoTurn)
  BY DEF Ind, HandleMail
<1>2. GoodTab(tab') /\ GoodMail(tab', mail') /\ GoodTurn(tab', NoTurn)
  BY <1>1, FinishLaunchGood, FinishNavigationGood DEF HandleMail
<1> QED
  BY <1>2 DEF Ind, HandleMail

(* The deadline passes. *)
LEMMA DeadlineInd ==
    ASSUME Ind, Deadline
    PROVE  Ind'
<1>1. GoodTab(tab') /\ Restarted(tab, tab')
  BY NextAttemptGood DEF Ind, Deadline
<1> QED
  BY <1>1, MovedMail, MovedTurn DEF Ind, Deadline

(* A turn begins. *)
LEMMA CollectInd ==
    ASSUME Ind, Poll, Collect
    PROVE  Ind'
<1> DEFINE held == tab.session.events
           size == IF Len(held) < TurnEvents THEN Len(held) ELSE TurnEvents
           taken == IF tab.deferred = <<>> THEN size ELSE 0
           first == SubSeq(held, 1, taken)
           rest == SubSeq(held, taken + 1, Len(held))
           s == [tab.session EXCEPT !.events = rest]
           r == [tab EXCEPT !.deferred = <<>>, !.session = s]
           u == [sid |-> tab.session.id, events |-> tab.deferred \o first,
                 exit |-> IF rest = <<>> THEN tab.session.exit ELSE "none"]
<1>1. tab \in Tabs /\ tab.session \in Sessions /\ held \in Seq(Events)
      /\ tab.deferred \in Seq(Events) /\ tab.session.exit \in Exits
      /\ tab.session.id \in 0 .. 1
  BY TabFields DEF Ind, GoodTab
<1>2. taken \in 0 .. Len(held)
  BY <1>1, LenProperties, NavigationAssumption
<1>3. /\ first \in Seq(Events) /\ rest \in Seq(Events)
      /\ Elements(held) = Elements(first) \cup Elements(rest)
  BY <1>1, <1>2, SplitElements
<1>4. turn' = u /\ tab' = r /\ turn = NoTurn /\ tab.session # NoSession
      /\ mail' = mail /\ loads' = loads
  <2>1. [tab EXCEPT !.deferred = <<>>, !.session.events = rest] = r
    BY <1>1 DEF Tabs, Sessions
  <2> QED
    BY <2>1 DEF Poll, Collect
<1> HIDE DEF held, size, taken, first, rest
<1>5. /\ tab.deferred \o first \in Seq(Events)
      /\ Elements(tab.deferred \o first) = Elements(tab.deferred) \cup Elements(first)
  BY <1>1, <1>3, ConcatElements
<1>6. /\ s \in Sessions /\ s.id = tab.session.id /\ s.doc = tab.session.doc
      /\ s.active = tab.session.active /\ s.painted = tab.session.painted
      /\ s.exit = tab.session.exit /\ s.events = rest
  BY <1>1, <1>3 DEF Sessions
<1> HIDE DEF s
<1>7. /\ r \in Tabs /\ r.nav = tab.nav /\ r.session = s /\ r.launch = tab.launch
      /\ r.deferred = <<>> /\ r.fetches = tab.fetches
  <2>1. <<>> \in Seq(Events)
    BY EmptySeq
  <2> QED
    BY <1>1, <1>6, <2>1 DEF Tabs
<1>8. /\ u \in Turns /\ u.sid = tab.session.id /\ u.events = tab.deferred \o first
      /\ u.exit \in {tab.session.exit, "none"}
  <2>1. (IF rest = <<>> THEN tab.session.exit ELSE "none") \in Exits
    BY <1>1 DEF Exits
  <2> QED
    BY <1>1, <1>5, <2>1 DEF Turns
<1> HIDE DEF r, u
<1>9. tab.session.id # 0 /\ s # NoSession
  BY <1>4, <1>6, NoSessionType DEF Ind, GoodTab, SessionAlone
<1>10. GoodTab(r)
  <2>1. SessionAlone(r) /\ DocumentInSession(r) /\ RendererOnTheWay(r)
    BY <1>4, <1>6, <1>7, <1>9
       DEF Ind, GoodTab, SessionAlone, DocumentInSession, RendererOnTheWay
  <2> QED
    BY <1>7, <2>1 DEF Ind, GoodTab
<1>11. Unapplied(r, u) = Unapplied(tab, turn)
  <2>1. Unapplied(r, u) = Elements(rest) \cup Elements(tab.deferred) \cup Elements(first)
    BY <1>5, <1>6, <1>7, <1>8, EmptyElements DEF Unapplied
  <2>2. Unapplied(tab, turn) = Elements(tab.deferred) \cup Elements(held)
    BY <1>4, EmptyElements DEF Unapplied, NoTurn, held
  <2> QED
    BY <1>3, <2>1, <2>2
<1>12. GoodTurn(r, u)
  BY <1>6, <1>7, <1>8, <1>9, <1>11 DEF Ind, GoodTurn
<1>13. GoodMail(r, mail)
  BY <1>7 DEF Ind, GoodMail
<1> QED
  BY <1>4, <1>10, <1>12, <1>13 DEF Ind

(* A poll begins a turn or contains the page. *)
LEMMA PollInd ==
    ASSUME Ind, Poll
    PROVE  Ind'
<1>1. CASE Collect
  BY <1>1, CollectInd
<1>2. CASE PumpFails
  <2>1. /\ tab' = MarkCrashed(tab) /\ turn' = NoTurn /\ turn = NoTurn
        /\ mail' = mail /\ loads' = loads
    BY <1>2 DEF Poll, PumpFails
  <2>2. GoodTab(tab') /\ Restarted(tab, tab')
    BY <2>1, CrashedGood DEF Ind, GoodTab
  <2>3. GoodMail(tab', mail') /\ GoodTurn(tab', turn')
    BY <2>1, <2>2, MovedMail, MovedTurn DEF Ind
  <2> QED
    BY <2>1, <2>2, <2>3 DEF Ind
<1> QED
  BY <1>1, <1>2 DEF Poll

(* A turn handles an event. *)
LEMMA HandleEventInd ==
    ASSUME Ind, HandleEvent
    PROVE  Ind'
<1> DEFINE e == Head(turn.events)
           rest == Tail(turn.events)
           v == [turn EXCEPT !.events = rest, !.exit = IF e.kind \in Exits THEN e.kind ELSE @]
           w == [turn EXCEPT !.events = <<>>, !.exit = "none"]
<1>1. /\ turn \in Turns /\ turn.events \in Seq(Events) /\ turn.events # <<>>
      /\ turn.sid # 0 /\ turn.sid \in 0 .. 1 /\ turn.exit \in Exits
  BY DEF Ind, GoodTurn, Turns, HandleEvent, NoTurn
<1>2. e \in Events /\ rest \in Seq(Events)
  BY <1>1, TailElements
<1>3. PICK r \in EventOutcomes(tab, e, loads < MaxLoads), yield \in BOOLEAN :
         /\ yield => rest # <<>>
         /\ tab' = IF yield THEN DeferEvents(r, turn.sid, rest) ELSE r
         /\ turn' = IF yield THEN w ELSE v
         /\ loads' = IF e.kind = "navigate" /\ r # tab THEN loads + 1 ELSE loads
  BY DEF HandleEvent
<1>4. mail' = mail
  BY DEF HandleEvent
<1>5. /\ v \in Turns /\ v.sid = turn.sid /\ v.events = rest
      /\ w = [v EXCEPT !.events = <<>>, !.exit = "none"]
  BY <1>1, <1>2 DEF Turns
<1>6. /\ GoodTab(r) /\ (Kept(tab, r) \/ Restarted(tab, r))
      /\ e.kind = "presentation" /\ OwnsDocument(tab.nav, e.doc) =>
            r.nav.phase # "WaitingForFirstPresentation"
      /\ e.kind = "navigate" /\ r # tab => loads < MaxLoads
  <2>1. (loads < MaxLoads) \in BOOLEAN
    OBVIOUS
  <2>2. GoodTab(tab)
    BY DEF Ind
  <2> HIDE DEF e
  <2> QED
    BY <1>2, <1>3, <2>1, <2>2, EventGood
<1>7. GoodTurn(r, v)
  <2>1. CASE Kept(tab, r)
    BY <1>1, <1>6, <2>1, TurnGoesOn DEF Ind
  <2>2. CASE Restarted(tab, r)
    BY <1>1, <1>5, <2>2, RestartedTurn
  <2> QED
    BY <1>6, <2>1, <2>2
<1>8. GoodMail(r, mail)
  BY <1>6, MovedMail DEF Ind
<1>9. loads' \in 0 .. MaxLoads
  BY <1>3, <1>6, NavigationAssumption DEF Ind
<1> HIDE DEF v, w, e, rest
<1>10. CASE yield
  <2>1. tab' = DeferEvents(r, v.sid, v.events) /\ turn' = w /\ v.events # <<>> /\ v.sid # 0
    BY <1>1, <1>3, <1>5, <1>10
  <2>2. /\ GoodTab(tab') /\ GoodTurn(tab', w)
        /\ tab'.nav = r.nav /\ tab'.launch = r.launch /\ tab'.fetches = r.fetches
    BY <1>5, <1>6, <1>7, <2>1, TurnYields
  <2>3. GoodMail(tab', mail)
    BY <1>8, <2>2 DEF GoodMail
  <2> QED
    BY <1>4, <1>9, <2>1, <2>2, <2>3 DEF Ind
<1>11. CASE ~yield
  BY <1>3, <1>4, <1>6, <1>7, <1>8, <1>9, <1>11 DEF Ind
<1> QED
  BY <1>10, <1>11

(* A turn ends. *)
LEMMA EndTurnInd ==
    ASSUME Ind, EndTurn
    PROVE  Ind'
<1>1. /\ turn' = NoTurn /\ turn.events = <<>> /\ mail' = mail /\ loads' = loads
      /\ NoTurn \in Turns /\ NoTurn.events = <<>> /\ NoTurn.exit = "none"
  BY EmptySeq DEF EndTurn, NoTurn, Turns, Exits
<1>2. CASE tab' = tab
  <2>1. Unapplied(tab, NoTurn) = Unapplied(tab, turn)
    BY <1>1, EmptyElements DEF Unapplied
  <2>2. GoodTurn(tab, NoTurn)
    BY <1>1, <2>1 DEF Ind, GoodTurn
  <2> QED
    BY <1>1, <1>2, <2>2 DEF Ind
<1>3. CASE tab' \in FinishExit(tab, turn.exit)
  <2>1. GoodTab(tab') /\ Restarted(tab, tab')
    BY <1>3, FinishExitGood DEF Ind
  <2>2. GoodTurn(tab', NoTurn)
    BY <1>1, <2>1, RestartedTurn
  <2> QED
    BY <1>1, <2>1, <2>2, MovedMail DEF Ind
<1> QED
  BY <1>2, <1>3 DEF EndTurn

(* A navigation thread makes progress. *)
LEMMA FetchInd ==
    ASSUME Ind, NEW f \in tab.fetches, Fetch(f)
    PROVE  Ind'
<1> DEFINE done == [f EXCEPT !.headers = TRUE]
<1>1. /\ tab \in Tabs /\ tab.fetches \subseteq [gen : Nat, headers : BOOLEAN]
      /\ f \in [gen : Nat, headers : BOOLEAN]
  BY TabFields DEF Ind, GoodTab
<1>2. done \in [gen : Nat, headers : BOOLEAN] /\ done.gen = f.gen /\ f.gen \in Nat
  BY <1>1
<1> HIDE DEF done
<1>3. PICK kind \in {"headers", "complete", "error"}, fs \in SUBSET [gen : Nat, headers : BOOLEAN] :
         /\ tab' = [tab EXCEPT !.fetches = fs]
         /\ mail' = Append(mail, [kind |-> kind, gen |-> f.gen])
         /\ \A g \in tab.fetches : (\E x \in fs : x.gen = g.gen) \/ (f.gen = g.gen /\ kind \in Ends)
         /\ kind = "headers" => \E x \in fs : x.gen = f.gen
  <2>1. CASE /\ Post("headers", f.gen)
             /\ tab' = [tab EXCEPT !.fetches = (@ \ {f}) \cup {done}]
    <3> DEFINE fs == (tab.fetches \ {f}) \cup {done}
    <3>1. fs \in SUBSET [gen : Nat, headers : BOOLEAN]
      BY <1>1, <1>2
    <3>2. \A g \in tab.fetches : \E x \in fs : x.gen = g.gen
      BY <1>2
    <3>3. \E x \in fs : x.gen = f.gen
      BY <1>2
    <3> HIDE DEF fs
    <3>4. tab' = [tab EXCEPT !.fetches = fs] /\ mail' = Append(mail, [kind |-> "headers", gen |-> f.gen])
      BY <2>1 DEF Post, fs
    <3> QED
      BY <3>1, <3>2, <3>3, <3>4
  <2>2. ASSUME NEW kind \in Ends, Post(kind, f.gen), tab' = [tab EXCEPT !.fetches = @ \ {f}]
        PROVE  \E k \in {"headers", "complete", "error"}, fs \in SUBSET [gen : Nat, headers : BOOLEAN] :
                  /\ tab' = [tab EXCEPT !.fetches = fs]
                  /\ mail' = Append(mail, [kind |-> k, gen |-> f.gen])
                  /\ \A g \in tab.fetches : (\E x \in fs : x.gen = g.gen) \/ (f.gen = g.gen /\ k \in Ends)
                  /\ k = "headers" => \E x \in fs : x.gen = f.gen
    <3> DEFINE fs == tab.fetches \ {f}
    <3>1. fs \in SUBSET [gen : Nat, headers : BOOLEAN]
      BY <1>1
    <3>2. \A g \in tab.fetches : g \in fs \/ g = f
      OBVIOUS
    <3> HIDE DEF fs
    <3>3. tab' = [tab EXCEPT !.fetches = fs] /\ mail' = Append(mail, [kind |-> kind, gen |-> f.gen])
      BY <2>2 DEF Post, fs
    <3>4. kind \in {"headers", "complete", "error"} /\ kind # "headers"
      BY DEF Ends
    <3> QED
      BY <3>1, <3>2, <3>3, <3>4
  <2>3. "complete" \in Ends /\ "error" \in Ends
    BY DEF Ends
  <2> QED
    BY <2>1, <2>2, <2>3 DEF Fetch, done
<1>4. /\ tab' \in Tabs /\ tab'.nav = tab.nav /\ tab'.session = tab.session
      /\ tab'.launch = tab.launch /\ tab'.deferred = tab.deferred /\ tab'.fetches = fs
  BY <1>1, <1>3 DEF Tabs
<1>5. GoodTab(tab')
  BY <1>4 DEF Ind, GoodTab, SessionAlone, DocumentInSession, RendererOnTheWay
<1>6. GoodMail(tab', mail')
  <2> DEFINE e == [kind |-> kind, gen |-> f.gen]
  <2>1. e \in Messages /\ e.kind = kind /\ e.gen = f.gen /\ e.kind # "launched"
    BY <1>2 DEF Messages
  <2>2. mail' = Append(mail, e)
    BY <1>3
  <2> HIDE DEF e
  <2>3. \A g \in tab.fetches :
           (\E x \in tab'.fetches : x.gen = g.gen) \/ (e.gen = g.gen /\ e.kind \in Ends)
    BY <1>3, <1>4, <2>1
  <2>4. e.kind = "headers" => \E x \in tab'.fetches : x.gen = e.gen
    BY <1>3, <1>4, <2>1
  <2>5. tab'.launch \in {"ready", "failed"} => tab'.launch = tab.launch \/ e.kind = "launched"
    BY <1>4
  <2>6. GoodMail(tab, mail)
    BY DEF Ind
  <2>7. GoodMail(tab', Append(mail, e))
    BY <1>4, <2>1, <2>3, <2>4, <2>5, <2>6, PostMail
  <2> QED
    BY <2>2, <2>7
<1>7. turn' = turn /\ loads' = loads
  BY DEF Fetch
<1>8. GoodTurn(tab', turn')
  BY <1>4, <1>7 DEF Ind, GoodTurn, Unapplied
<1> QED
  BY <1>5, <1>6, <1>7, <1>8 DEF Ind

(* The launcher thread makes progress. *)
LEMMA LaunchInd ==
    ASSUME Ind, Launch
    PROVE  Ind'
<1>1. PICK result \in {"ready", "failed"} : tab' = [tab EXCEPT !.launch = result]
  BY DEF Launch
<1>2. /\ tab' \in Tabs /\ tab'.nav = tab.nav /\ tab'.session = tab.session
      /\ tab'.launch = result /\ tab'.deferred = tab.deferred /\ tab'.fetches = tab.fetches
  BY <1>1 DEF Ind, GoodTab, Tabs
<1>3. GoodTab(tab')
  <2>1. tab.launch = "running"
    BY DEF Launch
  <2> QED
    BY <1>2, <2>1 DEF Ind, GoodTab, SessionAlone, DocumentInSession, RendererOnTheWay
<1>4. GoodMail(tab', mail')
  <2> DEFINE e == [kind |-> "launched", gen |-> 0]
  <2>1. e \in Messages /\ e.kind = "launched" /\ e.kind # "headers"
    BY DEF Messages
  <2>2. mail' = Append(mail, e)
    BY DEF Launch, Post
  <2> HIDE DEF e
  <2> QED
    BY <1>2, <2>1, <2>2, PostMail DEF Ind
<1>5. turn' = turn /\ loads' = loads
  BY DEF Launch
<1>6. GoodTurn(tab', turn')
  BY <1>2, <1>5 DEF Ind, GoodTurn, Unapplied
<1> QED
  BY <1>3, <1>4, <1>5, <1>6 DEF Ind

(* The renderer or its broker changes the session and adds to its events.  *)
LEMMA SessionStep ==
    ASSUME NEW t, NEW u, GoodTab(t), GoodTurn(t, u), NEW s \in Sessions,
           t.session # NoSession, s.id = t.session.id, s.doc = t.session.doc,
           t.nav.phase \in {"Fetching", "WaitingForRenderer"} =>
              (s.active => t.session.active) /\ (s.painted => t.session.painted),
           NEW more, Elements(s.events) = Elements(t.session.events) \cup more,
           s.exit = "none" => /\ t.session.exit = "none"
                              /\ \A e \in more : e.kind \notin {"crash", "budget"},
           s.painted => \/ t.session.painted
                        \/ \E e \in more : e.kind = "presentation" /\ e.doc = s.doc,
           NEW r, r = [t EXCEPT !.session = s]
    PROVE  GoodTab(r) /\ GoodTurn(r, u) /\ \A m : GoodMail(t, m) => GoodMail(r, m)
<1>1. /\ r \in Tabs /\ r.nav = t.nav /\ r.session = s /\ r.launch = t.launch
      /\ r.deferred = t.deferred /\ r.fetches = t.fetches
  BY DEF GoodTab, Tabs
<1>2. t.session.id # 0 /\ s # NoSession
  BY NoSessionType DEF GoodTab, SessionAlone
<1>3. GoodTab(r)
  BY <1>1, <1>2 DEF GoodTab, SessionAlone, DocumentInSession, RendererOnTheWay
<1>4. Unapplied(r, u) = Unapplied(t, u) \cup more
  BY <1>1 DEF Unapplied
<1>5. ASSUME s.exit = "none"
      PROVE  /\ \A e \in Unapplied(r, u) : e.kind \notin {"crash", "budget"}
             /\ u.sid = s.id => u.exit = "none"
  BY <1>4, <1>5 DEF GoodTurn
<1>6. ASSUME t.nav.phase = "WaitingForFirstPresentation", s.painted
      PROVE  \E e \in Unapplied(r, u) : e.kind = "presentation" /\ e.doc = s.doc
  <2>1. CASE t.session.painted
    BY <1>4, <1>6, <2>1 DEF GoodTurn
  <2>2. CASE ~t.session.painted
    BY <1>4, <1>6, <2>2
  <2> QED
    BY <2>1, <2>2
<1>7. GoodTurn(r, u)
  BY <1>1, <1>5, <1>6 DEF GoodTurn
<1>8. \A m : GoodMail(t, m) => GoodMail(r, m)
  BY <1>1 DEF GoodMail
<1> QED
  BY <1>3, <1>7, <1>8

(* The renderer reports something. *)
LEMMA ReportInd ==
    ASSUME Ind, NEW kind \in {"presentation", "failed", "navigate"}, Report(kind)
    PROVE  Ind'
<1> DEFINE e == [kind |-> kind, doc |-> tab.session.doc]
           s == [tab.session EXCEPT !.events = Append(@, e),
                                    !.painted = @ \/ kind = "presentation",
                                    !.active = kind # "failed"]
<1>1. /\ tab \in Tabs /\ tab.session \in Sessions /\ tab.session.doc \in Nat
      /\ tab.session.events \in Seq(Events) /\ tab.session.painted \in BOOLEAN
  BY TabFields DEF Ind, GoodTab
<1>2. e \in Events /\ e.kind = kind /\ e.doc = tab.session.doc
  BY <1>1 DEF Events
<1>3. tab' = [tab EXCEPT !.session = s]
  BY <1>1 DEF Report, Tabs, Sessions
<1>4. tab.session.active /\ turn' = turn /\ mail' = mail /\ loads' = loads
  BY DEF Report
<1>5. tab.session # NoSession
  BY <1>4 DEF NoSession
<1>6. tab.nav.phase \notin {"Fetching", "WaitingForRenderer"}
  BY <1>4 DEF Ind, GoodTab, DocumentInSession
<1> HIDE DEF e
<1>7. /\ Append(tab.session.events, e) \in Seq(Events)
      /\ Elements(Append(tab.session.events, e)) = Elements(tab.session.events) \cup {e}
  BY <1>1, <1>2, AppendElements
<1>8. /\ s \in Sessions /\ s.id = tab.session.id /\ s.doc = tab.session.doc
      /\ s.exit = tab.session.exit /\ s.events = Append(tab.session.events, e)
      /\ s.painted = (tab.session.painted \/ kind = "presentation")
  <2>1. (tab.session.painted \/ kind = "presentation") \in BOOLEAN /\ (kind # "failed") \in BOOLEAN
    OBVIOUS
  <2> QED
    BY <1>1, <1>7, <2>1 DEF Sessions
<1> HIDE DEF s
<1>9. GoodTab(tab') /\ GoodTurn(tab', turn) /\ GoodMail(tab', mail)
  <2>1. \A x \in {e} : x.kind \notin {"crash", "budget"}
    BY <1>2
  <2>2. s.painted => tab.session.painted \/ \E x \in {e} : x.kind = "presentation" /\ x.doc = s.doc
    BY <1>2, <1>8
  <2>3. GoodTab(tab) /\ GoodTurn(tab, turn) /\ GoodMail(tab, mail)
    BY DEF Ind
  <2> QED
    BY <1>3, <1>5, <1>6, <1>7, <1>8, <2>1, <2>2, <2>3, SessionStep
<1> QED
  BY <1>4, <1>9 DEF Ind

(* The renderer process exits. *)
LEMMA ProcessExitInd ==
    ASSUME Ind, NEW exit \in Exits \ {"none"}, ProcessExit(exit)
    PROVE  Ind'
<1>1. PICK told \in {<<>>, <<[kind |-> exit, doc |-> 0]>>} :
         tab' = [tab EXCEPT !.session.exit = exit, !.session.active = FALSE,
                            !.session.events = @ \o told]
  BY DEF ProcessExit
<1> DEFINE s == [tab.session EXCEPT !.exit = exit, !.active = FALSE,
                                    !.events = @ \o told]
<1>2. /\ tab \in Tabs /\ tab.session \in Sessions
      /\ tab.session.events \in Seq(Events) /\ tab.session.painted \in BOOLEAN
  BY TabFields DEF Ind, GoodTab
<1>3. told \in Seq(Events)
  <2>1. [kind |-> exit, doc |-> 0] \in Events
    BY DEF Events
  <2> DEFINE e == [kind |-> exit, doc |-> 0]
  <2>2. e \in Events
    BY <2>1
  <2>3. told = <<>> \/ told = <<e>>
    BY <1>1
  <2> HIDE DEF e
  <2>4. <<e>> \in Seq(Events)
    BY <2>2
  <2>5. <<>> \in Seq(Events)
    BY EmptySeq
  <2> QED
    BY <2>3, <2>4, <2>5
<1>4. tab' = [tab EXCEPT !.session = s]
  BY <1>1, <1>2 DEF Tabs, Sessions
<1>5. tab.session # NoSession /\ turn' = turn /\ mail' = mail /\ loads' = loads
  BY DEF ProcessExit
<1>6. /\ tab.session.events \o told \in Seq(Events)
      /\ Elements(tab.session.events \o told) = Elements(tab.session.events) \cup Elements(told)
  BY <1>2, <1>3, ConcatElements
<1>7. /\ s \in Sessions /\ s.id = tab.session.id /\ s.doc = tab.session.doc
      /\ s.exit # "none" /\ s.events = tab.session.events \o told
      /\ s.painted = tab.session.painted /\ s.active = FALSE
  BY <1>2, <1>6 DEF Sessions
<1> HIDE DEF s
<1>8. GoodTab(tab') /\ GoodTurn(tab', turn) /\ GoodMail(tab', mail)
  <2>1. GoodTab(tab) /\ GoodTurn(tab, turn) /\ GoodMail(tab, mail)
    BY DEF Ind
  <2> QED
    BY <1>4, <1>5, <1>6, <1>7, <2>1, SessionStep
<1> QED
  BY <1>5, <1>8 DEF Ind

(* Every step keeps the invariant. *)
LEMMA NextInd ==
    Ind /\ [Next]_vars => Ind'
<1> SUFFICES ASSUME Ind, [Next]_vars PROVE Ind'
  OBVIOUS
<1>1. CASE Next
  BY <1>1, NavigateInd, HandleMailInd, DeadlineInd, PollInd, HandleEventInd, EndTurnInd,
     FetchInd, LaunchInd, ReportInd, ProcessExitInd DEF Next, UI, FetchThread, Renderer
<1>2. CASE UNCHANGED vars
  BY <1>2 DEF Ind, vars
<1> QED
  BY <1>1, <1>2

(* The strengthened invariant holds of every state Navigation reaches. *)
LEMMA Invariance ==
    Spec => []Ind
  BY InitInd, NextInd, PTL DEF Spec

(***************************************************************************)
(* What it says of the tab.                                                *)
(***************************************************************************)

(* Whatever a tab waits for is under way, for any number of navigations,   *)
(* messages and renderer events: a document that counts as submitted is in *)
(* the session the tab owns, a load has its renderer or a launch whose     *)
(* message is to come, a pending network has its thread or its last        *)
(* message, and no navigation gets more than two renderers.                *)
THEOREM NavigationSound ==
    Spec => []NavigationInvariant
<1>1. Ind => NavigationInvariant
  <2> SUFFICES ASSUME Ind PROVE NavigationInvariant
    OBVIOUS
  <2>1. tab \in Tabs
    BY DEF Ind, GoodTab
  <2>2. TypeOK
    <3>1. mail \in Seq(Messages) /\ turn \in Turns /\ loads \in 0 .. MaxLoads
      BY DEF Ind, GoodMail, GoodTurn
    <3>2. \A f \in tab.fetches : f.gen \in Nat /\ f.headers \in BOOLEAN
      BY <2>1, TabFields
    <3> QED
      BY <2>1, <3>1, <3>2, TabFields DEF TypeOK, Messages, Turns
  <2>3. DocumentHasSession
    BY DEF Ind, GoodTab, DocumentInSession, DocumentHasSession
  <2>4. WaitingHasLaunch
    BY DEF Ind, GoodTab, GoodMail, RendererOnTheWay, WaitingHasLaunch
  <2>5. NetworkIsRunning
    BY DEF Ind, GoodMail, EndFollows, Ends, NetworkIsRunning
  <2>6. OneRetry
    BY <2>1, TabFields DEF Ind, GoodTab, AttemptsCounted, OneRetry, MaxRetries
  <2> QED
    BY <2>2, <2>3, <2>4, <2>5, <2>6 DEF NavigationInvariant
<1> QED
  BY <1>1, Invariance, PTL

(* The page a tab keeps for its renderer is the one this navigation        *)
(* fetched, and is kept exactly from accept_page to the first presentation *)
(* or the failure, however late the messages of older navigations are.     *)
THEOREM PageCorrect ==
    Spec => []PageIsCurrent
<1>1. Ind => PageIsCurrent
  BY DEF Ind, GoodTab, PageOfNavigation, PageIsCurrent
<1> QED
  BY <1>1, Invariance, PTL

(* A turn ends in EndTurn only, and changes the transaction there only by  *)
(* the exit of the session that the turn and the tab share.                *)
LEMMA TurnEnds ==
    ASSUME Ind, [Next]_vars, InTurn, ~InTurn', tab'.nav # tab.nav
    PROVE  /\ tab.session.id = turn.sid /\ turn.events = <<>>
           /\ tab.deferred = <<>> /\ tab.session.events = <<>> /\ turn.exit # "none"
<1>1. turn' # turn
  BY DEF InTurn
<1>2. ~HandleEvent
  <2> SUFFICES ASSUME HandleEvent PROVE FALSE
    OBVIOUS
  <2>1. turn \in Turns /\ turn.sid # 0
    BY DEF Ind, GoodTurn, InTurn
  <2>2. turn'.sid = turn.sid
    BY <2>1 DEF HandleEvent, Turns
  <2> QED
    BY <2>1, <2>2 DEF InTurn, NoTurn
<1>3. ~Navigate /\ ~HandleMail /\ ~Deadline /\ ~Poll
  BY DEF InTurn, Navigate, HandleMail, Deadline, Poll
<1>4. ~FetchThread /\ ~Launch /\ ~Renderer
  BY <1>1 DEF FetchThread, Fetch, Launch, Renderer, Report, ProcessExit
<1>5. EndTurn
  BY <1>1, <1>2, <1>3, <1>4 DEF Next, UI, vars
<1> QED
  BY <1>5 DEF EndTurn

(* The renderer's output is consumed before the exit that follows it: a    *)
(* document painted before its renderer exited is never tried again as if  *)
(* it had not been, wherever turns yield and however early poll_renderer   *)
(* learns of the exit.                                                     *)
THEOREM PaintFirst ==
    Spec => PaintCountsBeforeExit
<1>1. ASSUME Ind, [Next]_vars, InTurn, ~InTurn', tab'.nav # tab.nav,
             tab.nav.phase = "WaitingForFirstPresentation"
      PROVE  ~tab.session.painted
  <2>1. Unapplied(tab, turn) = {}
    BY <1>1, TurnEnds, EmptyElements DEF Unapplied
  <2> QED
    BY <1>1, <2>1 DEF Ind, GoodTurn
<1>2. Ind /\ [Next]_vars =>
         [(InTurn /\ ~InTurn' /\ tab.nav.phase = "WaitingForFirstPresentation"
             /\ tab'.nav # tab.nav) => ~tab.session.painted]_vars
  BY <1>1
<1> QED
  BY <1>2, Invariance, PTL DEF Spec, PaintCountsBeforeExit

(* An exit that a turn applies to a navigation that is fetching is the     *)
(* exit of the renderer this navigation started: one that was replaced     *)
(* during the turn cannot fail its successor.                              *)
THEOREM OldExitHarmless ==
    Spec => OldExitIsIgnored
<1>1. ASSUME Ind, [Next]_vars, InTurn, ~InTurn', tab'.nav # tab.nav
      PROVE  tab.session.exit # "none"
  BY <1>1, TurnEnds DEF Ind, GoodTurn
<1>2. Ind /\ [Next]_vars =>
         [(InTurn /\ ~InTurn' /\ tab.nav.phase = "Fetching" /\ tab'.nav # tab.nav)
            => tab.session.exit # "none"]_vars
  BY <1>1
<1> QED
  BY <1>2, Invariance, PTL DEF Spec, OldExitIsIgnored
=============================================================================
