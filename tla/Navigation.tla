----------------------------- MODULE Navigation -----------------------------
(***************************************************************************)
(* How one tab loads a document: the NavigationTransaction of the tab, the *)
(* renderer session it owns or is launching, the navigation threads that   *)
(* fetch for it, and the turns in which the UI thread consumes a session's *)
(* events.                                                                 *)
(*                                                                         *)
(* The UI thread handles one window message at a time (mail), or one turn  *)
(* of renderer events (turn), or the user's request.  Navigation threads,  *)
(* launcher threads and the renderer run between its steps, and in a turn  *)
(* also between two events.  A renderer may stop answering for ever; that  *)
(* is what the first-presentation deadline is for.                         *)
(*                                                                         *)
(* A generation stands for the document and the page of that navigation.   *)
(***************************************************************************)
EXTENDS Naturals, Sequences

CONSTANTS MaxLoads,    \* bound: navigations a user or a page begins
          MaxOutput,   \* bound: events a session holds
          MaxMail,     \* bound: messages waiting in the window's queue
          TurnEvents   \* EVENTS_PER_TURN

ASSUME NavigationAssumption ==
    MaxLoads \in Nat /\ MaxOutput \in Nat /\ MaxMail \in Nat \ {0}
    /\ TurnEvents \in Nat \ {0}

MaxRetries == 1        \* MAX_FIRST_PRESENTATION_RETRIES
MaxRecoveries == 1     \* MAX_POST_PRESENTATION_RECOVERIES

VARIABLES
    tab,    \* what the UI thread keeps for the tab, see Tabs
    turn,   \* the turn of renderer events that is being consumed
    mail,   \* messages posted to the tab's window
    loads   \* navigations begun so far

vars == <<tab, turn, mail, loads>>

Phases == {"Fetching", "WaitingForRenderer", "WaitingForFirstPresentation",
           "Presented", "Failed"}

(* NavigationTransaction; 0 is None.  armed: first_presentation_deadline   *)
(* is set.  attempts counts the submissions of this generation and is not  *)
(* in the code.                                                            *)
Transactions ==
    [gen : Nat \ {0}, phase : Phases, pending : BOOLEAN, page : Nat, doc : Nat,
     armed : BOOLEAN, retries : 0 .. MaxRetries, recoveries : 0 .. MaxRecoveries,
     attempts : Nat]

Exits == {"none", "crash", "budget"}

(* RendererEvent; an Exited event has the exit as its kind and no document. *)
Events == [kind : {"presentation", "failed", "navigate"} \cup Exits, doc : Nat]

(* RendererSession; id 0 is no session.  A turn outlives its session but    *)
(* no turn lasts until the next session is installed, so one id is enough  *)
(* to tell them apart.  active: the broker has not retired the document;   *)
(* painted: it has sent a presentation of it.                              *)
Sessions == [id : 0 .. 1, doc : Nat, active : BOOLEAN, painted : BOOLEAN,
             exit : Exits, events : Seq(Events)]

NoSession == [id |-> 0, doc |-> 0, active |-> FALSE, painted |-> FALSE,
              exit |-> "none", events |-> <<>>]

(* launch: renderer_launch_receiver, and what its channel holds.  fetches: *)
(* navigation threads that have not ended.                                 *)
Tabs == [nav : Transactions, session : Sessions,
         launch : {"none", "running", "ready", "failed"},
         deferred : Seq(Events),
         fetches : SUBSET [gen : Nat, headers : BOOLEAN]]

NoTurn == [sid |-> 0, events |-> <<>>, exit |-> "none"]

TypeOK ==
    /\ tab.nav \in Transactions
    /\ tab.session \in Sessions
    /\ tab.launch \in {"none", "running", "ready", "failed"}
    /\ tab.deferred \in Seq(Events)
    /\ \A f \in tab.fetches : f.gen \in Nat /\ f.headers \in BOOLEAN
    /\ turn \in [sid : 0 .. 1, events : Seq(Events), exit : Exits]
    /\ mail \in Seq([kind : {"headers", "complete", "error", "launched"}, gen : Nat])
    /\ loads \in 0 .. MaxLoads

(***************************************************************************)
(* NavigationTransaction.                                                  *)
(***************************************************************************)

(* begin_fetch *)
BeginFetch(n) ==
    [n EXCEPT !.gen = @ + 1, !.phase = "Fetching", !.pending = TRUE, !.page = 0,
              !.doc = 0, !.armed = FALSE, !.retries = 0, !.attempts = 0]

(* begin and begin_recovery *)
BeginNavigation(n) == BeginFetch([n EXCEPT !.recoveries = 0])

CanRecover(n) == n.phase = "Presented" /\ n.recoveries < MaxRecoveries

BeginRecovery(n) == BeginFetch([n EXCEPT !.recoveries = @ + 1])

(* Mutant of AcceptsPage: the generation is not compared. *)
AcceptsAnyPage(n, gen) == n.phase = "Fetching"

(* accept_page; a fetched page has its body as a stream. *)
AcceptsPage(n, gen) == gen = n.gen /\ n.phase = "Fetching"

AcceptPage(n, gen) ==
    [n EXCEPT !.pending = TRUE, !.page = gen, !.phase = "WaitingForRenderer"]

(* Mutant of NetworkComplete: the deadline of a submitted document is not  *)
(* started.                                                                *)
NetworkCompleteUnarmed(n) == [n EXCEPT !.pending = FALSE]

(* network_complete: the deadline starts when the body is complete. *)
NetworkComplete(n) ==
    [n EXCEPT !.pending = FALSE,
              !.armed = @ \/ n.phase = "WaitingForFirstPresentation"]

DocumentSubmitted(n) ==
    [n EXCEPT !.doc = n.gen, !.phase = "WaitingForFirstPresentation",
              !.armed = ~n.pending, !.attempts = @ + 1]

OwnsDocument(n, doc) == doc # 0 /\ n.doc = doc

MarkPresented(n) ==
    IF n.phase # "WaitingForFirstPresentation" THEN n
    ELSE [n EXCEPT !.phase = "Presented", !.page = 0, !.armed = FALSE]

(* Mutant of FailRendererAttempt: the failed document stays active. *)
FailAttemptKeepingDocument(n) ==
    IF n.retries < MaxRetries
    THEN [n EXCEPT !.armed = FALSE, !.retries = @ + 1, !.phase = "WaitingForRenderer"]
    ELSE [n EXCEPT !.doc = 0, !.armed = FALSE, !.pending = FALSE,
                   !.phase = "Failed", !.page = 0]

FailRendererAttempt(n) ==
    IF n.retries < MaxRetries
    THEN [n EXCEPT !.doc = 0, !.armed = FALSE, !.retries = @ + 1,
                   !.phase = "WaitingForRenderer"]
    ELSE [n EXCEPT !.doc = 0, !.armed = FALSE, !.pending = FALSE,
                   !.phase = "Failed", !.page = 0]

Fail(n) == [n EXCEPT !.pending = FALSE, !.phase = "Failed", !.page = 0, !.doc = 0,
                     !.armed = FALSE]

Invalidate(n) == [Fail(n) EXCEPT !.gen = @ + 1, !.retries = 0, !.attempts = 0]

IsLoading(n) ==
    n.pending \/ n.phase \in {"Fetching", "WaitingForRenderer",
                              "WaitingForFirstPresentation"}

(***************************************************************************)
(* What the UI thread does to the tab.  Where the outcome depends on the   *)
(* system (a thread that cannot be started, a session that has gone) the   *)
(* operator is the set of tabs that may result.                            *)
(***************************************************************************)

(* BrowserTab::mark_crashed *)
MarkCrashed(t) ==
    [t EXCEPT !.nav = Invalidate(@), !.session = NoSession, !.launch = "none",
              !.deferred = <<>>]

(* replace_renderer_for_navigation *)
ReplaceRenderer(t) ==
    [t EXCEPT !.session = NoSession, !.launch = "none", !.deferred = <<>>]

(* start_renderer_for *)
StartRenderer(t) ==
    IF t.launch # "none" \/ t.session # NoSession THEN {t}
    ELSE {[t EXCEPT !.launch = "running"], MarkCrashed(t)}

(* submit_pending_renderer_document: the document may be refused (its      *)
(* policy, its size or its state), and a broker that has exited takes no   *)
(* document.                                                               *)
SubmitDocument(t) ==
    IF t.nav.phase # "WaitingForRenderer" THEN {t}
    ELSE IF t.session = NoSession THEN StartRenderer(t)
    ELSE {[t EXCEPT !.nav = DocumentSubmitted(@), !.session.doc = t.nav.gen,
                    !.session.active = t.session.exit = "none"],
          [t EXCEPT !.nav = Fail(@)]}
         \cup IF t.session.exit = "none" THEN {}
              ELSE {MarkCrashed([t EXCEPT !.nav = Fail(@)])}

(* begin_navigation_request_for_tab, from the generation on: the renderer  *)
(* is replaced and the navigation thread started, if it can be.            *)
StartNavigation(t, n) ==
    LET replaced == StartRenderer(ReplaceRenderer([t EXCEPT !.nav = n]))
    IN  {[r EXCEPT !.fetches = @ \cup {[gen |-> n.gen, headers |-> FALSE]}] :
            r \in replaced}
        \cup {[r EXCEPT !.nav = Fail(@)] : r \in replaced}

(* A failed attempt: a Retry gets a new renderer; otherwise the failure is *)
(* contained.                                                              *)
NextAttempt(t) ==
    LET n == FailRendererAttempt(t.nav)
        failed == ReplaceRenderer([t EXCEPT !.nav = n])
    IN  IF n.phase = "WaitingForRenderer" THEN StartRenderer(failed)
        ELSE {MarkCrashed(failed)}

(* finish_renderer_exit: a page that hung after it was presented is        *)
(* reloaded once; one that never was is tried again; otherwise the tab has *)
(* crashed.                                                                *)
FinishExit(t, exit) ==
    IF exit = "budget" /\ ~IsLoading(t.nav) /\ CanRecover(t.nav)
    THEN {IF IsLoading(r.nav) THEN r ELSE MarkCrashed(r) :
            r \in StartNavigation(t, BeginRecovery(t.nav))}
    ELSE IF t.nav.phase = "WaitingForFirstPresentation" THEN NextAttempt(t)
    ELSE {MarkCrashed(t)}

(* finish_renderer_launch: a launched renderer that cannot be monitored is *)
(* given up like one that failed to launch.                                *)
FinishLaunch(t) ==
    LET given == [t EXCEPT !.launch = "none"]
        session == [NoSession EXCEPT !.id = 1]
    IN  CASE t.launch = "ready" ->
                {MarkCrashed(given)} \cup
                SubmitDocument([given EXCEPT !.session = session])
          [] t.launch = "failed" -> {MarkCrashed(given)}
          [] OTHER -> {t}

(* finish_navigation *)
FinishNavigation(t, m) ==
    CASE m.kind = "headers" /\ AcceptsPage(t.nav, m.gen) ->
            SubmitDocument([t EXCEPT !.nav = AcceptPage(@, m.gen)])
      [] m.kind = "complete" /\ m.gen = t.nav.gen ->
            {[t EXCEPT !.nav = NetworkComplete(@)]}
      [] m.kind = "error" /\ m.gen = t.nav.gen ->
            {IF t.nav.doc # 0 THEN MarkCrashed(t) ELSE [t EXCEPT !.nav = Fail(@)]}
      [] OTHER -> {t}

(***************************************************************************)
(* The UI thread.                                                          *)
(***************************************************************************)

(* A new tab: its home page waits for the renderer that is launching. *)
Init ==
    /\ tab = [nav |-> [gen |-> 1, phase |-> "WaitingForRenderer", pending |-> FALSE,
                       page |-> 1, doc |-> 0, armed |-> FALSE, retries |-> 0,
                       recoveries |-> 0, attempts |-> 0],
              session |-> NoSession, launch |-> "running",
              deferred |-> <<>>, fetches |-> {}]
    /\ turn = NoTurn /\ mail = <<>> /\ loads = 0

(* The user enters an address, reloads or traverses the history. *)
Navigate ==
    /\ turn = NoTurn /\ loads < MaxLoads
    /\ tab' \in StartNavigation(tab, BeginNavigation(tab.nav))
    /\ loads' = loads + 1
    /\ UNCHANGED <<turn, mail>>

(* WM_APP_PAGE_LOADED and WM_APP_RENDERER_LAUNCHED *)
HandleMail ==
    /\ turn = NoTurn /\ mail # <<>>
    /\ mail' = Tail(mail)
    /\ tab' \in IF Head(mail).kind = "launched" THEN FinishLaunch(tab)
                ELSE FinishNavigation(tab, Head(mail))
    /\ UNCHANGED <<turn, loads>>

(* enforce_first_presentation_deadline, once the time has come. *)
Deadline ==
    /\ turn = NoTurn
    /\ tab.nav.phase = "WaitingForFirstPresentation" /\ tab.nav.armed
    /\ tab' \in NextAttempt(tab)
    /\ UNCHANGED <<turn, mail, loads>>

(* Mutant of Collect: the events of a renderer that has exited are dropped. *)
CollectDroppingOutput ==
    /\ tab.deferred # <<>> \/ tab.session.events # <<>> \/ tab.session.exit # "none"
    /\ turn' = [sid |-> tab.session.id,
                events |-> IF tab.session.exit # "none" THEN <<>>
                           ELSE tab.deferred \o tab.session.events,
                exit |-> tab.session.exit]
    /\ tab' = [tab EXCEPT !.deferred = <<>>, !.session.events = <<>>]

(* A storage update or a broadcast delivery that waits for the document is *)
(* handed over first; the broker that has exited takes none, and the page  *)
(* is contained with the output it still holds.                            *)
PumpFails ==
    /\ tab.session.exit # "none" /\ tab.nav.doc # 0
    /\ tab' = MarkCrashed(tab) /\ turn' = NoTurn

(* The events deferred by the last turn, or a batch from the session; the  *)
(* exit in the snapshot counts only when the session holds no more events. *)
Collect ==
    /\ tab.deferred # <<>> \/ tab.session.events # <<>> \/ tab.session.exit # "none"
    /\ LET held == tab.session.events
           size == IF Len(held) < TurnEvents THEN Len(held) ELSE TurnEvents
           taken == IF tab.deferred = <<>> THEN size ELSE 0
           rest == SubSeq(held, taken + 1, Len(held))
       IN  /\ turn' = [sid |-> tab.session.id,
                       events |-> tab.deferred \o SubSeq(held, 1, taken),
                       exit |-> IF rest = <<>> THEN tab.session.exit ELSE "none"]
           /\ tab' = [tab EXCEPT !.deferred = <<>>, !.session.events = rest]

(* poll_renderer, up to its loop. *)
Poll ==
    /\ turn = NoTurn /\ tab.session # NoSession
    /\ PumpFails \/ Collect
    /\ UNCHANGED <<mail, loads>>

(* activate_renderer_presentation: the page may also ask for a navigation  *)
(* (not modelled apart from the navigate event), or be rejected.           *)
(* DocumentFailed is contained; NavigationRequested begins a navigation    *)
(* unless the page has asked too often.                                    *)
EventOutcomes(t, e, mayLoad) ==
    IF ~OwnsDocument(t.nav, e.doc) THEN {t}
    ELSE CASE e.kind = "presentation" ->
                 {[t EXCEPT !.nav = MarkPresented(@)], MarkCrashed(t)}
           [] e.kind = "failed" -> {MarkCrashed(t)}
           [] e.kind = "navigate" ->
                 {t} \cup IF mayLoad THEN StartNavigation(t, BeginNavigation(t.nav)) ELSE {}
           [] OTHER -> {t}

(* defer_renderer_event_turn: only the session they came from keeps them. *)
DeferEvents(t, sid, events) ==
    IF t.session.id = sid THEN [t EXCEPT !.deferred = events] ELSE t

(* One pass of the loop.  After any event but the last the turn may yield, *)
(* and then an exit it has seen does not count.                            *)
HandleEvent ==
    /\ turn.events # <<>>
    /\ LET e == Head(turn.events)
           rest == Tail(turn.events)
       IN  \E t \in EventOutcomes(tab, e, loads < MaxLoads), yield \in BOOLEAN :
              /\ yield => rest # <<>>
              /\ tab' = IF yield THEN DeferEvents(t, turn.sid, rest) ELSE t
              /\ turn' = IF yield THEN [turn EXCEPT !.events = <<>>, !.exit = "none"]
                         ELSE [turn EXCEPT !.events = rest,
                                 !.exit = IF e.kind \in Exits THEN e.kind ELSE @]
              /\ loads' = IF e.kind = "navigate" /\ t # tab THEN loads + 1 ELSE loads
    /\ UNCHANGED mail

(* Mutant of EndTurn: the session is not compared with the turn's. *)
EndTurnAnySession ==
    /\ turn # NoTurn /\ turn.events = <<>>
    /\ turn' = NoTurn
    /\ tab' \in IF /\ tab.deferred = <<>> /\ tab.session.events = <<>>
                   /\ turn.exit # "none"
                THEN FinishExit(tab, turn.exit)
                ELSE {tab}
    /\ UNCHANGED <<mail, loads>>

(* The end of poll_renderer: the exit is applied unless the session has    *)
(* been replaced in this turn or has more to say.                          *)
EndTurn ==
    /\ turn # NoTurn /\ turn.events = <<>>
    /\ turn' = NoTurn
    /\ tab' \in IF /\ tab.session.id = turn.sid
                   /\ tab.deferred = <<>> /\ tab.session.events = <<>>
                   /\ turn.exit # "none"
                THEN FinishExit(tab, turn.exit)
                ELSE {tab}
    /\ UNCHANGED <<mail, loads>>

UI == Navigate \/ HandleMail \/ Deadline \/ Poll \/ HandleEvent \/ EndTurn

(***************************************************************************)
(* The other threads and the renderer.                                     *)
(***************************************************************************)

Post(kind, gen) ==
    Len(mail) < MaxMail /\ mail' = Append(mail, [kind |-> kind, gen |-> gen])

(* The navigation thread posts the response's headers, then its end; both  *)
(* may fail.                                                               *)
Fetch(f) ==
    /\ \/ /\ ~f.headers
          /\ Post("headers", f.gen)
          /\ tab' = [tab EXCEPT !.fetches = (@ \ {f}) \cup {[f EXCEPT !.headers = TRUE]}]
       \/ /\ f.headers
          /\ Post("complete", f.gen)
          /\ tab' = [tab EXCEPT !.fetches = @ \ {f}]
       \/ /\ Post("error", f.gen)
          /\ tab' = [tab EXCEPT !.fetches = @ \ {f}]
    /\ UNCHANGED <<turn, loads>>

(* The launcher thread; one whose receiver is gone posts nothing. *)
Launch ==
    /\ tab.launch = "running"
    /\ \E result \in {"ready", "failed"} : tab' = [tab EXCEPT !.launch = result]
    /\ Post("launched", 0)
    /\ UNCHANGED <<turn, loads>>

(* The broker passes on what the document's renderer reports. *)
Report(kind) ==
    /\ tab.session.active /\ Len(tab.session.events) < MaxOutput
    /\ tab' = [tab EXCEPT
                 !.session.events = Append(@, [kind |-> kind, doc |-> tab.session.doc]),
                 !.session.painted = @ \/ kind = "presentation",
                 !.session.active = kind # "failed"]
    /\ UNCHANGED <<turn, mail, loads>>

(* Broker::finish_exit: the snapshot has the exit, and the queue the event *)
(* unless it is full.                                                      *)
ProcessExit(exit) ==
    /\ tab.session # NoSession /\ tab.session.exit = "none"
    /\ \E told \in {<<>>, <<[kind |-> exit, doc |-> 0]>>} :
          tab' = [tab EXCEPT !.session.exit = exit, !.session.active = FALSE,
                             !.session.events = @ \o told]
    /\ UNCHANGED <<turn, mail, loads>>

Renderer == \/ \E kind \in {"presentation", "failed", "navigate"} : Report(kind)
            \/ \E exit \in Exits \ {"none"} : ProcessExit(exit)

FetchThread == \E f \in tab.fetches : Fetch(f)

Next == UI \/ FetchThread \/ Launch \/ Renderer

Spec == Init /\ [][Next]_vars

(* The UI thread takes the messages of its window before the timer that    *)
(* polls renderers, so a chatty renderer cannot keep them waiting          *)
(* (HandleMail), and every tick of that timer looks at the deadline.       *)
(* Navigation threads (WinHTTP has timeouts) and the launcher (a handshake *)
(* timeout) end.  Nothing is assumed of the renderer or of the user.       *)
Fairness == /\ SF_vars(HandleMail) /\ WF_vars(Poll) /\ WF_vars(HandleEvent)
            /\ WF_vars(EndTurn) /\ SF_vars(Deadline)
            /\ WF_vars(FetchThread) /\ WF_vars(Launch)

FairSpec == Spec /\ Fairness

(***************************************************************************)
(* Properties.                                                             *)
(***************************************************************************)

(* The page the transaction holds was fetched for this very navigation,    *)
(* however late the results of older ones arrive, and it is kept exactly   *)
(* as long as a renderer may still need it: through the retry, and not     *)
(* after the first presentation or a failure.                              *)
PageIsCurrent ==
    LET n == tab.nav
    IN  /\ n.page # 0 => n.page = n.gen
        /\ n.page # 0 <=> n.phase \in {"WaitingForRenderer", "WaitingForFirstPresentation"}

(* The document the tab owns is in the session the tab owns: no retry,     *)
(* replacement or crash leaves the transaction with a document whose       *)
(* renderer is gone or holds another one, so its events, its storage       *)
(* updates and its input always have an addressee.                         *)
DocumentHasSession ==
    tab.nav.doc # 0 => tab.session # NoSession /\ tab.session.doc = tab.nav.doc

(* A load has a renderer or one on the way, and a launch that has ended    *)
(* has its message in the window's queue: the page cannot wait for ever    *)
(* because a launch was lost, taken by the message of an older launch or   *)
(* cancelled by a replacement.                                             *)
WaitingHasLaunch ==
    /\ tab.nav.phase = "WaitingForRenderer" => tab.launch # "none"
    /\ tab.nav.phase = "Fetching" => tab.launch # "none" \/ tab.session # NoSession
    /\ tab.launch \in {"ready", "failed"} =>
          \E i \in DOMAIN mail : mail[i].kind = "launched"

(* While the transaction waits for the network, the navigation thread of   *)
(* this generation is running or its last message is in the queue.         *)
NetworkIsRunning ==
    tab.nav.pending =>
        \/ \E f \in tab.fetches : f.gen = tab.nav.gen
        \/ \E i \in DOMAIN mail : mail[i].gen = tab.nav.gen
                                  /\ mail[i].kind \in {"complete", "error"}

(* One navigation gets at most two renderers, whatever mix of crashes and  *)
(* deadlines ends them.                                                    *)
OneRetry == tab.nav.attempts <= 1 + MaxRetries

InTurn == turn # NoTurn

(* Renderer output is consumed before the exit that follows it: a document *)
(* that was painted before its renderer exited is not rendered again as if *)
(* it never had been, although turns yield and the exit is known early.    *)
(* (PumpFails may contain the page before; it is not rendered again then.) *)
PaintCountsBeforeExit ==
    [][(InTurn /\ ~InTurn' /\ tab.nav.phase = "WaitingForFirstPresentation"
          /\ tab'.nav # tab.nav) => ~tab.session.painted]_vars

(* The exit of a session the tab replaced during the turn cannot fail the  *)
(* navigation that replaced it.                                            *)
OldExitIsIgnored ==
    [][(InTurn /\ ~InTurn' /\ tab.nav.phase = "Fetching" /\ tab'.nav # tab.nav)
          => tab.session.exit # "none"]_vars

(* Loading ends, in a presented page or a failure, although renderers hang *)
(* or crash, launches and fetches fail and results arrive late: the        *)
(* deadline of the transaction is armed on every path that waits for a     *)
(* renderer.  (The user cannot postpone it for ever, for loads are bounded.) *)
LoadingEnds == []<>~IsLoading(tab.nav)

(* Whatever the transaction waits for is under way: the document has its   *)
(* session, a load has its launch, a pending network its thread; and the   *)
(* attempts are bounded.                                                   *)
NavigationInvariant ==
    TypeOK /\ DocumentHasSession /\ WaitingHasLaunch /\ NetworkIsRunning /\ OneRetry
=============================================================================
