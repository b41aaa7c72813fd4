-------------------------- MODULE StateLaneProofs --------------------------
(***************************************************************************)
(* Proofs about StateLane for any number of documents, deltas and cookie   *)
(* mutations and for any capacity of the writer and the pipe.              *)
(*                                                                         *)
(* The order of the queues is stated with a set of pairs (Ordered), what   *)
(* occurs in them with their ranges.  Inner holds until the session ends.  *)
(***************************************************************************)
EXTENDS StateLane, SequenceProofs

Messages == Signal \cup Delivery
Reports == Report \cup Receipt

-----------------------------------------------------------------------------
(* Every two entries of s, the earlier one first, are related. *)
Ordered(s, R) == \A i, j \in DOMAIN s : i < j => <<s[i], s[j]>> \in R

(* At most one entry of s is in S. *)
Once(s, S) == \A i, j \in DOMAIN s : s[i] \in S /\ s[j] \in S => i = j

Begins(m) == m.op \in {"begin", "stream"}

(* Two messages of the command pipe in their order: nothing of a document  *)
(* follows its cancellation, a document begins after everything of its     *)
(* predecessors, and the deltas of one document have growing versions.     *)
PipePairs ==
    {p \in Messages \X Messages :
        /\ p[1].op = "cancel" => DocOf(p[2]) # p[1].doc
        /\ Begins(p[2]) => DocOf(p[1]) < p[2].doc
        /\ p[1].op = "update" /\ p[2].op = "update" /\ p[1].update.kind = "sync"
           /\ p[2].update.kind = "sync" /\ p[1].update.doc = p[2].update.doc
             => p[1].update.ver < p[2].update.ver}

(* Two commands of the lifecycle channel: documents are loaded in order,   *)
(* and one that is cancelled is not mentioned again.                       *)
CommandPairs ==
    {p \in Command \X Command :
        /\ p[1].doc <= p[2].doc
        /\ p[1].doc = p[2].doc => p[1].op # "cancel" /\ p[2].op = "cancel"}

(* Two updates that wait in the lane: a delta was alone when it came. *)
PendingPairs == {p \in Update \X Update : p[2].kind # "sync"}

(* The documents that the broker or the renderer has something of. *)
Reached ==
    ({active, child.incoming, child.running} \ {None})
    \cup {Head(outgoing).update.doc : i \in DOMAIN outgoing}
    \cup {DocOf(m) : m \in Range(toChild)} \cup {DocOf(m) : m \in Range(toBroker)}
    \cup {u.doc : u \in Range(event)} \cup {e.doc : e \in Range(events)}

Bounded ==
    /\ ui.doc \in {None, ui.loads}
    /\ \A d \in Reached : d <= ui.loads
    /\ \A c \in Range(lifecycle) : c.doc <= ui.loads
    /\ \A u \in Range(pending) : u.doc <= ui.loads

(* A document that waits to be loaded is new to the broker. *)
Fresh ==
    /\ Ordered(lifecycle, CommandPairs)
    /\ \A c \in Range(lifecycle) :
          IF c.op = "cancel" THEN c.doc # ui.doc ELSE \A d \in Reached : d < c.doc

(* A document whose cancellation has been sent is gone for good. *)
Cancelled ==
    \A m \in Range(toChild) : m.op = "cancel" =>
        /\ active # m.doc /\ ui.doc # m.doc
        /\ outgoing # <<>> => Head(outgoing).update.doc # m.doc
        /\ \A c \in Range(lifecycle) : c.doc # m.doc

ChildShape ==
    /\ child.incoming # None => child.running = None /\ child.jar = 0
    /\ child.failed # None => child.incoming = None /\ child.running = None
    /\ \A m \in Range(toChild) : Begins(m) =>
          /\ child.incoming # None => child.incoming < m.doc
          /\ child.running # None => child.running < m.doc

(* A document that reported its failure does not run or begin again. *)
FailedIsOver ==
    \A r \in Range(toBroker) : r.op = "failed" =>
        /\ child.incoming # r.doc /\ child.running # r.doc
        /\ \A m \in Range(toChild) : Begins(m) => m.doc # r.doc

(* The document the UI owns is the broker's once the child may run it. *)
OwnedIsActive ==
    ui.doc # None /\ (\/ ui.doc \in {child.incoming, child.running}
                      \/ \E m \in Range(toChild) : Begins(m) /\ m.doc = ui.doc)
        => active = ui.doc

UpdatesFor(d) == {m \in Delivery : m.update.doc = d}
ReceiptsFrom(d) == {r \in Receipt : r.update.doc = d}

(* An update of the active document past the broker is the transfer that   *)
(* the broker holds, and is in one place.                                  *)
Solicited ==
    LET Is(u) == outgoing = <<[update |-> u, sent |-> TRUE]>>
    IN  active # None =>
        /\ Once(toChild, UpdatesFor(active)) /\ Once(toBroker, ReceiptsFrom(active))
        /\ \A m \in Range(toChild) \cap UpdatesFor(active) :
              /\ Is(m.update) /\ Range(toBroker) \cap ReceiptsFrom(active) = {}
              /\ \A u \in Range(event) : u.doc # active
        /\ \A r \in Range(toBroker) \cap ReceiptsFrom(active) :
              /\ Is(r.update) /\ \A u \in Range(event) : u.doc # active
        /\ \A u \in Range(event) : u.doc = active => Is(u)

Newer(u) ==
    /\ u.ver > 0 /\ u.ver <= Len(admitted[u.doc])
    /\ \A v \in Range(consumed[u.doc]) : v < u.ver

(* A delta is newer than what its document has applied and than what is    *)
(* ahead of it.                                                            *)
Versions ==
    /\ \A d \in Docs : Len(admitted[d]) <= MaxSyncs
    /\ \A d \in Docs : \A v \in Range(consumed[d]) : v <= Len(admitted[d])
    /\ \A m \in Range(toChild) :
          m.op = "update" /\ m.update.kind = "sync" => Newer(m.update)
    /\ \A o \in Range(outgoing) : o.update.kind = "sync" /\ ~o.sent =>
          /\ Newer(o.update)
          /\ \A m \in Range(toChild) :
                m.op = "update" /\ m.update.kind = "sync" /\ m.update.doc = o.update.doc
                  => m.update.ver < o.update.ver
    /\ Ordered(pending, PendingPairs)
    /\ \A u \in Range(pending) : u.kind = "sync" =>
          /\ outgoing = <<>> /\ Newer(u)
          /\ \A m \in Range(toChild) :
                m.op = "update" /\ m.update.kind = "sync" /\ m.update.doc = u.doc
                  => m.update.ver < u.ver

CookieReports(d) == {r \in Report : r.op = "cookie" /\ r.doc = d}

(* The mutations of the UI's document: those it knows of and those that    *)
(* are under way.                                                          *)
Mutations ==
    ui.cookies + Len(Selection(toBroker, CookieReports(ui.doc)))
    + Len(Selection(events, CookieReports(ui.doc)))

(* A document that has mutated its cookies is the last one that began. *)
Counted ==
    ui.doc # None /\ Mutations > 0 =>
        /\ Mutations <= child.cookies /\ child.incoming = None
        /\ \A m \in Range(toChild) : ~Begins(m)
        /\ \A c \in Range(lifecycle) : c.op = "cancel"

CookieOf(u, d) == u.kind = "cookie" /\ u.doc = d

(* The newest correction of the running document waits, is under way, or   *)
(* has been applied.                                                       *)
Newest ==
    /\ \A u \in Range(pending) : CookieOf(u, ui.doc) => ui.cookies > 0 /\ u.ver = ui.cookies
    /\ \A o \in Range(outgoing) : CookieOf(o.update, ui.doc) => ui.cookies > 0
    /\ ui.doc # None /\ child.running = ui.doc =>
         /\ (\A u \in Range(pending) : ~CookieOf(u, ui.doc)) =>
              IF \E o \in Range(outgoing) : CookieOf(o.update, ui.doc)
              THEN Head(outgoing).update.ver = ui.cookies
              ELSE child.jar = ui.cookies
         /\ \A o \in Range(outgoing) :
              CookieOf(o.update, ui.doc) /\ o.sent
                /\ (\A m \in Range(toChild) : m \notin UpdatesFor(ui.doc))
              => child.jar = o.update.ver

(* The corrections have versions that the bounds allow. *)
CookieVersions ==
    /\ \A u \in Range(pending) : u.kind = "cookie" => u.ver <= MaxCookies
    /\ \A o \in Range(outgoing) : o.update.kind = "cookie" => o.update.ver <= MaxCookies
    /\ \A m \in Range(toChild) :
          m.op = "update" /\ m.update.kind = "cookie" => m.update.ver <= MaxCookies

Inner ==
    /\ Bounded /\ Fresh /\ Cancelled /\ ChildShape /\ FailedIsOver /\ OwnedIsActive
    /\ Solicited /\ Versions /\ Counted /\ Newest /\ CookieVersions

Ind ==
    /\ TypeOK /\ ReceiptsAreSolicited /\ SlotMatchesTransfer /\ DeltasInOrder
    /\ Ordered(toChild, PipePairs)
    /\ Alive => Inner

-----------------------------------------------------------------------------
(* The members of a queue as it changes. *)
LEMMA RangeType ==
    ASSUME NEW A, NEW s \in Seq(A)
    PROVE  /\ Range(s) \in SUBSET A
           /\ \A i \in 1 .. Len(s) : s[i] \in Range(s)
           /\ \A x \in Range(s) : \E i \in 1 .. Len(s) : s[i] = x
<1>1. DOMAIN s = 1 .. Len(s) /\ \A i \in 1 .. Len(s) : s[i] \in A
  BY LenProperties, ElementOfSeq
<1> QED
  BY <1>1 DEF Range

(* Nothing is in the empty sequence. *)
LEMMA RangeEmpty == Range(<<>>) = {}
  BY DEF Range

(* An appended entry is added to the entries. *)
LEMMA RangeAppend ==
    ASSUME NEW A, NEW s \in Seq(A), NEW x \in A
    PROVE  Range(Append(s, x)) = Range(s) \cup {x}
<1> DEFINE t == Append(s, x)
           n == Len(s)
<1>1. /\ t \in Seq(A) /\ Len(t) = n + 1 /\ n \in Nat /\ t[n + 1] = x
      /\ \A i \in 1 .. n : t[i] = s[i]
  BY AppendProperties, LenProperties
<1> HIDE DEF t
<1>2. DOMAIN s = 1 .. n /\ DOMAIN t = 1 .. (n + 1)
  BY <1>1, LenProperties
<1> HIDE DEF n
<1>3. Range(t) = Range(s) \cup {x}
  <2>1. \A i \in DOMAIN t : t[i] \in Range(s) \cup {x}
    BY <1>1, <1>2 DEF Range
  <2>2. \A i \in DOMAIN s : s[i] \in Range(t)
    <3> TAKE i \in DOMAIN s
    <3>1. i \in DOMAIN t /\ t[i] = s[i]
      BY <1>1, <1>2
    <3> QED
      BY <3>1 DEF Range
  <2>3. x \in Range(t)
    <3>1. n + 1 \in DOMAIN t
      BY <1>1, <1>2
    <3> QED
      BY <1>1, <3>1 DEF Range
  <2> QED
    BY <2>1, <2>2, <2>3 DEF Range
<1> QED
  BY <1>3 DEF t

(* The entries are the head and those of the tail. *)
LEMMA RangeTail ==
    ASSUME NEW A, NEW s \in Seq(A), s # <<>>
    PROVE  /\ Range(s) = {Head(s)} \cup Range(Tail(s))
           /\ Head(s) \in A /\ Tail(s) \in Seq(A)
<1> DEFINE t == Tail(s)
           h == Head(s)
           n == Len(s)
<1>1. /\ h \in A /\ t \in Seq(A) /\ Len(t) = n - 1
      /\ \A i \in 1 .. Len(t) : t[i] = s[i + 1]
  BY HeadTailProperties
<1>2. h = s[1] /\ n \in Nat \ {0}
  BY EmptySeq, LenProperties
<1>3. DOMAIN s = 1 .. n /\ DOMAIN t = 1 .. n - 1
  BY <1>1, LenProperties
<1> HIDE DEF t, h, n
<1>4. Range(s) = {h} \cup Range(t)
  <2>1. \A i \in DOMAIN s : s[i] \in {h} \cup Range(t)
    <3> TAKE i \in DOMAIN s
    <3>1. CASE i = 1
      BY <1>2, <3>1
    <3>2. CASE i # 1
      <4>1. i - 1 \in DOMAIN t /\ t[i - 1] = s[i]
        BY <1>1, <1>2, <1>3, <3>2
      <4> QED
        BY <4>1 DEF Range
    <3> QED
      BY <3>1, <3>2
  <2>2. \A i \in DOMAIN t : t[i] \in Range(s)
    <3> TAKE i \in DOMAIN t
    <3>1. i + 1 \in DOMAIN s /\ t[i] = s[i + 1]
      BY <1>1, <1>2, <1>3
    <3> QED
      BY <3>1 DEF Range
  <2>3. h \in Range(s)
    <3>1. 1 \in DOMAIN s
      BY <1>2, <1>3
    <3> QED
      BY <1>2, <3>1 DEF Range
  <2> QED
    BY <2>1, <2>2, <2>3 DEF Range
<1> QED
  BY <1>1, <1>4 DEF t, h

(* The entries of a selection are those in the set. *)
LEMMA RangeSelection ==
    ASSUME NEW A, NEW s \in Seq(A), NEW S
    PROVE  Range(Selection(s, S)) = Range(s) \cap S
<1> DEFINE t == Selection(s, S)
<1>1. PICK h \in [1 .. Len(t) -> 1 .. Len(s)] :
          /\ \A i \in 1 .. Len(t) : s[h[i]] \in S /\ s[h[i]] = t[i]
          /\ \A n \in 1 .. Len(s) : s[n] \in S => \E i \in 1 .. Len(t) : h[i] = n
  BY SelectionEmbeds
<1>2. t \in Seq(A \cap S)
  BY SelectionType
<1>3. DOMAIN s = 1 .. Len(s) /\ DOMAIN t = 1 .. Len(t)
  BY <1>2, LenProperties
<1> HIDE DEF t
<1>4. \A x \in Range(t) : x \in Range(s) \cap S
  <2> TAKE x \in Range(t)
  <2>1. PICK i \in 1 .. Len(t) : t[i] = x
    BY <1>3 DEF Range
  <2>2. h[i] \in 1 .. Len(s) /\ s[h[i]] = x /\ x \in S
    BY <1>1, <2>1
  <2> QED
    BY <1>3, <2>2 DEF Range
<1>5. \A x \in Range(s) \cap S : x \in Range(t)
  <2> TAKE x \in Range(s) \cap S
  <2>1. PICK n \in 1 .. Len(s) : s[n] = x
    BY <1>3 DEF Range
  <2>2. PICK i \in 1 .. Len(t) : h[i] = n
    BY <1>1, <2>1
  <2>3. t[i] = x
    BY <1>1, <2>1, <2>2
  <2> QED
    BY <1>3, <2>3 DEF Range
<1> QED
  BY <1>4, <1>5 DEF t

(* Two messages of one command. *)
LEMMA AppendTwo ==
    ASSUME NEW A, NEW s \in Seq(A), NEW x \in A, NEW y \in A
    PROVE  s \o <<x, y>> = Append(Append(s, x), y) /\ s \o <<x>> = Append(s, x)
  OBVIOUS

(* The empty sequence is ordered, whatever the order. *)
LEMMA OrderedEmpty ==
    ASSUME NEW R
    PROVE  Ordered(<<>>, R)
  BY DEF Ordered

(* A sequence stays ordered when every entry may stand before the new one. *)
LEMMA OrderedAppend ==
    ASSUME NEW A, NEW s \in Seq(A), NEW x \in A, NEW R, Ordered(s, R),
           \A y \in Range(s) : <<y, x>> \in R
    PROVE  Ordered(Append(s, x), R)
<1> DEFINE t == Append(s, x)
           n == Len(s)
<1>1. /\ t \in Seq(A) /\ Len(t) = n + 1 /\ n \in Nat /\ t[n + 1] = x
      /\ \A i \in 1 .. n : t[i] = s[i]
  BY AppendProperties, LenProperties
<1> HIDE DEF t
<1>2. DOMAIN s = 1 .. n /\ DOMAIN t = 1 .. (n + 1)
  BY <1>1, LenProperties
<1>3. \A i \in 1 .. n : s[i] \in Range(s)
  BY RangeType
<1> HIDE DEF n
<1>4. Ordered(t, R)
  <2> SUFFICES ASSUME NEW i \in 1 .. (n + 1), NEW j \in 1 .. (n + 1), i < j
               PROVE  <<t[i], t[j]>> \in R
    BY <1>2 DEF Ordered
  <2>1. i \in 1 .. n /\ t[i] = s[i]
    BY <1>1
  <2>2. CASE j = n + 1
    BY <1>1, <1>3, <2>1, <2>2
  <2>3. CASE j # n + 1
    <3>1. j \in 1 .. n /\ t[j] = s[j]
      BY <1>1, <2>3
    <3> QED
      BY <1>2, <2>1, <3>1 DEF Ordered
  <2> QED
    BY <2>2, <2>3
<1> QED
  BY <1>4 DEF t

(* Taking the head keeps the order, and the head was allowed before the    *)
(* rest.                                                                   *)
LEMMA OrderedTail ==
    ASSUME NEW A, NEW s \in Seq(A), s # <<>>, NEW R, Ordered(s, R)
    PROVE  /\ Ordered(Tail(s), R)
           /\ \A y \in Range(Tail(s)) : <<Head(s), y>> \in R
<1> DEFINE t == Tail(s)
           h == Head(s)
           n == Len(s)
<1>1. /\ h \in A /\ t \in Seq(A) /\ Len(t) = n - 1
      /\ \A i \in 1 .. Len(t) : t[i] = s[i + 1]
  BY HeadTailProperties
<1>2. h = s[1] /\ n \in Nat \ {0}
  BY EmptySeq, LenProperties
<1>3. DOMAIN s = 1 .. n /\ DOMAIN t = 1 .. n - 1
  BY <1>1, LenProperties
<1> HIDE DEF t, h, n
<1>4. Ordered(t, R)
  <2> SUFFICES ASSUME NEW i \in 1 .. n - 1, NEW j \in 1 .. n - 1, i < j
               PROVE  <<t[i], t[j]>> \in R
    BY <1>3 DEF Ordered
  <2>1. /\ t[i] = s[i + 1] /\ t[j] = s[j + 1]
        /\ i + 1 \in 1 .. n /\ j + 1 \in 1 .. n /\ i + 1 < j + 1
    BY <1>1, <1>2
  <2> QED
    BY <1>3, <2>1 DEF Ordered
<1>5. \A y \in Range(t) : <<h, y>> \in R
  <2> TAKE y \in Range(t)
  <2>1. PICK j \in 1 .. n - 1 : t[j] = y
    BY <1>3 DEF Range
  <2>2. y = s[j + 1] /\ 1 \in 1 .. n /\ j + 1 \in 1 .. n /\ 1 < j + 1
    BY <1>1, <1>2, <2>1
  <2> QED
    BY <1>2, <1>3, <2>2 DEF Ordered
<1> QED
  BY <1>4, <1>5 DEF t, h

(* A selection keeps the order. *)
LEMMA OrderedSelection ==
    ASSUME NEW A, NEW s \in Seq(A), NEW S, NEW R, Ordered(s, R)
    PROVE  Ordered(Selection(s, S), R)
<1> DEFINE t == Selection(s, S)
<1>1. PICK h \in [1 .. Len(t) -> 1 .. Len(s)] :
          /\ \A i \in 1 .. Len(t) : s[h[i]] \in S /\ s[h[i]] = t[i]
          /\ \A i, j \in 1 .. Len(t) : i < j => h[i] < h[j]
  BY SelectionEmbeds
<1>2. t \in Seq(A \cap S)
  BY SelectionType
<1>3. DOMAIN s = 1 .. Len(s) /\ DOMAIN t = 1 .. Len(t)
  BY <1>2, LenProperties
<1> HIDE DEF t
<1>4. Ordered(t, R)
  <2> SUFFICES ASSUME NEW i \in 1 .. Len(t), NEW j \in 1 .. Len(t), i < j
               PROVE  <<t[i], t[j]>> \in R
    BY <1>3 DEF Ordered
  <2>1. h[i] \in DOMAIN s /\ h[j] \in DOMAIN s /\ h[i] < h[j]
    BY <1>1, <1>3
  <2>2. t[i] = s[h[i]] /\ t[j] = s[h[j]]
    BY <1>1
  <2> QED
    BY <2>1, <2>2 DEF Ordered
<1> QED
  BY <1>4 DEF t

(* The empty sequence has no entry of a set twice. *)
LEMMA OnceEmpty ==
    ASSUME NEW S
    PROVE  Once(<<>>, S)
  BY DEF Once

(* None of S is in the queue. *)
LEMMA OnceNone ==
    ASSUME NEW s, NEW S, Range(s) \cap S = {}
    PROVE  Once(s, S)
  BY DEF Once, Range

(* An entry may be appended when none of its set is there. *)
LEMMA OnceAppend ==
    ASSUME NEW A, NEW s \in Seq(A), NEW x \in A, NEW S, Once(s, S),
           x \in S => Range(s) \cap S = {}
    PROVE  Once(Append(s, x), S)
<1> DEFINE t == Append(s, x)
           n == Len(s)
<1>1. /\ t \in Seq(A) /\ Len(t) = n + 1 /\ n \in Nat /\ t[n + 1] = x
      /\ \A i \in 1 .. n : t[i] = s[i]
  BY AppendProperties, LenProperties
<1> HIDE DEF t
<1>2. DOMAIN s = 1 .. n /\ DOMAIN t = 1 .. (n + 1)
  BY <1>1, LenProperties
<1>3. \A i \in 1 .. n : s[i] \in Range(s)
  BY RangeType
<1> HIDE DEF n
<1>4. Once(t, S)
  <2> SUFFICES ASSUME NEW i \in 1 .. (n + 1), NEW j \in 1 .. (n + 1),
                      t[i] \in S, t[j] \in S
               PROVE  i = j
    BY <1>2 DEF Once
  <2>1. CASE x \in S
    <3>1. \A k \in 1 .. n : t[k] \notin S
      BY <1>1, <1>3, <2>1
    <3> QED
      BY <1>1, <3>1
  <2>2. CASE x \notin S
    <3>1. i \in 1 .. n /\ j \in 1 .. n
      BY <1>1, <2>2
    <3> QED
      BY <1>1, <1>2, <3>1 DEF Once
  <2> QED
    BY <2>1, <2>2
<1> QED
  BY <1>4 DEF t

(* Taking the head leaves no entry of its set behind. *)
LEMMA OnceTail ==
    ASSUME NEW A, NEW s \in Seq(A), s # <<>>, NEW S, Once(s, S)
    PROVE  /\ Once(Tail(s), S)
           /\ Head(s) \in S => Range(Tail(s)) \cap S = {}
<1> DEFINE t == Tail(s)
           h == Head(s)
           n == Len(s)
<1>1. /\ h \in A /\ t \in Seq(A) /\ Len(t) = n - 1
      /\ \A i \in 1 .. Len(t) : t[i] = s[i + 1]
  BY HeadTailProperties
<1>2. h = s[1] /\ n \in Nat \ {0}
  BY EmptySeq, LenProperties
<1>3. DOMAIN s = 1 .. n /\ DOMAIN t = 1 .. n - 1
  BY <1>1, LenProperties
<1> HIDE DEF t, h, n
<1>4. Once(t, S)
  <2> SUFFICES ASSUME NEW i \in 1 .. n - 1, NEW j \in 1 .. n - 1,
                      t[i] \in S, t[j] \in S
               PROVE  i = j
    BY <1>3 DEF Once
  <2>1. t[i] = s[i + 1] /\ t[j] = s[j + 1] /\ i + 1 \in 1 .. n /\ j + 1 \in 1 .. n
    BY <1>1, <1>2
  <2>2. i + 1 = j + 1
    BY <1>3, <2>1 DEF Once
  <2> QED
    BY <2>2
<1>5. h \in S => Range(t) \cap S = {}
  <2> SUFFICES ASSUME h \in S, NEW y \in Range(t), y \in S
               PROVE  FALSE
    OBVIOUS
  <2>1. PICK j \in 1 .. n - 1 : t[j] = y
    BY <1>3 DEF Range
  <2>2. y = s[j + 1] /\ 1 \in 1 .. n /\ j + 1 \in 1 .. n
    BY <1>1, <1>2, <2>1
  <2>3. 1 = j + 1
    BY <1>2, <1>3, <2>2 DEF Once
  <2> QED
    BY <2>3
<1> QED
  BY <1>4, <1>5 DEF t, h

-----------------------------------------------------------------------------
(* What the messages are about. *)
LEMMA DocsNat ==
    /\ Docs \subseteq Nat /\ None \notin Docs /\ \A d \in Docs : d # None
    /\ \A d, e \in Docs : d < e => d # e
<1>1. MaxDocs \in Nat /\ None \notin Docs
  BY LaneAssumption
<1> QED
  BY <1>1 DEF Docs

(* A message is an update or a signal, of one document. *)
LEMMA MessageFacts ==
    ASSUME NEW m \in Messages
    PROVE  /\ DocOf(m) \in Docs
           /\ m.op = "update" => m \in Delivery /\ m.update \in Update /\ DocOf(m) = m.update.doc
           /\ m.op # "update" => m \in Signal /\ m.doc \in Docs /\ DocOf(m) = m.doc
           /\ m \in Delivery <=> m.op = "update"
<1>1. CASE m \in Signal
  BY <1>1 DEF Signal, Delivery, DocOf
<1>2. CASE m \in Delivery
  <2>1. m.op = "update" /\ m.update \in Update /\ DocOf(m) = m.update.doc
    BY <1>2 DEF Delivery, DocOf
  <2>2. m.update.doc \in Docs
    BY <2>1 DEF Update
  <2> QED
    BY <1>2, <2>1, <2>2
<1> QED
  BY <1>1, <1>2 DEF Messages

(* A report of the child is a receipt for an update or tells of a          *)
(* document.                                                               *)
LEMMA ReportFacts ==
    ASSUME NEW r \in Reports
    PROVE  /\ DocOf(r) \in Docs
           /\ r.op = "applied" => r \in Receipt /\ r.update \in Update /\ DocOf(r) = r.update.doc
           /\ r.op # "applied" => r \in Report /\ r.doc \in Docs /\ DocOf(r) = r.doc
           /\ r \in Receipt <=> r.op = "applied"
<1>1. CASE r \in Report
  BY <1>1 DEF Report, Receipt, DocOf
<1>2. CASE r \in Receipt
  <2>1. r.op = "applied" /\ r.update \in Update /\ DocOf(r) = r.update.doc
    BY <1>2 DEF Receipt, DocOf
  <2>2. r.update.doc \in Docs
    BY <2>1 DEF Update
  <2> QED
    BY <1>2, <2>1, <2>2
<1> QED
  BY <1>1, <1>2 DEF Reports

(* The fields of an update. *)
LEMMA UpdateFacts ==
    ASSUME NEW u \in Update
    PROVE  u.doc \in Docs /\ u.ver \in Nat /\ u.kind \in {"sync", "cookie"} /\ u.foreign \in BOOLEAN
  BY DEF Update

Transfers == [update : Update, sent : BOOLEAN]

(* The queues and what they hold. *)
LEMMA Types ==
    ASSUME TypeOK
    PROVE  /\ lifecycle \in Seq(Command) /\ pending \in Seq(Update)
           /\ toChild \in Seq(Messages) /\ toBroker \in Seq(Reports)
           /\ events \in Seq(Report) /\ event \in Seq(Update)
           /\ outgoing \in Seq(Transfers)
           /\ ui.doc \in Docs \cup {None} /\ ui.loads \in Nat /\ ui.cookies \in Nat
           /\ active \in Docs \cup {None}
           /\ child.incoming \in Docs \cup {None} /\ child.running \in Docs \cup {None}
           /\ child.failed \in Docs \cup {None}
           /\ child.cookies \in Nat /\ child.jar \in Nat
           /\ queued \in Nat
           /\ \A d \in Docs : admitted[d] \in Seq(1 .. MaxSyncs) /\ consumed[d] \in Seq(1 .. MaxSyncs)
<1>1. /\ ui \in [doc : Docs \cup {None}, loads : 0 .. MaxDocs, cookies : 0 .. MaxCookies]
      /\ child \in [incoming : Docs \cup {None}, streaming : Docs \cup {None},
                  running : Docs \cup {None}, failed : Docs \cup {None},
                  cookies : 0 .. MaxCookies, jar : 0 .. MaxCookies]
      /\ MaxDocs \in Nat /\ MaxCookies \in Nat
  BY LaneAssumption DEF TypeOK
<1>2. queued \in Nat
  <2>1. queued \in 0 .. Len(toChild) /\ toChild \in Seq(Signal \cup Delivery)
    BY DEF TypeOK
  <2>2. Len(toChild) \in Nat
    BY <2>1, LenProperties
  <2> QED
    BY <2>1, <2>2
<1>3. \A d \in Docs : admitted[d] \in Seq(1 .. MaxSyncs) /\ consumed[d] \in Seq(1 .. MaxSyncs)
  BY DEF TypeOK
<1>4. /\ lifecycle \in Seq(Command) /\ pending \in Seq(Update)
      /\ toChild \in Seq(Messages) /\ toBroker \in Seq(Reports)
      /\ events \in Seq(Report) /\ event \in Seq(Update)
      /\ outgoing \in Seq(Transfers) /\ active \in Docs \cup {None}
  BY DEF TypeOK, Messages, Reports, Transfers
<1> QED
  BY <1>1, <1>2, <1>3, <1>4

(* What the queues hold, member by member. *)
LEMMA Members ==
    ASSUME TypeOK
    PROVE  /\ Range(lifecycle) \in SUBSET Command /\ Range(pending) \in SUBSET Update
           /\ Range(toChild) \in SUBSET Messages /\ Range(toBroker) \in SUBSET Reports
           /\ Range(events) \in SUBSET Report /\ Range(event) \in SUBSET Update
           /\ Range(outgoing) \in SUBSET Transfers
  BY Types, RangeType

(* The transfer under way. *)
LEMMA OutgoingIs ==
    ASSUME NEW s \in Seq(Transfers), Len(s) <= 1, s # <<>>
    PROVE  /\ Head(s) \in Transfers /\ s = <<Head(s)>> /\ Range(s) = {Head(s)}
           /\ Head(s).update \in Update /\ Head(s).sent \in BOOLEAN
           /\ {Head(s).update.doc : i \in DOMAIN s} = {Head(s).update.doc}
<1>0. Len(s) \in Nat \ {0} /\ Head(s) \in Transfers
  BY EmptySeq, HeadTailProperties
<1>1. Len(s) = 1
  <2> DEFINE n == Len(s)
  <2>1. n \in Nat \ {0} /\ n <= 1
    BY <1>0
  <2> HIDE DEF n
  <2>2. n = 1
    BY <2>1
  <2> QED
    BY <2>2 DEF n
<1>2. Head(s) \in Transfers /\ s = <<Head(s)>> /\ DOMAIN s = {1} /\ s[1] = Head(s)
  BY <1>1
<1>3. Range(s) = {Head(s)}
  BY <1>2 DEF Range
<1>4. Head(s).update \in Update /\ Head(s).sent \in BOOLEAN
  BY <1>2 DEF Transfers
<1> QED
  BY <1>2, <1>3, <1>4

-----------------------------------------------------------------------------
(* The type invariant, part by part. *)
UiType == ui \in [doc : Docs \cup {None}, loads : 0 .. MaxDocs, cookies : 0 .. MaxCookies]

LaneType == pending \in Seq(Update) /\ inFlight \in BOOLEAN

BrokerType ==
    /\ stage \in {"lifecycle", "state", "messages", "streams"}
    /\ active \in Docs \cup {None}
    /\ outgoing \in Seq(Transfers) /\ Len(outgoing) <= 1
    /\ body \in Docs \cup {None}

PipeType == toChild \in Seq(Messages) /\ queued \in 0 .. Len(toChild)

ChildType ==
    child \in [incoming : Docs \cup {None}, streaming : Docs \cup {None},
               running : Docs \cup {None}, failed : Docs \cup {None},
               cookies : 0 .. MaxCookies, jar : 0 .. MaxCookies]

HistoryType == admitted \in [Docs -> Seq(1 .. MaxSyncs)] /\ consumed \in [Docs -> Seq(1 .. MaxSyncs)]

ExitType == exit \in {"none", "replaced", "no runtime", "refused", "broker"}

(* The parts of the type invariant. *)
LEMMA TypeParts ==
    ASSUME TypeOK
    PROVE  /\ UiType /\ LaneType /\ BrokerType /\ PipeType /\ ChildType /\ HistoryType /\ ExitType
           /\ lifecycle \in Seq(Command) /\ toBroker \in Seq(Reports) /\ events \in Seq(Report)
           /\ event \in Seq(Update) /\ Len(event) <= 1
<1>1. UiType /\ ChildType
  BY Zenon DEF TypeOK, UiType, ChildType
<1>2. LaneType /\ HistoryType /\ ExitType
  BY Zenon DEF TypeOK, LaneType, HistoryType, ExitType
<1>3. BrokerType /\ PipeType
  BY Zenon DEF TypeOK, BrokerType, PipeType, Messages, Transfers
<1>4. /\ lifecycle \in Seq(Command) /\ toBroker \in Seq(Reports) /\ events \in Seq(Report)
      /\ event \in Seq(Update) /\ Len(event) <= 1
  BY Zenon DEF TypeOK, Reports
<1> QED
  BY <1>1, <1>2, <1>3, <1>4

(* The type invariant from its parts. *)
LEMMA TypeFrom ==
    ASSUME UiType, LaneType, BrokerType, PipeType, ChildType, HistoryType, ExitType,
           lifecycle \in Seq(Command), toBroker \in Seq(Reports), events \in Seq(Report),
           event \in Seq(Update), Len(event) <= 1
    PROVE  TypeOK
  BY Zenon DEF TypeOK, UiType, LaneType, BrokerType, PipeType, ChildType, HistoryType,
               ExitType, Messages, Transfers, Reports

(* The type invariant after a step from its parts. *)
LEMMA TypeNext ==
    ASSUME UiType', LaneType', BrokerType', PipeType', ChildType', HistoryType', ExitType',
           lifecycle' \in Seq(Command), toBroker' \in Seq(Reports), events' \in Seq(Report),
           event' \in Seq(Update), Len(event') <= 1
    PROVE  TypeOK'
  BY Zenon DEF TypeOK, UiType, LaneType, BrokerType, PipeType, ChildType, HistoryType,
               ExitType, Messages, Transfers, Reports

(* Variables that do not change keep their types. *)
LEMMA TypeKept ==
    /\ UiType /\ ui' = ui => UiType'
    /\ LaneType /\ lane' = lane => LaneType'
    /\ BrokerType /\ broker' = broker => BrokerType'
    /\ PipeType /\ pipe' = pipe => PipeType'
    /\ ChildType /\ child' = child => ChildType'
    /\ HistoryType /\ history' = history => HistoryType'
    /\ ExitType /\ exit' = exit => ExitType'
<1>1. UiType /\ ui' = ui => UiType'
  BY DEF UiType
<1>2. LaneType /\ lane' = lane => LaneType'
  BY DEF LaneType, lane
<1>3. BrokerType /\ broker' = broker => BrokerType'
  BY DEF BrokerType, broker
<1>4. PipeType /\ pipe' = pipe => PipeType'
  BY DEF PipeType, pipe
<1>5. ChildType /\ child' = child => ChildType'
  BY DEF ChildType
<1>6. HistoryType /\ history' = history => HistoryType'
  BY DEF HistoryType, history
<1>7. ExitType /\ exit' = exit => ExitType'
  BY DEF ExitType
<1> QED
  BY <1>1, <1>2, <1>3, <1>4, <1>5, <1>6, <1>7

-----------------------------------------------------------------------------
(* The invariant holds at the start. *)
LEMMA InitInd == Init => Ind
<1> SUFFICES ASSUME Init PROVE Ind
  OBVIOUS
<1>1. TypeOK
  <2>1. /\ 0 \in 0 .. MaxDocs /\ 0 \in 0 .. MaxCookies
    BY LaneAssumption
  <2>2. UiType /\ ChildType
    BY <2>1 DEF Init, UiType, ChildType
  <2>3. LaneType
    <3>1. pending = <<>> /\ inFlight = FALSE /\ <<>> \in Seq(Update)
      BY EmptySeq DEF Init
    <3> QED
      BY <3>1, Zenon DEF LaneType
  <2>a. BrokerType
    <3>1. outgoing = <<>> /\ <<>> \in Seq(Transfers) /\ Len(<<>>) = 0
      BY EmptySeq DEF Init
    <3> QED
      BY <3>1 DEF Init, BrokerType
  <2>4. PipeType /\ HistoryType /\ ExitType
    BY DEF Init, PipeType, HistoryType, ExitType
  <2>5. /\ lifecycle \in Seq(Command) /\ toBroker \in Seq(Reports) /\ events \in Seq(Report)
        /\ event \in Seq(Update) /\ Len(event) <= 1
    BY DEF Init
  <2> QED
    BY <2>2, <2>3, <2>a, <2>4, <2>5, TypeFrom
<1>2. ReceiptsAreSolicited /\ SlotMatchesTransfer /\ DeltasInOrder
  BY DEF Init, ReceiptsAreSolicited, SlotMatchesTransfer, DeltasInOrder
<1>3. Ordered(toChild, PipePairs) /\ Ordered(lifecycle, CommandPairs)
      /\ Ordered(pending, PendingPairs)
  BY OrderedEmpty DEF Init
<1>4. /\ Range(toChild) = {} /\ Range(lifecycle) = {} /\ Range(pending) = {}
      /\ Range(toBroker) = {} /\ Range(events) = {} /\ Range(event) = {}
      /\ Range(outgoing) = {} /\ DOMAIN outgoing = {}
  BY RangeEmpty DEF Init
<1>5. Reached = {}
  BY <1>4 DEF Reached, Init
<1>6. Bounded /\ Fresh /\ Cancelled
  BY <1>3, <1>4, <1>5 DEF Init, Bounded, Fresh, Cancelled
<1>7. ChildShape /\ FailedIsOver /\ OwnedIsActive
  BY <1>4 DEF Init, ChildShape, FailedIsOver, OwnedIsActive
<1>8. Solicited /\ Counted /\ CookieVersions /\ Newest
  BY <1>4 DEF Init, Solicited, Counted, CookieVersions, Newest
<1>9. Versions
  <2>1. \A d \in Docs : Range(consumed[d]) = {}
    BY RangeEmpty DEF Init
  <2>2. \A d \in Docs : Len(admitted[d]) <= MaxSyncs
    <3>1. \A d \in Docs : admitted[d] = <<>>
      BY DEF Init
    <3>2. Len(<<>>) = 0 /\ MaxSyncs \in Nat
      BY LaneAssumption, EmptySeq
    <3> QED
      BY <3>1, <3>2
  <2> QED
    BY <1>3, <1>4, <2>1, <2>2 DEF Versions
<1> QED
  BY <1>1, <1>2, <1>3, <1>6, <1>7, <1>8, <1>9 DEF Ind, Inner

(* The invariant, opened and closed. *)
LEMMA IndOpen ==
    ASSUME Ind, Alive
    PROVE  /\ TypeOK /\ ReceiptsAreSolicited /\ SlotMatchesTransfer /\ DeltasInOrder
           /\ Ordered(toChild, PipePairs)
           /\ Bounded /\ Fresh /\ Cancelled /\ ChildShape /\ FailedIsOver /\ OwnedIsActive
           /\ Solicited /\ Versions /\ Counted /\ Newest /\ CookieVersions
  BY DEF Ind, Inner

(* The invariant after a step from its parts. *)
LEMMA IndNext ==
    ASSUME TypeOK', ReceiptsAreSolicited', SlotMatchesTransfer', DeltasInOrder',
           Ordered(toChild', PipePairs),
           Alive' => /\ Bounded' /\ Fresh' /\ Cancelled' /\ ChildShape' /\ FailedIsOver'
                     /\ OwnedIsActive' /\ Solicited' /\ Versions' /\ Counted' /\ Newest'
                     /\ CookieVersions'
    PROVE  Ind'
  BY DEF Ind, Inner

(* Which commands may wait behind each other in the lifecycle channel. *)
LEMMA CommandPairIs ==
    ASSUME NEW a \in Command, NEW b \in Command
    PROVE  <<a, b>> \in CommandPairs <=>
             /\ a.doc <= b.doc
             /\ a.doc = b.doc => a.op # "cancel" /\ b.op = "cancel"
  BY DEF CommandPairs

(* Which updates may wait behind each other in the lane: of deltas there   *)
(* is one.                                                                 *)
LEMMA PendingPairIs ==
    ASSUME NEW a \in Update, NEW b \in Update
    PROVE  <<a, b>> \in PendingPairs <=> b.kind # "sync"
  BY DEF PendingPairs

(* Which messages may follow each other down the pipe: nothing of a        *)
(* document follows its cancellation, documents begin in order, and deltas *)
(* grow.                                                                   *)
LEMMA PipePairIs ==
    ASSUME NEW a \in Messages, NEW b \in Messages
    PROVE  <<a, b>> \in PipePairs <=>
             /\ a.op = "cancel" => DocOf(b) # a.doc
             /\ Begins(b) => DocOf(a) < b.doc
             /\ a.op = "update" /\ b.op = "update" /\ a.update.kind = "sync"
                /\ b.update.kind = "sync" /\ a.update.doc = b.update.doc
                  => a.update.ver < b.update.ver
  BY DEF PipePairs

(* What a step leaves alone. *)
LEMMA SameReached ==
    ASSUME active' = active, child'.incoming = child.incoming, child'.running = child.running,
           outgoing' = outgoing, toChild' = toChild, toBroker' = toBroker, event' = event,
           events' = events
    PROVE  Reached' = Reached
  BY DEF Reached

(* Every document in the invariant is a number. *)
LEMMA DocNumbers ==
    ASSUME TypeOK
    PROVE  /\ Reached \subseteq Docs
           /\ \A c \in Range(lifecycle) : c.doc \in Docs
           /\ \A u \in Range(pending) : u.doc \in Docs
           /\ ui.loads \in Nat
<1>1. /\ \A m \in Range(toChild) : DocOf(m) \in Docs
      /\ \A r \in Range(toBroker) : DocOf(r) \in Docs
      /\ \A u \in Range(event) : u.doc \in Docs
  BY Members, MessageFacts, ReportFacts, UpdateFacts
<1>2. \A e \in Range(events) : e.doc \in Docs
  BY Members DEF Report
<1>3. {Head(outgoing).update.doc : i \in DOMAIN outgoing} \subseteq Docs
  <2>1. outgoing \in Seq(Transfers) /\ Len(outgoing) <= 1
    BY TypeParts DEF BrokerType
  <2>2. CASE outgoing = <<>>
    <3>1. DOMAIN outgoing = {}
      BY <2>2
    <3> QED
      BY <3>1
  <2>3. CASE outgoing # <<>>
    <3>1. /\ {Head(outgoing).update.doc : i \in DOMAIN outgoing} = {Head(outgoing).update.doc}
          /\ Head(outgoing).update \in Update
      BY <2>1, <2>3, OutgoingIs, Zenon
    <3> QED
      BY <3>1, UpdateFacts
  <2> QED
    BY <2>2, <2>3
<1>4. Reached \subseteq Docs
  BY <1>1, <1>2, <1>3, Types DEF Reached
<1>5. /\ \A c \in Range(lifecycle) : c.doc \in Docs
      /\ \A u \in Range(pending) : u.doc \in Docs
  BY Members DEF Command, Update
<1> QED
  BY <1>4, <1>5, Types

(* Sending a document to the broker (load_document) keeps the invariant. *)
LEMMA LoadKeeps ==
    ASSUME Ind, NEW op \in {"buffered", "streaming"}, Load(op)
    PROVE  Ind'
<1> DEFINE doc == ui.loads + 1
           c == [op |-> op, doc |-> doc]
<1>1. Alive /\ TypeOK
  BY DEF Ind, Load
<1>2. /\ ui.doc = None /\ ui.loads < MaxDocs
      /\ ui' = [doc |-> doc, loads |-> doc, cookies |-> 0]
      /\ lifecycle' = Append(lifecycle, c)
      /\ UNCHANGED <<lane, broker, pipe, toBroker, events, renderer, exit, history>>
  BY DEF Load
<1>3. /\ doc \in Docs /\ doc \in Nat /\ doc > ui.loads /\ doc \in 0 .. MaxDocs
      /\ 0 \in 0 .. MaxCookies
  <2>1. ui.loads \in Nat /\ MaxDocs \in Nat /\ MaxCookies \in Nat
    BY <1>1, Types, LaneAssumption
  <2> QED
    BY <1>2, <2>1 DEF Docs
<1>4. c \in Command
  BY <1>3 DEF Command
<1>5. c.op # "cancel" /\ c.doc = doc
  OBVIOUS
<1> HIDE DEF c
<1>6. /\ lifecycle \in Seq(Command) /\ lifecycle' \in Seq(Command)
      /\ Range(lifecycle') = Range(lifecycle) \cup {c}
  <2>1. lifecycle \in Seq(Command)
    BY <1>1, Types
  <2> QED
    BY <1>2, <1>4, <2>1, AppendProperties, RangeAppend
<1>7. ui'.doc = doc /\ ui'.loads = doc /\ ui'.cookies = 0 /\ UiType'
  BY <1>2, <1>3 DEF UiType
<1> HIDE DEF doc
<1>8. /\ pending' = pending /\ inFlight' = inFlight /\ active' = active /\ outgoing' = outgoing
      /\ toChild' = toChild /\ toBroker' = toBroker /\ events' = events /\ child' = child
      /\ event' = event /\ exit' = exit /\ admitted' = admitted /\ consumed' = consumed
      /\ lane' = lane /\ broker' = broker /\ pipe' = pipe /\ history' = history
  BY <1>2 DEF lane, broker, pipe, renderer, history
<1>9. TypeOK'
  BY <1>1, <1>6, <1>7, <1>8, TypeParts, TypeKept, TypeNext, Zenon
<1>10. /\ ReceiptsAreSolicited' /\ SlotMatchesTransfer' /\ DeltasInOrder'
       /\ Ordered(toChild', PipePairs)
  BY <1>1, <1>8, IndOpen DEF ReceiptsAreSolicited, SlotMatchesTransfer, DeltasInOrder
<1>11. Reached' = Reached
  BY <1>8, SameReached
<1>12. /\ Bounded /\ Fresh /\ Cancelled /\ ChildShape /\ FailedIsOver
       /\ Solicited /\ Versions /\ CookieVersions
  BY <1>1, IndOpen
<1>13. /\ \A d \in Reached : d < doc /\ d # doc
       /\ \A b \in Range(lifecycle) : b.doc < doc /\ b.doc # doc
       /\ \A u \in Range(pending) : u.doc < doc /\ u.doc # doc
  <2>1. /\ \A d \in Reached : d \in Nat /\ d <= ui.loads
        /\ \A b \in Range(lifecycle) : b.doc \in Nat /\ b.doc <= ui.loads
        /\ \A u \in Range(pending) : u.doc \in Nat /\ u.doc <= ui.loads
        /\ ui.loads \in Nat
    BY <1>1, <1>12, DocNumbers, DocsNat DEF Bounded
  <2> QED
    BY <1>3, <2>1
<1>14. Bounded'
  <2>1. /\ \A d \in Reached : d <= doc
        /\ \A b \in Range(lifecycle) : b.doc <= doc
        /\ \A u \in Range(pending) : u.doc <= doc
        /\ doc <= doc
    <3>1. /\ \A d \in Reached : d \in Nat
          /\ \A b \in Range(lifecycle) : b.doc \in Nat
          /\ \A u \in Range(pending) : u.doc \in Nat
      BY <1>1, DocNumbers, DocsNat
    <3> QED
      BY <1>3, <1>13, <3>1
  <2> QED
    BY <2>1, <1>6, <1>7, <1>8, <1>11, <1>5 DEF Bounded
<1>15. Fresh'
  <2>1. \A b \in Range(lifecycle) : <<b, c>> \in CommandPairs
    <3>1. \A b \in Range(lifecycle) : b.doc \in Nat /\ b.doc <= doc
      <4>1. \A b \in Range(lifecycle) : b.doc \in Nat
        BY <1>1, DocNumbers, DocsNat
      <4> QED
        BY <1>3, <1>13, <4>1
    <3> QED
      BY <1>1, <1>4, <1>5, <1>13, <3>1, Members, CommandPairIs
  <2>2. Ordered(lifecycle', CommandPairs)
    BY <1>2, <1>4, <1>6, <1>12, <2>1, OrderedAppend DEF Fresh
  <2> QED
    BY <2>2, <1>5, <1>6, <1>7, <1>11, <1>12, <1>13 DEF Fresh
<1>16. \A m \in Range(toChild) : DocOf(m) # doc /\ (m.op # "update" => m.doc # doc)
                                 /\ (m \in Delivery => m.update.doc # doc)
  <2>1. \A m \in Range(toChild) : DocOf(m) # doc
    BY <1>13 DEF Reached
  <2> QED
    BY <1>1, <2>1, Members, MessageFacts
<1>17. /\ active # doc /\ child.incoming # doc /\ child.running # doc
  BY <1>3, <1>13, DocsNat DEF Reached
<1>18. Cancelled'
  BY <1>5, <1>6, <1>7, <1>8, <1>12, <1>16 DEF Cancelled
<1>19. ChildShape' /\ FailedIsOver' /\ Solicited' /\ Versions' /\ CookieVersions'
  BY <1>8, <1>12 DEF ChildShape, FailedIsOver, Solicited, Versions, CookieVersions, Newer
<1>20. OwnedIsActive'
  BY <1>1, <1>7, <1>8, <1>16, <1>17, Members, MessageFacts DEF OwnedIsActive, Begins
<1>21. Counted'
  <2>1. Selection(toBroker, CookieReports(doc)) = <<>>
    <3>1. \A r \in Range(toBroker) : r \notin CookieReports(doc)
      <4>1. \A r \in Range(toBroker) : DocOf(r) # doc
        BY <1>13 DEF Reached
      <4> QED
        BY <4>1 DEF CookieReports, DocOf
    <3>2. toBroker \in Seq(Reports) /\ \A n \in 1 .. Len(toBroker) : toBroker[n] \notin CookieReports(doc)
      BY <1>1, <3>1, Types, RangeType
    <3> QED
      BY <3>2, SelectionNone
  <2>2. Selection(events, CookieReports(doc)) = <<>>
    <3>1. \A r \in Range(events) : r \notin CookieReports(doc)
      <4>1. \A r \in Range(events) : r.doc # doc
        BY <1>13 DEF Reached
      <4> QED
        BY <4>1 DEF CookieReports
    <3>2. events \in Seq(Report) /\ \A n \in 1 .. Len(events) : events[n] \notin CookieReports(doc)
      BY <1>1, <3>1, Types, RangeType
    <3> QED
      BY <3>2, SelectionNone
  <2>3. Mutations' = 0
    <3>1. /\ Selection(toBroker', CookieReports(ui'.doc)) = <<>>
          /\ Selection(events', CookieReports(ui'.doc)) = <<>>
      BY <2>1, <2>2, <1>7, <1>8
    <3>2. Mutations' = 0 + Len(<<>>) + Len(<<>>)
      BY <1>7, <3>1 DEF Mutations, CookieReports
    <3>3. Len(<<>>) = 0
      BY EmptySeq
    <3> QED
      BY <3>2, <3>3
  <2> QED
    BY <2>3 DEF Counted
<1>22. Newest'
  <2>1. \A o \in Range(outgoing) : o.update.doc # doc
    <3>1. CASE outgoing = <<>>
      BY <3>1, RangeEmpty
    <3>2. CASE outgoing # <<>>
      <4>1. outgoing \in Seq(Transfers) /\ Len(outgoing) <= 1
        BY <1>1, TypeParts DEF BrokerType
      <4>2. Range(outgoing) = {Head(outgoing)}
            /\ {Head(outgoing).update.doc : i \in DOMAIN outgoing} = {Head(outgoing).update.doc}
        BY <4>1, <3>2, OutgoingIs, Zenon
      <4> QED
        BY <1>13, <4>2 DEF Reached
    <3> QED
      BY <3>1, <3>2
  <2> QED
    BY <2>1, <1>7, <1>8, <1>13, <1>17 DEF Newest, CookieOf
<1> QED
  BY <1>9, <1>10, <1>14, <1>15, <1>18, <1>19, <1>20, <1>21, <1>22, IndNext

(* The broker holds at most one transfer. *)
LEMMA TransferIs ==
    ASSUME TypeOK
    PROVE  /\ \A o \in Range(outgoing) :
                /\ outgoing # <<>> /\ o = Head(outgoing) /\ outgoing = <<o>>
                /\ o \in Transfers /\ o.update \in Update /\ o.sent \in BOOLEAN
           /\ outgoing # <<>> => /\ Range(outgoing) = {Head(outgoing)}
                                 /\ Head(outgoing) \in Range(outgoing)
                                 /\ {Head(outgoing).update.doc : i \in DOMAIN outgoing}
                                      = {Head(outgoing).update.doc}
           /\ outgoing = <<>> => Range(outgoing) = {}
<1>1. outgoing \in Seq(Transfers) /\ Len(outgoing) <= 1
  BY TypeParts DEF BrokerType
<1>2. CASE outgoing = <<>>
  BY <1>2, RangeEmpty
<1>3. CASE outgoing # <<>>
  <2> DEFINE h == Head(outgoing)
  <2>1. /\ h \in Transfers /\ outgoing = <<h>> /\ Range(outgoing) = {h}
        /\ h.update \in Update /\ h.sent \in BOOLEAN
        /\ {h.update.doc : i \in DOMAIN outgoing} = {h.update.doc}
    BY <1>1, <1>3, OutgoingIs, Zenon
  <2> HIDE DEF h
  <2>2. \A o \in Range(outgoing) : o = h
    BY <2>1
  <2>3. \A o \in Range(outgoing) :
          /\ outgoing # <<>> /\ o = h /\ outgoing = <<o>>
          /\ o \in Transfers /\ o.update \in Update /\ o.sent \in BOOLEAN
    BY <1>3, <2>1, <2>2, Zenon
  <2>4. h \in Range(outgoing)
    BY <2>1
  <2> QED
    BY <1>3, <2>1, <2>3, <2>4, Zenon DEF h
<1> QED
  BY <1>2, <1>3

(* Whatever the broker or the child mentions is a document that was        *)
(* reached.                                                                *)
LEMMA InReached ==
    ASSUME TypeOK
    PROVE  /\ active # None => active \in Reached
           /\ child.incoming # None => child.incoming \in Reached
           /\ child.running # None => child.running \in Reached
           /\ \A o \in Range(outgoing) : o.update.doc \in Reached
           /\ \A m \in Range(toChild) : DocOf(m) \in Reached
           /\ \A r \in Range(toBroker) : DocOf(r) \in Reached
           /\ \A u \in Range(event) : u.doc \in Reached
           /\ \A e \in Range(events) : e.doc \in Reached
<1>1. \A o \in Range(outgoing) : o.update.doc \in Reached
  <2> SUFFICES ASSUME NEW o \in Range(outgoing) PROVE o.update.doc \in Reached
    OBVIOUS
  <2>1. o = Head(outgoing)
        /\ {Head(outgoing).update.doc : i \in DOMAIN outgoing} = {Head(outgoing).update.doc}
    BY TransferIs
  <2> QED
    BY <2>1 DEF Reached
<1> QED
  BY <1>1 DEF Reached

(* The documents reached after a step are those of a set that holds each   *)
(* place where one may be mentioned.                                       *)
LEMMA ReachedWithin ==
    ASSUME NEW S, active' \in S \cup {None}, child'.incoming \in S \cup {None},
           child'.running \in S \cup {None},
           outgoing' # <<>> => Head(outgoing').update.doc \in S,
           \A m \in Range(toChild') : DocOf(m) \in S,
           \A r \in Range(toBroker') : DocOf(r) \in S,
           \A u \in Range(event') : u.doc \in S,
           \A e \in Range(events') : e.doc \in S
    PROVE  Reached' \subseteq S
<1>1. {Head(outgoing').update.doc : i \in DOMAIN outgoing'} \subseteq S
  <2>1. CASE outgoing' = <<>>
    <3>1. DOMAIN outgoing' = {}
      BY <2>1
    <3> QED
      BY <3>1
  <2>2. CASE outgoing' # <<>>
    BY <2>2
  <2> QED
    BY <2>1, <2>2
<1> QED
  BY <1>1 DEF Reached

(* Bounded and Fresh after a step that only lets documents go. *)
LEMMA BoundsKept ==
    ASSUME Bounded, Fresh, ui' = ui, lifecycle' = lifecycle,
           Range(pending') \subseteq Range(pending), Reached' \subseteq Reached
    PROVE  Bounded' /\ Fresh'
<1>1. Bounded'
  BY DEF Bounded
<1>2. Fresh'
  BY DEF Fresh
<1> QED
  BY <1>1, <1>2

(* A cancellation keeps the invariant. *)
LEMMA CancelKeeps ==
    ASSUME Ind, Cancel
    PROVE  Ind'
<1> DEFINE doc == ui.doc
           c == [op |-> "cancel", doc |-> doc]
<1>1. Alive /\ TypeOK
  BY DEF Ind, Cancel
<1>2. /\ doc # None
      /\ ui' = [ui EXCEPT !.doc = None]
      /\ lifecycle' = Append(lifecycle, c)
      /\ UNCHANGED <<lane, broker, pipe, toBroker, events, renderer, exit, history>>
  BY DEF Cancel
<1>3. doc \in Docs
  BY <1>1, <1>2, Types
<1>4. c \in Command
  BY <1>3 DEF Command
<1>5. c.op = "cancel" /\ c.doc = doc
  OBVIOUS
<1> HIDE DEF c
<1>6. /\ lifecycle \in Seq(Command) /\ lifecycle' \in Seq(Command)
      /\ Range(lifecycle') = Range(lifecycle) \cup {c}
  <2>1. lifecycle \in Seq(Command)
    BY <1>1, Types
  <2> QED
    BY <1>2, <1>4, <2>1, AppendProperties, RangeAppend
<1>7. ui'.doc = None /\ ui'.loads = ui.loads /\ ui'.cookies = ui.cookies /\ UiType'
  BY <1>1, <1>2, TypeParts DEF UiType
<1>8. /\ pending' = pending /\ inFlight' = inFlight /\ active' = active /\ outgoing' = outgoing
      /\ toChild' = toChild /\ toBroker' = toBroker /\ events' = events /\ child' = child
      /\ event' = event /\ exit' = exit /\ admitted' = admitted /\ consumed' = consumed
      /\ lane' = lane /\ broker' = broker /\ pipe' = pipe /\ history' = history
  BY <1>2 DEF lane, broker, pipe, renderer, history
<1>9. TypeOK'
  BY <1>1, <1>6, <1>7, <1>8, TypeParts, TypeKept, TypeNext, Zenon
<1>10. /\ ReceiptsAreSolicited' /\ SlotMatchesTransfer' /\ DeltasInOrder'
       /\ Ordered(toChild', PipePairs)
  BY <1>1, <1>8, IndOpen DEF ReceiptsAreSolicited, SlotMatchesTransfer, DeltasInOrder
<1>11. Reached' = Reached
  BY <1>8, SameReached
<1>12. /\ Bounded /\ Fresh /\ Cancelled /\ ChildShape /\ FailedIsOver
       /\ Solicited /\ Versions /\ CookieVersions
  BY <1>1, IndOpen
<1>13. doc = ui.loads /\ \A b \in Range(lifecycle) : b.doc <= doc
  BY <1>2, <1>12 DEF Bounded
<1>14. Bounded'
  <2>1. doc <= ui.loads
    <3>1. doc \in Nat /\ doc = ui.loads
      BY <1>3, <1>13, DocsNat
    <3> HIDE DEF doc
    <3> QED
      BY <3>1
  <2> QED
    BY <2>1, <1>5, <1>6, <1>7, <1>8, <1>11, <1>12 DEF Bounded
<1> HIDE DEF doc
<1>15. Fresh'
  <2>1. \A b \in Range(lifecycle) : <<b, c>> \in CommandPairs
    <3>1. \A b \in Range(lifecycle) : b.op = "cancel" => b.doc # doc
      BY <1>12 DEF Fresh, doc
    <3> QED
      BY <1>1, <1>4, <1>5, <1>13, <3>1, Members, CommandPairIs
  <2>2. Ordered(lifecycle', CommandPairs)
    BY <1>2, <1>4, <1>6, <1>12, <2>1, OrderedAppend DEF Fresh
  <2>3. \A b \in Range(lifecycle') : b.doc # None
    BY <1>1, <1>3, <1>5, <1>6, DocNumbers, DocsNat
  <2> QED
    BY <2>2, <2>3, <1>5, <1>6, <1>7, <1>11, <1>12 DEF Fresh
<1>16. \A m \in Range(toChild) : m.op = "cancel" => m.doc # None /\ m.doc # doc
  BY <1>1, <1>12, Members, MessageFacts, DocsNat DEF Cancelled, doc
<1>17. Cancelled'
  BY <1>5, <1>6, <1>7, <1>8, <1>12, <1>16 DEF Cancelled
<1>18. ChildShape' /\ FailedIsOver' /\ Solicited' /\ Versions' /\ CookieVersions'
  BY <1>8, <1>12 DEF ChildShape, FailedIsOver, Solicited, Versions, CookieVersions, Newer
<1>19. OwnedIsActive' /\ Counted'
  BY <1>7 DEF OwnedIsActive, Counted
<1>20. Newest'
  <2>1. /\ \A u \in Range(pending) : u.doc # None
        /\ \A o \in Range(outgoing) : o.update.doc # None
    BY <1>1, Members, UpdateFacts, TransferIs, DocsNat
  <2> QED
    BY <2>1, <1>7, <1>8 DEF Newest, CookieOf
<1> QED
  BY <1>9, <1>10, <1>14, <1>15, <1>17, <1>18, <1>19, <1>20, IndNext

(* The only member of a queue. *)
LEMMA SingleIs ==
    ASSUME NEW A, NEW x \in A
    PROVE  /\ <<x>> \in Seq(A) /\ Range(<<x>>) = {x} /\ Len(<<x>>) = 1 /\ <<x>> # <<>>
           /\ Head(<<x>>) = x
           /\ \A R : Ordered(<<x>>, R)
<1>1. Range(<<x>>) = {x}
  BY DEF Range
<1>2. \A R : Ordered(<<x>>, R)
  BY DEF Ordered
<1> QED
  BY <1>1, <1>2

(* Offering a delta to the lane keeps the invariant. *)
LEMMA TrySendSyncKeeps ==
    ASSUME Ind, NEW foreign \in BOOLEAN, TrySendSync(foreign)
    PROVE  Ind'
<1> DEFINE doc == ui.doc
           ver == Len(admitted[doc]) + 1
           u == [kind |-> "sync", doc |-> doc, ver |-> ver, foreign |-> foreign]
<1>1. Alive /\ TypeOK
  BY DEF Ind, TrySendSync
<1>2. /\ doc # None /\ Len(admitted[doc]) < MaxSyncs /\ ~inFlight /\ pending = <<>>
      /\ pending' = <<u>>
      /\ admitted' = [admitted EXCEPT ![doc] = Append(@, ver)]
      /\ UNCHANGED <<ui, lifecycle, inFlight, broker, pipe, toBroker, events,
                     renderer, exit, consumed>>
  BY DEF TrySendSync, LaneIsFree
<1>3. doc \in Docs
  BY <1>1, <1>2, Types
<1>4. /\ admitted[doc] \in Seq(1 .. MaxSyncs) /\ Len(admitted[doc]) \in Nat
      /\ ver \in 1 .. MaxSyncs /\ ver \in Nat
  <2>1. admitted[doc] \in Seq(1 .. MaxSyncs) /\ MaxSyncs \in Nat
    BY <1>1, <1>3, Types, LaneAssumption
  <2>2. Len(admitted[doc]) \in Nat
    BY <2>1, LenProperties
  <2> QED
    BY <1>2, <2>1, <2>2
<1>5. u \in Update
  BY <1>3, <1>4 DEF Update
<1>6. u.kind = "sync" /\ u.doc = doc /\ u.ver = ver
  OBVIOUS
<1> HIDE DEF u
<1>7. pending' \in Seq(Update) /\ Range(pending') = {u} /\ Ordered(pending', PendingPairs)
  BY <1>2, <1>5, SingleIs
<1>8. /\ ui' = ui /\ lifecycle' = lifecycle /\ inFlight' = inFlight /\ active' = active
      /\ outgoing' = outgoing /\ toChild' = toChild /\ toBroker' = toBroker
      /\ events' = events /\ child' = child /\ event' = event /\ exit' = exit
      /\ consumed' = consumed /\ broker' = broker /\ pipe' = pipe
  BY <1>2 DEF broker, pipe, renderer
<1>9. /\ admitted' \in [Docs -> Seq(1 .. MaxSyncs)]
      /\ \A d \in Docs : admitted'[d] = IF d = doc THEN Append(admitted[d], ver) ELSE admitted[d]
  <2>1. admitted \in [Docs -> Seq(1 .. MaxSyncs)]
    BY <1>1, TypeParts DEF HistoryType
  <2> DEFINE a == Append(admitted[doc], ver)
  <2>2. a \in Seq(1 .. MaxSyncs) /\ admitted' = [admitted EXCEPT ![doc] = a]
    BY <1>2, <1>4, AppendProperties
  <2> HIDE DEF a
  <2>3. /\ admitted' \in [Docs -> Seq(1 .. MaxSyncs)]
        /\ \A d \in Docs : admitted'[d] = IF d = doc THEN a ELSE admitted[d]
    BY <1>3, <2>1, <2>2
  <2> QED
    BY <2>3 DEF a
<1>10. TypeOK'
  <2>1. LaneType'
    BY <1>1, <1>7, <1>8, TypeParts DEF LaneType
  <2>2. HistoryType'
    BY <1>1, <1>8, <1>9, TypeParts DEF HistoryType
  <2> QED
    BY <1>1, <1>8, <2>1, <2>2, TypeParts, TypeKept, TypeNext, Zenon
<1>11. /\ ReceiptsAreSolicited' /\ SlotMatchesTransfer' /\ DeltasInOrder'
       /\ Ordered(toChild', PipePairs)
  BY <1>1, <1>8, IndOpen DEF ReceiptsAreSolicited, SlotMatchesTransfer, DeltasInOrder
<1>12. Reached' = Reached
  BY <1>8, SameReached
<1>13. /\ Bounded /\ Fresh /\ Cancelled /\ ChildShape /\ FailedIsOver /\ OwnedIsActive
       /\ Solicited /\ Versions /\ Counted /\ Newest /\ CookieVersions
       /\ SlotMatchesTransfer
  BY <1>1, IndOpen
<1>14. outgoing = <<>> /\ Range(outgoing) = {} /\ Range(pending) = {}
  BY <1>2, <1>13, RangeEmpty DEF SlotMatchesTransfer
<1>15. /\ Len(admitted'[doc]) = ver
       /\ \A d \in Docs : /\ Len(admitted[d]) \in Nat /\ Len(admitted'[d]) \in Nat
                          /\ Len(admitted[d]) <= Len(admitted'[d])
  <2>1. \A d \in Docs : Len(admitted[d]) \in Nat
    BY <1>1, Types, LenProperties
  <2>2. Len(Append(admitted[doc], ver)) = ver
    BY <1>4, AppendProperties
  <2> HIDE DEF ver
  <2>3. Len(admitted'[doc]) = ver
    BY <1>3, <1>9, <2>2
  <2>4. ver = Len(admitted[doc]) + 1
    BY DEF ver
  <2>5. \A d \in Docs : d # doc => admitted'[d] = admitted[d]
    BY <1>9
  <2> QED
    BY <2>1, <2>3, <2>4, <2>5, <1>4
<1>16. Bounded' /\ Fresh'
  <2>1. doc = ui.loads /\ ui.loads \in Nat
    BY <1>1, <1>2, <1>13, Types DEF Bounded
  <2>2. doc <= ui.loads
    <3> HIDE DEF doc
    <3> QED
      BY <2>1
  <2>3. Bounded'
    BY <2>2, <1>6, <1>7, <1>8, <1>12, <1>13 DEF Bounded
  <2> QED
    BY <2>3, <1>8, <1>12, <1>13 DEF Fresh
<1>17. Cancelled' /\ ChildShape' /\ FailedIsOver' /\ OwnedIsActive' /\ Solicited' /\ Counted'
  BY <1>8, <1>13
     DEF Cancelled, ChildShape, FailedIsOver, OwnedIsActive, Solicited, Counted, Mutations
<1>18. Newest' /\ CookieVersions'
  BY <1>6, <1>7, <1>8, <1>13, <1>14 DEF Newest, CookieVersions, CookieOf
<1>19. Versions'
  <2>1. \A d \in Docs : \A v \in Range(consumed[d]) : v \in Nat /\ v <= Len(admitted[d])
    <3>1. \A d \in Docs : Range(consumed[d]) \in SUBSET (1 .. MaxSyncs)
      BY <1>1, Types, RangeType
    <3> QED
      BY <1>13, <3>1 DEF Versions
  <2>2. \A d \in Docs : \A v \in Range(consumed[d]) : v <= Len(admitted'[d])
    BY <1>15, <2>1
  <2>a. \A d \in Docs : Len(admitted'[d]) <= MaxSyncs
    <3>1. \A d \in Docs : Len(admitted[d]) <= MaxSyncs
      BY <1>13 DEF Versions
    <3>2. ver <= MaxSyncs
      BY <1>4
    <3>3. \A d \in Docs : d # doc => admitted'[d] = admitted[d]
      BY <1>9
    <3> QED
      BY <1>15, <3>1, <3>2, <3>3
  <2>3. ASSUME NEW w \in Update, Newer(w) PROVE Newer(w)'
    <3>1. w.doc \in Docs /\ w.ver \in Nat
      BY UpdateFacts
    <3>2. w.ver > 0 /\ w.ver <= Len(admitted[w.doc]) /\ \A v \in Range(consumed[w.doc]) : v < w.ver
      BY <2>3 DEF Newer
    <3>3. w.ver <= Len(admitted'[w.doc])
      BY <1>15, <3>1, <3>2
    <3> QED
      BY <1>8, <3>2, <3>3 DEF Newer
  <2>4. \A w \in Update : w = u => Newer(w)'
    <3>1. u.ver > 0 /\ u.ver <= Len(admitted'[u.doc])
      BY <1>4, <1>6, <1>15
    <3>2. \A v \in Range(consumed[doc]) : v \in Nat /\ v <= Len(admitted[doc])
      BY <1>3, <2>1
    <3>3. \A v \in Range(consumed[doc]) : v < ver
      BY <1>4, <3>2
    <3>4. \A v \in Range(consumed'[u.doc]) : v < u.ver
      BY <1>6, <1>8, <3>3
    <3> QED
      BY <3>1, <3>4 DEF Newer
  <2>5. \A m \in Range(toChild) : m.op = "update" /\ m.update.kind = "sync" =>
          /\ Newer(m.update) /\ m.update \in Update
    BY <1>1, <1>13, Members, MessageFacts DEF Versions
  <2>6. \A m \in Range(toChild) : m.op = "update" /\ m.update.kind = "sync" /\ m.update.doc = doc
            => m.update.ver < ver
    <3>1. \A m \in Range(toChild) : m.op = "update" /\ m.update.kind = "sync" /\ m.update.doc = doc
            => m.update.ver <= Len(admitted[doc]) /\ m.update.ver \in Nat
      BY <2>5, UpdateFacts DEF Newer
    <3> QED
      BY <1>4, <3>1
  <2>7. \A w \in Range(pending') : w = u /\ w \in Update
    BY <1>5, <1>7
  <2>8. \A w \in Range(pending') :
          /\ outgoing' = <<>> /\ Newer(w)'
          /\ \A m \in Range(toChild') :
                m.op = "update" /\ m.update.kind = "sync" /\ m.update.doc = w.doc
                  => m.update.ver < w.ver
    BY <2>4, <2>6, <2>7, <1>6, <1>8, <1>14
  <2>9. \A m \in Range(toChild') :
          m.op = "update" /\ m.update.kind = "sync" => Newer(m.update)'
    BY <2>3, <2>5, <1>8
  <2> QED
    BY <2>2, <2>a, <2>8, <2>9, <1>7, <1>8, <1>14 DEF Versions
<1> QED
  BY <1>10, <1>11, <1>16, <1>17, <1>18, <1>19, IndNext

(* A correction takes the place of the one that waits, or the last place.  *)
LEMMA CoalescedIs ==
    ASSUME NEW q \in Seq(Update), NEW u \in Update, u.kind = "cookie",
           Ordered(q, PendingPairs)
    PROVE  /\ Coalesced(q, u) \in Seq(Update)
           /\ \A w \in Range(Coalesced(q, u)) :
                w = u \/ (w \in Range(q) /\ ~(w.kind = "cookie" /\ w.doc = u.doc))
           /\ u \in Range(Coalesced(q, u))
           /\ Ordered(Coalesced(q, u), PendingPairs)
<1> DEFINE S == {w \in Update : w.doc = u.doc}
           kept == Selection(q, S)
           r == Coalesced(q, u)
           found == \E i \in DOMAIN kept : SameSlot(kept[i], u)
<1>1. kept \in Seq(Update) /\ Range(kept) = Range(q) \cap S /\ Ordered(kept, PendingPairs)
  <2>1. kept \in Seq(Update \cap S)
    BY SelectionType
  <2>2. Range(kept) = Range(q) \cap S
    BY RangeSelection
  <2>3. Ordered(kept, PendingPairs)
    BY OrderedSelection
  <2>4. Update \cap S = S /\ S \subseteq Update
    OBVIOUS
  <2> HIDE DEF kept, S
  <2>5. kept \in Seq(S)
    BY <2>1, <2>4
  <2>6. kept \in Seq(Update)
    BY <2>4, <2>5
  <2> QED
    BY <2>2, <2>3, <2>6
<1>2. r = IF found THEN [i \in DOMAIN kept |-> IF SameSlot(kept[i], u) THEN u ELSE kept[i]]
          ELSE Append(kept, u)
  BY DEF Coalesced
<1>3. \A w \in Range(kept) : w \in Range(q) /\ w \in Update /\ w.doc = u.doc
  BY <1>1
<1> HIDE DEF kept, S, r
<1>4. DOMAIN kept = 1 .. Len(kept) /\ Len(kept) \in Nat
  BY <1>1, LenProperties
<1>5. CASE found
  <2>1. r = [i \in 1 .. Len(kept) |-> IF SameSlot(kept[i], u) THEN u ELSE kept[i]]
    BY <1>2, <1>4, <1>5
  <2>2. \A i \in 1 .. Len(kept) : kept[i] \in Range(kept)
    BY <1>4 DEF Range
  <2>3. \A i \in 1 .. Len(kept) : (IF SameSlot(kept[i], u) THEN u ELSE kept[i]) \in Update
    BY <1>3, <2>2
  <2>4. r \in Seq(Update)
    BY <1>4, <2>1, <2>3, IsASeq
  <2>5. /\ DOMAIN r = 1 .. Len(kept)
        /\ \A i \in 1 .. Len(kept) : r[i] = IF SameSlot(kept[i], u) THEN u ELSE kept[i]
    BY <2>1
  <2>6. \A w \in Range(r) : w = u \/ (w \in Range(q) /\ ~(w.kind = "cookie" /\ w.doc = u.doc))
    <3> TAKE w \in Range(r)
    <3>1. PICK i \in 1 .. Len(kept) : r[i] = w
      BY <2>5 DEF Range
    <3>2. CASE SameSlot(kept[i], u)
      BY <2>5, <3>1, <3>2
    <3>3. CASE ~SameSlot(kept[i], u)
      <4>1. w = kept[i] /\ w \in Range(q)
        BY <1>3, <2>2, <2>5, <3>1, <3>3
      <4> QED
        BY <3>3, <4>1 DEF SameSlot
    <3> QED
      BY <3>2, <3>3
  <2>7. u \in Range(r)
    <3>1. PICK i \in 1 .. Len(kept) : SameSlot(kept[i], u)
      BY <1>4, <1>5
    <3>2. i \in DOMAIN r /\ r[i] = u
      BY <2>5, <3>1
    <3> QED
      BY <3>2 DEF Range
  <2>8. Ordered(r, PendingPairs)
    <3> SUFFICES ASSUME NEW i \in 1 .. Len(kept), NEW j \in 1 .. Len(kept), i < j
                 PROVE  <<r[i], r[j]>> \in PendingPairs
      BY <2>5 DEF Ordered
    <3>1. <<kept[i], kept[j]>> \in PendingPairs
      BY <1>1, <1>4 DEF Ordered
    <3>2. kept[i] \in Update /\ kept[j] \in Update
      BY <1>3, <2>2
    <3>3. kept[j].kind # "sync"
      BY <3>1, <3>2, PendingPairIs
    <3>4. r[i] \in Update /\ r[j] \in Update /\ r[j].kind # "sync"
      BY <2>3, <2>5, <3>3
    <3> QED
      BY <3>4, PendingPairIs
  <2> QED
    BY <2>4, <2>6, <2>7, <2>8 DEF r
<1>6. CASE ~found
  <2>1. r = Append(kept, u)
    BY <1>2, <1>6
  <2>2. r \in Seq(Update) /\ Range(r) = Range(kept) \cup {u}
    BY <1>1, <2>1, AppendProperties, RangeAppend
  <2>3. \A w \in Range(kept) : ~SameSlot(w, u)
    BY <1>6 DEF Range
  <2>4. \A w \in Range(kept) : w \in Range(q) /\ ~(w.kind = "cookie" /\ w.doc = u.doc)
    BY <1>3, <2>3 DEF SameSlot
  <2>5. \A w \in Range(kept) : <<w, u>> \in PendingPairs
    BY <1>3, PendingPairIs
  <2>6. Ordered(r, PendingPairs)
    BY <1>1, <2>1, <2>5, OrderedAppend
  <2> QED
    BY <2>2, <2>4, <2>6 DEF r
<1> QED
  BY <1>5, <1>6

(* How many members a queue has of a kind, when one leaves and when one comes. *)
LEMMA CountTail ==
    ASSUME NEW A, NEW s \in Seq(A), s # <<>>, NEW S
    PROVE  /\ Len(Selection(s, S)) \in Nat /\ Len(Selection(Tail(s), S)) \in Nat
           /\ Head(s) \in S => Len(Selection(s, S)) = Len(Selection(Tail(s), S)) + 1
           /\ Head(s) \notin S => Len(Selection(s, S)) = Len(Selection(Tail(s), S))
<1> DEFINE t == Selection(Tail(s), S)
           h == <<Head(s)>>
           B == A \cap S
<1>1. Tail(s) \in Seq(A) /\ Head(s) \in A
  BY HeadTailProperties
<1>2. Selection(s, S) = IF Head(s) \in S THEN h \o t ELSE t
  BY SelectionTail
<1>3. Selection(s, S) \in Seq(B) /\ t \in Seq(B)
  BY <1>1, SelectionType
<1>4. Len(Selection(s, S)) \in Nat /\ Len(t) \in Nat
  BY <1>3, LenProperties
<1>5. CASE Head(s) \in S
  <2>1. h \in Seq(B) /\ Len(h) = 1
    BY <1>1, <1>5
  <2>a. t \in Seq(B)
    BY <1>3
  <2> HIDE DEF t, h, B
  <2>b. Len(h \o t) = Len(h) + Len(t)
    BY <2>1, <2>a, ConcatProperties
  <2>2. Len(h \o t) = 1 + Len(t)
    BY <2>1, <2>b
  <2>3. Len(Selection(s, S)) = Len(t) + 1
    BY <1>2, <1>4, <1>5, <2>2
  <2> QED
    BY <1>4, <1>5, <2>3 DEF t
<1>6. CASE Head(s) \notin S
  BY <1>2, <1>4, <1>6
<1> QED
  BY <1>5, <1>6

(* What an appended entry adds to a selection's length. *)
LEMMA CountAppend ==
    ASSUME NEW A, NEW s \in Seq(A), NEW x \in A, NEW S
    PROVE  /\ Len(Selection(s, S)) \in Nat /\ Len(Selection(Append(s, x), S)) \in Nat
           /\ x \in S => Len(Selection(Append(s, x), S)) = Len(Selection(s, S)) + 1
           /\ x \notin S => Len(Selection(Append(s, x), S)) = Len(Selection(s, S))
<1> DEFINE t == Selection(s, S)
           r == Selection(Append(s, x), S)
           B == A \cap S
<1>1. Append(s, x) \in Seq(A)
  BY AppendProperties
<1>2. r = IF x \in S THEN Append(t, x) ELSE t
  BY SelectionAppend
<1>3. r \in Seq(B) /\ t \in Seq(B)
  BY <1>1, SelectionType
<1>4. Len(r) \in Nat /\ Len(t) \in Nat
  BY <1>3, LenProperties
<1>5. CASE x \in S
  <2>1. x \in B
    BY <1>5
  <2> HIDE DEF t, r, B
  <2>2. Len(Append(t, x)) = Len(t) + 1
    BY <1>3, <2>1, AppendProperties
  <2>3. Len(r) = Len(t) + 1
    BY <1>2, <1>5, <2>2
  <2> QED
    BY <1>4, <1>5, <2>3 DEF t, r
<1>6. CASE x \notin S
  BY <1>2, <1>4, <1>6
<1> QED
  BY <1>5, <1>6

(* The mutations the UI knows of and those of each queue. *)
Told(s) == Len(Selection(s, CookieReports(ui.doc)))

(* The mutations that the UI has counted or has still to read of. *)
LEMMA MutationsAre ==
    ASSUME TypeOK
    PROVE  /\ Told(toBroker) \in Nat /\ Told(events) \in Nat /\ ui.cookies \in Nat
           /\ Mutations = ui.cookies + Told(toBroker) + Told(events)
           /\ Mutations \in Nat
<1>1. ui.cookies \in Nat /\ toBroker \in Seq(Reports) /\ events \in Seq(Report)
  BY Types
<1> DEFINE S == CookieReports(ui.doc)
<1>2. Selection(toBroker, S) \in Seq(Reports \cap S) /\ Selection(events, S) \in Seq(Report \cap S)
  BY <1>1, SelectionType
<1>3. Told(toBroker) \in Nat /\ Told(events) \in Nat
  BY <1>2, LenProperties DEF Told
<1>4. Mutations = ui.cookies + Told(toBroker) + Told(events)
  BY DEF Mutations, Told
<1> QED
  BY <1>1, <1>3, <1>4

(* A step after which no more mutations are under way. *)
LEMMA CountedKept ==
    ASSUME TypeOK, TypeOK', Counted, ui' = ui,
           Told(toBroker') + Told(events') <= Told(toBroker) + Told(events),
           child'.cookies = child.cookies, child'.incoming \in {child.incoming, None},
           \A m \in Range(toChild') : m \in Range(toChild) \/ ~Begins(m),
           Range(lifecycle') \subseteq Range(lifecycle)
    PROVE  Counted'
<1>1. /\ Told(toBroker) \in Nat /\ Told(events) \in Nat /\ ui.cookies \in Nat
      /\ Mutations = ui.cookies + Told(toBroker) + Told(events) /\ Mutations \in Nat
  BY MutationsAre
<1>2. /\ Told(toBroker') \in Nat /\ Told(events') \in Nat
      /\ Mutations' = ui.cookies + Told(toBroker') + Told(events')
  <2>1. toBroker' \in Seq(Reports) /\ events' \in Seq(Report)
    BY DEF TypeOK, Reports
  <2> DEFINE S == CookieReports(ui.doc)
  <2>2. Selection(toBroker', S) \in Seq(Reports \cap S) /\ Selection(events', S) \in Seq(Report \cap S)
    BY <2>1, SelectionType
  <2>3. Told(toBroker') \in Nat /\ Told(events') \in Nat
    BY <2>2, LenProperties DEF Told
  <2>4. Mutations' = ui.cookies + Told(toBroker') + Told(events')
    BY DEF Mutations, Told
  <2> QED
    BY <2>3, <2>4
<1>3. Mutations' <= Mutations /\ Mutations' \in Nat
  BY <1>1, <1>2
<1>4. child.cookies \in Nat
  BY Types
<1> SUFFICES ASSUME ui'.doc # None, Mutations' > 0
             PROVE  /\ Mutations' <= child'.cookies /\ child'.incoming = None
                    /\ \A m \in Range(toChild') : ~Begins(m)
                    /\ \A c \in Range(lifecycle') : c.op = "cancel"
  BY DEF Counted
<1>5. ui.doc # None /\ Mutations > 0
  BY <1>1, <1>3
<1>6. /\ Mutations <= child.cookies /\ child.incoming = None
      /\ \A m \in Range(toChild) : ~Begins(m)
      /\ \A c \in Range(lifecycle) : c.op = "cancel"
  BY <1>5 DEF Counted
<1>7. Mutations' <= child'.cookies
  BY <1>1, <1>3, <1>4, <1>6
<1> QED
  BY <1>6, <1>7

-----------------------------------------------------------------------------
(* The UI takes an event. *)
LEMMA EventTaken ==
    ASSUME TypeOK, events # <<>>, events' = Tail(events)
    PROVE  /\ events' \in Seq(Report) /\ Range(events') \subseteq Range(events)
           /\ Head(events) \in Report /\ Head(events).doc \in Docs
           /\ Head(events) \in Range(events)
           /\ Told(events) \in Nat /\ Told(events') \in Nat
           /\ Told(events') <= Told(events)
           /\ Head(events) \in CookieReports(ui.doc) => Told(events) = Told(events') + 1
<1>1. events \in Seq(Report)
  BY Types
<1>2. /\ Range(events) = {Head(events)} \cup Range(Tail(events))
      /\ Head(events) \in Report /\ Tail(events) \in Seq(Report)
  BY <1>1, RangeTail
<1>3. Head(events).doc \in Docs
  BY <1>2 DEF Report
<1>4. /\ Told(events) \in Nat /\ Told(events') \in Nat
      /\ Head(events) \in CookieReports(ui.doc) => Told(events) = Told(events') + 1
      /\ Head(events) \notin CookieReports(ui.doc) => Told(events) = Told(events')
  BY <1>1, CountTail DEF Told
<1> QED
  BY <1>2, <1>3, <1>4

(* Reading an event that concerns nobody keeps the invariant. *)
LEMMA EventGone ==
    ASSUME Ind, Alive, events # <<>>, events' = Tail(events), ui' = ui, lifecycle' = lifecycle,
           lane' = lane, broker' = broker, pipe' = pipe, toBroker' = toBroker,
           renderer' = renderer, exit' = exit, history' = history
    PROVE  Ind'
<1>1. TypeOK
  BY DEF Ind
<1>2. /\ events' \in Seq(Report) /\ Range(events') \subseteq Range(events)
      /\ Told(events') \in Nat /\ Told(events) \in Nat /\ Told(events') <= Told(events)
  BY <1>1, EventTaken
<1>3. /\ pending' = pending /\ inFlight' = inFlight /\ active' = active /\ outgoing' = outgoing
      /\ toChild' = toChild /\ child' = child
      /\ event' = event /\ admitted' = admitted /\ consumed' = consumed
  BY DEF lane, broker, pipe, renderer, history
<1>4. TypeOK'
  BY <1>1, <1>2, <1>3, TypeParts, TypeKept, TypeNext, Zenon
<1>5. /\ ReceiptsAreSolicited' /\ SlotMatchesTransfer' /\ DeltasInOrder'
      /\ Ordered(toChild', PipePairs)
  BY <1>1, <1>3, IndOpen DEF ReceiptsAreSolicited, SlotMatchesTransfer, DeltasInOrder
<1>6. /\ Bounded /\ Fresh /\ Cancelled /\ ChildShape /\ FailedIsOver /\ OwnedIsActive
      /\ Solicited /\ Versions /\ Counted /\ Newest /\ CookieVersions
  BY IndOpen
<1>7. Reached' \subseteq Reached
  BY <1>1, <1>2, <1>3, Types, TransferIs, InReached, ReachedWithin
<1>8. Bounded' /\ Fresh'
  BY <1>3, <1>6, <1>7, BoundsKept
<1>9. /\ Cancelled' /\ ChildShape' /\ FailedIsOver' /\ OwnedIsActive' /\ Solicited'
      /\ Newest' /\ CookieVersions' /\ Versions'
  BY <1>3, <1>6 DEF Cancelled, ChildShape, FailedIsOver, OwnedIsActive, Solicited,
                    Newest, CookieVersions, Versions, Newer
<1>10. Counted'
  <2>1. Told(toBroker') + Told(events') <= Told(toBroker) + Told(events)
    BY <1>1, <1>2, MutationsAre
  <2>2. child'.cookies = child.cookies /\ child'.incoming \in {child.incoming, None}
    BY <1>3
  <2> QED
    BY <1>1, <1>3, <1>4, <1>6, <2>1, <2>2, CountedKept
<1> QED
  BY <1>4, <1>5, <1>8, <1>9, <1>10, IndNext

(* A step after which the UI owns no document. *)
LEMMA Disowned ==
    ASSUME TypeOK, Bounded, Fresh, Cancelled, ui'.doc = None, ui'.loads = ui.loads,
           lifecycle' = lifecycle, pending' = pending, active' = active, outgoing' = outgoing,
           toChild' = toChild, Reached' \subseteq Reached
    PROVE  Bounded' /\ Fresh' /\ Cancelled' /\ OwnedIsActive' /\ Counted' /\ Newest'
<1>1. Bounded'
  BY DEF Bounded
<1>2. Fresh'
  <2>1. \A c \in Range(lifecycle) : c.doc # None
    BY DocNumbers, DocsNat
  <2> QED
    BY <2>1 DEF Fresh
<1>3. Cancelled'
  <2>1. \A m \in Range(toChild) : m.op = "cancel" => m.doc # None
    BY Members, MessageFacts, DocsNat
  <2> QED
    BY <2>1 DEF Cancelled
<1>4. OwnedIsActive' /\ Counted'
  BY DEF OwnedIsActive, Counted
<1>5. Newest'
  <2>1. /\ \A u \in Range(pending) : u.doc # None
        /\ \A o \in Range(outgoing) : o.update.doc # None
    BY Members, UpdateFacts, TransferIs, DocsNat
  <2> QED
    BY <2>1 DEF Newest, CookieOf
<1> QED
  BY <1>1, <1>2, <1>3, <1>4, <1>5

(* Containing a failed page keeps the invariant. *)
LEMMA ContainFailureKeeps ==
    ASSUME Ind, ContainFailure
    PROVE  Ind'
<1>1. Alive /\ TypeOK
  BY DEF Ind, ContainFailure
<1>2. /\ events # <<>> /\ events' = Tail(events)
      /\ UNCHANGED <<lifecycle, lane, broker, pipe, toBroker, renderer, exit, history>>
  BY DEF ContainFailure
<1>3. /\ events' \in Seq(Report) /\ Range(events') \subseteq Range(events)
  BY <1>1, <1>2, EventTaken
<1>4. CASE Head(events).doc # ui.doc
  <2>1. ui' = ui
    BY <1>4 DEF ContainFailure
  <2> QED
    BY <1>1, <1>2, <2>1, EventGone
<1>5. CASE Head(events).doc = ui.doc
  <2>1. ui' = [ui EXCEPT !.doc = None]
    BY <1>5 DEF ContainFailure
  <2>2. ui'.doc = None /\ ui'.loads = ui.loads /\ UiType'
    BY <1>1, <2>1, TypeParts DEF UiType
  <2>3. /\ pending' = pending /\ inFlight' = inFlight /\ active' = active /\ outgoing' = outgoing
        /\ toChild' = toChild /\ toBroker' = toBroker /\ child' = child /\ exit' = exit
        /\ event' = event /\ admitted' = admitted /\ consumed' = consumed
        /\ lifecycle' = lifecycle
        /\ lane' = lane /\ broker' = broker /\ pipe' = pipe /\ history' = history
    BY <1>2 DEF lane, broker, pipe, renderer, history
  <2>4. TypeOK'
    BY <1>1, <1>3, <2>2, <2>3, TypeParts, TypeKept, TypeNext, Zenon
  <2>5. /\ ReceiptsAreSolicited' /\ SlotMatchesTransfer' /\ DeltasInOrder'
        /\ Ordered(toChild', PipePairs)
    BY <1>1, <2>3, IndOpen DEF ReceiptsAreSolicited, SlotMatchesTransfer, DeltasInOrder
  <2>6. /\ Bounded /\ Fresh /\ Cancelled /\ ChildShape /\ FailedIsOver
        /\ Solicited /\ Versions /\ CookieVersions
    BY <1>1, IndOpen
  <2>7. Reached' \subseteq Reached
    BY <1>1, <1>3, <2>3, Types, TransferIs, InReached, ReachedWithin
  <2>8. Bounded' /\ Fresh' /\ Cancelled' /\ OwnedIsActive' /\ Counted' /\ Newest'
    BY <1>1, <2>2, <2>3, <2>6, <2>7, Disowned
  <2>9. ChildShape' /\ FailedIsOver' /\ Solicited' /\ Versions' /\ CookieVersions'
    BY <2>3, <2>6 DEF ChildShape, FailedIsOver, Solicited, Versions, CookieVersions, Newer
  <2> QED
    BY <2>4, <2>5, <2>8, <2>9, IndNext
<1> QED
  BY <1>4, <1>5

(* Replacing the renderer for a page's navigation keeps the invariant. *)
LEMMA FollowNavigationKeeps ==
    ASSUME Ind, FollowNavigation
    PROVE  Ind'
<1>1. Alive /\ TypeOK
  BY DEF Ind, FollowNavigation
<1>2. /\ events # <<>> /\ events' = Tail(events)
      /\ UNCHANGED <<lifecycle, lane, broker, pipe, toBroker, renderer, history>>
  BY DEF FollowNavigation
<1>3. events' \in Seq(Report)
  BY <1>1, <1>2, EventTaken
<1>4. CASE UNCHANGED <<ui, exit>>
  BY <1>1, <1>2, <1>4, EventGone
<1>5. CASE ui' = [ui EXCEPT !.doc = None] /\ exit' = "replaced"
  <2>1. UiType' /\ ExitType' /\ ~Alive'
    BY <1>1, <1>5, TypeParts DEF UiType, ExitType, Alive
  <2>2. /\ toBroker' = toBroker /\ lifecycle' = lifecycle /\ toChild' = toChild
        /\ child' = child /\ event' = event /\ inFlight' = inFlight /\ outgoing' = outgoing
        /\ consumed' = consumed
        /\ lane' = lane /\ broker' = broker /\ pipe' = pipe /\ history' = history
    BY <1>2 DEF lane, broker, pipe, renderer, history
  <2>3. TypeOK'
    BY <1>1, <1>3, <2>1, <2>2, TypeParts, TypeKept, TypeNext, Zenon
  <2>4. /\ ReceiptsAreSolicited' /\ SlotMatchesTransfer' /\ DeltasInOrder'
        /\ Ordered(toChild', PipePairs)
    BY <1>1, <1>5, <2>2, IndOpen DEF ReceiptsAreSolicited, SlotMatchesTransfer, DeltasInOrder
  <2> QED
    BY <2>1, <2>3, <2>4, IndNext
<1> QED
  BY <1>4, <1>5 DEF FollowNavigation

(* Deciding a cookie correction keeps the invariant. *)
LEMMA CorrectCookieKeeps ==
    ASSUME Ind, CorrectCookie
    PROVE  Ind'
<1> DEFINE ver == ui.cookies + 1
           u == [kind |-> "cookie", doc |-> ui.doc, ver |-> ver, foreign |-> FALSE]
<1>1. Alive /\ TypeOK
  BY DEF Ind, CorrectCookie
<1>2. /\ events # <<>> /\ Head(events).op = "cookie" /\ events' = Tail(events)
      /\ UNCHANGED <<lifecycle, inFlight, broker, pipe, toBroker, renderer, exit, history>>
  BY DEF CorrectCookie
<1>3. CASE Head(events).doc # ui.doc
  <2>1. ui' = ui /\ lane' = lane
    BY <1>2, <1>3 DEF CorrectCookie, lane
  <2> QED
    BY <1>1, <1>2, <2>1, EventGone
<1>4. CASE Head(events).doc = ui.doc
  <2>1. /\ ui' = [ui EXCEPT !.cookies = ver]
        /\ pending' = Coalesced(pending, u)
    BY <1>4 DEF CorrectCookie
  <2>2. /\ events' \in Seq(Report) /\ Range(events') \subseteq Range(events)
        /\ ui.doc \in Docs /\ Told(events) = Told(events') + 1
        /\ Told(events') \in Nat
    <3>1. Head(events) \in Report /\ Head(events).doc \in Docs
      BY <1>1, <1>2, EventTaken
    <3>2. Head(events) \in CookieReports(ui.doc)
      BY <1>2, <1>4, <3>1 DEF CookieReports
    <3> QED
      BY <1>1, <1>2, <1>4, <3>1, <3>2, EventTaken
  <2>3. /\ Bounded /\ Fresh /\ Cancelled /\ ChildShape /\ FailedIsOver /\ OwnedIsActive
        /\ Solicited /\ Versions /\ Counted /\ Newest /\ CookieVersions
    BY <1>1, IndOpen
  <2>4. /\ ui.doc # None /\ Mutations > 0 /\ ver <= Mutations /\ ver \in Nat /\ ver > 0
        /\ ver = ui.cookies + 1
    <3>1. /\ Told(toBroker) \in Nat /\ Told(events) \in Nat /\ ui.cookies \in Nat
          /\ Mutations = ui.cookies + Told(toBroker) + Told(events)
      BY <1>1, MutationsAre
    <3>2. ui.doc # None
      BY <2>2, DocsNat
    <3> QED
      BY <2>2, <3>1, <3>2
  <2> HIDE DEF ver
  <2>5. ver \in 0 .. MaxCookies
    <3>1. Mutations <= child.cookies /\ Mutations \in Nat
      BY <1>1, <2>3, <2>4, MutationsAre DEF Counted
    <3>2. child.cookies \in Nat /\ child.cookies <= MaxCookies /\ MaxCookies \in Nat
      BY <1>1, TypeParts, LaneAssumption DEF ChildType
    <3> QED
      BY <2>4, <3>1, <3>2
  <2>6. u \in Update
    <3>1. ver \in Nat /\ ui.doc \in Docs
      BY <2>2, <2>4
    <3> QED
      BY <3>1 DEF Update
  <2>7. u.kind = "cookie" /\ u.doc = ui.doc /\ u.ver = ver
    OBVIOUS
  <2> HIDE DEF u
  <2>8. ui'.doc = ui.doc /\ ui'.loads = ui.loads /\ ui'.cookies = ver /\ UiType'
    BY <1>1, <2>1, <2>5, TypeParts DEF UiType
  <2>9. /\ inFlight' = inFlight /\ active' = active /\ outgoing' = outgoing
        /\ toChild' = toChild /\ toBroker' = toBroker /\ child' = child /\ exit' = exit
        /\ event' = event /\ admitted' = admitted /\ consumed' = consumed
        /\ lifecycle' = lifecycle
        /\ broker' = broker /\ pipe' = pipe /\ history' = history
    BY <1>2 DEF broker, pipe, renderer, history
  <2>10. /\ pending' \in Seq(Update) /\ u \in Range(pending')
         /\ \A w \in Range(pending') :
              w = u \/ (w \in Range(pending) /\ ~CookieOf(w, ui.doc))
         /\ Ordered(pending', PendingPairs)
    <3>1. pending \in Seq(Update) /\ Ordered(pending, PendingPairs)
      BY <1>1, <2>3, Types DEF Versions
    <3> QED
      BY <2>1, <2>6, <2>7, <3>1, CoalescedIs DEF CookieOf
  <2>11. TypeOK'
    <3>1. LaneType'
      BY <1>1, <2>9, <2>10, TypeParts DEF LaneType
    <3> QED
      BY <1>1, <2>2, <2>8, <2>9, <3>1, TypeParts, TypeKept, TypeNext, Zenon
  <2>12. /\ ReceiptsAreSolicited' /\ SlotMatchesTransfer' /\ DeltasInOrder'
         /\ Ordered(toChild', PipePairs)
    BY <1>1, <2>9, IndOpen DEF ReceiptsAreSolicited, SlotMatchesTransfer, DeltasInOrder
  <2>13. Reached' \subseteq Reached
    BY <1>1, <2>2, <2>9, Types, TransferIs, InReached, ReachedWithin
  <2>14. Bounded' /\ Fresh'
    <3>1. ui.doc <= ui.loads
      <4>1. ui.doc = ui.loads /\ ui.loads \in Nat
        BY <1>1, <2>3, <2>4, Types DEF Bounded
      <4> QED
        BY <4>1
    <3>2. \A w \in Range(pending') : w.doc <= ui.loads
      BY <2>3, <2>7, <2>10, <3>1 DEF Bounded
    <3>3. Bounded'
      BY <2>3, <2>8, <2>9, <2>13, <3>2 DEF Bounded
    <3>4. Fresh'
      BY <2>3, <2>8, <2>9, <2>13 DEF Fresh
    <3> QED
      BY <3>3, <3>4
  <2>15. Cancelled' /\ ChildShape' /\ FailedIsOver' /\ OwnedIsActive' /\ Solicited'
    BY <2>3, <2>8, <2>9 DEF Cancelled, ChildShape, FailedIsOver, OwnedIsActive, Solicited
  <2>16. Versions'
    <3>1. \A w \in Range(pending') : w.kind = "sync" => w \in Range(pending)
      BY <2>7, <2>10
    <3> QED
      BY <2>3, <2>9, <2>10, <3>1 DEF Versions, Newer
  <2>17. CookieVersions'
    <3>1. u.ver <= MaxCookies
      BY <2>5, <2>7
    <3> QED
      BY <2>3, <2>9, <2>10, <3>1 DEF CookieVersions
  <2>18. Newest'
    <3>1. \A w \in Range(pending') : CookieOf(w, ui.doc) => w = u
      BY <2>10
    <3>2. CookieOf(u, ui.doc)
      BY <2>7 DEF CookieOf
    <3> QED
      BY <2>3, <2>4, <2>7, <2>8, <2>9, <2>10, <3>1, <3>2 DEF Newest
  <2>19. Counted'
    <3>1. Mutations' = Mutations
      <4>1. /\ Told(toBroker) \in Nat /\ ui.cookies \in Nat
            /\ Mutations = ui.cookies + Told(toBroker) + Told(events)
        BY <1>1, MutationsAre
      <4>2. Mutations' = ver + Told(toBroker) + Told(events')
        BY <2>8, <2>9 DEF Mutations, Told, CookieReports
      <4> DEFINE a == Told(toBroker)
                 b == Told(events)
                 c == Told(events')
                 k == ui.cookies
      <4>3. /\ a \in Nat /\ k \in Nat /\ c \in Nat /\ b = c + 1 /\ ver = k + 1
            /\ Mutations = k + a + b /\ Mutations' = ver + a + c
        BY <2>2, <2>4, <4>1, <4>2
      <4> HIDE DEF a, b, c, k
      <4>4. k + a + b = ver + a + c
        BY <4>3
      <4> QED
        BY <4>3, <4>4
    <3> QED
      BY <2>3, <2>8, <2>9, <3>1 DEF Counted
  <2> QED
    BY <2>11, <2>12, <2>14, <2>15, <2>16, <2>17, <2>18, <2>19, IndNext
<1> QED
  BY <1>3, <1>4

-----------------------------------------------------------------------------
(* A step that moves only the broker's place in its loop and the writer. *)
LEMMA SameKeeps ==
    ASSUME Ind, ui' = ui, lifecycle' = lifecycle, lane' = lane, toChild' = toChild,
           active' = active, outgoing' = outgoing, toBroker' = toBroker, events' = events,
           renderer' = renderer, exit' = exit, history' = history, BrokerType', PipeType'
    PROVE  Ind'
<1>1. TypeOK
  BY DEF Ind
<1>2. /\ pending' = pending /\ inFlight' = inFlight /\ child' = child
      /\ event' = event /\ admitted' = admitted /\ consumed' = consumed
  BY DEF lane, renderer, history
<1>3. TypeOK'
  BY <1>1, <1>2, TypeParts, TypeKept, TypeNext, Zenon
<1>4. /\ ReceiptsAreSolicited' /\ SlotMatchesTransfer' /\ DeltasInOrder'
      /\ Ordered(toChild', PipePairs)
  BY <1>2 DEF Ind, ReceiptsAreSolicited, SlotMatchesTransfer, DeltasInOrder
<1>5. ASSUME Alive'
      PROVE  /\ Bounded' /\ Fresh' /\ Cancelled' /\ ChildShape' /\ FailedIsOver'
             /\ OwnedIsActive' /\ Solicited' /\ Versions' /\ Counted' /\ Newest'
             /\ CookieVersions'
  <2>1. Alive
    BY <1>5 DEF Alive
  <2>2. /\ Bounded /\ Fresh /\ Cancelled /\ ChildShape /\ FailedIsOver /\ OwnedIsActive
        /\ Solicited /\ Versions /\ Counted /\ Newest /\ CookieVersions
    BY <2>1, IndOpen
  <2>3. Reached' = Reached
    BY <1>2, SameReached
  <2>4. Bounded' /\ Fresh'
    BY <1>2, <2>2, <2>3 DEF Bounded, Fresh
  <2>5. /\ Cancelled' /\ ChildShape' /\ FailedIsOver' /\ OwnedIsActive' /\ Solicited'
        /\ Newest' /\ CookieVersions' /\ Versions' /\ Counted'
    BY <1>2, <2>2 DEF Cancelled, ChildShape, FailedIsOver, OwnedIsActive, Solicited,
                      Newest, CookieVersions, Versions, Newer, Counted, Mutations
  <2> QED
    BY <2>4, <2>5
<1> QED
  BY <1>3, <1>4, <1>5, IndNext

(* Messages go to the end of the pipe. *)
LEMMA SentType ==
    ASSUME PipeType, NEW sent \in Seq(Messages), SendBrowser(sent)
    PROVE  PipeType'
<1> DEFINE n == Len(toChild)
           k == Len(sent)
<1>1. /\ toChild \in Seq(Messages) /\ queued \in 0 .. n
      /\ toChild' = toChild \o sent /\ queued' = queued + k
  BY DEF PipeType, SendBrowser
<1>2. /\ toChild' \in Seq(Messages) /\ Len(toChild') = n + k
      /\ n \in Nat /\ k \in Nat
  BY <1>1, ConcatProperties, LenProperties
<1> HIDE DEF n, k
<1>3. queued' \in 0 .. Len(toChild')
  BY <1>1, <1>2
<1> QED
  BY <1>2, <1>3 DEF PipeType

(* A signal is a message that delivers no update. *)
LEMMA SignalIs ==
    ASSUME NEW op \in {"begin", "stream", "chunk", "end", "abort", "cancel"}, NEW doc \in Docs
    PROVE  /\ Say(op, doc) \in Messages /\ Say(op, doc) \notin Delivery
           /\ Say(op, doc).op = op /\ Say(op, doc).doc = doc /\ DocOf(Say(op, doc)) = doc
           /\ <<Say(op, doc)>> \in Seq(Messages)
<1> DEFINE m == Say(op, doc)
<1>1. m.op = op /\ m.doc = doc /\ m \in Signal
  BY DEF Say, Signal
<1> HIDE DEF m
<1>2. m \in Messages
  BY <1>1 DEF Messages
<1>3. op # "update" /\ op # "applied"
  OBVIOUS
<1>4. m \notin Delivery /\ DocOf(m) = doc
  BY <1>1, <1>2, <1>3, MessageFacts
<1> QED
  BY <1>1, <1>2, <1>4, SingleIs DEF m

(* One signal is sent. *)
LEMMA SignalSent ==
    ASSUME PipeType, Ordered(toChild, PipePairs), NEW doc \in Docs,
           NEW op \in {"begin", "stream", "chunk", "end", "abort", "cancel"},
           SendBrowser(<<Say(op, doc)>>),
           \A m \in Range(toChild) : m.op = "cancel" => m.doc # doc,
           op \in {"begin", "stream"} => \A m \in Range(toChild) : DocOf(m) < doc
    PROVE  /\ PipeType' /\ Ordered(toChild', PipePairs)
           /\ Range(toChild') = Range(toChild) \cup {Say(op, doc)}
<1> DEFINE x == Say(op, doc)
<1>1. /\ x \in Messages /\ x.op = op /\ x.doc = doc /\ DocOf(x) = doc /\ <<x>> \in Seq(Messages)
  BY SignalIs
<1>2. toChild \in Seq(Messages) /\ toChild' = Append(toChild, x)
  <2>1. toChild \in Seq(Messages) /\ toChild' = toChild \o <<x>>
    BY DEF PipeType, SendBrowser
  <2> HIDE DEF x
  <2> QED
    BY <1>1, <2>1, AppendTwo
<1>3. PipeType'
  BY <1>1, SentType
<1> HIDE DEF x
<1>4. Range(toChild') = Range(toChild) \cup {x}
  BY <1>1, <1>2, RangeAppend
<1>5. \A y \in Range(toChild) : <<y, x>> \in PipePairs
  <2> TAKE y \in Range(toChild)
  <2>1. y \in Messages
    BY <1>2, RangeType
  <2>2. Begins(x) => op \in {"begin", "stream"}
    BY <1>1 DEF Begins
  <2>3. Begins(x) => DocOf(y) < x.doc
    BY <1>1, <2>2
  <2> QED
    BY <1>1, <2>1, <2>3, PipePairIs
<1>6. Ordered(toChild', PipePairs)
  BY <1>1, <1>2, <1>5, OrderedAppend
<1> QED
  BY <1>3, <1>4, <1>6 DEF x

(* The broker takes a lifecycle command. *)
LEMMA CommandTaken ==
    ASSUME TypeOK, Bounded, Fresh, lifecycle # <<>>, lifecycle' = Tail(lifecycle)
    PROVE  /\ lifecycle' \in Seq(Command) /\ Range(lifecycle') \subseteq Range(lifecycle)
           /\ Head(lifecycle) \in Command /\ Head(lifecycle).doc \in Docs
           /\ Head(lifecycle) \in Range(lifecycle)
           /\ Ordered(lifecycle', CommandPairs)
           /\ \A c \in Range(lifecycle') :
                /\ c.doc = Head(lifecycle).doc => Head(lifecycle).op # "cancel" /\ c.op = "cancel"
                /\ c.op # "cancel" => Head(lifecycle).doc < c.doc
<1> DEFINE h == Head(lifecycle)
<1>1. lifecycle \in Seq(Command) /\ Ordered(lifecycle, CommandPairs)
  BY Types DEF Fresh
<1>2. /\ Range(lifecycle) = {h} \cup Range(Tail(lifecycle))
      /\ h \in Command /\ Tail(lifecycle) \in Seq(Command)
  BY <1>1, RangeTail
<1>3. /\ Ordered(Tail(lifecycle), CommandPairs)
      /\ \A c \in Range(Tail(lifecycle)) : <<h, c>> \in CommandPairs
  BY <1>1, OrderedTail
<1>4. lifecycle' = Tail(lifecycle)
  OBVIOUS
<1> HIDE DEF h
<1>5. h.doc \in Docs /\ h.doc \in Nat
  BY <1>2, DocsNat DEF Command
<1>6. \A c \in Range(lifecycle') : c \in Command /\ c.doc \in Nat
  <2>1. \A c \in Range(lifecycle) : c.doc \in Nat
    BY DocNumbers, DocsNat
  <2> QED
    BY <1>1, <1>2, <1>4, <2>1, Members
<1>7. \A c \in Range(lifecycle') :
        /\ h.doc <= c.doc
        /\ h.doc = c.doc => h.op # "cancel" /\ c.op = "cancel"
  BY <1>2, <1>3, <1>4, <1>6, CommandPairIs
<1>8. \A c \in Range(lifecycle') :
        /\ c.doc = h.doc => h.op # "cancel" /\ c.op = "cancel"
        /\ c.op # "cancel" => h.doc < c.doc
  BY <1>5, <1>6, <1>7
<1> QED
  BY <1>2, <1>3, <1>4, <1>5, <1>8 DEF h

(* The updates of a document are thrown out. *)
LEMMA Discarded ==
    ASSUME TypeOK, SlotMatchesTransfer, NEW doc \in Docs, DiscardUpdates(doc)
    PROVE  /\ LaneType'
           /\ outgoing' \in Seq(Transfers) /\ Len(outgoing') <= 1
           /\ outgoing' \in {outgoing, <<>>} /\ Range(outgoing') \subseteq Range(outgoing)
           /\ Range(pending') = {u \in Range(pending) : u.doc # doc}
           /\ Ordered(pending, PendingPairs) => Ordered(pending', PendingPairs)
           /\ SlotMatchesTransfer'
           /\ \A o \in Range(outgoing) : o.update.doc = doc => outgoing' = <<>>
           /\ \A o \in Range(outgoing) : o.update.doc # doc => outgoing' = outgoing
<1> DEFINE S == {u \in Update : u.doc # doc}
<1>1. /\ pending \in Seq(Update) /\ inFlight \in BOOLEAN
      /\ outgoing \in Seq(Transfers) /\ Len(outgoing) <= 1
  BY TypeParts DEF LaneType, BrokerType
<1>2. /\ pending' = Selection(pending, S)
      /\ outgoing' = IF OwnsOutgoing(doc) THEN <<>> ELSE outgoing
      /\ inFlight' = IF OwnsOutgoing(doc) THEN FALSE ELSE inFlight
  BY DEF DiscardUpdates
<1>3. /\ Range(pending') = Range(pending) \cap S
      /\ Ordered(pending, PendingPairs) => Ordered(pending', PendingPairs)
      /\ pending' \in Seq(Update \cap S)
  BY <1>1, <1>2, RangeSelection, OrderedSelection, SelectionType
<1>4. Range(pending') = {u \in Range(pending) : u.doc # doc}
  BY <1>1, <1>3, RangeType
<1>5. pending' \in Seq(Update)
  <2>1. Update \cap S \subseteq Update
    OBVIOUS
  <2> HIDE DEF S
  <2> QED
    BY <1>3, <2>1
<1>6. inFlight' \in BOOLEAN
  BY <1>1, <1>2, Zenon
<1>7. LaneType'
  BY <1>5, <1>6, Zenon DEF LaneType
<1>8. outgoing' \in Seq(Transfers) /\ Len(outgoing') <= 1 /\ outgoing' \in {outgoing, <<>>}
  <2>1. CASE OwnsOutgoing(doc)
    <3>1. outgoing' = <<>> /\ <<>> \in Seq(Transfers) /\ Len(<<>>) = 0
      BY <1>2, <2>1, EmptySeq
    <3> QED
      BY <3>1
  <2>2. CASE ~OwnsOutgoing(doc)
    BY <1>1, <1>2, <2>2
  <2> QED
    BY <2>1, <2>2
<1>9. Range(outgoing') \subseteq Range(outgoing)
  BY <1>8, RangeEmpty
<1>10. SlotMatchesTransfer'
  BY <1>2, Zenon DEF SlotMatchesTransfer
<1>11. \A o \in Range(outgoing) : OwnsOutgoing(doc) <=> o.update.doc = doc
  BY TransferIs DEF OwnsOutgoing
<1>12. /\ \A o \in Range(outgoing) : o.update.doc = doc => outgoing' = <<>>
       /\ \A o \in Range(outgoing) : o.update.doc # doc => outgoing' = outgoing
  BY <1>2, <1>11
<1> QED
  BY <1>4, <1>3, <1>7, <1>8, <1>9, <1>10, <1>12

(* The reports of the documents that are left are all still there. *)
LEMMA EventsOfOthers ==
    ASSUME TypeOK, NEW doc \in Docs, ui.doc # doc,
           events' = Selection(events, {e \in Report : e.doc # doc})
    PROVE  /\ events' \in Seq(Report) /\ Range(events') \subseteq Range(events)
           /\ Told(events') = Told(events)
<1> DEFINE S == {e \in Report : e.doc # doc}
           R == CookieReports(ui.doc)
<1>1. events \in Seq(Report)
  BY Types
<1>2. events' \in Seq(Report \cap S) /\ Range(events') = Range(events) \cap S
  BY <1>1, SelectionType, RangeSelection
<1>3. events' \in Seq(Report)
  <2>1. Report \cap S \subseteq Report
    OBVIOUS
  <2> HIDE DEF S
  <2> QED
    BY <1>2, <2>1
<1>4. Selection(events', R) = Selection(events, S \cap R)
  BY <1>1, SelectionWithin
<1>5. S \cap R = R
  BY DEF CookieReports
<1> QED
  BY <1>2, <1>3, <1>4, <1>5 DEF Told

(* The broker's cancellation of a document keeps the invariant. *)
LEMMA CancelTakenKeeps ==
    ASSUME Ind, Alive, lifecycle # <<>>, Head(lifecycle).op = "cancel",
           lifecycle' = Tail(lifecycle), stage' = stage, CancelDocument(Head(lifecycle).doc),
           UNCHANGED <<ui, toBroker, renderer, exit, history>>
    PROVE  Ind'
<1> DEFINE doc == Head(lifecycle).doc
           x == Say("cancel", doc)
<1>1. TypeOK
  BY DEF Ind
<1>2. /\ Bounded /\ Fresh /\ Cancelled /\ ChildShape /\ FailedIsOver /\ OwnedIsActive
      /\ Solicited /\ Versions /\ Counted /\ Newest /\ CookieVersions
      /\ SlotMatchesTransfer /\ Ordered(toChild, PipePairs)
  BY IndOpen
<1>3. /\ lifecycle' \in Seq(Command) /\ Range(lifecycle') \subseteq Range(lifecycle)
      /\ doc \in Docs /\ Head(lifecycle) \in Range(lifecycle)
      /\ Ordered(lifecycle', CommandPairs)
      /\ \A c \in Range(lifecycle') : c.doc # doc /\ (c.op # "cancel" => doc < c.doc)
  BY <1>1, <1>2, CommandTaken
<1>4. /\ DiscardUpdates(doc)
      /\ events' = Selection(events, {e \in Report : e.doc # doc})
      /\ active' = IF active = doc THEN None ELSE active
      /\ body' = IF active = doc THEN None ELSE body
      /\ SendBrowser(<<x>>)
  BY DEF CancelDocument
<1>5. ui.doc # doc /\ doc <= ui.loads /\ doc # None
  BY <1>2, <1>3, DocsNat DEF Fresh, Bounded
<1>6. x.op = "cancel" /\ x.doc = doc /\ DocOf(x) = doc /\ x \notin Delivery /\ ~Begins(x)
  <2>1. x.op = "cancel" /\ x.doc = doc /\ DocOf(x) = doc /\ x \notin Delivery
    BY <1>3, SignalIs
  <2> QED
    BY <2>1 DEF Begins
<1>7. /\ PipeType' /\ Ordered(toChild', PipePairs) /\ Range(toChild') = Range(toChild) \cup {x}
  <2>1. \A m \in Range(toChild) : m.op = "cancel" => m.doc # doc
    BY <1>2, <1>3 DEF Cancelled
  <2>2. PipeType
    BY <1>1, TypeParts
  <2> QED
    BY <1>2, <1>3, <1>4, <2>1, <2>2, SignalSent
<1> HIDE DEF doc, x
<1>8. /\ LaneType' /\ outgoing' \in Seq(Transfers) /\ Len(outgoing') <= 1
      /\ outgoing' \in {outgoing, <<>>} /\ Range(outgoing') \subseteq Range(outgoing)
      /\ Range(pending') = {u \in Range(pending) : u.doc # doc}
      /\ Ordered(pending', PendingPairs) /\ SlotMatchesTransfer'
      /\ \A o \in Range(outgoing) : o.update.doc = doc => outgoing' = <<>>
      /\ \A o \in Range(outgoing) : o.update.doc # doc => outgoing' = outgoing
  BY <1>1, <1>2, <1>3, <1>4, Discarded DEF Versions
<1>9. /\ events' \in Seq(Report) /\ Range(events') \subseteq Range(events)
      /\ Told(events') = Told(events)
  BY <1>1, <1>3, <1>4, <1>5, EventsOfOthers
<1>10. /\ child' = child /\ event' = event /\ admitted' = admitted /\ consumed' = consumed
       /\ ui' = ui /\ toBroker' = toBroker /\ exit' = exit /\ history' = history
  BY DEF renderer, history
<1>11. TypeOK'
  <2>1. BrokerType'
    BY <1>1, <1>4, <1>8, TypeParts DEF BrokerType
  <2> QED
    BY <1>1, <1>3, <1>7, <1>8, <1>9, <1>10, <2>1, TypeParts, TypeKept, TypeNext, Zenon
<1>12. ReceiptsAreSolicited' /\ DeltasInOrder'
  BY <1>10, IndOpen DEF ReceiptsAreSolicited, DeltasInOrder
<1>13. Reached' \subseteq Reached \cup {doc}
  <2>1. active' \in Reached \cup {None} /\ child'.incoming \in Reached \cup {None}
        /\ child'.running \in Reached \cup {None}
    BY <1>1, <1>4, <1>10, InReached
  <2>2. outgoing' # <<>> => Head(outgoing').update.doc \in Reached
    <3> SUFFICES ASSUME outgoing' # <<>> PROVE Head(outgoing').update.doc \in Reached
      OBVIOUS
    <3>1. outgoing' = outgoing /\ outgoing # <<>>
      BY <1>8
    <3>2. Head(outgoing) \in Range(outgoing)
      BY <1>1, <3>1, TransferIs
    <3> QED
      BY <1>1, <3>1, <3>2, InReached
  <2>3. /\ \A m \in Range(toChild') : DocOf(m) \in Reached \cup {doc}
        /\ \A r \in Range(toBroker') : DocOf(r) \in Reached
        /\ \A u \in Range(event') : u.doc \in Reached
        /\ \A e \in Range(events') : e.doc \in Reached
    BY <1>1, <1>6, <1>7, <1>9, <1>10, InReached
  <2> DEFINE S == Reached \cup {doc}
  <2>4. /\ active' \in S \cup {None} /\ child'.incoming \in S \cup {None}
        /\ child'.running \in S \cup {None}
        /\ outgoing' # <<>> => Head(outgoing').update.doc \in S
        /\ \A m \in Range(toChild') : DocOf(m) \in S
        /\ \A r \in Range(toBroker') : DocOf(r) \in S
        /\ \A u \in Range(event') : u.doc \in S
        /\ \A e \in Range(events') : e.doc \in S
    BY <2>1, <2>2, <2>3
  <2> HIDE DEF S
  <2>5. Reached' \subseteq S
    BY <2>4, ReachedWithin
  <2> QED
    BY <2>5 DEF S
<1>14. Bounded'
  BY <1>2, <1>3, <1>5, <1>8, <1>10, <1>13 DEF Bounded
<1>15. Fresh'
  BY <1>2, <1>3, <1>5, <1>10, <1>13 DEF Fresh
<1>16. Cancelled'
  <2> SUFFICES ASSUME NEW m \in Range(toChild'), m.op = "cancel"
               PROVE  /\ active' # m.doc /\ ui'.doc # m.doc
                      /\ outgoing' # <<>> => Head(outgoing').update.doc # m.doc
                      /\ \A c \in Range(lifecycle') : c.doc # m.doc
    BY DEF Cancelled
  <2>1. CASE m = x
    <3>1. active' # doc
      BY <1>4, <1>5
    <3>2. outgoing' # <<>> => Head(outgoing').update.doc # doc
      BY <1>1, <1>8, TransferIs
    <3> QED
      BY <1>3, <1>5, <1>6, <1>10, <2>1, <3>1, <3>2
  <2>2. CASE m \in Range(toChild)
    <3>1. m.doc # None
      BY <1>1, <2>2, Members, MessageFacts, DocsNat
    <3> QED
      BY <1>2, <1>3, <1>4, <1>8, <1>10, <2>2, <3>1 DEF Cancelled
  <2> QED
    BY <1>7, <2>1, <2>2
<1>17. ChildShape' /\ FailedIsOver'
  BY <1>2, <1>6, <1>7, <1>10 DEF ChildShape, FailedIsOver
<1>18. OwnedIsActive'
  <2>1. ui.doc # None /\ active = ui.doc => active' = ui.doc
    BY <1>4, <1>5
  <2> QED
    BY <1>2, <1>6, <1>7, <1>10, <2>1 DEF OwnedIsActive
<1>19. Solicited'
  <2> SUFFICES ASSUME active' # None PROVE Solicited'
    BY DEF Solicited
  <2>1. active' = active /\ active # None /\ active # doc
    BY <1>4
  <2>2. toChild \in Seq(Messages) /\ toChild' = Append(toChild, x)
    <3>1. x \in Messages /\ <<x>> \in Seq(Messages) /\ toChild \in Seq(Messages)
      BY <1>1, <1>3, SignalIs, Types DEF x
    <3>2. toChild' = toChild \o <<x>>
      BY <1>4 DEF SendBrowser
    <3> QED
      BY <3>1, <3>2, AppendTwo
  <2>3. x \in Messages /\ x \notin UpdatesFor(active)
    BY <1>3, <1>6, SignalIs DEF UpdatesFor, x
  <2>4. Once(toChild', UpdatesFor(active))
    BY <1>2, <2>1, <2>2, <2>3, OnceAppend DEF Solicited
  <2>5. Range(toChild') \cap UpdatesFor(active) = Range(toChild) \cap UpdatesFor(active)
    BY <1>7, <2>3
  <2>6. \A w \in Update : w.doc = active /\ outgoing = <<[update |-> w, sent |-> TRUE]>>
          => outgoing' = <<[update |-> w, sent |-> TRUE]>>
    <3> TAKE w \in Update
    <3> DEFINE t == [update |-> w, sent |-> TRUE]
    <3>1. t.update = w /\ t \in Transfers
      BY DEF Transfers
    <3> HIDE DEF t
    <3>2. outgoing = <<t>> => t \in Range(outgoing)
      BY <3>1, SingleIs
    <3>3. w.doc = active /\ outgoing = <<t>> => outgoing' = <<t>>
      BY <1>8, <2>1, <3>1, <3>2
    <3> QED
      BY <3>3 DEF t
  <2>7. /\ \A m \in Range(toChild) \cap UpdatesFor(active) :
             m.update \in Update /\ m.update.doc = active
        /\ \A r \in Range(toBroker) \cap ReceiptsFrom(active) :
             r.update \in Update /\ r.update.doc = active
        /\ \A u \in Range(event) : u \in Update
    BY <1>1, Members DEF UpdatesFor, ReceiptsFrom, Delivery, Receipt
  <2> QED
    BY <1>2, <1>10, <2>1, <2>4, <2>5, <2>6, <2>7 DEF Solicited
<1>20. Versions'
  <2>1. \A m \in Range(toChild') : m.op = "update" => m \in Range(toChild)
    BY <1>6, <1>7
  <2>2. \A u \in Range(pending') : u.kind = "sync" => outgoing' = <<>>
    BY <1>2, <1>8 DEF Versions
  <2> QED
    BY <1>2, <1>8, <1>10, <2>1, <2>2 DEF Versions, Newer
<1>21. Counted'
  <2>1. Told(toBroker') + Told(events') <= Told(toBroker) + Told(events)
    BY <1>1, <1>9, <1>10, MutationsAre
  <2>2. /\ child'.cookies = child.cookies /\ child'.incoming \in {child.incoming, None}
        /\ \A m \in Range(toChild') : m \in Range(toChild) \/ ~Begins(m)
    BY <1>6, <1>7, <1>10
  <2> QED
    BY <1>1, <1>2, <1>3, <1>10, <1>11, <2>1, <2>2, CountedKept
<1>22. Newest'
  <2>1. /\ \A u \in Range(pending) : CookieOf(u, ui.doc) => u \in Range(pending')
        /\ \A o \in Range(outgoing) : CookieOf(o.update, ui.doc) => outgoing' = outgoing
    BY <1>5, <1>8 DEF CookieOf
  <2>2. \A m \in UpdatesFor(ui.doc) : m \in Range(toChild') => m \in Range(toChild)
    BY <1>6, <1>7 DEF UpdatesFor
  <2>3. /\ \A u \in Range(pending') : u \in Range(pending)
        /\ \A o \in Range(outgoing') : o \in Range(outgoing)
    BY <1>8
  <2>4. \A m \in Range(toChild) : m \in Range(toChild')
    BY <1>7
  <2>5. (\E o \in Range(outgoing) : CookieOf(o.update, ui.doc)) =>
          outgoing' = outgoing
    BY <2>1
  <2> QED
    BY <1>2, <1>10, <2>1, <2>2, <2>3, <2>4, <2>5 DEF Newest
<1>23. CookieVersions'
  <2>1. \A m \in Range(toChild') : m.op = "update" => m \in Range(toChild)
    BY <1>6, <1>7
  <2> QED
    BY <1>2, <1>8, <2>1 DEF CookieVersions
<1> QED
  BY <1>7, <1>8, <1>11, <1>12, <1>14, <1>15, <1>16, <1>17, <1>18, <1>19, <1>20, <1>21, <1>22,
     <1>23, IndNext

(* What a step adds to the documents in reach. *)
LEMMA ReachedGrows ==
    ASSUME TypeOK, NEW D, active' \in Reached \cup D \cup {None},
           child'.incoming \in Reached \cup D \cup {None},
           child'.running \in Reached \cup D \cup {None},
           outgoing' \in {outgoing, <<>>},
           \A m \in Range(toChild') : m \in Range(toChild) \/ DocOf(m) \in Reached \cup D,
           \A r \in Range(toBroker') : r \in Range(toBroker) \/ DocOf(r) \in Reached \cup D,
           \A u \in Range(event') : u \in Range(event) \/ u.doc \in Reached \cup D,
           \A e \in Range(events') : e \in Range(events) \/ e.doc \in Reached \cup D
    PROVE  Reached' \subseteq Reached \cup D
<1> DEFINE S == Reached \cup D
<1>1. outgoing' # <<>> => Head(outgoing').update.doc \in S
  <2> SUFFICES ASSUME outgoing' # <<>> PROVE Head(outgoing').update.doc \in Reached
    OBVIOUS
  <2>1. outgoing' = outgoing /\ outgoing # <<>>
    OBVIOUS
  <2>2. Head(outgoing) \in Range(outgoing)
    BY <2>1, TransferIs
  <2> QED
    BY <2>1, <2>2, InReached
<1>2. /\ active' \in S \cup {None} /\ child'.incoming \in S \cup {None}
      /\ child'.running \in S \cup {None}
      /\ \A m \in Range(toChild') : DocOf(m) \in S
      /\ \A r \in Range(toBroker') : DocOf(r) \in S
      /\ \A u \in Range(event') : u.doc \in S
      /\ \A e \in Range(events') : e.doc \in S
  BY InReached
<1> HIDE DEF S
<1>3. Reached' \subseteq S
  BY <1>1, <1>2, ReachedWithin
<1> QED
  BY <1>3 DEF S

(* A buffered document has its start and its end sent, a streaming one its *)
(* start.                                                                  *)
LEMMA StartSent ==
    ASSUME TypeOK, Ordered(toChild, PipePairs), NEW command \in Command,
           command.op # "cancel", BeginDocument(command),
           \A m \in Range(toChild) : DocOf(m) < command.doc
    PROVE  /\ PipeType' /\ Ordered(toChild', PipePairs)
           /\ Range(toChild) \subseteq Range(toChild')
           /\ \A m \in Range(toChild') :
                m \in Range(toChild) \/ (m \in Signal /\ m.doc = command.doc /\ m.op # "cancel")
<1> DEFINE doc == command.doc
           a == Say("stream", doc)
           b == Say("begin", doc)
           c == Say("end", doc)
<1>1. doc \in Docs /\ PipeType
  BY TypeParts DEF Command
<1>2. \A m \in Range(toChild) : m.op = "cancel" => m.doc # doc
  <2>1. \A m \in Range(toChild) : m \in Messages /\ DocOf(m) \in Docs
    BY Members, MessageFacts
  <2>2. \A m \in Range(toChild) : DocOf(m) # doc
    BY <1>1, <2>1, DocsNat
  <2> QED
    BY <2>2, Members, MessageFacts
<1>3. \A op \in {"stream", "begin", "end"} :
        /\ Say(op, doc) \in Messages /\ Say(op, doc) \in Signal
        /\ Say(op, doc).op = op /\ Say(op, doc).doc = doc /\ DocOf(Say(op, doc)) = doc
        /\ <<Say(op, doc)>> \in Seq(Messages)
  BY <1>1, SignalIs DEF Say, Signal
<1>4. CASE command.op = "streaming"
  <2>1. SendBrowser(<<a>>)
    BY <1>4 DEF BeginDocument
  <2>2. /\ PipeType' /\ Ordered(toChild', PipePairs)
        /\ Range(toChild') = Range(toChild) \cup {a}
    BY <1>1, <1>2, <2>1, SignalSent
  <2>3. a \in Signal /\ a.doc = doc /\ a.op # "cancel"
    BY <1>3
  <2> QED
    BY <2>2, <2>3
<1>5. CASE command.op # "streaming"
  <2>1. SendBrowser(<<b, c>>)
    BY <1>5 DEF BeginDocument
  <2>2. /\ b \in Messages /\ b \in Signal /\ b.op = "begin" /\ b.doc = doc /\ DocOf(b) = doc
        /\ c \in Messages /\ c \in Signal /\ c.op = "end" /\ c.doc = doc /\ DocOf(c) = doc
    BY <1>3
  <2> HIDE DEF a, b, c, doc
  <2>3. toChild \in Seq(Messages) /\ toChild' = Append(Append(toChild, b), c)
        /\ <<b, c>> \in Seq(Messages)
    <3>1. toChild \in Seq(Messages) /\ toChild' = toChild \o <<b, c>>
      BY <1>1, <2>1 DEF PipeType, SendBrowser
    <3>2. <<b, c>> \in Seq(Messages)
      BY <2>2
    <3> QED
      BY <2>2, <3>1, <3>2, AppendTwo
  <2>4. PipeType'
    BY <1>1, <2>1, <2>3, SentType
  <2>5. \A y \in Range(toChild) : <<y, b>> \in PipePairs /\ <<y, c>> \in PipePairs
    <3> TAKE y \in Range(toChild)
    <3>1. y \in Messages /\ DocOf(y) < doc /\ (y.op = "cancel" => y.doc # doc)
      BY <1>2, Members DEF doc
    <3>2. ~Begins(c) /\ c.op # "update" /\ b.op # "update"
      BY <2>2 DEF Begins
    <3> QED
      BY <2>2, <3>1, <3>2, PipePairIs
  <2>6. <<b, c>> \in PipePairs
    <3>1. ~Begins(c) /\ c.op # "update" /\ b.op # "cancel"
      BY <2>2 DEF Begins
    <3> QED
      BY <2>2, <3>1, PipePairIs
  <2> DEFINE t == Append(toChild, b)
  <2>7. t \in Seq(Messages) /\ Range(t) = Range(toChild) \cup {b} /\ Ordered(t, PipePairs)
    <3>1. toChild \in Seq(Messages) /\ b \in Messages
      BY <2>2, <2>3
    <3>2. t \in Seq(Messages)
      BY <3>1, AppendProperties
    <3>3. Range(t) = Range(toChild) \cup {b}
      BY <3>1, RangeAppend
    <3>4. \A y \in Range(toChild) : <<y, b>> \in PipePairs
      BY <2>5
    <3>5. Ordered(t, PipePairs)
      BY <3>1, <3>4, OrderedAppend
    <3> QED
      BY <3>2, <3>3, <3>5
  <2>8. toChild' = Append(t, c)
    BY <2>3
  <2> HIDE DEF t
  <2>9. Range(toChild') = Range(toChild) \cup {b, c} /\ Ordered(toChild', PipePairs)
    <3>1. \A y \in Range(t) : <<y, c>> \in PipePairs
      BY <2>5, <2>6, <2>7
    <3>2. Ordered(toChild', PipePairs)
      BY <2>2, <2>7, <2>8, <3>1, OrderedAppend
    <3>3. Range(toChild') = Range(t) \cup {c}
      BY <2>2, <2>7, <2>8, RangeAppend
    <3> QED
      BY <2>7, <3>2, <3>3
  <2> QED
    BY <2>2, <2>4, <2>9 DEF doc
<1> QED
  BY <1>4, <1>5

(* The broker's beginning of a document keeps the invariant. *)
LEMMA BeginTakenKeeps ==
    ASSUME Ind, Alive, lifecycle # <<>>, Head(lifecycle).op # "cancel",
           lifecycle' = Tail(lifecycle), stage' = stage, BeginDocument(Head(lifecycle)),
           UNCHANGED <<ui, toBroker, renderer, exit, history>>
    PROVE  Ind'
<1> DEFINE command == Head(lifecycle)
           doc == command.doc
<1>1. TypeOK
  BY DEF Ind
<1>2. /\ Bounded /\ Fresh /\ Cancelled /\ ChildShape /\ FailedIsOver /\ OwnedIsActive
      /\ Solicited /\ Versions /\ Counted /\ Newest /\ CookieVersions
      /\ SlotMatchesTransfer /\ Ordered(toChild, PipePairs)
  BY IndOpen
<1>3. /\ lifecycle' \in Seq(Command) /\ Range(lifecycle') \subseteq Range(lifecycle)
      /\ command \in Command /\ doc \in Docs /\ command \in Range(lifecycle)
      /\ Ordered(lifecycle', CommandPairs)
      /\ \A c \in Range(lifecycle') : c.op # "cancel" => doc < c.doc
  BY <1>1, <1>2, CommandTaken
<1>4. /\ active' = doc
      /\ body' = IF command.op = "streaming" THEN doc ELSE body
      /\ UNCHANGED <<lane, outgoing, events>>
  BY DEF BeginDocument
<1>5. doc <= ui.loads /\ doc # None /\ doc \in Nat /\ command.op # "cancel"
      /\ \A d \in Reached : d < doc /\ d # doc /\ d \in Nat
  <2>1. doc <= ui.loads /\ \A d \in Reached : d < doc
    BY <1>2, <1>3 DEF Fresh, Bounded
  <2>2. \A d \in Reached : d \in Docs
    BY <1>1, DocNumbers
  <2> QED
    BY <1>3, <2>1, <2>2, DocsNat
<1>6. /\ PipeType' /\ Ordered(toChild', PipePairs)
      /\ Range(toChild) \subseteq Range(toChild')
      /\ \A m \in Range(toChild') :
           m \in Range(toChild) \/ (m \in Signal /\ m.doc = doc /\ m.op # "cancel")
  <2>1. \A m \in Range(toChild) : DocOf(m) < doc
    BY <1>1, <1>5, InReached
  <2> QED
    BY <1>1, <1>2, <1>3, <2>1, StartSent
<1> HIDE DEF command, doc
<1>7. \A m \in Range(toChild') :
        /\ m.op \in {"update", "cancel"} => m \in Range(toChild)
        /\ m \in Delivery => m \in Range(toChild)
        /\ m \notin Range(toChild) => DocOf(m) = doc /\ m.doc = doc
  BY <1>6 DEF Signal, Delivery, DocOf
<1>8. /\ child' = child /\ event' = event /\ admitted' = admitted /\ consumed' = consumed
      /\ ui' = ui /\ toBroker' = toBroker /\ exit' = exit /\ history' = history
      /\ pending' = pending /\ inFlight' = inFlight /\ outgoing' = outgoing
      /\ events' = events /\ lane' = lane
  BY <1>4 DEF renderer, history, lane
<1>9. TypeOK'
  <2>1. BrokerType'
    BY <1>1, <1>3, <1>4, <1>8, TypeParts DEF BrokerType
  <2> QED
    BY <1>1, <1>3, <1>6, <1>8, <2>1, TypeParts, TypeKept, TypeNext, Zenon
<1>10. ReceiptsAreSolicited' /\ DeltasInOrder' /\ SlotMatchesTransfer'
  BY <1>8, IndOpen DEF ReceiptsAreSolicited, DeltasInOrder, SlotMatchesTransfer
<1>11. Reached' \subseteq Reached \cup {doc}
  <2> DEFINE D == {doc}
  <2>1. /\ active' \in Reached \cup D \cup {None} /\ outgoing' \in {outgoing, <<>>}
        /\ child'.incoming \in Reached \cup D \cup {None}
        /\ child'.running \in Reached \cup D \cup {None}
    BY <1>1, <1>4, <1>8, InReached
  <2>2. \A m \in Range(toChild') : m \in Range(toChild) \/ DocOf(m) \in Reached \cup D
    BY <1>7
  <2>3. /\ \A r \in Range(toBroker') : r \in Range(toBroker)
        /\ \A u \in Range(event') : u \in Range(event)
        /\ \A e \in Range(events') : e \in Range(events)
    BY <1>8
  <2> HIDE DEF D
  <2>4. Reached' \subseteq Reached \cup D
    BY <1>1, <2>1, <2>2, <2>3, ReachedGrows
  <2> QED
    BY <2>4 DEF D
<1>12. Bounded'
  BY <1>2, <1>3, <1>5, <1>8, <1>11 DEF Bounded
<1>13. Fresh'
  <2>1. \A c \in Range(lifecycle') :
          IF c.op = "cancel" THEN c.doc # ui'.doc ELSE \A d \in Reached' : d < c.doc
    BY <1>2, <1>3, <1>8, <1>11 DEF Fresh
  <2> QED
    BY <1>3, <2>1 DEF Fresh
<1>14. Cancelled'
  <2>1. \A m \in Range(toChild') : m.op = "cancel" =>
          /\ m \in Range(toChild) /\ m.doc # doc
    <3>1. \A m \in Range(toChild) : DocOf(m) # doc
      BY <1>1, <1>5, InReached
    <3> QED
      BY <1>1, <1>7, <3>1, Members, MessageFacts
  <2> QED
    BY <1>2, <1>3, <1>4, <1>8, <2>1 DEF Cancelled
<1>15. /\ child.incoming # None => child.incoming < doc
       /\ child.running # None => child.running < doc
  BY <1>1, <1>5, InReached
<1>16. ChildShape'
  <2>1. \A m \in Range(toChild') : m \in Range(toChild) \/ m.doc = doc
    BY <1>7
  <2> QED
    BY <1>2, <1>8, <1>15, <2>1 DEF ChildShape
<1>17. FailedIsOver'
  <2>1. \A r \in Range(toBroker) : r.op = "failed" => r.doc # doc
    <3>1. \A r \in Range(toBroker) : DocOf(r) # doc
      BY <1>1, <1>5, InReached
    <3> QED
      BY <1>1, <3>1, Members, ReportFacts
  <2>2. \A m \in Range(toChild') : m \in Range(toChild) \/ m.doc = doc
    BY <1>7
  <2> QED
    BY <1>2, <1>8, <2>1, <2>2 DEF FailedIsOver
<1>18. OwnedIsActive'
  <2> SUFFICES ASSUME ui.doc # None, ui.doc # doc,
                      \/ ui.doc \in {child.incoming, child.running}
                      \/ \E m \in Range(toChild') : Begins(m) /\ m.doc = ui.doc
               PROVE  FALSE
    BY <1>4, <1>8 DEF OwnedIsActive
  <2>1. ui.doc \in Reached
    <3>1. CASE ui.doc \in {child.incoming, child.running}
      BY <1>1, <3>1, InReached
    <3>2. CASE \E m \in Range(toChild') : Begins(m) /\ m.doc = ui.doc
      <4>1. PICK m \in Range(toChild') : Begins(m) /\ m.doc = ui.doc
        BY <3>2
      <4>2. m \in Range(toChild) /\ m.op # "update"
        BY <1>7, <4>1 DEF Begins
      <4>3. DocOf(m) = ui.doc
        BY <1>1, <4>1, <4>2, Members, MessageFacts
      <4> QED
        BY <1>1, <4>2, <4>3, InReached
    <3> QED
      BY <3>1, <3>2
  <2>2. ui.doc < doc /\ ui.doc \in Nat
    BY <1>5, <2>1
  <2>3. ui.doc = ui.loads
    BY <1>2 DEF Bounded
  <2> QED
    BY <1>5, <2>2, <2>3
<1>19. Solicited'
  <2>1. Range(toChild') \cap UpdatesFor(doc) = {}
    <3> SUFFICES ASSUME NEW m \in Range(toChild'), m \in UpdatesFor(doc) PROVE FALSE
      OBVIOUS
    <3>1. m \in Range(toChild) /\ m \in Delivery /\ m.update.doc = doc
      BY <1>7 DEF UpdatesFor
    <3>2. DocOf(m) = doc
      BY <1>1, <3>1, Members, MessageFacts
    <3> QED
      BY <1>1, <1>5, <3>1, <3>2, InReached
  <2>2. Range(toBroker) \cap ReceiptsFrom(doc) = {}
    <3> SUFFICES ASSUME NEW r \in Range(toBroker), r \in ReceiptsFrom(doc) PROVE FALSE
      OBVIOUS
    <3>1. r \in Receipt /\ r.update.doc = doc
      BY DEF ReceiptsFrom
    <3>2. DocOf(r) = doc
      BY <1>1, <3>1, Members, ReportFacts
    <3> QED
      BY <1>1, <1>5, <3>2, InReached
  <2>3. \A u \in Range(event) : u.doc # doc
    BY <1>1, <1>5, InReached
  <2>4. Once(toChild', UpdatesFor(doc)) /\ Once(toBroker', ReceiptsFrom(doc))
    BY <1>8, <2>1, <2>2, OnceNone
  <2> QED
    BY <1>4, <1>8, <2>1, <2>2, <2>3, <2>4 DEF Solicited
<1>20. Versions'
  BY <1>2, <1>7, <1>8 DEF Versions, Newer
<1>21. Counted'
  <2>1. Mutations' = Mutations
    BY <1>8 DEF Mutations
  <2>2. ~(ui.doc # None /\ Mutations > 0)
    BY <1>2, <1>3, <1>5 DEF Counted
  <2> QED
    BY <1>8, <2>1, <2>2 DEF Counted
<1>22. Newest'
  <2>1. \A m \in UpdatesFor(ui.doc) : m \in Range(toChild') <=> m \in Range(toChild)
    BY <1>6, <1>7 DEF UpdatesFor
  <2> QED
    BY <1>2, <1>8, <2>1 DEF Newest
<1>23. CookieVersions'
  BY <1>2, <1>7, <1>8 DEF CookieVersions
<1> QED
  BY <1>6, <1>9, <1>10, <1>12, <1>13, <1>14, <1>16, <1>17, <1>18, <1>19, <1>20, <1>21, <1>22,
     <1>23, IndNext

(* Handling a lifecycle command keeps the invariant. *)
LEMMA ProcessLifecycleKeeps ==
    ASSUME Ind, ProcessLifecycle
    PROVE  Ind'
<1>1. Alive /\ TypeOK /\ UNCHANGED <<ui, toBroker, renderer, exit, history>>
  BY DEF Ind, ProcessLifecycle
<1>2. CASE lifecycle = <<>>
  <2>1. /\ stage' = "state"
        /\ UNCHANGED <<lifecycle, lane, active, outgoing, body, pipe, events>>
    BY <1>2 DEF ProcessLifecycle
  <2>2. BrokerType' /\ PipeType' /\ toChild' = toChild
    BY <1>1, <2>1, TypeParts DEF BrokerType, PipeType, pipe
  <2> QED
    BY <1>1, <2>1, <2>2, SameKeeps
<1>3. CASE lifecycle # <<>> /\ Head(lifecycle).op = "cancel"
  BY <1>1, <1>3, CancelTakenKeeps DEF ProcessLifecycle
<1>4. CASE lifecycle # <<>> /\ Head(lifecycle).op # "cancel"
  BY <1>1, <1>4, BeginTakenKeeps DEF ProcessLifecycle
<1> QED
  BY <1>2, <1>3, <1>4

-----------------------------------------------------------------------------
(* Without a transfer nothing of the active document is unanswered. *)
LEMMA NothingUnanswered ==
    ASSUME TypeOK, Solicited, active # None,
           \A w \in Update : w.doc = active => outgoing # <<[update |-> w, sent |-> TRUE]>>
    PROVE  /\ \A m \in Range(toChild) : m \notin UpdatesFor(active)
           /\ \A r \in Range(toBroker) : r \notin ReceiptsFrom(active)
           /\ \A u \in Range(event) : u.doc # active
<1>1. /\ \A m \in UpdatesFor(active) : m.update \in Update /\ m.update.doc = active
      /\ \A r \in ReceiptsFrom(active) : r.update \in Update /\ r.update.doc = active
      /\ \A u \in Range(event) : u \in Update
  BY Members DEF UpdatesFor, ReceiptsFrom, Delivery, Receipt
<1> QED
  BY <1>1 DEF Solicited

(* Taking an update from the lane keeps the invariant. *)
LEMMA TakeUpdateKeeps ==
    ASSUME Ind, TakeUpdate
    PROVE  Ind'
<1> DEFINE u == Head(pending)
           t == [update |-> u, sent |-> FALSE]
<1>1. Alive /\ TypeOK
  BY DEF Ind, TakeUpdate
<1>2. /\ outgoing = <<>> /\ ~inFlight /\ pending # <<>> /\ pending' = Tail(pending)
      /\ IF u.doc = active THEN outgoing' = <<t>> /\ inFlight' = TRUE
         ELSE UNCHANGED <<outgoing, inFlight>>
      /\ UNCHANGED <<ui, lifecycle, stage, active, body, pipe, toBroker, events,
                   renderer, exit, history>>
  BY DEF TakeUpdate
<1>3. /\ Bounded /\ Fresh /\ Cancelled /\ ChildShape /\ FailedIsOver /\ OwnedIsActive
      /\ Solicited /\ Versions /\ Counted /\ Newest /\ CookieVersions
      /\ Ordered(toChild, PipePairs)
  BY <1>1, IndOpen
<1>4. /\ pending' \in Seq(Update) /\ Range(pending) = {u} \cup Range(pending')
      /\ u \in Update
  BY <1>1, <1>2, Types, RangeTail
<1>5. Ordered(pending', PendingPairs) /\ \A w \in Range(pending') : w.kind # "sync"
  <2>1. pending \in Seq(Update) /\ Ordered(pending, PendingPairs)
    BY <1>1, <1>3, Types DEF Versions
  <2>2. Ordered(pending', PendingPairs) /\ \A w \in Range(pending') : <<u, w>> \in PendingPairs
    BY <1>2, <2>1, OrderedTail
  <2>3. \A w \in Range(pending') : w \in Update
    BY <1>4, RangeType
  <2> QED
    BY <1>4, <2>2, <2>3, PendingPairIs
<1>6. t \in Transfers /\ t.update = u /\ t.sent = FALSE
  BY <1>4 DEF Transfers
<1> HIDE DEF u, t
<1>7. /\ outgoing' \in Seq(Transfers) /\ Len(outgoing') <= 1
      /\ inFlight' \in BOOLEAN /\ SlotMatchesTransfer'
      /\ \A o \in Range(outgoing') : o = t /\ u.doc = active
      /\ u.doc = active => Range(outgoing') = {t} /\ outgoing' # <<>> /\ Head(outgoing') = t
      /\ u.doc # active => Range(outgoing') = {} /\ outgoing' = <<>>
  <2>1. CASE u.doc = active
    <3>1. outgoing' = <<t>> /\ inFlight' = TRUE
      BY <1>2, <2>1
    <3>2. /\ outgoing' \in Seq(Transfers) /\ Len(outgoing') = 1 /\ Range(outgoing') = {t}
          /\ outgoing' # <<>> /\ Head(outgoing') = t
      BY <1>6, <3>1, SingleIs
    <3> QED
      BY <2>1, <3>1, <3>2 DEF SlotMatchesTransfer
  <2>2. CASE u.doc # active
    <3>1. outgoing' = <<>> /\ inFlight' = FALSE
      <4>1. inFlight \in BOOLEAN
        BY <1>1, TypeParts DEF LaneType
      <4>2. inFlight' = inFlight /\ outgoing' = outgoing
        BY <1>2, <2>2
      <4> QED
        BY <1>2, <4>1, <4>2, Zenon
    <3>2. Range(outgoing') = {} /\ outgoing' \in Seq(Transfers) /\ Len(outgoing') <= 1
      BY <3>1, RangeEmpty, EmptySeq
    <3> QED
      BY <2>2, <3>1, <3>2 DEF SlotMatchesTransfer
  <2> QED
    BY <2>1, <2>2
<1>8. /\ child' = child /\ event' = event /\ admitted' = admitted /\ consumed' = consumed
      /\ ui' = ui /\ toBroker' = toBroker /\ exit' = exit /\ history' = history
      /\ events' = events /\ toChild' = toChild /\ pipe' = pipe /\ lifecycle' = lifecycle
      /\ active' = active /\ stage' = stage /\ body' = body
  BY <1>2 DEF renderer, history, pipe
<1>9. TypeOK'
  <2>1. BrokerType'
    BY <1>1, <1>7, <1>8, TypeParts DEF BrokerType
  <2>2. LaneType'
    BY <1>4, <1>7, Zenon DEF LaneType
  <2> QED
    BY <1>1, <1>8, <2>1, <2>2, TypeParts, TypeKept, TypeNext, Zenon
<1>10. ReceiptsAreSolicited' /\ DeltasInOrder' /\ Ordered(toChild', PipePairs)
  BY <1>1, <1>8, IndOpen DEF ReceiptsAreSolicited, DeltasInOrder
<1>11. u.doc \in Docs /\ u.doc # None
  BY <1>4, UpdateFacts, DocsNat
<1>12. Reached' \subseteq Reached
  <2>1. outgoing' # <<>> => Head(outgoing').update.doc \in Reached
    <3>1. u.doc = active => u.doc \in Reached
      BY <1>1, <1>11, InReached
    <3> QED
      BY <1>6, <1>7, <3>1
  <2> QED
    BY <1>1, <1>8, <2>1, Types, InReached, ReachedWithin
<1>13. Bounded' /\ Fresh'
  BY <1>3, <1>4, <1>8, <1>12, BoundsKept
<1>14. Cancelled'
  <2>1. outgoing' # <<>> => Head(outgoing').update.doc = active
    BY <1>6, <1>7
  <2> QED
    BY <1>3, <1>8, <2>1 DEF Cancelled
<1>15. ChildShape' /\ FailedIsOver' /\ OwnedIsActive'
  BY <1>3, <1>8 DEF ChildShape, FailedIsOver, OwnedIsActive
<1>16. Solicited'
  <2> SUFFICES ASSUME active # None PROVE Solicited'
    BY <1>8 DEF Solicited
  <2>1. \A w \in Update : w.doc = active => outgoing # <<[update |-> w, sent |-> TRUE]>>
    BY <1>2
  <2>2. /\ \A m \in Range(toChild) : m \notin UpdatesFor(active)
        /\ \A r \in Range(toBroker) : r \notin ReceiptsFrom(active)
        /\ \A w \in Range(event) : w.doc # active
    BY <1>1, <1>3, <2>1, NothingUnanswered
  <2> QED
    BY <1>3, <1>8, <2>2 DEF Solicited
<1>17. Versions'
  <2>1. u.kind = "sync" =>
          /\ Newer(u)
          /\ \A m \in Range(toChild) :
                m.op = "update" /\ m.update.kind = "sync" /\ m.update.doc = u.doc
                  => m.update.ver < u.ver
    BY <1>3, <1>4 DEF Versions
  <2> QED
    BY <1>3, <1>5, <1>6, <1>7, <1>8, <2>1 DEF Versions, Newer
<1>18. Counted'
  BY <1>3, <1>8 DEF Counted, Mutations
<1>19. CookieVersions'
  BY <1>3, <1>4, <1>6, <1>7, <1>8 DEF CookieVersions
<1>20. Newest'
  <2>1. Range(outgoing) = {}
    BY <1>2, RangeEmpty
  <2>2. \A w \in Range(pending) : CookieOf(w, ui.doc) => ui.cookies > 0 /\ w.ver = ui.cookies
    BY <1>3 DEF Newest
  <2>3. \A o \in Range(outgoing') : CookieOf(o.update, ui.doc) => ui.cookies > 0
    BY <1>4, <1>6, <1>7, <2>2
  <2>4. ASSUME ui.doc # None, child.running = ui.doc,
               \A w \in Range(pending') : ~CookieOf(w, ui.doc)
        PROVE  IF \E o \in Range(outgoing') : CookieOf(o.update, ui.doc)
               THEN Head(outgoing').update.ver = ui.cookies
               ELSE child.jar = ui.cookies
    <3>1. active = ui.doc
      BY <1>3, <2>4 DEF OwnedIsActive
    <3>2. CASE CookieOf(u, ui.doc)
      <4>1. u.doc = active /\ u.ver = ui.cookies
        BY <1>4, <2>2, <3>1, <3>2 DEF CookieOf
      <4> QED
        BY <1>6, <1>7, <3>2, <4>1
    <3>3. CASE ~CookieOf(u, ui.doc)
      <4>1. \A w \in Range(pending) : ~CookieOf(w, ui.doc)
        BY <1>4, <2>4, <3>3
      <4>2. child.jar = ui.cookies
        BY <1>3, <2>1, <2>4, <4>1 DEF Newest
      <4>3. ~ \E o \in Range(outgoing') : CookieOf(o.update, ui.doc)
        BY <1>6, <1>7, <3>3
      <4> QED
        BY <4>2, <4>3
    <3> QED
      BY <3>2, <3>3
  <2>5. \A o \in Range(outgoing') : ~o.sent
    BY <1>6, <1>7
  <2> QED
    BY <1>4, <1>8, <2>2, <2>3, <2>4, <2>5 DEF Newest
<1> QED
  BY <1>7, <1>9, <1>10, <1>13, <1>14, <1>15, <1>16, <1>17, <1>18, <1>19, <1>20, IndNext

(* The transfer is sent. *)
LEMMA TransferSentKeeps ==
    ASSUME Ind, Alive, outgoing # <<>>, ~Head(outgoing).sent, stage' = "messages",
           SendBrowser(<<[op |-> "update", update |-> Head(outgoing).update]>>),
           outgoing' = <<[update |-> Head(outgoing).update, sent |-> TRUE]>>,
           UNCHANGED <<ui, lifecycle, lane, active, body, toBroker, events, renderer,
                       exit, history>>
    PROVE  Ind'
<1> DEFINE u == Head(outgoing).update
           x == [op |-> "update", update |-> u]
           t == [update |-> u, sent |-> TRUE]
<1>1. TypeOK
  BY DEF Ind
<1>2. /\ Bounded /\ Fresh /\ Cancelled /\ ChildShape /\ FailedIsOver /\ OwnedIsActive
      /\ Solicited /\ Versions /\ Counted /\ Newest /\ CookieVersions
      /\ Ordered(toChild, PipePairs) /\ SlotMatchesTransfer
  BY IndOpen
<1>3. /\ u \in Update /\ Head(outgoing) \in Range(outgoing) /\ Head(outgoing).sent = FALSE
      /\ outgoing \in Seq(Transfers)
      /\ \A o \in Range(outgoing) : o = Head(outgoing)
  BY <1>1, TransferIs, Types
<1>4. /\ x \in Messages /\ x \in Delivery /\ x.op = "update" /\ x.update = u
      /\ <<x>> \in Seq(Messages)
  <2>1. x \in Messages /\ x \in Delivery
    BY <1>3 DEF Messages, Delivery
  <2> QED
    BY <2>1, SingleIs
<1>5. t \in Transfers /\ t.update = u /\ t.sent = TRUE
  BY <1>3 DEF Transfers
<1>6. outgoing' = <<t>> /\ SendBrowser(<<x>>)
  OBVIOUS
<1>7. \A w : outgoing # <<[update |-> w, sent |-> TRUE]>>
  <2> TAKE w
  <2> DEFINE q == [update |-> w, sent |-> TRUE]
  <2>1. q.sent = TRUE
    OBVIOUS
  <2> HIDE DEF q
  <2>2. Head(<<q>>) = q
    OBVIOUS
  <2>3. outgoing # <<q>>
    BY <1>3, <2>1, <2>2
  <2> QED
    BY <2>3 DEF q
<1> HIDE DEF u, x, t
<1>8. DocOf(x) = u.doc /\ ~Begins(x) /\ u.doc \in Docs /\ u.doc \in Reached
  <2>1. DocOf(x) = u.doc /\ ~Begins(x) /\ u.doc \in Docs
    BY <1>3, <1>4, MessageFacts, UpdateFacts DEF Begins
  <2>2. u.doc \in Reached
    BY <1>1, <1>3, InReached DEF u
  <2> QED
    BY <2>1, <2>2
<1>9. /\ outgoing' \in Seq(Transfers) /\ Len(outgoing') <= 1 /\ Range(outgoing') = {t}
      /\ outgoing' # <<>> /\ Head(outgoing') = t
  <2>1. /\ <<t>> \in Seq(Transfers) /\ Range(<<t>>) = {t} /\ Len(<<t>>) <= 1
        /\ <<t>> # <<>> /\ Head(<<t>>) = t
    <3>1. Len(<<t>>) <= 1
      OBVIOUS
    <3> QED
      BY <1>5, <3>1, SingleIs, Zenon
  <2> QED
    BY <1>6, <2>1, Zenon
<1>10. toChild \in Seq(Messages) /\ toChild' = Append(toChild, x) /\ PipeType'
  <2>1. toChild \in Seq(Messages) /\ PipeType
    BY <1>1, Types, TypeParts
  <2>2. toChild' = toChild \o <<x>>
    BY <1>6 DEF SendBrowser
  <2>3. toChild' = Append(toChild, x)
    BY <1>4, <2>1, <2>2, AppendTwo
  <2>4. PipeType'
    BY <1>4, <1>6, <2>1, SentType
  <2> QED
    BY <2>1, <2>3, <2>4
<1>11. Range(toChild') = Range(toChild) \cup {x}
  BY <1>4, <1>10, RangeAppend
<1>12. /\ child' = child /\ event' = event /\ admitted' = admitted /\ consumed' = consumed
       /\ ui' = ui /\ toBroker' = toBroker /\ exit' = exit /\ history' = history
       /\ events' = events /\ lifecycle' = lifecycle /\ lane' = lane /\ pending' = pending
       /\ inFlight' = inFlight /\ active' = active /\ body' = body
  BY DEF renderer, history, lane
<1>13. u.kind = "sync" =>
          /\ Newer(u)
          /\ \A m \in Range(toChild) :
                m.op = "update" /\ m.update.kind = "sync" /\ m.update.doc = u.doc
                  => m.update.ver < u.ver
  BY <1>2, <1>3 DEF Versions, u
<1>14. Ordered(toChild', PipePairs)
  <2>1. \A y \in Range(toChild) : <<y, x>> \in PipePairs
    <3> TAKE y \in Range(toChild)
    <3>1. y \in Messages
      BY <1>1, Members
    <3>2. y.op = "cancel" => u.doc # y.doc
      BY <1>2, <1>3 DEF Cancelled, u
    <3> QED
      BY <1>4, <1>8, <1>13, <3>1, <3>2, PipePairIs
  <2> QED
    BY <1>2, <1>4, <1>10, <2>1, OrderedAppend
<1>15. TypeOK'
  <2>1. stage' = "messages"
    OBVIOUS
  <2>2. BrokerType'
    BY <1>1, <1>9, <1>12, <2>1, TypeParts DEF BrokerType
  <2> QED
    BY <1>1, <1>10, <1>12, <2>2, TypeParts, TypeKept, TypeNext, Zenon
<1>16. ReceiptsAreSolicited' /\ DeltasInOrder' /\ SlotMatchesTransfer'
  BY <1>2, <1>9, <1>12, IndOpen DEF ReceiptsAreSolicited, DeltasInOrder, SlotMatchesTransfer
<1>17. Reached' \subseteq Reached
  <2>1. outgoing' # <<>> => Head(outgoing').update.doc \in Reached
    BY <1>5, <1>8, <1>9
  <2>2. \A m \in Range(toChild') : DocOf(m) \in Reached
    BY <1>1, <1>8, <1>11, InReached
  <2> QED
    BY <1>1, <1>12, <2>1, <2>2, Types, InReached, ReachedWithin
<1>18. Bounded' /\ Fresh'
  BY <1>2, <1>12, <1>17, BoundsKept
<1>19. Cancelled'
  <2>1. Head(outgoing').update = Head(outgoing).update
    BY <1>5, <1>9 DEF u
  <2>2. \A m \in Range(toChild') : m.op = "cancel" => m \in Range(toChild)
    BY <1>4, <1>11
  <2> QED
    BY <1>2, <1>12, <2>1, <2>2 DEF Cancelled
<1>20. ChildShape' /\ FailedIsOver' /\ OwnedIsActive'
  BY <1>2, <1>8, <1>11, <1>12 DEF ChildShape, FailedIsOver, OwnedIsActive
<1>21. Solicited'
  <2> SUFFICES ASSUME active # None PROVE Solicited'
    BY <1>12 DEF Solicited
  <2>1. /\ \A m \in Range(toChild) : m \notin UpdatesFor(active)
        /\ \A r \in Range(toBroker) : r \notin ReceiptsFrom(active)
        /\ \A w \in Range(event) : w.doc # active
    BY <1>1, <1>2, <1>7, NothingUnanswered
  <2>2. Range(toChild) \cap UpdatesFor(active) = {} /\ Once(toChild, UpdatesFor(active))
    BY <1>2, <2>1 DEF Solicited
  <2>3. Once(toChild', UpdatesFor(active))
    BY <1>4, <1>10, <2>2, OnceAppend
  <2>4. \A m \in Range(toChild') \cap UpdatesFor(active) :
          outgoing' = <<[update |-> m.update, sent |-> TRUE]>>
    BY <1>4, <1>6, <1>11, <2>1 DEF t
  <2> QED
    BY <1>2, <1>12, <2>1, <2>3, <2>4 DEF Solicited
<1>22. Versions'
  <2>1. \A w \in Range(pending) : w.kind # "sync"
    BY <1>2 DEF Versions
  <2> QED
    BY <1>2, <1>4, <1>5, <1>9, <1>11, <1>12, <1>13, <2>1 DEF Versions, Newer
<1>23. Counted'
  <2>1. \A m \in Range(toChild') : Begins(m) => m \in Range(toChild)
    BY <1>8, <1>11
  <2>2. Mutations' = Mutations
    BY <1>12 DEF Mutations
  <2> QED
    BY <1>2, <1>12, <2>1, <2>2 DEF Counted
<1>24. CookieVersions'
  BY <1>2, <1>3, <1>4, <1>5, <1>9, <1>11, <1>12 DEF CookieVersions, u
<1>25. Newest'
  <2>1. /\ Range(outgoing) = {Head(outgoing)} /\ Head(outgoing).update = u
    BY <1>3 DEF u
  <2>2. CookieOf(u, ui.doc) => x \in UpdatesFor(ui.doc)
    BY <1>4 DEF CookieOf, UpdatesFor
  <2>3. \A o \in Range(outgoing') : CookieOf(o.update, ui.doc) =>
          ~(\A m \in Range(toChild') : m \notin UpdatesFor(ui.doc))
    BY <1>5, <1>9, <1>11, <2>2
  <2>4. (\E o \in Range(outgoing') : CookieOf(o.update, ui.doc))
          <=> (\E o \in Range(outgoing) : CookieOf(o.update, ui.doc))
    BY <1>5, <1>9, <2>1
  <2>5. \A o \in Range(outgoing') : CookieOf(o.update, ui.doc) => ui.cookies > 0
    BY <1>2, <1>5, <1>9, <2>1 DEF Newest
  <2>6. Head(outgoing').update.ver = Head(outgoing).update.ver
    BY <1>5, <1>9, <2>1
  <2> QED
    BY <1>2, <1>12, <2>3, <2>4, <2>5, <2>6 DEF Newest
<1> QED
  BY <1>14, <1>15, <1>16, <1>18, <1>19, <1>20, <1>21, <1>22, <1>23, <1>24, <1>25, IndNext

(* Sending the transfer's messages keeps the invariant. *)
LEMMA SendUpdateKeeps ==
    ASSUME Ind, SendUpdate
    PROVE  Ind'
<1>1. /\ Alive /\ TypeOK /\ stage' = "messages"
      /\ UNCHANGED <<ui, lifecycle, lane, active, body, toBroker, events, renderer,
                     exit, history>>
  BY DEF Ind, SendUpdate
<1>2. CASE outgoing # <<>> /\ ~Head(outgoing).sent /\ PageCapacity
  BY <1>1, <1>2, TransferSentKeeps DEF SendUpdate
<1>3. CASE ~(outgoing # <<>> /\ ~Head(outgoing).sent /\ PageCapacity)
  <2>1. UNCHANGED <<pipe, outgoing>>
    BY <1>3 DEF SendUpdate
  <2>2. BrokerType' /\ PipeType' /\ toChild' = toChild
    BY <1>1, <2>1, TypeParts DEF BrokerType, PipeType, pipe
  <2> QED
    BY <1>1, <2>1, <2>2, SameKeeps
<1> QED
  BY <1>2, <1>3

(* The writer's next message keeps the invariant. *)
LEMMA WriteMessageKeeps ==
    ASSUME Ind, WriteMessage
    PROVE  Ind'
<1>1. /\ TypeOK /\ queued > 0 /\ queued' = queued - 1
      /\ UNCHANGED <<ui, lifecycle, lane, broker, toChild, toBroker, events, renderer,
                   exit, history>>
  BY DEF Ind, WriteMessage
<1>2. BrokerType' /\ active' = active /\ outgoing' = outgoing
  BY <1>1, TypeParts DEF BrokerType, broker
<1>3. PipeType'
  <2> DEFINE n == Len(toChild)
  <2>1. toChild \in Seq(Messages) /\ queued \in 0 .. n /\ n \in Nat
    BY <1>1, TypeParts, LenProperties DEF PipeType
  <2> HIDE DEF n
  <2>2. queued - 1 \in 0 .. n
    BY <1>1, <2>1
  <2> QED
    BY <1>1, <2>1, <2>2 DEF PipeType, n
<1> QED
  BY <1>1, <1>2, <1>3, SameKeeps

(* The body of the active document streams. *)
LEMMA BodySentKeeps ==
    ASSUME Ind, Alive, NEW op \in {"chunk", "end", "abort"}, body # None, body = active,
           stage' = "lifecycle", SendBrowser(<<Say(op, body)>>),
           body' = IF op = "chunk" THEN body ELSE None,
           UNCHANGED <<ui, lifecycle, lane, active, outgoing, toBroker, events,
                       renderer, exit, history>>
    PROVE  Ind'
<1> DEFINE x == Say(op, body)
<1>1. TypeOK
  BY DEF Ind
<1>2. /\ Bounded /\ Fresh /\ Cancelled /\ ChildShape /\ FailedIsOver /\ OwnedIsActive
      /\ Solicited /\ Versions /\ Counted /\ Newest /\ CookieVersions
      /\ Ordered(toChild, PipePairs) /\ SlotMatchesTransfer
  BY IndOpen
<1>3. active \in Docs /\ active \in Reached
  BY <1>1, Types, InReached
<1>4. /\ x.op = op /\ x.doc = active /\ DocOf(x) = active /\ x \notin Delivery
      /\ x \in Messages /\ <<x>> \in Seq(Messages)
      /\ op \in {"begin", "stream", "chunk", "end", "abort", "cancel"}
      /\ op \notin {"begin", "stream"} /\ op # "cancel" /\ op # "update"
  BY <1>3, SignalIs
<1>5. /\ PipeType' /\ Ordered(toChild', PipePairs) /\ Range(toChild') = Range(toChild) \cup {x}
  <2>1. \A m \in Range(toChild) : m.op = "cancel" => m.doc # active
    BY <1>2 DEF Cancelled
  <2>2. PipeType /\ SendBrowser(<<Say(op, active)>>)
    BY <1>1, TypeParts
  <2> QED
    BY <1>2, <1>3, <1>4, <2>1, <2>2, SignalSent DEF x
<1>6. toChild \in Seq(Messages) /\ toChild' = Append(toChild, x)
  <2>1. toChild \in Seq(Messages)
    BY <1>1, Types
  <2>2. toChild' = toChild \o <<x>>
    BY DEF SendBrowser
  <2> HIDE DEF x
  <2> QED
    BY <1>4, <2>1, <2>2, AppendTwo
<1> HIDE DEF x
<1>7. ~Begins(x) /\ x.op # "cancel" /\ x.op # "update"
  BY <1>4 DEF Begins
<1>8. \A d : x \notin UpdatesFor(d)
  BY <1>4 DEF UpdatesFor
<1>9. /\ child' = child /\ event' = event /\ admitted' = admitted /\ consumed' = consumed
      /\ ui' = ui /\ toBroker' = toBroker /\ exit' = exit /\ history' = history
      /\ events' = events /\ lifecycle' = lifecycle /\ lane' = lane /\ pending' = pending
      /\ inFlight' = inFlight /\ active' = active /\ outgoing' = outgoing
  BY DEF renderer, history, lane
<1>10. TypeOK'
  <2>1. stage' = "lifecycle" /\ body' \in Docs \cup {None}
    <3>1. body' \in {body, None} /\ body \in Docs \cup {None}
      BY <1>1, TypeParts DEF BrokerType
    <3> QED
      BY <3>1
  <2>2. BrokerType'
    BY <1>1, <1>9, <2>1, TypeParts DEF BrokerType
  <2> QED
    BY <1>1, <1>5, <1>9, <2>2, TypeParts, TypeKept, TypeNext, Zenon
<1>11. ReceiptsAreSolicited' /\ DeltasInOrder' /\ SlotMatchesTransfer'
  BY <1>2, <1>9, IndOpen DEF ReceiptsAreSolicited, DeltasInOrder, SlotMatchesTransfer
<1>12. Reached' \subseteq Reached
  <2>1. \A m \in Range(toChild') : DocOf(m) \in Reached
    BY <1>1, <1>3, <1>4, <1>5, InReached
  <2>2. outgoing' # <<>> => Head(outgoing').update.doc \in Reached
    BY <1>1, <1>9, TransferIs, InReached
  <2> QED
    BY <1>1, <1>9, <2>1, <2>2, Types, InReached, ReachedWithin
<1>13. Bounded' /\ Fresh'
  BY <1>2, <1>9, <1>12, BoundsKept
<1>14. Cancelled' /\ ChildShape' /\ FailedIsOver' /\ OwnedIsActive'
  BY <1>2, <1>5, <1>7, <1>9 DEF Cancelled, ChildShape, FailedIsOver, OwnedIsActive
<1>15. Solicited'
  <2>1. \A d : Range(toChild') \cap UpdatesFor(d) = Range(toChild) \cap UpdatesFor(d)
    BY <1>5, <1>8
  <2>2. active # None => Once(toChild', UpdatesFor(active))
    BY <1>2, <1>4, <1>6, <1>8, OnceAppend DEF Solicited
  <2> QED
    BY <1>2, <1>9, <2>1, <2>2 DEF Solicited
<1>16. Versions' /\ CookieVersions'
  BY <1>2, <1>5, <1>7, <1>9 DEF Versions, Newer, CookieVersions
<1>17. Counted'
  <2>1. \A m \in Range(toChild') : Begins(m) => m \in Range(toChild)
    BY <1>5, <1>7
  <2>2. Mutations' = Mutations
    BY <1>9 DEF Mutations
  <2> QED
    BY <1>2, <1>9, <2>1, <2>2 DEF Counted
<1>18. Newest'
  <2>1. (\A m \in Range(toChild') : m \notin UpdatesFor(ui.doc))
          <=> (\A m \in Range(toChild) : m \notin UpdatesFor(ui.doc))
    BY <1>5, <1>8
  <2> QED
    BY <1>2, <1>9, <2>1 DEF Newest
<1> QED
  BY <1>5, <1>10, <1>11, <1>13, <1>14, <1>15, <1>16, <1>17, <1>18, IndNext

(* Forwarding a document's stream keeps the invariant. *)
LEMMA ProcessStreamsKeeps ==
    ASSUME Ind, ProcessStreams
    PROVE  Ind'
<1>1. /\ Alive /\ TypeOK /\ stage' = "lifecycle"
      /\ UNCHANGED <<ui, lifecycle, lane, active, outgoing, toBroker, events,
                     renderer, exit, history>>
  BY DEF Ind, ProcessStreams
<1>2. \/ UNCHANGED pipe /\ body' \in {body, None}
      \/ body # None /\ body = active /\
         \E op \in {"chunk", "end", "abort"} :
            /\ SendBrowser(<<Say(op, body)>>)
            /\ body' = IF op = "chunk" THEN body ELSE None
  BY DEF ProcessStreams
<1>3. CASE UNCHANGED pipe /\ body' \in {body, None}
  <2>1. BrokerType' /\ PipeType' /\ toChild' = toChild
    BY <1>1, <1>3, TypeParts DEF BrokerType, PipeType, pipe
  <2> QED
    BY <1>1, <1>3, <2>1, SameKeeps
<1>4. CASE body # None /\ body = active /\
         \E op \in {"chunk", "end", "abort"} :
            /\ SendBrowser(<<Say(op, body)>>)
            /\ body' = IF op = "chunk" THEN body ELSE None
  BY <1>1, <1>4, BodySentKeeps
<1> QED
  BY <1>2, <1>3, <1>4

-----------------------------------------------------------------------------
(* The broker takes a message of the renderer. *)
LEMMA ReportTaken ==
    ASSUME TypeOK, toBroker # <<>>, toBroker' = Tail(toBroker)
    PROVE  /\ toBroker' \in Seq(Reports) /\ Head(toBroker) \in Reports
           /\ Range(toBroker') \subseteq Range(toBroker) /\ Head(toBroker) \in Range(toBroker)
           /\ DocOf(Head(toBroker)) \in Reached
           /\ \A S : Once(toBroker, S) =>
                /\ Once(toBroker', S)
                /\ Head(toBroker) \in S => Range(toBroker') \cap S = {}
           /\ Told(toBroker) \in Nat /\ Told(toBroker') \in Nat
           /\ Head(toBroker) \in CookieReports(ui.doc) => Told(toBroker) = Told(toBroker') + 1
           /\ Head(toBroker) \notin CookieReports(ui.doc) => Told(toBroker) = Told(toBroker')
<1>1. toBroker \in Seq(Reports)
  BY Types
<1>2. /\ Range(toBroker) = {Head(toBroker)} \cup Range(Tail(toBroker))
      /\ Head(toBroker) \in Reports /\ Tail(toBroker) \in Seq(Reports)
  BY <1>1, RangeTail
<1>3. Head(toBroker) \in Range(toBroker)
  BY <1>2
<1>4. DocOf(Head(toBroker)) \in Reached
  BY <1>3, InReached
<1>5. \A S : Once(toBroker, S) =>
        /\ Once(Tail(toBroker), S)
        /\ Head(toBroker) \in S => Range(Tail(toBroker)) \cap S = {}
  BY <1>1, OnceTail
<1>6. /\ Told(toBroker) \in Nat /\ Told(toBroker') \in Nat
      /\ Head(toBroker) \in CookieReports(ui.doc) => Told(toBroker) = Told(toBroker') + 1
      /\ Head(toBroker) \notin CookieReports(ui.doc) => Told(toBroker) = Told(toBroker')
  BY <1>1, CountTail DEF Told
<1> QED
  BY <1>2, <1>3, <1>4, <1>5, <1>6

(* An event joins those for the UI. *)
LEMMA EventQueued ==
    ASSUME TypeOK, NEW e \in Report, events' = Append(events, e)
    PROVE  /\ events' \in Seq(Report) /\ Range(events') = Range(events) \cup {e}
           /\ Told(events) \in Nat /\ Told(events') \in Nat
           /\ e \in CookieReports(ui.doc) => Told(events') = Told(events) + 1
           /\ e \notin CookieReports(ui.doc) => Told(events') = Told(events)
<1>1. events \in Seq(Report)
  BY Types
<1>2. events' \in Seq(Report) /\ Range(events') = Range(events) \cup {e}
  BY <1>1, AppendProperties, RangeAppend
<1>3. /\ Told(events) \in Nat /\ Told(events') \in Nat
      /\ e \in CookieReports(ui.doc) => Told(events') = Told(events) + 1
      /\ e \notin CookieReports(ui.doc) => Told(events') = Told(events)
  BY <1>1, CountAppend DEF Told
<1> QED
  BY <1>2, <1>3

(* A message that changes nothing, or is passed on to the UI. *)
LEMMA ReportMoved ==
    ASSUME Ind, Alive, toBroker # <<>>, toBroker' = Tail(toBroker),
           \/ events' = events
           \/ Head(toBroker) \in Report /\ events' = Append(events, Head(toBroker)),
           UNCHANGED <<ui, lifecycle, lane, broker, pipe, renderer, exit, history>>
    PROVE  Ind'
<1> DEFINE r == Head(toBroker)
<1>1. TypeOK
  BY DEF Ind
<1>2. /\ Bounded /\ Fresh /\ Cancelled /\ ChildShape /\ FailedIsOver /\ OwnedIsActive
      /\ Solicited /\ Versions /\ Counted /\ Newest /\ CookieVersions
      /\ Ordered(toChild, PipePairs) /\ SlotMatchesTransfer
  BY IndOpen
<1>3. /\ toBroker' \in Seq(Reports) /\ Range(toBroker') \subseteq Range(toBroker)
      /\ DocOf(r) \in Reached
      /\ \A S : Once(toBroker, S) => Once(toBroker', S)
      /\ Told(toBroker) \in Nat /\ Told(toBroker') \in Nat
      /\ r \in CookieReports(ui.doc) => Told(toBroker) = Told(toBroker') + 1
      /\ r \notin CookieReports(ui.doc) => Told(toBroker) = Told(toBroker')
  BY <1>1, ReportTaken
<1>4. /\ events' \in Seq(Report)
      /\ \A e \in Range(events') : e \in Range(events) \/ e.doc \in Reached
      /\ Told(events) \in Nat /\ Told(events') \in Nat
      /\ Told(toBroker') + Told(events') <= Told(toBroker) + Told(events)
  <2>1. CASE events' = events
    <3>1. Told(events') = Told(events) /\ Told(events) \in Nat /\ events \in Seq(Report)
      BY <1>1, <2>1, MutationsAre, Types
    <3>2. Told(toBroker') + Told(events') <= Told(toBroker) + Told(events)
      BY <1>3, <3>1
    <3> QED
      BY <2>1, <3>1, <3>2
  <2>2. CASE r \in Report /\ events' = Append(events, r)
    <3>1. /\ events' \in Seq(Report) /\ Range(events') = Range(events) \cup {r}
          /\ Told(events) \in Nat /\ Told(events') \in Nat
          /\ r \in CookieReports(ui.doc) => Told(events') = Told(events) + 1
          /\ r \notin CookieReports(ui.doc) => Told(events') = Told(events)
      BY <1>1, <2>2, EventQueued
    <3>2. r.doc \in Reached
      BY <1>3, <2>2 DEF DocOf, Report
    <3>3. Told(toBroker') + Told(events') <= Told(toBroker) + Told(events)
      BY <1>3, <3>1
    <3> QED
      BY <3>1, <3>2, <3>3
  <2> QED
    BY <2>1, <2>2
<1>5. /\ child' = child /\ event' = event /\ admitted' = admitted /\ consumed' = consumed
      /\ ui' = ui /\ toChild' = toChild /\ exit' = exit /\ history' = history
      /\ lifecycle' = lifecycle /\ lane' = lane /\ pending' = pending
      /\ inFlight' = inFlight /\ active' = active /\ outgoing' = outgoing
      /\ broker' = broker /\ pipe' = pipe
  BY DEF renderer, history, lane, broker, pipe
<1>6. TypeOK'
  BY <1>1, <1>3, <1>4, <1>5, TypeParts, TypeKept, TypeNext, Zenon
<1>7. /\ ReceiptsAreSolicited' /\ DeltasInOrder' /\ SlotMatchesTransfer'
      /\ Ordered(toChild', PipePairs)
  BY <1>2, <1>5, IndOpen DEF ReceiptsAreSolicited, DeltasInOrder, SlotMatchesTransfer
<1>8. Reached' \subseteq Reached
  <2>1. outgoing' # <<>> => Head(outgoing').update.doc \in Reached
    BY <1>1, <1>5, TransferIs, InReached
  <2>2. \A e \in Range(events') : e.doc \in Reached
    BY <1>1, <1>4, InReached
  <2>3. \A q \in Range(toBroker') : DocOf(q) \in Reached
    BY <1>1, <1>3, InReached
  <2> QED
    BY <1>1, <1>5, <2>1, <2>2, <2>3, Types, InReached, ReachedWithin
<1>9. Bounded' /\ Fresh'
  BY <1>2, <1>5, <1>8, BoundsKept
<1>10. /\ Cancelled' /\ ChildShape' /\ FailedIsOver' /\ OwnedIsActive' /\ Versions'
       /\ CookieVersions' /\ Newest'
  BY <1>2, <1>3, <1>5 DEF Cancelled, ChildShape, FailedIsOver, OwnedIsActive, Versions,
                          Newer, CookieVersions, Newest
<1>11. Solicited'
  <2>1. Once(toBroker, ReceiptsFrom(active)) => Once(toBroker', ReceiptsFrom(active))
    BY <1>3
  <2> QED
    BY <1>2, <1>3, <1>5, <2>1 DEF Solicited
<1>12. Counted'
  <2>1. /\ child'.cookies = child.cookies /\ child'.incoming \in {child.incoming, None}
        /\ \A m \in Range(toChild') : m \in Range(toChild) \/ ~Begins(m)
        /\ Range(lifecycle') \subseteq Range(lifecycle)
    BY <1>5
  <2> QED
    BY <1>1, <1>2, <1>4, <1>5, <1>6, <2>1, CountedKept
<1> QED
  BY <1>6, <1>7, <1>9, <1>10, <1>11, <1>12, IndNext

(* The receipt of the transfer frees the slot. *)
LEMMA ReceiptTakenKeeps ==
    ASSUME Ind, Alive, toBroker # <<>>, toBroker' = Tail(toBroker),
           Head(toBroker).op = "applied", Head(toBroker).update.doc = active,
           outgoing = <<[update |-> Head(toBroker).update, sent |-> TRUE]>>,
           outgoing' = <<>>, inFlight' = FALSE,
           UNCHANGED <<ui, lifecycle, pending, stage, active, body, pipe, events, renderer,
                       exit, history>>
    PROVE  Ind'
<1> DEFINE r == Head(toBroker)
           u == r.update
           t == [update |-> u, sent |-> TRUE]
<1>1. TypeOK
  BY DEF Ind
<1>2. /\ Bounded /\ Fresh /\ Cancelled /\ ChildShape /\ FailedIsOver /\ OwnedIsActive
      /\ Solicited /\ Versions /\ Counted /\ Newest /\ CookieVersions
      /\ Ordered(toChild, PipePairs)
  BY IndOpen
<1>3. /\ toBroker' \in Seq(Reports) /\ Range(toBroker') \subseteq Range(toBroker)
      /\ \A S : Once(toBroker, S) =>
            /\ Once(toBroker', S)
            /\ r \in S => Range(toBroker') \cap S = {}
      /\ r \in Range(toBroker) /\ r \in Reports
      /\ Told(toBroker) \in Nat /\ Told(toBroker') \in Nat
      /\ Told(toBroker') <= Told(toBroker)
  <2>1. /\ toBroker' \in Seq(Reports) /\ Range(toBroker') \subseteq Range(toBroker)
        /\ \A S : Once(toBroker, S) =>
              /\ Once(toBroker', S)
              /\ r \in S => Range(toBroker') \cap S = {}
        /\ r \in Range(toBroker) /\ r \in Reports
        /\ Told(toBroker) \in Nat /\ Told(toBroker') \in Nat
        /\ Told(toBroker) = Told(toBroker') + 1 \/ Told(toBroker) = Told(toBroker')
    BY <1>1, ReportTaken
  <2>2. Told(toBroker') <= Told(toBroker)
    BY <2>1
  <2> QED
    BY <2>1, <2>2
<1>4. r \in ReceiptsFrom(active) /\ u \in Update /\ active # None /\ active \in Docs
  <2>1. r \in Receipt /\ u \in Update /\ u.doc = active
    BY <1>3, ReportFacts
  <2> QED
    BY <2>1, UpdateFacts, DocsNat DEF ReceiptsFrom
<1>5. /\ \A m \in Range(toChild) : m \notin UpdatesFor(active)
      /\ Range(toBroker') \cap ReceiptsFrom(active) = {}
      /\ \A w \in Range(event) : w.doc # active
      /\ Once(toChild, UpdatesFor(active)) /\ Once(toBroker', ReceiptsFrom(active))
  BY <1>2, <1>3, <1>4 DEF Solicited
<1>6. Range(outgoing) = {t} /\ t.update = u /\ t.sent = TRUE /\ Head(outgoing) = t
      /\ u.doc = active /\ Head(outgoing) \in Range(outgoing)
  <2>1. t \in Transfers /\ outgoing = <<t>>
    BY <1>4 DEF Transfers
  <2> HIDE DEF t
  <2>2. Range(<<t>>) = {t} /\ Head(<<t>>) = t
    BY <2>1, SingleIs, Zenon
  <2>3. Range(outgoing) = {t} /\ Head(outgoing) = t
    BY <2>1, <2>2, Zenon
  <2> QED
    BY <2>3 DEF t
<1> HIDE DEF r, u, t
<1>7. /\ child' = child /\ event' = event /\ admitted' = admitted /\ consumed' = consumed
      /\ ui' = ui /\ toChild' = toChild /\ exit' = exit /\ history' = history
      /\ lifecycle' = lifecycle /\ pending' = pending /\ active' = active
      /\ pipe' = pipe /\ stage' = stage /\ body' = body /\ events' = events
  BY DEF renderer, history, pipe
<1>8. outgoing' \in Seq(Transfers) /\ Len(outgoing') <= 1 /\ Range(outgoing') = {}
  <2>1. <<>> \in Seq(Transfers) /\ Len(<<>>) <= 1
    OBVIOUS
  <2> QED
    BY <2>1, RangeEmpty
<1>9. TypeOK'
  <2>1. BrokerType'
    BY <1>1, <1>7, <1>8, TypeParts DEF BrokerType
  <2>2. inFlight' \in BOOLEAN
    OBVIOUS
  <2>3. LaneType'
    BY <1>1, <1>7, <2>2, TypeParts, Zenon DEF LaneType
  <2> QED
    BY <1>1, <1>3, <1>7, <2>1, <2>3, TypeParts, TypeKept, TypeNext, Zenon
<1>10. /\ ReceiptsAreSolicited' /\ DeltasInOrder' /\ SlotMatchesTransfer'
       /\ Ordered(toChild', PipePairs)
  BY <1>2, <1>7, IndOpen DEF ReceiptsAreSolicited, DeltasInOrder, SlotMatchesTransfer
<1>11. Reached' \subseteq Reached
  <2>1. \A q \in Range(toBroker') : DocOf(q) \in Reached
    BY <1>1, <1>3, InReached
  <2> QED
    BY <1>1, <1>7, <2>1, Types, InReached, ReachedWithin
<1>12. Bounded' /\ Fresh'
  BY <1>2, <1>7, <1>11, BoundsKept
<1>13. Cancelled' /\ ChildShape' /\ FailedIsOver' /\ OwnedIsActive' /\ CookieVersions'
  BY <1>2, <1>3, <1>7, <1>8 DEF Cancelled, ChildShape, FailedIsOver, OwnedIsActive,
                                CookieVersions
<1>14. Solicited'
  BY <1>5, <1>7 DEF Solicited
<1>15. Versions'
  BY <1>2, <1>7, <1>8 DEF Versions, Newer
<1>16. Counted'
  <2>1. Told(toBroker') + Told(events') <= Told(toBroker) + Told(events)
    BY <1>1, <1>3, <1>7, MutationsAre
  <2>2. /\ child'.cookies = child.cookies /\ child'.incoming \in {child.incoming, None}
        /\ \A m \in Range(toChild') : m \in Range(toChild) \/ ~Begins(m)
        /\ Range(lifecycle') \subseteq Range(lifecycle)
    BY <1>7
  <2> QED
    BY <1>1, <1>2, <1>7, <1>9, <2>1, <2>2, CountedKept
<1>17. Newest'
  <2>1. ASSUME ui.doc # None, child.running = ui.doc,
               \A w \in Range(pending) : ~CookieOf(w, ui.doc)
        PROVE  child.jar = ui.cookies
    <3>1. CASE CookieOf(u, ui.doc)
      <4>1. \E o \in Range(outgoing) : CookieOf(o.update, ui.doc)
        BY <1>6, <3>1
      <4>2. Head(outgoing).update.ver = ui.cookies
        BY <1>2, <2>1, <4>1 DEF Newest
      <4>3. ui.doc = active
        BY <1>6, <3>1 DEF CookieOf
      <4>4. child.jar = t.update.ver
        BY <1>2, <1>5, <1>6, <2>1, <3>1, <4>3 DEF Newest
      <4> QED
        BY <1>6, <4>2, <4>4
    <3>2. CASE ~CookieOf(u, ui.doc)
      <4>1. ~ \E o \in Range(outgoing) : CookieOf(o.update, ui.doc)
        BY <1>6, <3>2
      <4> QED
        BY <1>2, <2>1, <4>1 DEF Newest
    <3> QED
      BY <3>1, <3>2
  <2> QED
    BY <1>2, <1>7, <1>8, <2>1 DEF Newest
<1> QED
  BY <1>9, <1>10, <1>12, <1>13, <1>14, <1>15, <1>16, <1>17, IndNext

(* The active document failed: the broker lets go of it. *)
LEMMA FailureTakenKeeps ==
    ASSUME Ind, Alive, toBroker # <<>>, toBroker' = Tail(toBroker),
           Head(toBroker).op = "failed", Head(toBroker).doc = active,
           DiscardUpdates(active), active' = None,
           events' = Append(events, Say("failed", active)),
           UNCHANGED <<ui, lifecycle, stage, body, pipe, renderer, exit, history>>
    PROVE  Ind'
<1> DEFINE r == Head(toBroker)
           e == Say("failed", active)
<1>1. TypeOK
  BY DEF Ind
<1>2. /\ Bounded /\ Fresh /\ Cancelled /\ ChildShape /\ FailedIsOver /\ OwnedIsActive
      /\ Solicited /\ Versions /\ Counted /\ Newest /\ CookieVersions
      /\ Ordered(toChild, PipePairs) /\ SlotMatchesTransfer
  BY IndOpen
<1>3. /\ toBroker' \in Seq(Reports) /\ Range(toBroker') \subseteq Range(toBroker)
      /\ r \in Range(toBroker) /\ r \in Reports /\ DocOf(r) \in Reached
      /\ Told(toBroker) \in Nat /\ Told(toBroker') \in Nat
      /\ Told(toBroker') <= Told(toBroker)
  <2>1. /\ toBroker' \in Seq(Reports) /\ Range(toBroker') \subseteq Range(toBroker)
        /\ r \in Range(toBroker) /\ r \in Reports /\ DocOf(r) \in Reached
        /\ Told(toBroker) \in Nat /\ Told(toBroker') \in Nat
        /\ Told(toBroker) = Told(toBroker') + 1 \/ Told(toBroker) = Told(toBroker')
    BY <1>1, ReportTaken
  <2>2. Told(toBroker') <= Told(toBroker)
    BY <2>1
  <2> QED
    BY <2>1, <2>2
<1>4. active \in Docs /\ active # None /\ active \in Reached
  <2>1. r.doc \in Docs /\ DocOf(r) = r.doc
    BY <1>3, ReportFacts
  <2> QED
    BY <1>3, <2>1, DocsNat
<1>5. /\ child.incoming # active /\ child.running # active
      /\ \A m \in Range(toChild) : Begins(m) => m.doc # active
  BY <1>2, <1>3 DEF FailedIsOver
<1>6. e \in Report /\ e.doc = active /\ e.op = "failed"
  BY <1>4 DEF Say, Report
<1> HIDE DEF r, e
<1>7. /\ events' \in Seq(Report) /\ Range(events') = Range(events) \cup {e}
      /\ Told(events) \in Nat /\ Told(events') = Told(events)
  <2>1. e \notin CookieReports(ui.doc)
    BY <1>6 DEF CookieReports
  <2> QED
    BY <1>1, <1>6, <2>1, EventQueued DEF e
<1>8. /\ LaneType' /\ outgoing' \in Seq(Transfers) /\ Len(outgoing') <= 1
      /\ outgoing' \in {outgoing, <<>>} /\ Range(outgoing') \subseteq Range(outgoing)
      /\ Range(pending') \subseteq Range(pending)
      /\ Ordered(pending', PendingPairs) /\ SlotMatchesTransfer'
  <2>1. Range(pending') = {u \in Range(pending) : u.doc # active}
    BY <1>1, <1>2, <1>4, Discarded
  <2>2. Ordered(pending, PendingPairs)
    BY <1>2 DEF Versions
  <2> QED
    BY <1>1, <1>2, <1>4, <2>1, <2>2, Discarded
<1>9. /\ child' = child /\ event' = event /\ admitted' = admitted /\ consumed' = consumed
      /\ ui' = ui /\ toChild' = toChild /\ exit' = exit /\ history' = history
      /\ lifecycle' = lifecycle /\ pipe' = pipe /\ stage' = stage /\ body' = body
  BY DEF renderer, history, pipe
<1>10. TypeOK'
  <2>1. BrokerType'
    BY <1>1, <1>8, <1>9, TypeParts DEF BrokerType
  <2> QED
    BY <1>1, <1>3, <1>7, <1>8, <1>9, <2>1, TypeParts, TypeKept, TypeNext, Zenon
<1>11. /\ ReceiptsAreSolicited' /\ DeltasInOrder' /\ Ordered(toChild', PipePairs)
  BY <1>2, <1>9, IndOpen DEF ReceiptsAreSolicited, DeltasInOrder
<1>12. Reached' \subseteq Reached
  <2>1. outgoing' # <<>> => Head(outgoing').update.doc \in Reached
    <3> SUFFICES ASSUME outgoing' # <<>> PROVE Head(outgoing').update.doc \in Reached
      OBVIOUS
    <3>1. outgoing' = outgoing /\ outgoing # <<>>
      BY <1>8
    <3>2. Head(outgoing) \in Range(outgoing)
      BY <1>1, <3>1, TransferIs
    <3> QED
      BY <1>1, <3>1, <3>2, InReached
  <2>2. \A q \in Range(toBroker') : DocOf(q) \in Reached
    BY <1>1, <1>3, InReached
  <2>3. \A q \in Range(events') : q.doc \in Reached
    BY <1>1, <1>4, <1>6, <1>7, InReached
  <2> QED
    BY <1>1, <1>9, <2>1, <2>2, <2>3, Types, InReached, ReachedWithin
<1>13. Bounded' /\ Fresh'
  BY <1>2, <1>8, <1>9, <1>12, BoundsKept
<1>14. Cancelled'
  <2>1. \A m \in Range(toChild) : m.op = "cancel" => m.doc # None
    BY <1>1, Members, MessageFacts, DocsNat
  <2> QED
    BY <1>2, <1>8, <1>9, <2>1 DEF Cancelled
<1>15. ChildShape' /\ FailedIsOver' /\ CookieVersions'
  BY <1>2, <1>3, <1>8, <1>9 DEF ChildShape, FailedIsOver, CookieVersions
<1>16. OwnedIsActive' /\ Solicited'
  BY <1>2, <1>5, <1>9 DEF OwnedIsActive, Solicited
<1>17. Versions'
  <2>1. \A u \in Range(pending') : u.kind = "sync" => outgoing' = <<>>
    BY <1>2, <1>8 DEF Versions
  <2> QED
    BY <1>2, <1>8, <1>9, <2>1 DEF Versions, Newer
<1>18. Counted'
  <2>1. Told(toBroker') + Told(events') <= Told(toBroker) + Told(events)
    BY <1>3, <1>7
  <2>2. /\ child'.cookies = child.cookies /\ child'.incoming \in {child.incoming, None}
        /\ \A m \in Range(toChild') : m \in Range(toChild) \/ ~Begins(m)
        /\ Range(lifecycle') \subseteq Range(lifecycle)
    BY <1>9
  <2> QED
    BY <1>1, <1>2, <1>9, <1>10, <2>1, <2>2, CountedKept
<1>19. Newest'
  <2>1. ~(ui.doc # None /\ child.running = ui.doc)
    BY <1>2, <1>5 DEF OwnedIsActive
  <2> QED
    BY <1>2, <1>8, <1>9, <2>1 DEF Newest
<1> QED
  BY <1>8, <1>10, <1>11, <1>13, <1>14, <1>15, <1>16, <1>17, <1>18, <1>19, IndNext

(* Handling a message of the child keeps the invariant. *)
LEMMA ProcessMessageKeeps ==
    ASSUME Ind, ProcessMessage
    PROVE  Ind'
<1>1. Alive /\ TypeOK /\ UNCHANGED <<ui, lifecycle, body, pipe, renderer, history>>
  BY DEF Ind, ProcessMessage
<1>2. CASE toBroker = <<>>
  <2>1. stage' = "streams" /\ UNCHANGED <<toBroker, lane, active, outgoing, events, exit>>
    BY <1>2 DEF ProcessMessage
  <2>2. BrokerType' /\ PipeType' /\ toChild' = toChild
    BY <1>1, <2>1, TypeParts DEF BrokerType, PipeType, pipe
  <2> QED
    BY <1>1, <2>1, <2>2, SameKeeps
<1>3. CASE toBroker # <<>>
  <2> DEFINE m == Head(toBroker)
  <2>1. /\ toBroker' = Tail(toBroker) /\ stage' = stage
        /\ CASE m.op = "applied" -> TakeReceipt(m.update)
             [] m.op = "failed" -> RetireFailed(m.doc)
             [] OTHER -> PassOn(m)
    BY <1>3 DEF ProcessMessage
  <2>2. m \in Reports /\ m \in Range(toBroker)
    BY <1>1, <1>3, <2>1, ReportTaken
  <2>3. CASE m.op = "applied"
    <3>1. TakeReceipt(m.update) /\ UNCHANGED <<pending, active, events>>
      BY <2>1, <2>3 DEF TakeReceipt
    <3>2. CASE m.update.doc # active
      <4>1. UNCHANGED <<inFlight, outgoing, exit>>
        BY <3>1, <3>2 DEF TakeReceipt
      <4>2. UNCHANGED <<lane, broker>> /\ events' = events
        BY <1>1, <2>1, <3>1, <4>1 DEF lane, broker
      <4> QED
        BY <1>1, <1>3, <2>1, <4>1, <4>2, ReportMoved
    <3>3. CASE m.update.doc = active
      <4>1. m \in ReceiptsFrom(active) /\ active # None
        <5>1. m \in Receipt /\ m.update.doc \in Docs
          BY <2>2, <2>3, ReportFacts
        <5> QED
          BY <3>3, <5>1, DocsNat DEF ReceiptsFrom
      <4>2. outgoing = <<[update |-> m.update, sent |-> TRUE]>>
        BY <1>1, <2>2, <4>1, IndOpen DEF Solicited
      <4>3. outgoing' = <<>> /\ inFlight' = FALSE /\ UNCHANGED exit
        BY <3>1, <3>3, <4>2, Zenon DEF TakeReceipt
      <4> QED
        BY <1>1, <1>3, <2>1, <2>3, <3>1, <3>3, <4>2, <4>3, ReceiptTakenKeeps, Zenon
    <3> QED
      BY <3>2, <3>3
  <2>4. CASE m.op = "failed"
    <3>1. RetireFailed(m.doc) /\ UNCHANGED exit
      BY <2>1, <2>4 DEF RetireFailed
    <3>2. CASE m.doc # active
      <4>1. UNCHANGED <<lane, active, outgoing, events>>
        BY <3>1, <3>2 DEF RetireFailed
      <4>2. UNCHANGED <<lane, broker>> /\ events' = events
        BY <1>1, <2>1, <4>1 DEF broker
      <4> QED
        BY <1>1, <1>3, <2>1, <3>1, <4>2, ReportMoved
    <3>3. CASE m.doc = active
      <4>1. /\ DiscardUpdates(active) /\ active' = None
            /\ events' = Append(events, Say("failed", active))
        BY <3>1, <3>3 DEF RetireFailed
      <4> QED
        BY <1>1, <1>3, <2>1, <2>4, <3>1, <3>3, <4>1, FailureTakenKeeps
    <3> QED
      BY <3>2, <3>3
  <2>5. CASE m.op # "applied" /\ m.op # "failed"
    <3>1. PassOn(m)
      BY <2>1, <2>5
    <3>2. /\ events' = IF m.doc = active THEN Append(events, m) ELSE events
          /\ UNCHANGED <<lane, active, outgoing, exit>>
      BY <3>1 DEF PassOn
    <3>3. m \in Report
      BY <2>2, <2>5, ReportFacts
    <3>4. UNCHANGED <<lane, broker, exit>>
      BY <1>1, <2>1, <3>2 DEF broker
    <3>5. \/ events' = events
          \/ Head(toBroker) \in Report /\ events' = Append(events, Head(toBroker))
      BY <3>2, <3>3
    <3> QED
      BY <1>1, <1>3, <2>1, <3>4, <3>5, ReportMoved
  <2> QED
    BY <2>3, <2>4, <2>5
<1> QED
  BY <1>2, <1>3

-----------------------------------------------------------------------------
(* The child takes a message. *)
LEMMA MessageTaken ==
    ASSUME TypeOK, Ordered(toChild, PipePairs), Len(toChild) > queued,
           toChild' = Tail(toChild), queued' = queued
    PROVE  /\ PipeType' /\ Ordered(toChild', PipePairs)
           /\ Range(toChild') \subseteq Range(toChild)
           /\ Range(toChild) = {Head(toChild)} \cup Range(toChild')
           /\ Head(toChild) \in Messages /\ Head(toChild) \in Range(toChild)
           /\ DocOf(Head(toChild)) \in Reached
           /\ \A y \in Range(toChild') : <<Head(toChild), y>> \in PipePairs
           /\ \A S : Once(toChild, S) =>
                /\ Once(toChild', S)
                /\ Head(toChild) \in S => Range(toChild') \cap S = {}
<1> DEFINE n == Len(toChild)
<1>1. toChild \in Seq(Messages) /\ queued \in 0 .. n /\ n \in Nat
  BY TypeParts, LenProperties DEF PipeType
<1>2. toChild # <<>>
  <2> SUFFICES ASSUME toChild = <<>> PROVE FALSE
    OBVIOUS
  <2>1. n = 0 /\ n > queued
    OBVIOUS
  <2> HIDE DEF n
  <2> QED
    BY <1>1, <2>1
<1>3. /\ Range(toChild) = {Head(toChild)} \cup Range(Tail(toChild))
      /\ Head(toChild) \in Messages /\ Tail(toChild) \in Seq(Messages)
  BY <1>1, <1>2, RangeTail
<1>4. Ordered(Tail(toChild), PipePairs)
      /\ \A y \in Range(Tail(toChild)) : <<Head(toChild), y>> \in PipePairs
  BY <1>1, <1>2, OrderedTail
<1>5. \A S : Once(toChild, S) =>
        /\ Once(Tail(toChild), S)
        /\ Head(toChild) \in S => Range(Tail(toChild)) \cap S = {}
  BY <1>1, <1>2, OnceTail
<1>6. PipeType'
  <2>1. Len(Tail(toChild)) = n - 1
    BY <1>1, <1>2, HeadTailProperties
  <2>2. n > queued
    OBVIOUS
  <2>3. toChild' \in Seq(Messages) /\ Len(toChild') = n - 1
    BY <1>3, <2>1
  <2> HIDE DEF n
  <2>4. queued' \in 0 .. n - 1
    BY <1>1, <2>2
  <2> QED
    BY <2>3, <2>4 DEF PipeType
<1>7. Head(toChild) \in Range(toChild)
  BY <1>3
<1>8. DocOf(Head(toChild)) \in Reached
  BY <1>7, InReached
<1> QED
  BY <1>3, <1>4, <1>5, <1>6, <1>7, <1>8

(* What a start, a chunk, the end, a failure or a cancellation of a        *)
(* document does to the child.                                             *)
ChildMoves(doc) ==
    /\ child'.cookies = child.cookies /\ child'.jar = child.jar
    /\ event' \in {event, <<>>} /\ exit' = exit
    /\ \/ /\ child'.incoming \in {child.incoming, None}
          /\ child'.running \in {child.running, None}
          /\ child'.failed = child.failed /\ toBroker' = toBroker
       \/ /\ child.incoming = doc /\ child'.incoming = None /\ child'.running = doc
          /\ child'.failed = child.failed /\ toBroker' = toBroker
       \/ /\ child.incoming = doc /\ child'.incoming = None
          /\ child'.running = child.running /\ child'.failed = child.failed
          /\ toBroker' = Append(toBroker, Say("navigate", doc))
       \/ /\ child'.incoming = None /\ child'.running = None /\ child'.failed = doc
          /\ toBroker' = Append(toBroker, Say("failed", doc))

(* A message of the renderer that is no receipt. *)
LEMMA Reported ==
    ASSUME TypeOK, NEW doc \in Docs, NEW op \in {"failed", "navigate", "cookie"},
           toBroker' = Append(toBroker, Say(op, doc))
    PROVE  /\ toBroker' \in Seq(Reports)
           /\ Range(toBroker') = Range(toBroker) \cup {Say(op, doc)}
           /\ Say(op, doc).op = op /\ Say(op, doc).doc = doc /\ DocOf(Say(op, doc)) = doc
           /\ \A d : Say(op, doc) \notin ReceiptsFrom(d)
           /\ \A d : Once(toBroker, ReceiptsFrom(d)) => Once(toBroker', ReceiptsFrom(d))
           /\ Told(toBroker) \in Nat /\ Told(toBroker') \in Nat
           /\ op # "cookie" \/ doc # ui.doc => Told(toBroker') = Told(toBroker)
           /\ op = "cookie" /\ doc = ui.doc => Told(toBroker') = Told(toBroker) + 1
<1> DEFINE r == Say(op, doc)
<1>1. r \in Report /\ r.op = op /\ r.doc = doc
  BY DEF Say, Report
<1>2. toBroker \in Seq(Reports) /\ toBroker' = Append(toBroker, r)
  BY Types
<1> HIDE DEF r
<1>3. r \in Reports /\ DocOf(r) = doc
  BY <1>1 DEF Reports, DocOf
<1>4. toBroker' \in Seq(Reports) /\ Range(toBroker') = Range(toBroker) \cup {r}
  BY <1>2, <1>3, AppendProperties, RangeAppend
<1>5. \A d : r \notin ReceiptsFrom(d)
  BY <1>1 DEF ReceiptsFrom, Receipt
<1>6. \A d : Once(toBroker, ReceiptsFrom(d)) => Once(toBroker', ReceiptsFrom(d))
  BY <1>2, <1>3, <1>5, OnceAppend
<1>7. r \in CookieReports(ui.doc) <=> op = "cookie" /\ doc = ui.doc
  BY <1>1 DEF CookieReports
<1>8. /\ Told(toBroker) \in Nat /\ Told(toBroker') \in Nat
      /\ r \notin CookieReports(ui.doc) => Told(toBroker') = Told(toBroker)
      /\ r \in CookieReports(ui.doc) => Told(toBroker') = Told(toBroker) + 1
  BY <1>2, <1>3, CountAppend DEF Told
<1> QED
  BY <1>1, <1>3, <1>4, <1>5, <1>6, <1>7, <1>8 DEF r

(* A signal that the child handles, with what it does to its document,     *)
(* keeps the invariant.                                                    *)
LEMMA ChildMovesKeeps ==
    ASSUME Ind, Alive, NEW doc \in Docs, doc \in Reached,
           PipeType', Ordered(toChild', PipePairs), Range(toChild') \subseteq Range(toChild),
           \A m \in Range(toChild') : Begins(m) => doc < m.doc,
           \A m \in Range(toChild) : m \in Delivery => m \in Range(toChild'),
           \A S : Once(toChild, S) => Once(toChild', S),
           ChildMoves(doc), ChildType',
           UNCHANGED <<ui, lifecycle, lane, broker, events, history>>
    PROVE  Ind'
<1>1. TypeOK
  BY DEF Ind
<1>2. /\ Bounded /\ Fresh /\ Cancelled /\ ChildShape /\ FailedIsOver /\ OwnedIsActive
      /\ Solicited /\ Versions /\ Counted /\ Newest /\ CookieVersions
      /\ SlotMatchesTransfer
  BY IndOpen
<1>3. /\ ui' = ui /\ lifecycle' = lifecycle /\ events' = events /\ lane' = lane
      /\ broker' = broker /\ history' = history
      /\ pending' = pending /\ inFlight' = inFlight /\ active' = active
      /\ outgoing' = outgoing /\ admitted' = admitted /\ consumed' = consumed
  BY DEF lane, broker, history
<1>4. /\ child'.cookies = child.cookies /\ child'.jar = child.jar
      /\ event' \in {event, <<>>} /\ exit' = exit
  BY DEF ChildMoves
<1>5. doc # None /\ doc \in Nat
  BY DocsNat
<1>6. /\ child'.incoming \in {child.incoming, None}
      /\ child'.running \in {child.running, None, doc}
      /\ child'.running \in {child.running, None} \/ (child.incoming = doc /\ child.running = None)
      /\ child'.failed # None => child'.incoming = None /\ child'.running = None
      /\ child'.incoming # None => child'.running = None
      /\ child.incoming = None \/ child'.running # child.incoming \/ child.incoming = doc
  BY <1>2, <1>5 DEF ChildMoves, ChildShape
<1>7. /\ toBroker' \in Seq(Reports)
      /\ \A r \in Range(toBroker') :
           \/ r \in Range(toBroker)
           \/ /\ DocOf(r) = doc /\ r.doc = doc /\ \A d : r \notin ReceiptsFrom(d)
              /\ r.op = "failed" => child'.incoming = None /\ child'.running = None
      /\ \A d : Once(toBroker, ReceiptsFrom(d)) => Once(toBroker', ReceiptsFrom(d))
      /\ Told(toBroker) \in Nat /\ Told(toBroker') = Told(toBroker)
  <2>1. CASE toBroker' = toBroker
    BY <1>1, <2>1, Types, MutationsAre
  <2>2. CASE toBroker' = Append(toBroker, Say("navigate", doc))
    <3> DEFINE op == "navigate"
    <3>1. op \in {"failed", "navigate", "cookie"} /\ op # "cookie" /\ op # "failed"
      OBVIOUS
    <3>2. toBroker' = Append(toBroker, Say(op, doc))
      BY <2>2
    <3> HIDE DEF op
    <3>3. /\ toBroker' \in Seq(Reports)
          /\ Range(toBroker') = Range(toBroker) \cup {Say(op, doc)}
          /\ Say(op, doc).op = op /\ Say(op, doc).doc = doc /\ DocOf(Say(op, doc)) = doc
          /\ \A d : Say(op, doc) \notin ReceiptsFrom(d)
          /\ \A d : Once(toBroker, ReceiptsFrom(d)) => Once(toBroker', ReceiptsFrom(d))
          /\ Told(toBroker) \in Nat /\ Told(toBroker') = Told(toBroker)
      BY <1>1, <3>1, <3>2, Reported
    <3> QED
      BY <3>1, <3>3
  <2>3. CASE /\ toBroker' = Append(toBroker, Say("failed", doc))
             /\ child'.incoming = None /\ child'.running = None
    <3> DEFINE op == "failed"
    <3>1. op \in {"failed", "navigate", "cookie"} /\ op # "cookie"
      OBVIOUS
    <3>2. toBroker' = Append(toBroker, Say(op, doc))
      BY <2>3
    <3> HIDE DEF op
    <3>3. /\ toBroker' \in Seq(Reports)
          /\ Range(toBroker') = Range(toBroker) \cup {Say(op, doc)}
          /\ Say(op, doc).op = op /\ Say(op, doc).doc = doc /\ DocOf(Say(op, doc)) = doc
          /\ \A d : Say(op, doc) \notin ReceiptsFrom(d)
          /\ \A d : Once(toBroker, ReceiptsFrom(d)) => Once(toBroker', ReceiptsFrom(d))
          /\ Told(toBroker) \in Nat /\ Told(toBroker') = Told(toBroker)
      BY <1>1, <3>1, <3>2, Reported
    <3> QED
      BY <2>3, <3>3
  <2> QED
    BY <2>1, <2>2, <2>3 DEF ChildMoves
<1>8. event' \in Seq(Update) /\ Len(event') <= 1 /\ Range(event') \subseteq Range(event)
  <2>1. event \in Seq(Update) /\ Len(event) <= 1
    BY <1>1, TypeParts
  <2>2. <<>> \in Seq(Update) /\ Len(<<>>) <= 1 /\ Range(<<>>) = {}
    BY RangeEmpty
  <2>3. CASE event' = event
    BY <2>1, <2>3
  <2>4. CASE event' = <<>>
    BY <2>2, <2>4, Zenon
  <2> QED
    BY <1>4, <2>3, <2>4
<1>9. TypeOK'
  BY <1>1, <1>3, <1>4, <1>7, <1>8, TypeParts, TypeKept, TypeNext, Zenon
<1>10. ReceiptsAreSolicited' /\ DeltasInOrder' /\ SlotMatchesTransfer'
  BY <1>2, <1>3, <1>4, IndOpen DEF ReceiptsAreSolicited, DeltasInOrder, SlotMatchesTransfer
<1>11. Reached' \subseteq Reached
  <2>1. outgoing' # <<>> => Head(outgoing').update.doc \in Reached
    BY <1>1, <1>3, TransferIs, InReached
  <2>2. \A q \in Range(toBroker') : DocOf(q) \in Reached
    BY <1>1, <1>7, InReached
  <2>3. /\ child'.incoming \in Reached \cup {None}
        /\ child'.running \in Reached \cup {None}
        /\ active' \in Reached \cup {None}
    BY <1>1, <1>3, <1>6, InReached
  <2>4. /\ \A m \in Range(toChild') : DocOf(m) \in Reached
        /\ \A u \in Range(event') : u.doc \in Reached
        /\ \A q \in Range(events') : q.doc \in Reached
    BY <1>1, <1>3, <1>8, InReached
  <2> QED
    BY <2>1, <2>2, <2>3, <2>4, ReachedWithin
<1>12. Bounded' /\ Fresh'
  BY <1>2, <1>3, <1>11, BoundsKept
<1>13. Cancelled' /\ Versions' /\ CookieVersions'
  BY <1>2, <1>3 DEF Cancelled, Versions, Newer, CookieVersions
<1>14. ChildShape'
  <2>1. child'.incoming # None => child'.jar = 0
    BY <1>2, <1>4, <1>6 DEF ChildShape
  <2>2. \A m \in Range(toChild') : Begins(m) =>
          /\ child'.incoming # None => child'.incoming < m.doc
          /\ child'.running # None => child'.running < m.doc
    BY <1>2, <1>6 DEF ChildShape
  <2> QED
    BY <1>6, <2>1, <2>2 DEF ChildShape
<1>15. FailedIsOver'
  <2> SUFFICES ASSUME NEW r \in Range(toBroker'), r.op = "failed"
               PROVE  /\ child'.incoming # r.doc /\ child'.running # r.doc
                      /\ \A m \in Range(toChild') : Begins(m) => m.doc # r.doc
    BY DEF FailedIsOver
  <2>1. CASE r \in Range(toBroker)
    <3>1. /\ child.incoming # r.doc /\ child.running # r.doc
          /\ \A m \in Range(toChild) : Begins(m) => m.doc # r.doc
      BY <1>2, <2>1 DEF FailedIsOver
    <3>2. r.doc # None
      <4>1. r \in Reports /\ r.op # "applied"
        BY <1>1, <2>1, Members
      <4> QED
        BY <4>1, ReportFacts, DocsNat
    <3> QED
      BY <1>6, <3>1, <3>2
  <2>2. CASE r \notin Range(toBroker)
    <3>1. r.doc = doc /\ child'.incoming = None /\ child'.running = None
      BY <1>7, <2>2
    <3>2. \A m \in Range(toChild') : Begins(m) => m.doc # doc
      <4>1. \A m \in Range(toChild') : Begins(m) => m.doc \in Nat /\ doc < m.doc
        <5>1. \A m \in Range(toChild') : Begins(m) => m.doc \in Docs
          BY <1>1, Members, MessageFacts DEF Begins
        <5> QED
          BY <5>1, DocsNat
      <4> QED
        BY <1>5, <4>1
    <3> QED
      BY <1>5, <3>1, <3>2
  <2> QED
    BY <2>1, <2>2
<1>16. OwnedIsActive'
  BY <1>2, <1>3, <1>6 DEF OwnedIsActive
<1>17. Solicited'
  BY <1>2, <1>3, <1>7, <1>8 DEF Solicited
<1>18. Counted'
  <2>1. Told(toBroker') + Told(events') <= Told(toBroker) + Told(events)
    BY <1>1, <1>3, <1>7, MutationsAre
  <2>2. /\ child'.cookies = child.cookies /\ child'.incoming \in {child.incoming, None}
        /\ \A m \in Range(toChild') : m \in Range(toChild) \/ ~Begins(m)
        /\ Range(lifecycle') \subseteq Range(lifecycle)
    BY <1>3, <1>4, <1>6
  <2> QED
    BY <1>1, <1>2, <1>3, <1>9, <2>1, <2>2, CountedKept
<1>19. Newest'
  <2>1. \A d : \A m \in UpdatesFor(d) : m \in Range(toChild) <=> m \in Range(toChild')
    BY DEF UpdatesFor
  <2>2. CASE child'.running = child.running \/ child'.running # ui.doc
    BY <1>2, <1>3, <1>4, <2>1, <2>2 DEF Newest
  <2>3. CASE child'.running # child.running /\ child'.running = ui.doc
    <3>1. CASE ui.doc = None
      BY <1>2, <1>3, <3>1 DEF Newest
    <3>2. CASE ui.doc # None
      <4>1. child.incoming # None /\ child.jar = 0
        BY <1>2, <1>5, <1>6, <2>3, <3>2 DEF ChildShape
      <4>2. ui.cookies = 0
        <5>1. /\ Told(toBroker) \in Nat /\ Told(events) \in Nat /\ ui.cookies \in Nat
              /\ Mutations = ui.cookies + Told(toBroker) + Told(events) /\ Mutations \in Nat
          BY <1>1, MutationsAre
        <5>2. ~(Mutations > 0)
          BY <1>2, <3>2, <4>1 DEF Counted
        <5> QED
          BY <5>1, <5>2
      <4>3. /\ \A u \in Range(pending) : ~CookieOf(u, ui.doc)
            /\ \A o \in Range(outgoing) : ~CookieOf(o.update, ui.doc)
        BY <1>2, <4>2 DEF Newest
      <4> QED
        BY <1>3, <1>4, <4>1, <4>2, <4>3 DEF Newest
    <3> QED
      BY <3>1, <3>2
  <2> QED
    BY <2>2, <2>3
<1> QED
  BY <1>9, <1>10, <1>12, <1>13, <1>14, <1>15, <1>16, <1>17, <1>18, <1>19, IndNext

(* A message that the child refuses ends the session. *)
LEMMA RefusedKeeps ==
    ASSUME Ind, Alive, exit' \in {"refused", "no runtime"}, PipeType',
           Ordered(toChild', PipePairs),
           UNCHANGED <<ui, lifecycle, lane, broker, toBroker, events, renderer, history>>
    PROVE  Ind'
<1>1. TypeOK /\ DeltasInOrder /\ SlotMatchesTransfer
  BY IndOpen
<1>2. /\ inFlight' = inFlight /\ outgoing' = outgoing /\ child' = child /\ event' = event
      /\ consumed' = consumed
  BY DEF lane, broker, renderer, history
<1>3. ExitType' /\ ~Alive' /\ ReceiptsAreSolicited'
  BY DEF ExitType, Alive, ReceiptsAreSolicited
<1>4. TypeOK'
  BY <1>1, <1>2, <1>3, TypeParts, TypeKept, TypeNext, Zenon
<1>5. DeltasInOrder' /\ SlotMatchesTransfer'
  BY <1>1, <1>2 DEF DeltasInOrder, SlotMatchesTransfer
<1> QED
  BY <1>3, <1>4, <1>5, IndNext

(* The steps that FailWith and StartRuntime take. *)
LEMMA FailMoves ==
    ASSUME ChildType, NEW c, NEW doc \in Docs, FailWith(c, doc),
           c.incoming = None,
           c \in [incoming : Docs \cup {None}, streaming : Docs \cup {None},
                  running : Docs \cup {None}, failed : Docs \cup {None},
                  cookies : 0 .. MaxCookies, jar : 0 .. MaxCookies],
           c.cookies = child.cookies, c.jar = child.jar
    PROVE  ChildMoves(doc) /\ ChildType'
<1>1. /\ child' = [c EXCEPT !.running = None, !.failed = doc]
      /\ event' = <<>> /\ toBroker' = Append(toBroker, Say("failed", doc)) /\ exit' = exit
  BY DEF FailWith
<1>2. /\ child'.incoming = None /\ child'.running = None /\ child'.failed = doc
      /\ child'.cookies = child.cookies /\ child'.jar = child.jar /\ ChildType'
  BY <1>1 DEF ChildType
<1> QED
  BY <1>1, <1>2 DEF ChildMoves

(* Starting a document's runtime changes that document only. *)
LEMMA StartMoves ==
    ASSUME ChildType, NEW c, NEW doc \in Docs, StartRuntime(c, doc), child.incoming = doc,
           c \in [incoming : Docs \cup {None}, streaming : Docs \cup {None},
                  running : Docs \cup {None}, failed : Docs \cup {None},
                  cookies : 0 .. MaxCookies, jar : 0 .. MaxCookies],
           c.cookies = child.cookies, c.jar = child.jar, c.running = child.running,
           c.failed = child.failed
    PROVE  ChildMoves(doc) /\ ChildType'
<1>1. CASE child' = [c EXCEPT !.incoming = None, !.running = doc] /\ UNCHANGED <<event, toBroker, exit>>
  <2>1. /\ child'.incoming = None /\ child'.running = doc /\ child'.failed = child.failed
        /\ child'.cookies = child.cookies /\ child'.jar = child.jar /\ ChildType'
    BY <1>1 DEF ChildType
  <2> QED
    BY <1>1, <2>1 DEF ChildMoves
<1>2. CASE /\ child' = [c EXCEPT !.incoming = None]
           /\ toBroker' = Append(toBroker, Say("navigate", doc))
           /\ UNCHANGED <<event, exit>>
  <2>1. /\ child'.incoming = None /\ child'.running = child.running /\ child'.failed = child.failed
        /\ child'.cookies = child.cookies /\ child'.jar = child.jar /\ ChildType'
    BY <1>2 DEF ChildType
  <2> QED
    BY <1>2, <2>1 DEF ChildMoves
<1>3. CASE FailWith([c EXCEPT !.incoming = None], doc)
  <2> DEFINE b == [c EXCEPT !.incoming = None]
  <2>1. /\ b \in [incoming : Docs \cup {None}, streaming : Docs \cup {None},
                  running : Docs \cup {None}, failed : Docs \cup {None},
                  cookies : 0 .. MaxCookies, jar : 0 .. MaxCookies]
        /\ b.incoming = None /\ b.cookies = child.cookies /\ b.jar = child.jar
        /\ FailWith(b, doc)
    BY <1>3
  <2> HIDE DEF b
  <2> QED
    BY <2>1, FailMoves
<1> QED
  BY <1>1, <1>2, <1>3 DEF StartRuntime

(* Nothing moves in the child but what streams. *)
LEMMA StreamMoves ==
    ASSUME ChildType, NEW doc, UNCHANGED <<event, toBroker, exit>>,
           child' = child \/ child' = [child EXCEPT !.streaming = None]
    PROVE  ChildMoves(doc) /\ ChildType'
<1>1. /\ child'.incoming = child.incoming /\ child'.running = child.running
      /\ child'.failed = child.failed /\ child'.cookies = child.cookies
      /\ child'.jar = child.jar /\ ChildType'
  BY DEF ChildType
<1> QED
  BY <1>1 DEF ChildMoves

(* A chunk changes its document only, or is refused. *)
LEMMA ChunkMoves ==
    ASSUME ChildType, ChildShape, NEW doc \in Docs, ChildChunk(doc)
    PROVE  \/ exit' = "refused" /\ UNCHANGED <<child, event, toBroker>>
           \/ ChildMoves(doc) /\ ChildType'
<1>1. CASE exit' = "refused" /\ UNCHANGED <<child, event, toBroker>>
  BY <1>1
<1>2. CASE UNCHANGED <<child, event, toBroker, exit>>
  BY <1>2, StreamMoves
<1>3. CASE child.incoming = doc /\ StartRuntime(child, doc)
  BY <1>3, StartMoves DEF ChildType
<1>4. CASE child.running = doc /\ FailWith(child, doc)
  <2>1. child.incoming = None
    BY <1>4, DocsNat DEF ChildShape
  <2> QED
    BY <1>4, <2>1, FailMoves DEF ChildType
<1> QED
  BY <1>1, <1>2, <1>3, <1>4 DEF ChildChunk

(* The end of a load changes its document only, or is refused. *)
LEMMA EndMoves ==
    ASSUME ChildType, ChildShape, NEW doc \in Docs, ChildEnd(doc)
    PROVE  \/ exit' = "refused" /\ UNCHANGED <<child, event, toBroker>>
           \/ ChildMoves(doc) /\ ChildType'
<1> DEFINE ended == [child EXCEPT !.streaming = None]
<1>1. /\ ended \in [incoming : Docs \cup {None}, streaming : Docs \cup {None},
                    running : Docs \cup {None}, failed : Docs \cup {None},
                    cookies : 0 .. MaxCookies, jar : 0 .. MaxCookies]
      /\ ended.cookies = child.cookies /\ ended.jar = child.jar
      /\ ended.running = child.running /\ ended.failed = child.failed
      /\ ended.incoming = child.incoming
  BY DEF ChildType
<1>2. \/ child.incoming = doc /\ StartRuntime(ended, doc)
      \/ child' = ended /\ UNCHANGED <<event, toBroker, exit>>
      \/ child.running = doc /\ FailWith(ended, doc)
      \/ exit' = "refused" /\ UNCHANGED <<child, event, toBroker>>
  BY Zenon DEF ChildEnd
<1>3. CASE child' = ended /\ UNCHANGED <<event, toBroker, exit>>
  BY <1>3, StreamMoves
<1> HIDE DEF ended
<1>4. CASE child.incoming = doc /\ StartRuntime(ended, doc)
  BY <1>1, <1>4, StartMoves
<1>5. CASE child.running = doc /\ FailWith(ended, doc)
  <2>1. child.incoming = None
    BY <1>5, DocsNat DEF ChildShape
  <2> QED
    BY <1>1, <1>5, <2>1, FailMoves
<1> QED
  BY <1>2, <1>3, <1>4, <1>5

(* An aborted load changes its document only. *)
LEMMA AbortMoves ==
    ASSUME ChildType, NEW doc \in Docs, ChildAbort(doc)
    PROVE  ChildMoves(doc) /\ ChildType'
<1>1. CASE child.streaming = doc
  <2> DEFINE c == [child EXCEPT !.streaming = None, !.incoming = None]
  <2>1. /\ c \in [incoming : Docs \cup {None}, streaming : Docs \cup {None},
                  running : Docs \cup {None}, failed : Docs \cup {None},
                  cookies : 0 .. MaxCookies, jar : 0 .. MaxCookies]
        /\ c.cookies = child.cookies /\ c.jar = child.jar /\ c.incoming = None
    BY DEF ChildType
  <2>2. FailWith(c, doc)
    BY <1>1 DEF ChildAbort
  <2> HIDE DEF c
  <2> QED
    BY <2>1, <2>2, FailMoves
<1>2. CASE child.streaming # doc
  BY <1>2, StreamMoves DEF ChildAbort
<1> QED
  BY <1>1, <1>2

(* A cancellation changes its document only. *)
LEMMA CancelMoves ==
    ASSUME ChildType, NEW doc \in Docs, ChildCancel(doc)
    PROVE  ChildMoves(doc) /\ ChildType'
<1>1. /\ child' = [child EXCEPT !.streaming = IF @ = doc THEN None ELSE @,
                                !.incoming = IF @ = doc THEN None ELSE @,
                                !.running = IF @ = doc THEN None ELSE @]
      /\ event' \in {event, <<>>} /\ UNCHANGED <<toBroker, exit>>
  BY DEF ChildCancel
<1>2. /\ child'.incoming \in {child.incoming, None} /\ child'.running \in {child.running, None}
      /\ child'.failed = child.failed /\ child'.cookies = child.cookies
      /\ child'.jar = child.jar /\ ChildType'
  BY <1>1 DEF ChildType
<1> QED
  BY <1>1, <1>2 DEF ChildMoves

(* What a message that ends or streams a document leaves of the pipe. *)
LEMMA SignalTaken ==
    ASSUME TypeOK, Ordered(toChild, PipePairs), Len(toChild) > queued,
           toChild' = Tail(toChild), queued' = queued, Head(toChild).op # "update"
    PROVE  /\ Head(toChild).doc \in Docs /\ Head(toChild).doc \in Reached
           /\ \A m \in Range(toChild') : Begins(m) => Head(toChild).doc < m.doc
           /\ \A m \in Range(toChild) : m \in Delivery => m \in Range(toChild')
<1> DEFINE h == Head(toChild)
<1>1. /\ Range(toChild) = {h} \cup Range(toChild') /\ h \in Messages
      /\ DocOf(h) \in Reached /\ \A y \in Range(toChild') : <<h, y>> \in PipePairs
  BY MessageTaken
<1> HIDE DEF h
<1>2. h.doc \in Docs /\ DocOf(h) = h.doc /\ h \notin Delivery
  BY <1>1, MessageFacts DEF h
<1>3. \A m \in Range(toChild') : m \in Messages
  BY <1>1, Members
<1>4. \A m \in Range(toChild') : Begins(m) => h.doc < m.doc
  BY <1>1, <1>2, <1>3, PipePairIs
<1> QED
  BY <1>1, <1>2, <1>4 DEF h

(* Handling a signal in the child keeps the invariant. *)
LEMMA SignalKeeps ==
    ASSUME Ind, ChildHandle, Head(toChild).op \in {"chunk", "end", "abort", "cancel"}
    PROVE  Ind'
<1> DEFINE doc == Head(toChild).doc
<1>1. /\ Alive /\ Len(toChild) > queued /\ toChild' = Tail(toChild)
      /\ UNCHANGED <<ui, lifecycle, lane, broker, queued, events, admitted>>
  BY DEF ChildHandle
<1>2. /\ consumed' = consumed
      /\ \/ ChildChunk(doc) \/ ChildEnd(doc) \/ ChildAbort(doc) \/ ChildCancel(doc)
  BY DEF ChildHandle
<1>3. TypeOK /\ Ordered(toChild, PipePairs) /\ ChildShape
  BY <1>1, IndOpen
<1>4. /\ PipeType' /\ Ordered(toChild', PipePairs) /\ Range(toChild') \subseteq Range(toChild)
      /\ \A S : Once(toChild, S) => Once(toChild', S)
  BY <1>1, <1>3, MessageTaken
<1>5. /\ doc \in Docs /\ doc \in Reached
      /\ \A m \in Range(toChild') : Begins(m) => doc < m.doc
      /\ \A m \in Range(toChild) : m \in Delivery => m \in Range(toChild')
  BY <1>1, <1>3, SignalTaken
<1>6. ChildType /\ history' = history
  BY <1>1, <1>2, <1>3, TypeParts DEF history
<1> HIDE DEF doc
<1>7. \/ exit' = "refused" /\ UNCHANGED <<child, event, toBroker>>
      \/ ChildMoves(doc) /\ ChildType'
  BY <1>2, <1>3, <1>5, <1>6, ChunkMoves, EndMoves, AbortMoves, CancelMoves
<1>8. CASE exit' = "refused" /\ UNCHANGED <<child, event, toBroker>>
  BY <1>1, <1>4, <1>6, <1>8, RefusedKeeps DEF renderer
<1>9. CASE ChildMoves(doc) /\ ChildType'
  <2>1. UNCHANGED <<ui, lifecycle, lane, broker, events, history>>
    BY <1>1, <1>6
  <2> QED
    BY <1>1, <1>4, <1>5, <1>9, <2>1, ChildMovesKeeps
<1> QED
  BY <1>7, <1>8, <1>9

(* A failure of the running document keeps the invariant. *)
LEMMA FailDocumentKeeps ==
    ASSUME Ind, FailDocument
    PROVE  Ind'
<1> DEFINE doc == child.running
<1>1. /\ Alive /\ doc # None /\ FailWith(child, doc)
      /\ UNCHANGED <<ui, lifecycle, lane, broker, pipe, events, history>>
  BY DEF FailDocument
<1>2. TypeOK /\ Ordered(toChild, PipePairs) /\ ChildShape /\ ChildType /\ PipeType
  BY <1>1, IndOpen, TypeParts
<1>3. doc \in Docs /\ doc \in Reached
  BY <1>1, <1>2, Types, InReached
<1>4. child.incoming = None
  BY <1>1, <1>2 DEF ChildShape
<1>5. ChildMoves(doc) /\ ChildType'
  BY <1>1, <1>2, <1>3, <1>4, FailMoves DEF ChildType
<1>6. \A m \in Range(toChild) : Begins(m) => doc < m.doc
  BY <1>1, <1>2 DEF ChildShape
<1>7. toChild' = toChild /\ PipeType'
  BY <1>1, <1>2, TypeKept DEF pipe
<1> HIDE DEF doc
<1> QED
  BY <1>1, <1>2, <1>3, <1>5, <1>6, <1>7, ChildMovesKeeps

(* A document begins in a child that has none. *)
LEMMA ChildBeginKeeps ==
    ASSUME Ind, ChildHandle, Head(toChild).op \in {"begin", "stream"}
    PROVE  Ind'
<1> DEFINE h == Head(toChild)
           doc == Head(toChild).doc
           streaming == Head(toChild).op = "stream"
<1>1. /\ Alive /\ Len(toChild) > queued /\ toChild' = Tail(toChild)
      /\ UNCHANGED <<ui, lifecycle, lane, broker, queued, events, admitted>>
  BY DEF ChildHandle
<1>2. consumed' = consumed /\ (ChildBegin(doc, TRUE) \/ ChildBegin(doc, FALSE))
  BY DEF ChildHandle
<1>3. /\ TypeOK /\ Bounded /\ Fresh /\ Cancelled /\ ChildShape /\ FailedIsOver /\ OwnedIsActive
      /\ Solicited /\ Versions /\ Counted /\ Newest /\ CookieVersions
      /\ SlotMatchesTransfer /\ Ordered(toChild, PipePairs)
  BY <1>1, IndOpen
<1>4. /\ PipeType' /\ Ordered(toChild', PipePairs) /\ Range(toChild') \subseteq Range(toChild)
      /\ \A S : Once(toChild, S) => Once(toChild', S)
      /\ h \in Range(toChild)
  BY <1>1, <1>3, MessageTaken
<1>5. /\ doc \in Docs /\ doc \in Reached
      /\ \A m \in Range(toChild') : Begins(m) => doc < m.doc
      /\ \A m \in Range(toChild) : m \in Delivery => m \in Range(toChild')
  BY <1>1, <1>3, SignalTaken
<1>6. Begins(h) /\ h.doc = doc
  BY DEF Begins
<1>7. history' = history /\ doc # None
  BY <1>1, <1>2, <1>5, DocsNat DEF history
<1> HIDE DEF h, doc, streaming
<1>8. CASE exit' = "refused" /\ UNCHANGED <<child, event, toBroker>>
  BY <1>1, <1>4, <1>7, <1>8, RefusedKeeps DEF renderer
<1>9. CASE ~(exit' = "refused" /\ UNCHANGED <<child, event, toBroker>>)
  <2>1. \E s \in Docs \cup {None} :
          child' = [incoming |-> doc, running |-> None, failed |-> None,
                    cookies |-> 0, jar |-> 0, streaming |-> s]
    <3>1. child.streaming \in Docs \cup {None} /\ doc \in Docs \cup {None}
      BY <1>3, <1>5, TypeParts DEF ChildType
    <3> QED
      BY <1>2, <1>9, <3>1 DEF ChildBegin
  <2>2. UNCHANGED <<event, toBroker, exit>>
    BY <1>2, <1>9 DEF ChildBegin
  <2>3. /\ child'.incoming = doc /\ child'.running = None /\ child'.failed = None
        /\ child'.jar = 0 /\ ChildType'
    <3>1. 0 \in 0 .. MaxCookies
      BY LaneAssumption
    <3> QED
      BY <1>5, <2>1, <3>1 DEF ChildType
  <2>4. /\ pending' = pending /\ inFlight' = inFlight /\ active' = active /\ outgoing' = outgoing
        /\ admitted' = admitted /\ consumed' = consumed /\ ui' = ui /\ lifecycle' = lifecycle
        /\ events' = events /\ event' = event /\ toBroker' = toBroker /\ exit' = exit
    BY <1>1, <1>2, <2>2 DEF lane, broker
  <2>5. TypeOK'
    BY <1>1, <1>3, <1>4, <1>7, <2>3, <2>4, TypeParts, TypeKept, TypeNext, Zenon
  <2>6. ReceiptsAreSolicited' /\ DeltasInOrder' /\ SlotMatchesTransfer'
    BY <1>1, <1>3, <2>4, IndOpen DEF ReceiptsAreSolicited, DeltasInOrder, SlotMatchesTransfer
  <2>7. Reached' \subseteq Reached
    <3>1. outgoing' # <<>> => Head(outgoing').update.doc \in Reached
      BY <1>3, <2>4, TransferIs, InReached
    <3>2. \A m \in Range(toChild') : DocOf(m) \in Reached
      BY <1>3, <1>4, InReached
    <3>3. /\ child'.incoming \in Reached \cup {None} /\ child'.running \in Reached \cup {None}
          /\ active' \in Reached \cup {None}
      BY <1>3, <1>5, <2>3, <2>4, InReached
    <3> QED
      BY <1>3, <2>4, <3>1, <3>2, <3>3, InReached, ReachedWithin
  <2>8. Bounded' /\ Fresh'
    BY <1>3, <2>4, <2>7, BoundsKept
  <2>9. Cancelled' /\ Versions' /\ CookieVersions'
    BY <1>3, <1>4, <2>4 DEF Cancelled, Versions, Newer, CookieVersions
  <2>10. ChildShape'
    BY <1>5, <2>3 DEF ChildShape
  <2>11. FailedIsOver'
    <3>1. \A r \in Range(toBroker) : r.op = "failed" => doc # r.doc /\ r.doc # None
      <4>1. \A r \in Range(toBroker) : r.op = "failed" => doc # r.doc
        BY <1>3, <1>4, <1>6 DEF FailedIsOver
      <4>2. \A r \in Range(toBroker) : r.op = "failed" => r.doc # None
        BY <1>3, Members, ReportFacts, DocsNat
      <4> QED
        BY <4>1, <4>2
    <3> QED
      BY <1>3, <1>4, <2>3, <2>4, <3>1 DEF FailedIsOver
  <2>12. OwnedIsActive'
    BY <1>3, <1>4, <1>6, <2>3, <2>4 DEF OwnedIsActive
  <2>13. Solicited'
    <3>1. Once(toChild, UpdatesFor(active)) => Once(toChild', UpdatesFor(active))
      BY <1>4
    <3> QED
      BY <1>3, <1>4, <2>4, <3>1 DEF Solicited
  <2>14. Counted'
    <3>1. Mutations' = Mutations
      BY <2>4 DEF Mutations
    <3>2. ~(ui.doc # None /\ Mutations > 0)
      BY <1>3, <1>4, <1>6 DEF Counted
    <3> QED
      BY <2>4, <3>1, <3>2 DEF Counted
  <2>15. Newest'
    BY <1>3, <2>3, <2>4 DEF Newest
  <2> QED
    BY <1>4, <2>5, <2>6, <2>8, <2>9, <2>10, <2>11, <2>12, <2>13, <2>14, <2>15, IndNext
<1> QED
  BY <1>8, <1>9

-----------------------------------------------------------------------------
(* The receipt of an update. *)
Answer(u) == [op |-> "applied", update |-> u]

(* The answer to an update is the only receipt it adds. *)
LEMMA Acknowledged ==
    ASSUME TypeOK, NEW u \in Update, toBroker' = Append(toBroker, Answer(u))
    PROVE  /\ toBroker' \in Seq(Reports) /\ Range(toBroker') = Range(toBroker) \cup {Answer(u)}
           /\ Answer(u).op = "applied" /\ Answer(u).update = u /\ DocOf(Answer(u)) = u.doc
           /\ \A d : Answer(u) \in ReceiptsFrom(d) <=> u.doc = d
           /\ \A d : Once(toBroker, ReceiptsFrom(d))
                     /\ (u.doc = d => Range(toBroker) \cap ReceiptsFrom(d) = {})
                       => Once(toBroker', ReceiptsFrom(d))
           /\ Told(toBroker) \in Nat /\ Told(toBroker') = Told(toBroker)
<1> DEFINE r == Answer(u)
<1>1. r \in Receipt /\ r.op = "applied" /\ r.update = u
  BY DEF Answer, Receipt
<1>2. toBroker \in Seq(Reports) /\ toBroker' = Append(toBroker, r)
  BY Types
<1> HIDE DEF r
<1>3. r \in Reports /\ DocOf(r) = u.doc
  BY <1>1 DEF Reports, DocOf
<1>4. toBroker' \in Seq(Reports) /\ Range(toBroker') = Range(toBroker) \cup {r}
  BY <1>2, <1>3, AppendProperties, RangeAppend
<1>5. \A d : r \in ReceiptsFrom(d) <=> u.doc = d
  BY <1>1 DEF ReceiptsFrom
<1>6. \A d : Once(toBroker, ReceiptsFrom(d))
             /\ (u.doc = d => Range(toBroker) \cap ReceiptsFrom(d) = {})
               => Once(toBroker', ReceiptsFrom(d))
  BY <1>2, <1>3, <1>5, OnceAppend
<1>7. r \notin CookieReports(ui.doc)
  BY <1>1 DEF CookieReports
<1>8. Told(toBroker) \in Nat /\ Told(toBroker') = Told(toBroker)
  BY <1>2, <1>3, <1>7, CountAppend DEF Told
<1> QED
  BY <1>1, <1>3, <1>4, <1>5, <1>6, <1>8 DEF r

(* Versions that grow still grow with a newer one behind them. *)
LEMMA GrowsAppend ==
    ASSUME NEW A \in SUBSET Nat, NEW s \in Seq(A), NEW x \in A,
           \A i, j \in DOMAIN s : i < j => s[i] < s[j],
           \A y \in Range(s) : y < x
    PROVE  \A i, j \in DOMAIN Append(s, x) : i < j => Append(s, x)[i] < Append(s, x)[j]
<1> DEFINE R == {p \in A \X A : p[1] < p[2]}
<1>1. \A a, b \in A : <<a, b>> \in R <=> a < b
  OBVIOUS
<1>2. \A i \in DOMAIN s : s[i] \in A
  BY RangeType DEF Range
<1>3. Range(s) \subseteq A
  BY RangeType
<1>4. Append(s, x) \in Seq(A)
  BY AppendProperties
<1>5. \A i \in DOMAIN Append(s, x) : Append(s, x)[i] \in A
  BY <1>4, RangeType DEF Range
<1> HIDE DEF R
<1>6. Ordered(s, R)
  BY <1>1, <1>2 DEF Ordered
<1>7. \A y \in Range(s) : <<y, x>> \in R
  BY <1>1, <1>3
<1>8. Ordered(Append(s, x), R)
  BY <1>6, <1>7, OrderedAppend
<1> DEFINE t == Append(s, x)
<1>9. (\A i \in DOMAIN t : t[i] \in A) /\ Ordered(t, R)
  BY <1>5, <1>8
<1> HIDE DEF t
<1>10. \A i, j \in DOMAIN t : i < j => t[i] < t[j]
  BY <1>1, <1>9 DEF Ordered
<1> QED
  BY <1>10 DEF t

(* An update leaves the pipe for its event or its receipt. *)
LEMMA UpdatePlaced ==
    ASSUME TypeOK, Ordered(toChild, PipePairs), Solicited, Len(toChild) > queued,
           toChild' = Tail(toChild), queued' = queued, Head(toChild).op = "update",
           active' = active, outgoing' = outgoing,
           \/ toBroker' = Append(toBroker, Answer(Head(toChild).update)) /\ event' = event
           \/ event = <<>> /\ event' = <<Head(toChild).update>> /\ toBroker' = toBroker
    PROVE  /\ Solicited'
           /\ toBroker' \in Seq(Reports) /\ event' \in Seq(Update) /\ Len(event') <= 1
           /\ \A r \in Range(toBroker') :
                r \in Range(toBroker) \/ (r.op = "applied" /\ DocOf(r) \in Reached)
           /\ \A w \in Range(event') : w.doc \in Reached
           /\ Told(toBroker') = Told(toBroker)
<1> DEFINE h == Head(toChild)
           u == h.update
<1>1. /\ Range(toChild') \subseteq Range(toChild)
      /\ h \in Messages /\ h \in Range(toChild) /\ DocOf(h) \in Reached
      /\ \A S : Once(toChild, S) =>
           /\ Once(toChild', S)
           /\ h \in S => Range(toChild') \cap S = {}
  BY MessageTaken
<1>2. u \in Update /\ h \in Delivery /\ u.doc \in Reached
  BY <1>1, MessageFacts
<1>3. \A d : h \in UpdatesFor(d) <=> u.doc = d
  BY <1>2 DEF UpdatesFor
<1>4. /\ toBroker \in Seq(Reports) /\ event \in Seq(Update) /\ Len(event) <= 1
      /\ Told(toBroker) \in Nat
  BY TypeParts, MutationsAre
<1>5. <<u>> \in Seq(Update) /\ Range(<<u>>) = {u} /\ Len(<<u>>) <= 1
  <2>1. Len(<<u>>) <= 1
    OBVIOUS
  <2> QED
    BY <1>2, <2>1, SingleIs, Zenon
<1>6. \/ toBroker' = Append(toBroker, Answer(u)) /\ event' = event
      \/ event = <<>> /\ event' = <<u>> /\ toBroker' = toBroker
  OBVIOUS
<1> HIDE DEF h, u
<1>7. ASSUME active # None, u.doc = active
      PROVE  /\ outgoing = <<[update |-> u, sent |-> TRUE]>>
             /\ Range(toBroker) \cap ReceiptsFrom(active) = {}
             /\ \A w \in Range(event) : w.doc # active
             /\ Range(toChild') \cap UpdatesFor(active) = {}
  <2>1. h \in Range(toChild) \cap UpdatesFor(active)
    BY <1>1, <1>3, <1>7
  <2> QED
    BY <1>1, <1>7, <2>1 DEF Solicited, u
<1>8. CASE toBroker' = Append(toBroker, Answer(u)) /\ event' = event
  <2>1. /\ toBroker' \in Seq(Reports) /\ Range(toBroker') = Range(toBroker) \cup {Answer(u)}
        /\ Answer(u).op = "applied" /\ Answer(u).update = u /\ DocOf(Answer(u)) = u.doc
        /\ \A d : Answer(u) \in ReceiptsFrom(d) <=> u.doc = d
        /\ \A d : Once(toBroker, ReceiptsFrom(d))
                  /\ (u.doc = d => Range(toBroker) \cap ReceiptsFrom(d) = {})
                    => Once(toBroker', ReceiptsFrom(d))
        /\ Told(toBroker') = Told(toBroker)
    BY <1>2, <1>8, Acknowledged
  <2>2. Solicited'
    <3> SUFFICES ASSUME active # None PROVE Solicited'
      BY DEF Solicited
    <3>1. Once(toChild', UpdatesFor(active)) /\ Once(toBroker', ReceiptsFrom(active))
      BY <1>1, <1>7, <2>1 DEF Solicited
    <3>2. CASE u.doc = active
      <4>1. Range(toBroker') \cap ReceiptsFrom(active) = {Answer(u)}
        BY <1>7, <2>1, <3>2
      <4> QED
        BY <1>7, <1>8, <2>1, <3>1, <3>2, <4>1 DEF Solicited
    <3>3. CASE u.doc # active
      <4>1. Range(toBroker') \cap ReceiptsFrom(active) = Range(toBroker) \cap ReceiptsFrom(active)
        BY <2>1, <3>3
      <4> QED
        BY <1>1, <1>8, <3>1, <4>1 DEF Solicited
    <3> QED
      BY <3>2, <3>3
  <2>3. \A w \in Range(event') : w.doc \in Reached
    BY <1>8, InReached
  <2> QED
    BY <1>2, <1>4, <1>8, <2>1, <2>2, <2>3
<1>9. CASE event = <<>> /\ event' = <<u>> /\ toBroker' = toBroker
  <2>1. Range(event) = {} /\ Range(event') = {u} /\ event' \in Seq(Update) /\ Len(event') <= 1
    BY <1>5, <1>9, RangeEmpty, Zenon
  <2>2. Solicited'
    <3> SUFFICES ASSUME active # None PROVE Solicited'
      BY DEF Solicited
    <3>1. Once(toChild', UpdatesFor(active)) /\ Once(toBroker, ReceiptsFrom(active))
      BY <1>1 DEF Solicited
    <3>2. CASE u.doc = active
      BY <1>7, <1>9, <2>1, <3>1, <3>2 DEF Solicited
    <3>3. CASE u.doc # active
      BY <1>1, <1>9, <2>1, <3>1, <3>3 DEF Solicited
    <3> QED
      BY <3>2, <3>3
  <2>3. \A w \in Range(event') : w.doc \in Reached
    BY <1>2, <2>1
  <2>4. toBroker' \in Seq(Reports) /\ Told(toBroker') = Told(toBroker)
        /\ \A r \in Range(toBroker') : r \in Range(toBroker)
    BY <1>4, <1>9
  <2> QED
    BY <2>1, <2>2, <2>3, <2>4
<1> QED
  BY <1>6, <1>8, <1>9

(* A delta is applied. *)
LEMMA UpdateConsumed ==
    ASSUME TypeOK, Ordered(toChild, PipePairs), Versions, DeltasInOrder,
           Len(toChild) > queued, toChild' = Tail(toChild), queued' = queued,
           Head(toChild).op = "update", Head(toChild).update.kind = "sync",
           outgoing' = outgoing, pending' = pending, admitted' = admitted,
           consumed' = [consumed EXCEPT ![Head(toChild).update.doc] =
                          Append(@, Head(toChild).update.ver)]
    PROVE  Versions' /\ DeltasInOrder' /\ HistoryType'
<1> DEFINE h == Head(toChild)
           u == h.update
           doc == u.doc
           ver == u.ver
<1>1. /\ Range(toChild') \subseteq Range(toChild)
      /\ h \in Messages /\ h \in Range(toChild)
      /\ \A y \in Range(toChild') : <<h, y>> \in PipePairs
  BY MessageTaken
<1>2. u \in Update /\ doc \in Docs /\ ver \in Nat
  BY <1>1, MessageFacts, UpdateFacts
<1>3. h.op = "update" /\ u.kind = "sync"
      /\ consumed' = [consumed EXCEPT ![doc] = Append(@, ver)]
  OBVIOUS
<1>4. Newer(u)
  BY <1>1, <1>3 DEF Versions
<1> HIDE DEF h
<1>a. u = h.update
  BY DEF u
<1> HIDE DEF u
<1>b. doc = u.doc /\ ver = u.ver
  OBVIOUS
<1> HIDE DEF doc, ver
<1>5. /\ ver > 0 /\ ver <= Len(admitted[doc]) /\ Len(admitted[doc]) \in Nat
      /\ \A v \in Range(consumed[doc]) : v < ver
  <2>1. Len(admitted[doc]) \in Nat
    BY <1>2, Types, LenProperties
  <2> QED
    BY <1>4, <1>b, <2>1 DEF Newer
<1>6. ver \in 1 .. MaxSyncs
  <2>1. Len(admitted[doc]) <= MaxSyncs /\ MaxSyncs \in Nat
    BY <1>2, LaneAssumption DEF Versions
  <2> QED
    BY <1>2, <1>5, <2>1
<1>7. consumed \in [Docs -> Seq(1 .. MaxSyncs)] /\ admitted \in [Docs -> Seq(1 .. MaxSyncs)]
      /\ consumed[doc] \in Seq(1 .. MaxSyncs)
  BY <1>2, TypeParts DEF HistoryType
<1> DEFINE c == Append(consumed[doc], ver)
<1>8. c \in Seq(1 .. MaxSyncs) /\ Range(c) = Range(consumed[doc]) \cup {ver}
  <2> DEFINE A == 1 .. MaxSyncs
             s == consumed[doc]
  <2>1. s \in Seq(A) /\ ver \in A
    BY <1>6, <1>7
  <2> HIDE DEF A, s
  <2>2. Append(s, ver) \in Seq(A)
    BY <2>1, AppendProperties
  <2>3. Range(Append(s, ver)) = Range(s) \cup {ver}
    BY <2>1, RangeAppend
  <2> QED
    BY <2>2, <2>3 DEF A, s
<1>9. \A i, j \in DOMAIN c : i < j => c[i] < c[j]
  <2>1. (1 .. MaxSyncs) \in SUBSET Nat
    OBVIOUS
  <2>2. \A i, j \in DOMAIN consumed[doc] : i < j => consumed[doc][i] < consumed[doc][j]
    BY <1>2 DEF DeltasInOrder
  <2> DEFINE A == 1 .. MaxSyncs
  <2>3. A \in SUBSET Nat /\ consumed[doc] \in Seq(A) /\ ver \in A
    BY <1>6, <1>7, <2>1
  <2> HIDE DEF A
  <2> QED
    BY <1>5, <2>2, <2>3, GrowsAppend
<1>10. consumed' = [consumed EXCEPT ![doc] = c]
  BY <1>3
<1> HIDE DEF c
<1>11. /\ consumed' \in [Docs -> Seq(1 .. MaxSyncs)]
       /\ \A d \in Docs : consumed'[d] = IF d = doc THEN c ELSE consumed[d]
  BY <1>2, <1>7, <1>8, <1>10
<1>12. HistoryType'
  BY <1>7, <1>11 DEF HistoryType
<1>13. DeltasInOrder'
  <2> SUFFICES ASSUME NEW d \in Docs
               PROVE  \A i, j \in DOMAIN consumed'[d] :
                         i < j => consumed'[d][i] < consumed'[d][j]
    BY DEF DeltasInOrder
  <2>1. CASE d = doc
    BY <1>9, <1>11, <2>1
  <2>2. CASE d # doc
    <3>1. consumed'[d] = consumed[d]
      BY <1>11, <2>2
    <3> QED
      BY <3>1 DEF DeltasInOrder
  <2> QED
    BY <2>1, <2>2
<1>14. \A w \in Update : Newer(w) /\ (w.doc = doc => ver < w.ver) => Newer(w)'
  <2> SUFFICES ASSUME NEW w \in Update, Newer(w), w.doc = doc => ver < w.ver
               PROVE  w.ver > 0 /\ w.ver <= Len(admitted'[w.doc])
                      /\ \A v \in Range(consumed'[w.doc]) : v < w.ver
    BY DEF Newer
  <2>1. w.doc \in Docs
    BY UpdateFacts
  <2>2. w.ver > 0 /\ w.ver <= Len(admitted[w.doc]) /\ \A v \in Range(consumed[w.doc]) : v < w.ver
    BY DEF Newer
  <2>3. CASE w.doc = doc
    <3>1. Range(consumed'[w.doc]) = Range(consumed[w.doc]) \cup {ver}
      BY <1>2, <1>8, <1>11, <2>3
    <3> QED
      BY <2>2, <2>3, <3>1
  <2>4. CASE w.doc # doc
    <3>1. consumed'[w.doc] = consumed[w.doc]
      BY <1>11, <2>1, <2>4
    <3> QED
      BY <2>2, <3>1
  <2> QED
    BY <2>3, <2>4
<1>15. Versions'
  <2>1. \A d \in Docs : \A v \in Range(consumed'[d]) : v <= Len(admitted'[d])
    <3> SUFFICES ASSUME NEW d \in Docs, NEW v \in Range(consumed'[d])
                 PROVE  v <= Len(admitted[d])
      OBVIOUS
    <3>1. CASE d = doc
      <4>1. Range(consumed'[d]) = Range(consumed[d]) \cup {ver}
        BY <1>2, <1>8, <1>11, <3>1
      <4> QED
        BY <1>5, <3>1, <4>1 DEF Versions
    <3>2. CASE d # doc
      <4>1. consumed'[d] = consumed[d]
        BY <1>11, <3>2
      <4> QED
        BY <4>1 DEF Versions
    <3> QED
      BY <3>1, <3>2
  <2>2. ASSUME NEW m \in Range(toChild'), m.op = "update", m.update.kind = "sync"
        PROVE  Newer(m.update)'
    <3>1. m \in Messages /\ m.update \in Update /\ Newer(m.update)
      BY <1>1, <2>2, Members, MessageFacts DEF Versions
    <3>2. m.update.doc = doc => ver < m.update.ver
      BY <1>1, <1>3, <1>a, <1>b, <2>2, <3>1, PipePairIs
    <3>3. \A w \in Update : w = m.update => Newer(w)'
      BY <1>14, <3>1, <3>2
    <3> QED
      BY <3>1, <3>3 DEF Newer
  <2>3. ASSUME NEW o \in Range(outgoing), o.update.kind = "sync", ~o.sent
        PROVE  /\ Newer(o.update)'
               /\ \A m \in Range(toChild') :
                     m.op = "update" /\ m.update.kind = "sync" /\ m.update.doc = o.update.doc
                       => m.update.ver < o.update.ver
    <3>1. /\ o.update \in Update /\ Newer(o.update)
          /\ \A m \in Range(toChild) :
                m.op = "update" /\ m.update.kind = "sync" /\ m.update.doc = o.update.doc
                  => m.update.ver < o.update.ver
      BY <2>3, TransferIs DEF Versions
    <3>2. o.update.doc = doc => ver < o.update.ver
      BY <1>1, <1>3, <1>a, <1>b, <3>1
    <3>3. \A w \in Update : w = o.update => Newer(w)'
      BY <1>14, <3>1, <3>2
    <3> QED
      BY <1>1, <3>1, <3>3 DEF Newer
  <2>4. ASSUME NEW w \in Range(pending), w.kind = "sync"
        PROVE  /\ outgoing = <<>> /\ Newer(w)'
               /\ \A m \in Range(toChild') :
                     m.op = "update" /\ m.update.kind = "sync" /\ m.update.doc = w.doc
                       => m.update.ver < w.ver
    <3>1. /\ w \in Update /\ Newer(w) /\ outgoing = <<>>
          /\ \A m \in Range(toChild) :
                m.op = "update" /\ m.update.kind = "sync" /\ m.update.doc = w.doc
                  => m.update.ver < w.ver
      BY <2>4, Members DEF Versions
    <3>2. w.doc = doc => ver < w.ver
      BY <1>1, <1>3, <1>a, <1>b, <3>1
    <3>3. Newer(w)'
      BY <1>14, <3>1, <3>2
    <3> QED
      BY <1>1, <3>1, <3>3
  <2>5. \A d \in Docs : Len(admitted'[d]) <= MaxSyncs
    BY DEF Versions
  <2>6. Ordered(pending', PendingPairs)
    BY DEF Versions
  <2>7. \A o \in Range(outgoing') : o.update.kind = "sync" /\ ~o.sent =>
          /\ Newer(o.update)'
          /\ \A m \in Range(toChild') :
                m.op = "update" /\ m.update.kind = "sync" /\ m.update.doc = o.update.doc
                  => m.update.ver < o.update.ver
    BY <2>3
  <2>8. \A w \in Range(pending') : w.kind = "sync" =>
          /\ outgoing' = <<>> /\ Newer(w)'
          /\ \A m \in Range(toChild') :
                m.op = "update" /\ m.update.kind = "sync" /\ m.update.doc = w.doc
                  => m.update.ver < w.ver
    BY <2>4
  <2> QED
    BY <2>1, <2>2, <2>5, <2>6, <2>7, <2>8 DEF Versions, Newer
<1> QED
  BY <1>12, <1>13, <1>15

(* What an update does to the child: it is refused, or it is answered by a *)
(* document that failed or applied by the one that runs.                   *)
LEMMA UpdateOutcome ==
    ASSUME NEW u, ChildUpdate(u)
    PROVE  \/ exit' = "no runtime" /\ UNCHANGED <<child, event, toBroker, consumed>>
           \/ /\ exit' = exit
              /\ \/ toBroker' = Append(toBroker, Answer(u)) /\ event' = event
                 \/ event = <<>> /\ event' = <<u>> /\ toBroker' = toBroker
              /\ \/ child.failed = u.doc /\ child' = child /\ consumed' = consumed
                 \/ /\ child.running = u.doc
                    /\ consumed' = IF u.kind = "sync"
                                   THEN [consumed EXCEPT ![u.doc] = Append(@, u.ver)]
                                   ELSE consumed
                    /\ child' = IF u.kind = "cookie" THEN [child EXCEPT !.jar = u.ver]
                                ELSE child
<1>1. Acknowledge(u) => toBroker' = Append(toBroker, Answer(u))
  BY DEF Acknowledge, Answer
<1>2. CASE child.failed = u.doc
  BY <1>1, <1>2 DEF ChildUpdate
<1>3. CASE child.failed # u.doc /\ (child.running # u.doc \/ (u.foreign /\ event # <<>>))
  BY <1>3 DEF ChildUpdate
<1>4. CASE child.failed # u.doc /\ ~(child.running # u.doc \/ (u.foreign /\ event # <<>>))
  <2>1. /\ IF u.foreign THEN event' = <<u>> /\ UNCHANGED toBroker
           ELSE Acknowledge(u) /\ UNCHANGED event
        /\ consumed' = IF u.kind = "sync"
                       THEN [consumed EXCEPT ![u.doc] = Append(@, u.ver)]
                       ELSE consumed
        /\ child' = IF u.kind = "cookie" THEN [child EXCEPT !.jar = u.ver] ELSE child
        /\ exit' = exit
    BY <1>4, Zenon DEF ChildUpdate
  <2>2. child.running = u.doc /\ (u.foreign => event = <<>>)
    BY <1>4, Zenon
  <2>3. \/ toBroker' = Append(toBroker, Answer(u)) /\ event' = event
        \/ event = <<>> /\ event' = <<u>> /\ toBroker' = toBroker
    BY <1>1, <2>1, <2>2, Zenon
  <2> QED
    BY <2>1, <2>2, <2>3, Zenon
<1> QED
  BY <1>2, <1>3, <1>4, Zenon

(* The running document applies the update that the broker sent. *)
LEMMA NewestApplied ==
    ASSUME TypeOK, Solicited, OwnedIsActive, ChildShape, Newest, NEW u \in Update,
           NEW h \in Range(toChild), h \in UpdatesFor(u.doc), h.update = u,
           \A S : Once(toChild, S) /\ h \in S => Range(toChild') \cap S = {},
           ui' = ui, pending' = pending, outgoing' = outgoing, child'.running = child.running,
           \/ child.failed = u.doc
           \/ /\ child.running = u.doc
              /\ child'.jar = IF u.kind = "cookie" THEN u.ver ELSE child.jar
    PROVE  Newest'
<1>1. u.doc # None
  BY UpdateFacts, DocsNat
<1>2. CASE ~(ui.doc # None /\ child.running = ui.doc)
  BY <1>2 DEF Newest
<1>3. CASE ui.doc # None /\ child.running = ui.doc
  <2>1. u.doc = ui.doc /\ child'.jar = IF u.kind = "cookie" THEN u.ver ELSE child.jar
    BY <1>1, <1>3 DEF ChildShape
  <2>2. active = ui.doc
    BY <1>3 DEF OwnedIsActive
  <2>3. outgoing = <<[update |-> u, sent |-> TRUE]>>
        /\ Once(toChild, UpdatesFor(ui.doc)) /\ h \in UpdatesFor(ui.doc)
    BY <1>3, <2>1, <2>2 DEF Solicited
  <2>4. PICK o \in Range(outgoing) : o.update = u /\ o = Head(outgoing)
    <3> DEFINE x == [update |-> u, sent |-> TRUE]
    <3>1. x \in Transfers /\ x.update = u
      BY DEF Transfers
    <3>2. outgoing = <<x>>
      BY <2>3
    <3> HIDE DEF x
    <3>3. Range(<<x>>) = {x} /\ Head(<<x>>) = x
      BY <3>1, SingleIs
    <3>4. Range(outgoing) = {x} /\ Head(outgoing) = x
      BY <3>2, <3>3, Zenon
    <3> QED
      BY <3>1, <3>4
  <2>5. \A p \in Range(outgoing) : p = o
    BY <2>4, TransferIs
  <2>6. \A w \in Range(pending) : CookieOf(w, ui.doc) => ui.cookies > 0 /\ w.ver = ui.cookies
    BY DEF Newest
  <2>7. \A p \in Range(outgoing) : CookieOf(p.update, ui.doc) => ui.cookies > 0
    BY DEF Newest
  <2>8. ASSUME \A w \in Range(pending) : ~CookieOf(w, ui.doc)
        PROVE  IF \E p \in Range(outgoing) : CookieOf(p.update, ui.doc)
               THEN Head(outgoing).update.ver = ui.cookies
               ELSE child'.jar = ui.cookies
    <3>1. IF \E p \in Range(outgoing) : CookieOf(p.update, ui.doc)
          THEN Head(outgoing).update.ver = ui.cookies
          ELSE child.jar = ui.cookies
      BY <1>3, <2>8 DEF Newest
    <3>2. CASE u.kind = "cookie"
      BY <2>1, <2>4, <3>1, <3>2 DEF CookieOf
    <3>3. CASE u.kind # "cookie"
      BY <2>1, <3>1, <3>3
    <3> QED
      BY <3>2, <3>3
  <2>9. \A p \in Range(outgoing) : CookieOf(p.update, ui.doc) => child'.jar = p.update.ver
    BY <2>1, <2>4, <2>5 DEF CookieOf
  <2> QED
    BY <2>6, <2>7, <2>8, <2>9 DEF Newest
<1> QED
  BY <1>2, <1>3

(* Applying an update in the child keeps the invariant. *)
LEMMA ChildUpdateKeeps ==
    ASSUME Ind, ChildHandle, Head(toChild).op = "update"
    PROVE  Ind'
<1> DEFINE h == Head(toChild)
           u == Head(toChild).update
<1>1. /\ Alive /\ Len(toChild) > queued /\ toChild' = Tail(toChild)
      /\ UNCHANGED <<ui, lifecycle, lane, broker, queued, events, admitted>>
  BY DEF ChildHandle
<1>2. ChildUpdate(u)
  BY DEF ChildHandle
<1>3. /\ TypeOK /\ Bounded /\ Fresh /\ Cancelled /\ ChildShape /\ FailedIsOver /\ OwnedIsActive
      /\ Solicited /\ Versions /\ Counted /\ Newest /\ CookieVersions
      /\ SlotMatchesTransfer /\ Ordered(toChild, PipePairs) /\ DeltasInOrder
      /\ ReceiptsAreSolicited
  BY <1>1, IndOpen
<1>4. /\ PipeType' /\ Ordered(toChild', PipePairs) /\ Range(toChild') \subseteq Range(toChild)
      /\ \A S : Once(toChild, S) /\ h \in S => Range(toChild') \cap S = {}
      /\ h \in Range(toChild) /\ h \in Messages
  BY <1>1, <1>3, MessageTaken
<1>5. h.op = "update" /\ h.update = u
  OBVIOUS
<1>6. queued' = queued /\ lane' = lane /\ broker' = broker /\ ui' = ui /\ lifecycle' = lifecycle
      /\ events' = events /\ admitted' = admitted /\ pending' = pending
      /\ inFlight' = inFlight /\ active' = active /\ outgoing' = outgoing
  BY <1>1 DEF lane, broker
<1>7. \/ exit' = "no runtime" /\ UNCHANGED <<child, event, toBroker, consumed>>
      \/ /\ exit' = exit
         /\ \/ toBroker' = Append(toBroker, Answer(u)) /\ event' = event
            \/ event = <<>> /\ event' = <<u>> /\ toBroker' = toBroker
         /\ \/ child.failed = u.doc /\ child' = child /\ consumed' = consumed
            \/ /\ child.running = u.doc
               /\ consumed' = IF u.kind = "sync"
                              THEN [consumed EXCEPT ![u.doc] = Append(@, u.ver)]
                              ELSE consumed
               /\ child' = IF u.kind = "cookie" THEN [child EXCEPT !.jar = u.ver] ELSE child
  BY <1>2, UpdateOutcome
<1>8. CASE exit' = "no runtime" /\ UNCHANGED <<child, event, toBroker, consumed>>
  BY <1>1, <1>4, <1>8, RefusedKeeps DEF renderer, history
<1>9. CASE /\ exit' = exit
           /\ \/ toBroker' = Append(toBroker, Answer(u)) /\ event' = event
              \/ event = <<>> /\ event' = <<u>> /\ toBroker' = toBroker
           /\ \/ child.failed = u.doc /\ child' = child /\ consumed' = consumed
              \/ /\ child.running = u.doc
                 /\ consumed' = IF u.kind = "sync"
                                THEN [consumed EXCEPT ![u.doc] = Append(@, u.ver)]
                                ELSE consumed
                 /\ child' = IF u.kind = "cookie" THEN [child EXCEPT !.jar = u.ver] ELSE child
  <2>1. /\ Solicited'
        /\ toBroker' \in Seq(Reports) /\ event' \in Seq(Update) /\ Len(event') <= 1
        /\ \A r \in Range(toBroker') :
             r \in Range(toBroker) \/ (r.op = "applied" /\ DocOf(r) \in Reached)
        /\ \A w \in Range(event') : w.doc \in Reached
        /\ Told(toBroker') = Told(toBroker)
    <3>1. \/ toBroker' = Append(toBroker, Answer(Head(toChild).update)) /\ event' = event
          \/ event = <<>> /\ event' = <<Head(toChild).update>> /\ toBroker' = toBroker
      BY <1>9, Zenon
    <3> QED
      BY <1>1, <1>3, <1>6, <3>1, UpdatePlaced, Zenon
  <2>2. Versions' /\ DeltasInOrder' /\ HistoryType'
    <3>1. CASE consumed' = consumed
      <4>1. HistoryType'
        BY <1>3, <1>6, <3>1, TypeParts DEF HistoryType
      <4>2. DeltasInOrder'
        BY <1>3, <3>1 DEF DeltasInOrder
      <4>3. Versions'
        BY <1>3, <1>4, <1>6, <3>1 DEF Versions, Newer
      <4> QED
        BY <4>1, <4>2, <4>3
    <3>2. CASE Head(toChild).update.kind = "sync"
               /\ consumed' = [consumed EXCEPT ![Head(toChild).update.doc] =
                                 Append(@, Head(toChild).update.ver)]
      BY <1>1, <1>3, <1>6, <3>2, UpdateConsumed, Zenon
    <3> QED
      BY <1>9, <3>1, <3>2, Zenon
  <2>3. u \in Update /\ h \in UpdatesFor(u.doc) /\ u.doc # None
        /\ (u.kind = "cookie" => u.ver \in 0 .. MaxCookies)
    <3>1. u \in Update /\ h \in Delivery
      BY <1>4, <1>5, MessageFacts
    <3>2. u.doc # None /\ u.ver \in Nat
      BY <3>1, UpdateFacts, DocsNat
    <3>3. u.kind = "cookie" => u.ver <= MaxCookies
      BY <1>3, <1>4, <1>5 DEF CookieVersions
    <3>4. MaxCookies \in Nat
      BY LaneAssumption
    <3>5. h \in UpdatesFor(u.doc)
      BY <1>5, <3>1 DEF UpdatesFor
    <3> QED
      BY <3>1, <3>2, <3>3, <3>4, <3>5
  <2> HIDE DEF h, u
  <2>4. /\ child'.incoming = child.incoming /\ child'.running = child.running
        /\ child'.failed = child.failed /\ child'.cookies = child.cookies /\ ChildType'
        /\ \/ child.failed = u.doc /\ child'.jar = child.jar
           \/ /\ child.running = u.doc
              /\ child'.jar = IF u.kind = "cookie" THEN u.ver ELSE child.jar
    <3>1. ChildType
      BY <1>3, TypeParts
    <3>2. CASE child' = child
      <4>1. ChildType'
        BY <3>1, <3>2 DEF ChildType
      <4>2. child.failed = u.doc \/ (child.running = u.doc /\ u.kind # "cookie")
            \/ (child.running = u.doc /\ child' = [child EXCEPT !.jar = u.ver])
        BY <1>9
      <4>3. child' = [child EXCEPT !.jar = u.ver] => child'.jar = u.ver
        BY <3>1 DEF ChildType
      <4> QED
        BY <3>2, <4>1, <4>2, <4>3
    <3>3. CASE u.kind = "cookie" /\ child.running = u.doc /\ child' = [child EXCEPT !.jar = u.ver]
      BY <2>3, <3>1, <3>3 DEF ChildType
    <3> QED
      BY <1>9, <3>2, <3>3
  <2>5. TypeOK'
    BY <1>1, <1>3, <1>4, <1>6, <1>9, <2>1, <2>2, <2>4, TypeParts, TypeKept, TypeNext, Zenon
  <2>6. ReceiptsAreSolicited' /\ SlotMatchesTransfer'
    BY <1>3, <1>6, <1>9 DEF ReceiptsAreSolicited, SlotMatchesTransfer
  <2>7. Reached' \subseteq Reached
    <3>1. outgoing' # <<>> => Head(outgoing').update.doc \in Reached
      BY <1>3, <1>6, TransferIs, InReached
    <3>2. /\ \A m \in Range(toChild') : DocOf(m) \in Reached
          /\ \A q \in Range(events') : q.doc \in Reached
          /\ \A r \in Range(toBroker') : DocOf(r) \in Reached
      BY <1>3, <1>4, <1>6, <2>1, InReached
    <3>3. /\ child'.incoming \in Reached \cup {None} /\ child'.running \in Reached \cup {None}
          /\ active' \in Reached \cup {None}
      BY <1>3, <1>6, <2>4, InReached
    <3> QED
      BY <2>1, <3>1, <3>2, <3>3, ReachedWithin
  <2>8. Bounded' /\ Fresh'
    BY <1>3, <1>6, <2>7, BoundsKept
  <2>9. Cancelled' /\ CookieVersions' /\ OwnedIsActive'
    BY <1>3, <1>4, <1>6, <2>4 DEF Cancelled, CookieVersions, OwnedIsActive
  <2>10. ChildShape'
    <3>1. child.incoming = None
      BY <1>3, <2>3, <2>4 DEF ChildShape
    <3> QED
      BY <1>3, <1>4, <2>4, <3>1 DEF ChildShape
  <2>11. FailedIsOver'
    BY <1>3, <1>4, <2>1, <2>4 DEF FailedIsOver
  <2>12. Counted'
    <3>1. Told(toBroker') + Told(events') <= Told(toBroker) + Told(events)
      BY <1>3, <1>6, <2>1, MutationsAre
    <3>2. /\ child'.cookies = child.cookies /\ child'.incoming \in {child.incoming, None}
          /\ \A m \in Range(toChild') : m \in Range(toChild) \/ ~Begins(m)
          /\ Range(lifecycle') \subseteq Range(lifecycle)
      BY <1>4, <1>6, <2>4
    <3> QED
      BY <1>3, <1>6, <2>5, <3>1, <3>2, CountedKept
  <2>13. Newest'
    BY <1>3, <1>4, <1>5, <1>6, <2>3, <2>4, NewestApplied
  <2> QED
    BY <1>4, <2>1, <2>2, <2>5, <2>6, <2>8, <2>9, <2>10, <2>11, <2>12, <2>13, IndNext
<1> QED
  BY <1>7, <1>8, <1>9

(* Handling any message in the child keeps the invariant. *)
LEMMA ChildHandleKeeps ==
    ASSUME Ind, ChildHandle
    PROVE  Ind'
<1> DEFINE h == Head(toChild)
<1>1. TypeOK /\ Ordered(toChild, PipePairs) /\ Len(toChild) > queued
      /\ toChild' = Tail(toChild) /\ queued' = queued
  BY DEF Ind, ChildHandle
<1>2. h \in Messages
  BY <1>1, MessageTaken
<1>3. h.op \in {"update", "begin", "stream", "chunk", "end", "abort", "cancel"}
  BY <1>2 DEF Messages, Signal, Delivery
<1>4. CASE h.op = "update"
  BY <1>4, ChildUpdateKeeps
<1>5. CASE h.op \in {"begin", "stream"}
  BY <1>5, ChildBeginKeeps
<1>6. CASE h.op \in {"chunk", "end", "abort", "cancel"}
  BY <1>6, SignalKeeps
<1> QED
  BY <1>3, <1>4, <1>5, <1>6

(* The queued event runs and is answered. *)
LEMMA DispatchEventKeeps ==
    ASSUME Ind, DispatchEvent
    PROVE  Ind'
<1> DEFINE u == Head(event)
<1>1. /\ Alive /\ event # <<>> /\ event' = <<>> /\ Acknowledge(u)
      /\ UNCHANGED <<ui, lifecycle, lane, broker, pipe, events, child, exit, history>>
  BY DEF DispatchEvent
<1>2. toBroker' = Append(toBroker, Answer(u))
  BY <1>1 DEF Acknowledge, Answer
<1>3. /\ TypeOK /\ Bounded /\ Fresh /\ Cancelled /\ ChildShape /\ FailedIsOver /\ OwnedIsActive
      /\ Solicited /\ Versions /\ Counted /\ Newest /\ CookieVersions
      /\ SlotMatchesTransfer /\ Ordered(toChild, PipePairs) /\ DeltasInOrder
      /\ ReceiptsAreSolicited
  BY <1>1, IndOpen
<1>4. /\ lane' = lane /\ broker' = broker /\ pipe' = pipe /\ history' = history
      /\ ui' = ui /\ lifecycle' = lifecycle /\ events' = events /\ child' = child
      /\ exit' = exit /\ pending' = pending /\ inFlight' = inFlight /\ active' = active
      /\ outgoing' = outgoing /\ toChild' = toChild /\ admitted' = admitted
      /\ consumed' = consumed
  BY <1>1 DEF lane, broker, pipe, history
<1>5. event \in Seq(Update) /\ Len(event) <= 1
  BY <1>3, TypeParts
<1>6. u \in Update /\ u \in Range(event)
  BY <1>1, <1>5, RangeTail
<1>7. event' \in Seq(Update) /\ Len(event') <= 1 /\ Range(event') = {}
  <2>1. <<>> \in Seq(Update) /\ Len(<<>>) <= 1 /\ Range(<<>>) = {}
    BY RangeEmpty
  <2> QED
    BY <1>1, <2>1, Zenon
<1> HIDE DEF u
<1>8. /\ toBroker' \in Seq(Reports) /\ Range(toBroker') = Range(toBroker) \cup {Answer(u)}
      /\ Answer(u).op = "applied" /\ Answer(u).update = u /\ DocOf(Answer(u)) = u.doc
      /\ \A d : Answer(u) \in ReceiptsFrom(d) <=> u.doc = d
      /\ \A d : Once(toBroker, ReceiptsFrom(d))
                /\ (u.doc = d => Range(toBroker) \cap ReceiptsFrom(d) = {})
                  => Once(toBroker', ReceiptsFrom(d))
      /\ Told(toBroker) \in Nat /\ Told(toBroker') = Told(toBroker)
  BY <1>2, <1>3, <1>6, Acknowledged
<1>9. TypeOK'
  BY <1>3, <1>4, <1>7, <1>8, TypeParts, TypeKept, TypeNext, Zenon
<1>10. ReceiptsAreSolicited' /\ SlotMatchesTransfer' /\ DeltasInOrder'
       /\ Ordered(toChild', PipePairs)
  BY <1>3, <1>4 DEF ReceiptsAreSolicited, SlotMatchesTransfer, DeltasInOrder
<1>11. Reached' \subseteq Reached
  <2>1. outgoing' # <<>> => Head(outgoing').update.doc \in Reached
    BY <1>3, <1>4, TransferIs, InReached
  <2>2. /\ \A m \in Range(toChild') : DocOf(m) \in Reached
        /\ \A q \in Range(events') : q.doc \in Reached
        /\ \A r \in Range(toBroker') : DocOf(r) \in Reached
        /\ \A w \in Range(event') : w.doc \in Reached
    BY <1>3, <1>4, <1>6, <1>7, <1>8, InReached
  <2>3. /\ child'.incoming \in Reached \cup {None} /\ child'.running \in Reached \cup {None}
        /\ active' \in Reached \cup {None}
    BY <1>3, <1>4, InReached
  <2> QED
    BY <2>1, <2>2, <2>3, ReachedWithin
<1>12. Bounded' /\ Fresh'
  BY <1>3, <1>4, <1>11, BoundsKept
<1>13. Cancelled' /\ CookieVersions' /\ OwnedIsActive' /\ ChildShape'
  BY <1>3, <1>4 DEF Cancelled, CookieVersions, OwnedIsActive, ChildShape
<1>14. Versions' /\ Newest'
  BY <1>3, <1>4 DEF Versions, Newer, Newest
<1>15. FailedIsOver'
  BY <1>3, <1>4, <1>8 DEF FailedIsOver
<1>16. Counted'
  <2>1. Told(toBroker') + Told(events') <= Told(toBroker) + Told(events)
    BY <1>3, <1>4, <1>8, MutationsAre
  <2>2. /\ child'.cookies = child.cookies /\ child'.incoming \in {child.incoming, None}
        /\ \A m \in Range(toChild') : m \in Range(toChild) \/ ~Begins(m)
        /\ Range(lifecycle') \subseteq Range(lifecycle)
    BY <1>4
  <2> QED
    BY <1>3, <1>4, <1>9, <2>1, <2>2, CountedKept
<1>17. Solicited'
  <2> SUFFICES ASSUME active # None PROVE Solicited'
    BY <1>4 DEF Solicited
  <2>1. /\ Once(toChild, UpdatesFor(active)) /\ Once(toBroker, ReceiptsFrom(active))
    BY <1>3 DEF Solicited
  <2>2. CASE u.doc = active
    <3>1. /\ outgoing = <<[update |-> u, sent |-> TRUE]>>
          /\ Range(toBroker) \cap ReceiptsFrom(active) = {}
          /\ Range(toChild) \cap UpdatesFor(active) = {}
      BY <1>3, <1>6, <2>2 DEF Solicited
    <3>2. Range(toBroker') \cap ReceiptsFrom(active) = {Answer(u)}
      BY <1>8, <2>2, <3>1
    <3>3. Once(toBroker', ReceiptsFrom(active))
      BY <1>8, <2>1, <3>1
    <3> QED
      BY <1>4, <1>7, <1>8, <2>1, <3>1, <3>2, <3>3 DEF Solicited
  <2>3. CASE u.doc # active
    <3>1. Range(toBroker') \cap ReceiptsFrom(active) = Range(toBroker) \cap ReceiptsFrom(active)
      BY <1>8, <2>3
    <3>2. Once(toBroker', ReceiptsFrom(active))
      BY <1>8, <2>1, <2>3
    <3> QED
      BY <1>3, <1>4, <1>7, <2>1, <3>1, <3>2 DEF Solicited
  <2> QED
    BY <2>2, <2>3
<1> QED
  BY <1>9, <1>10, <1>12, <1>13, <1>14, <1>15, <1>16, <1>17, IndNext

(* The running document mutates its cookies. *)
LEMMA SetCookieKeeps ==
    ASSUME Ind, SetCookie
    PROVE  Ind'
<1> DEFINE doc == child.running
           op == "cookie"
<1>1. /\ Alive /\ doc # None /\ child.cookies < MaxCookies
      /\ child' = [child EXCEPT !.cookies = @ + 1]
      /\ toBroker' = Append(toBroker, Say(op, doc))
      /\ UNCHANGED <<ui, lifecycle, lane, broker, pipe, events, event, exit, history>>
  BY DEF SetCookie
<1>2. op \in {"failed", "navigate", "cookie"} /\ op = "cookie" /\ op # "failed"
  OBVIOUS
<1> HIDE DEF op
<1>3. /\ TypeOK /\ Bounded /\ Fresh /\ Cancelled /\ ChildShape /\ FailedIsOver /\ OwnedIsActive
      /\ Solicited /\ Versions /\ Counted /\ Newest /\ CookieVersions
      /\ SlotMatchesTransfer /\ Ordered(toChild, PipePairs) /\ DeltasInOrder
      /\ ReceiptsAreSolicited
  BY <1>1, IndOpen
<1>4. /\ lane' = lane /\ broker' = broker /\ pipe' = pipe /\ history' = history
      /\ ui' = ui /\ lifecycle' = lifecycle /\ events' = events /\ event' = event
      /\ exit' = exit /\ pending' = pending /\ inFlight' = inFlight /\ active' = active
      /\ outgoing' = outgoing /\ toChild' = toChild /\ admitted' = admitted
      /\ consumed' = consumed
  BY <1>1 DEF lane, broker, pipe, history
<1>5. doc \in Docs /\ doc \in Reached /\ doc \in Nat /\ child.cookies \in Nat
  BY <1>1, <1>3, Types, InReached, DocsNat
<1>6. /\ child'.incoming = child.incoming /\ child'.running = child.running
      /\ child'.failed = child.failed /\ child'.jar = child.jar
      /\ child'.cookies = child.cookies + 1 /\ ChildType'
  <2>1. ChildType /\ MaxCookies \in Nat
    BY <1>3, TypeParts, LaneAssumption
  <2>2. child.cookies + 1 \in 0 .. MaxCookies
    BY <1>1, <1>5, <2>1
  <2> QED
    BY <1>1, <2>1, <2>2 DEF ChildType
<1> HIDE DEF doc
<1>7. /\ toBroker' \in Seq(Reports)
      /\ Range(toBroker') = Range(toBroker) \cup {Say(op, doc)}
      /\ Say(op, doc).op = op /\ Say(op, doc).doc = doc /\ DocOf(Say(op, doc)) = doc
      /\ \A d : Say(op, doc) \notin ReceiptsFrom(d)
      /\ \A d : Once(toBroker, ReceiptsFrom(d)) => Once(toBroker', ReceiptsFrom(d))
      /\ Told(toBroker) \in Nat /\ Told(toBroker') \in Nat
      /\ doc # ui.doc => Told(toBroker') = Told(toBroker)
      /\ doc = ui.doc => Told(toBroker') = Told(toBroker) + 1
  BY <1>1, <1>2, <1>3, <1>5, Reported
<1>8. event' \in Seq(Update) /\ Len(event') <= 1
  BY <1>3, <1>4, TypeParts
<1>9. TypeOK'
  BY <1>3, <1>4, <1>6, <1>7, <1>8, TypeParts, TypeKept, TypeNext, Zenon
<1>10. ReceiptsAreSolicited' /\ SlotMatchesTransfer' /\ DeltasInOrder'
       /\ Ordered(toChild', PipePairs)
  BY <1>3, <1>4 DEF ReceiptsAreSolicited, SlotMatchesTransfer, DeltasInOrder
<1>11. Reached' \subseteq Reached
  <2>1. outgoing' # <<>> => Head(outgoing').update.doc \in Reached
    BY <1>3, <1>4, TransferIs, InReached
  <2>2. /\ \A m \in Range(toChild') : DocOf(m) \in Reached
        /\ \A q \in Range(events') : q.doc \in Reached
        /\ \A r \in Range(toBroker') : DocOf(r) \in Reached
        /\ \A w \in Range(event') : w.doc \in Reached
    BY <1>3, <1>4, <1>5, <1>7, InReached
  <2>3. /\ child'.incoming \in Reached \cup {None} /\ child'.running \in Reached \cup {None}
        /\ active' \in Reached \cup {None}
    BY <1>3, <1>4, <1>6, InReached
  <2> QED
    BY <2>1, <2>2, <2>3, ReachedWithin
<1>12. Bounded' /\ Fresh'
  BY <1>3, <1>4, <1>11, BoundsKept
<1>13. Cancelled' /\ CookieVersions' /\ OwnedIsActive' /\ ChildShape'
  BY <1>3, <1>4, <1>6 DEF Cancelled, CookieVersions, OwnedIsActive, ChildShape
<1>14. Versions' /\ Newest'
  BY <1>3, <1>4, <1>6 DEF Versions, Newer, Newest
<1>15. FailedIsOver'
  BY <1>2, <1>3, <1>4, <1>6, <1>7 DEF FailedIsOver
<1>16. Solicited'
  <2>1. \A d : Range(toBroker') \cap ReceiptsFrom(d) = Range(toBroker) \cap ReceiptsFrom(d)
    BY <1>7
  <2> QED
    BY <1>3, <1>4, <1>7, <2>1 DEF Solicited
<1>17. Counted'
  <2>1. CASE doc # ui.doc
    <3>1. Told(toBroker') + Told(events') <= Told(toBroker) + Told(events)
      BY <1>3, <1>4, <1>7, <2>1, MutationsAre
    <3>2. /\ Told(toBroker) \in Nat /\ Told(events) \in Nat /\ ui.cookies \in Nat
          /\ Mutations = ui.cookies + Told(toBroker) + Told(events) /\ Mutations \in Nat
      BY <1>3, MutationsAre
    <3>3. Mutations' = ui.cookies + Told(toBroker') + Told(events')
      BY <1>4 DEF Mutations, Told
    <3>4. Mutations' = Mutations
      BY <1>4, <1>7, <2>1, <3>2, <3>3
    <3>5. \A n \in Nat : n <= child.cookies => n <= child'.cookies
      BY <1>5, <1>6
    <3> QED
      BY <1>3, <1>4, <1>6, <3>2, <3>4, <3>5 DEF Counted
  <2>2. CASE doc = ui.doc
    <3>1. /\ Told(toBroker) \in Nat /\ Told(events) \in Nat /\ ui.cookies \in Nat
          /\ Mutations = ui.cookies + Told(toBroker) + Told(events) /\ Mutations \in Nat
      BY <1>3, MutationsAre
    <3>2. Mutations' = ui.cookies + Told(toBroker') + Told(events')
      BY <1>4 DEF Mutations, Told
    <3>3. Mutations' = Mutations + 1
      <4>1. Told(events') = Told(events) /\ Told(toBroker') = Told(toBroker) + 1
        BY <1>4, <1>7, <2>2
      <4> QED
        BY <3>1, <3>2, <4>1
    <3>4. Mutations <= child.cookies
      <4>1. doc # None
        BY <1>5, DocsNat
      <4>2. CASE Mutations > 0
        BY <1>3, <2>2, <4>1, <4>2 DEF Counted
      <4>3. CASE ~(Mutations > 0)
        BY <1>5, <3>1, <4>3
      <4> QED
        BY <4>2, <4>3
    <3>5. Mutations' <= child'.cookies
      BY <1>5, <1>6, <3>1, <3>3, <3>4
    <3>6. child'.incoming = None
      BY <1>1, <1>3, <1>6 DEF ChildShape, doc
    <3>7. ui.loads = doc
      BY <1>3, <1>5, <2>2, DocsNat DEF Bounded
    <3>8. \A m \in Range(toChild') : ~Begins(m)
      <4> SUFFICES ASSUME NEW m \in Range(toChild), Begins(m) PROVE FALSE
        BY <1>4
      <4>1. child.running # None => child.running < m.doc
        BY <1>3 DEF ChildShape
      <4>2. doc < m.doc
        BY <1>1, <4>1 DEF doc
      <4>3. m \in Messages /\ DocOf(m) \in Reached
        BY <1>3, Members, InReached
      <4>4. DocOf(m) = m.doc /\ m.doc \in Docs
        BY <4>3, MessageFacts DEF Begins
      <4>5. m.doc <= ui.loads
        BY <1>3, <4>3, <4>4 DEF Bounded
      <4>6. m.doc \in Nat
        BY <4>4, DocsNat
      <4> QED
        BY <1>5, <3>7, <4>2, <4>5, <4>6
    <3>9. \A c \in Range(lifecycle') : c.op = "cancel"
      <4> SUFFICES ASSUME NEW c \in Range(lifecycle), c.op # "cancel" PROVE FALSE
        BY <1>4
      <4>1. doc < c.doc
        BY <1>3, <1>5 DEF Fresh
      <4>2. c.doc <= ui.loads
        BY <1>3 DEF Bounded
      <4>3. c.doc \in Nat
        <5>1. c \in Command
          BY <1>3, Members
        <5>2. c.doc \in Docs
          BY <5>1 DEF Command
        <5> QED
          BY <5>2, DocsNat
      <4> QED
        BY <1>5, <3>7, <4>1, <4>2, <4>3
    <3> QED
      BY <3>5, <3>6, <3>8, <3>9 DEF Counted
  <2> QED
    BY <2>1, <2>2
<1> QED
  BY <1>9, <1>10, <1>12, <1>13, <1>14, <1>15, <1>16, <1>17, IndNext

-----------------------------------------------------------------------------
(* The steps of the UI keep the invariant. *)
LEMMA UIKeeps ==
    ASSUME Ind, UI
    PROVE  Ind'
  BY LoadKeeps, CancelKeeps, TrySendSyncKeeps, CorrectCookieKeeps, ContainFailureKeeps,
     FollowNavigationKeeps DEF UI

(* The steps of the broker keep the invariant. *)
LEMMA BrokerKeeps ==
    ASSUME Ind, Broker
    PROVE  Ind'
  BY ProcessLifecycleKeeps, TakeUpdateKeeps, SendUpdateKeeps, ProcessMessageKeeps,
     ProcessStreamsKeeps DEF Broker

(* The steps of the child keep the invariant. *)
LEMMA ChildKeeps ==
    ASSUME Ind, Child
    PROVE  Ind'
  BY ChildHandleKeeps, DispatchEventKeeps, SetCookieKeeps, FailDocumentKeeps DEF Child

(* Every step keeps the invariant. *)
LEMMA NextInd == Ind /\ [Next]_vars => Ind'
<1> SUFFICES ASSUME Ind, [Next]_vars PROVE Ind'
  OBVIOUS
<1>1. CASE UI
  BY <1>1, UIKeeps
<1>2. CASE Broker
  BY <1>2, BrokerKeeps
<1>3. CASE WriteMessage
  BY <1>3, WriteMessageKeeps
<1>4. CASE Child
  BY <1>4, ChildKeeps
<1>5. CASE UNCHANGED vars
  <2>1. /\ ui' = ui /\ lifecycle' = lifecycle /\ lane' = lane /\ broker' = broker
        /\ pipe' = pipe /\ toBroker' = toBroker /\ events' = events
        /\ renderer' = renderer /\ exit' = exit /\ history' = history
    BY <1>5 DEF vars
  <2>2. toChild' = toChild /\ active' = active /\ outgoing' = outgoing
    BY <2>1 DEF pipe, broker
  <2>3. BrokerType /\ PipeType
    BY TypeParts DEF Ind
  <2>4. BrokerType' /\ PipeType'
    BY <2>1, <2>3, TypeKept
  <2> QED
    BY <2>1, <2>2, <2>4, SameKeeps
<1> QED
  BY <1>1, <1>2, <1>3, <1>4, <1>5 DEF Next

(* The inductive invariant holds throughout. *)
THEOREM AlwaysInd == Spec => []Ind
  BY InitInd, NextInd, PTL DEF Spec

-----------------------------------------------------------------------------
(* The slot is taken exactly while the broker holds a transfer, at most    *)
(* one update of the active document is past the broker, and nothing       *)
(* follows a cancellation down the pipe: by the order of the pipe and by   *)
(* what the receipts answer.                                               *)
THEOREM LaneIsSound == Spec => []LaneInvariant
<1>1. Ind => LaneInvariant
  <2> SUFFICES ASSUME Ind PROVE LaneInvariant
    OBVIOUS
  <2>1. TypeOK /\ SlotMatchesTransfer /\ Ordered(toChild, PipePairs)
    BY DEF Ind
  <2>2. OneUnanswered
    <3> SUFFICES ASSUME Alive, active # None, Unanswered(active)
                 PROVE  outgoing # <<>> /\ Head(outgoing).sent
      BY DEF OneUnanswered
    <3>1. Solicited
      BY IndOpen
    <3>2. \E u \in Update : outgoing = <<[update |-> u, sent |-> TRUE]>>
      <4>1. ASSUME NEW i \in DOMAIN toChild, toChild[i].op = "update",
                   DocOf(toChild[i]) = active
            PROVE  \E u \in Update : outgoing = <<[update |-> u, sent |-> TRUE]>>
        <5> DEFINE m == toChild[i]
        <5>1. m \in Range(toChild)
          BY DEF Range
        <5>2. m \in Messages
          BY <2>1, <5>1, Members
        <5>3. m.update \in Update /\ m \in UpdatesFor(active)
          BY <4>1, <5>2, MessageFacts DEF UpdatesFor
        <5> HIDE DEF m
        <5> QED
          BY <3>1, <5>1, <5>3 DEF Solicited
      <4>2. ASSUME NEW i \in DOMAIN toBroker, toBroker[i].op = "applied",
                   DocOf(toBroker[i]) = active
            PROVE  \E u \in Update : outgoing = <<[update |-> u, sent |-> TRUE]>>
        <5> DEFINE m == toBroker[i]
        <5>1. m \in Range(toBroker)
          BY DEF Range
        <5>2. m \in Reports
          BY <2>1, <5>1, Members
        <5>3. m.update \in Update /\ m \in ReceiptsFrom(active)
          BY <4>2, <5>2, ReportFacts DEF ReceiptsFrom
        <5> HIDE DEF m
        <5> QED
          BY <3>1, <5>1, <5>3 DEF Solicited
      <4>3. ASSUME NEW i \in DOMAIN event, event[i].doc = active
            PROVE  \E u \in Update : outgoing = <<[update |-> u, sent |-> TRUE]>>
        <5> DEFINE m == event[i]
        <5>1. m \in Range(event) /\ m.doc = active
          BY <4>3 DEF Range
        <5>2. m \in Update
          BY <2>1, <5>1, Members
        <5> HIDE DEF m
        <5> QED
          BY <3>1, <5>1, <5>2 DEF Solicited
      <4> QED
        BY <4>1, <4>2, <4>3 DEF Unanswered
    <3>3. PICK u \in Update : outgoing = <<[update |-> u, sent |-> TRUE]>>
      BY <3>2
    <3> DEFINE x == [update |-> u, sent |-> TRUE]
    <3>4. x \in Transfers /\ x.sent
      BY DEF Transfers
    <3>5. outgoing = <<x>>
      BY <3>3
    <3> HIDE DEF x
    <3>6. <<x>> # <<>> /\ Head(<<x>>) = x
      BY <3>4, SingleIs
    <3> QED
      BY <3>4, <3>5, <3>6, Zenon
  <2>3. NothingAfterCancel
    <3> SUFFICES ASSUME NEW i \in DOMAIN toChild, NEW j \in DOMAIN toChild, i < j,
                        toChild[i].op = "cancel"
                 PROVE  DocOf(toChild[j]) # toChild[i].doc
      BY DEF NothingAfterCancel
    <3>1. toChild[i] \in Messages /\ toChild[j] \in Messages
      BY <2>1, Members DEF Range
    <3>2. <<toChild[i], toChild[j]>> \in PipePairs
      BY <2>1 DEF Ordered
    <3> QED
      BY <3>1, <3>2, PipePairIs
  <2> QED
    BY <2>1, <2>2, <2>3 DEF LaneInvariant
<1> QED
  BY <1>1, AlwaysInd, PTL

(* The broker never refuses a receipt, so that the late answer of one      *)
(* document cannot end the renderer under its successor.                   *)
THEOREM ReceiptsAccepted == Spec => []ReceiptsAreSolicited
<1>1. Ind => ReceiptsAreSolicited
  BY DEF Ind
<1> QED
  BY <1>1, AlwaysInd, PTL

(* Deltas reach a document in the order the lane admitted them, each at    *)
(* most once.                                                              *)
THEOREM DeltasArriveInOrder == Spec => []DeltasInOrder
<1>1. Ind => DeltasInOrder
  BY DEF Ind
<1> QED
  BY <1>1, AlwaysInd, PTL

(* A running document for which no cookie correction waits or is under way *)
(* holds the last value the browser decided on.                            *)
THEOREM CookiesSettle == Spec => []CookiesConverge
<1>1. Ind => CookiesConverge
  <2> SUFFICES ASSUME Ind, Alive, child.running \in Docs \cap {ui.doc}, ~CookieUnderWay
               PROVE  child.jar = ui.cookies
    BY DEF CookiesConverge
  <2>1. TypeOK /\ Newest
    BY IndOpen
  <2>2. ui.doc # None /\ child.running = ui.doc
    BY DocsNat
  <2>3. \A u \in Range(pending) : ~CookieOf(u, ui.doc)
    BY DEF CookieUnderWay, CookieOf, Range
  <2>4. \A o \in Range(outgoing) : ~CookieOf(o.update, ui.doc)
    BY <2>1, TransferIs DEF CookieUnderWay, CookieOf
  <2> QED
    BY <2>1, <2>2, <2>3, <2>4 DEF Newest
<1> QED
  BY <1>1, AlwaysInd, PTL
=============================================================================
