----------------------- MODULE BroadcastChannelProofs -----------------------
(***************************************************************************)
(* Proofs about BroadcastChannel for any number of tabs, channels, posts   *)
(* and documents and for any limits of the queues, as long as the channels *)
(* of all tabs are within the fan-out (FanoutAssumption).                  *)
(*                                                                         *)
(* The invariants come in layers: what the variables are (Shapes), what    *)
(* the counters count (Counted), whose the members of the registry are     *)
(* (Members), what the commands that a running page has on their way will  *)
(* find when they are applied (Follows), which identifiers can have been   *)
(* delivered to (Fresh), and what has been delivered (InOrder).  Commands  *)
(* travel through three queues without changing their order, so Stream     *)
(* joins them; deliveries through four, which Delivered joins.             *)
(***************************************************************************)
EXTENDS BroadcastChannel, SequenceProofs, FiniteSetTheorems

-----------------------------------------------------------------------------
(* What the variables are. *)

Command ==
    [op : {"open"}, doc : Nat, id : Nat, name : Names]
    \cup [op : {"post"}, doc : Nat, id : Nat, size : Sizes]
    \cup [op : {"close"}, doc : Nat, id : Nat]

Queued == [doc : Nat, id : Nat, batch : 1 .. nextBatch]

BookShapes ==
    /\ nextBatch \in Nat /\ pending \in [Tabs -> Seq(Queued)]
    /\ DOMAIN batches \subseteq 1 .. nextBatch
    /\ \A b \in DOMAIN batches : batches[b] \in [size : Sizes, recipients : Nat]
    /\ pendingBytes \in Nat /\ pendingRecipients \in Nat

IdentityShapes ==
    /\ doc \in [Tabs -> Nat] /\ \A t \in Tabs : doc[t] \in 1 .. Max({1, MaxDocs[t]})
    /\ owned \in [Tabs -> BOOLEAN]
    /\ session \in [Tabs -> {"running", "ending", "gone", "none"}]
    /\ origin \in [Tabs -> Origins]

PageShapes ==
    /\ used \in [Tabs -> Nat] /\ \A t \in Tabs : used[t] <= MaxIds[t]
    /\ page \in [Tabs -> UNION {[ids -> Names] : ids \in SUBSET Nat}]
    /\ \A t \in Tabs : DOMAIN page[t] \subseteq 1 .. used[t]
    /\ posts \in Nat /\ posts <= MaxPosts

RealmShapes == restarted \in [Tabs -> BOOLEAN]

PipeShapes ==
    /\ out \in [Tabs -> Seq(Command)]
    /\ events \in [Tabs -> Seq(Command)]
    /\ turn \in [Tabs -> Seq(Command)]
    /\ left \in [Tabs -> 0 .. MaxMessages]
    /\ \A t \in Tabs : Len(events[t]) <= MaxEvents
    /\ \A t \in Tabs : session[t] = "none" => turn[t] = <<>> /\ events[t] = <<>>

DeliveryShapes ==
    /\ commands \in [Tabs -> Seq(Deliveries)]
    /\ inbox \in [Tabs -> Seq(Deliveries)]
    /\ log \in [Tabs -> Seq(Deliveries)]
    /\ \A t \in Tabs : Len(commands[t]) <= MaxCommands

RegistryShapes ==
    /\ channels \in Seq(Channel)
    /\ admitted \in Seq(SUBSET Channel) /\ Len(admitted) = nextBatch

Shapes ==
    IdentityShapes /\ PageShapes /\ RealmShapes /\ PipeShapes /\ DeliveryShapes
       /\ BookShapes /\ RegistryShapes

(* The commands of a tab on their way to the registry. *)
Stream(t) == turn[t] \o events[t] \o out[t]

Streams == [t \in Tabs |-> Stream(t)]

PostsOf == {c \in Command : c.op = "post"}

(* The counters are exact and within their limits, and every batch comes   *)
(* from a post that is not on its way any more.                            *)
Counted ==
    /\ ExactAccounting
    /\ QueuesWithinLimits
    /\ nextBatch + Cardinality(Places(Streams, PostsOf)) <= posts

-----------------------------------------------------------------------------
(* The identifiers that are registered for a tab. *)
Registered(t) == {channels[i].id : i \in {j \in DOMAIN channels : channels[j].tab = t}}

Members ==
    /\ RegistryIsCurrent
    /\ \A t \in Tabs : Len(For(channels, t)) <= MaxChannels
    /\ \A t \in Tabs : \A k \in DOMAIN Stream(t) : Stream(t)[k].doc = doc[t]

-----------------------------------------------------------------------------
(* What the first k commands of a stream open and close, and which         *)
(* identifiers of those in R are open after them.                          *)
Opened(p, k) == {p[i].id : i \in {j \in 1 .. k : p[j].op = "open"}}
Closed(p, k) == {p[i].id : i \in {j \in 1 .. k : p[j].op = "close"}}
Live(R, p, k) == (R \cup Opened(p, k)) \ Closed(p, k)

(* Each command will find what it needs: an opening a new identifier and   *)
(* room, a post or a closing an open channel.                              *)
Follows(R, p, n) ==
    /\ R \subseteq 1 .. n
    /\ \A k \in DOMAIN p :
         /\ p[k].id \in 1 .. n
         /\ p[k].op = "open" => /\ p[k].id \notin R \cup Opened(p, k - 1)
                                /\ Cardinality(Live(R, p, k - 1)) < MaxChannels
         /\ p[k].op # "open" => p[k].id \in Live(R, p, k - 1)

Served ==
    \A t \in Tabs : OneRealm(t) =>
        /\ owned[t]
        /\ Follows(Registered(t), Stream(t), used[t])
        /\ DOMAIN page[t] = Live(Registered(t), Stream(t), Len(Stream(t)))

-----------------------------------------------------------------------------
(* The deliveries of a tab, from the one dispatched first; the batches in   *)
(* s for the channel x; the batches admitted for a member.                 *)
Delivered(t) == log[t] \o inbox[t] \o commands[t] \o pending[t]

ForId(x) == {d \in Delivery : d.id = x}

Fed(s, x) ==
    [k \in DOMAIN Selection(s, ForId(x)) |-> Selection(s, ForId(x))[k].batch]

Numbers(n) == [b \in 1 .. n |-> b]
Admitting(c) == {b \in 1 .. nextBatch : c \in admitted[b]}
Order(c) == Selection(Numbers(nextBatch), Admitting(c))

(* The identifiers of a tab that can have been delivered to. *)
Seen(t) == (1 .. used[t]) \ Opened(Stream(t), Len(Stream(t)))

(* No delivery and no admission precedes the opening of its channel. *)
FreshPage(t) ==
    OneRealm(t) => \A x \in Nat \ Seen(t) : Fed(Delivered(t), x) = <<>>

FreshAdmissions ==
    \A b \in DOMAIN admitted : \A c \in admitted[b] :
         /\ c.doc <= doc[c.tab]
         /\ OneRealm(c.tab) /\ c.doc = doc[c.tab] => c.id \in Seen(c.tab)

Fresh == (\A t \in Tabs : FreshPage(t)) /\ FreshAdmissions

(***************************************************************************)
(* Counting the places of a queue.                                         *)
(***************************************************************************)

(* The places of a sequence that hold a member of S are finitely many. *)
LEMMA HitsFinite ==
    ASSUME NEW A, NEW s \in Seq(A), NEW S
    PROVE  /\ Hits(s, S) \subseteq 1 .. Len(s)
           /\ IsFiniteSet(Hits(s, S)) /\ Cardinality(Hits(s, S)) \in Nat
PROOF
<1>1. Hits(s, S) \subseteq 1 .. Len(s)
  BY DEF Hits
<1>2. IsFiniteSet(1 .. Len(s))
  BY FS_Interval
<1> QED
  BY <1>1, <1>2, FS_Subset, FS_CardinalityType

(* How many entries of a sequence are in S. *)
Picked(s, S) == Len(Selection(s, S))

(* A count of entries is a natural number. *)
LEMMA PickedNat ==
    ASSUME NEW A, NEW s \in Seq(A), NEW S
    PROVE  Picked(s, S) \in Nat
PROOF
  BY SelectionType DEF Picked

(* There are as many as the selection is long. *)
LEMMA HitsSelection ==
    ASSUME NEW A, NEW s \in Seq(A), NEW S
    PROVE  Cardinality(Hits(s, S)) = Picked(s, S)
PROOF
<1> USE DEF Picked
<1> DEFINE n == Len(Selection(s, S))
<1>1. n \in Nat /\ IsFiniteSet(1 .. n) /\ Cardinality(1 .. n) = n
  <2>1. n \in Nat
    BY SelectionType
  <2> HIDE DEF n
  <2>2. 1 \in Int /\ n \in Int
    BY <2>1
  <2>3. IsFiniteSet(1 .. n) /\ Cardinality(1 .. n) = IF 1 > n THEN 0 ELSE n - 1 + 1
    BY <2>2, FS_Interval
  <2> QED
    BY <2>1, <2>3
<1>2. PICK h \in [1 .. n -> 1 .. Len(s)] :
        /\ \A i \in 1 .. n : s[h[i]] \in S
        /\ \A i, j \in 1 .. n : i < j => h[i] < h[j]
        /\ \A k \in 1 .. Len(s) : s[k] \in S => \E i \in 1 .. n : h[i] = k
  BY SelectionEmbeds
<1>3. \A i, j \in 1 .. n : h[i] = h[j] => i = j
  <2> SUFFICES ASSUME NEW i \in 1 .. n, NEW j \in 1 .. n, h[i] = h[j], i # j
               PROVE  FALSE
    OBVIOUS
  <2>1. i < j \/ j < i
    BY <1>1
  <2>2. h[i] \in Nat /\ h[j] \in Nat
    BY <1>1
  <2> QED
    BY <2>1, <2>2, <1>2
<1>4. h \in [1 .. n -> Hits(s, S)]
  <2>1. ASSUME NEW i \in 1 .. n PROVE h[i] \in Hits(s, S)
    BY <1>2 DEF Hits
  <2> QED
    BY <2>1
<1>5. \A k \in Hits(s, S) : \E i \in 1 .. n : h[i] = k
  BY <1>2 DEF Hits
<1>6. h \in Bijection(1 .. n, Hits(s, S))
  BY <1>3, <1>4, <1>5 DEF Bijection, Injection, IsInjective, Surjection
<1>7. ExistsBijection(1 .. n, Hits(s, S))
  BY <1>6 DEF ExistsBijection
<1> QED
  BY <1>1, <1>7, FS_Bijection

(* Two disjoint sets hold together what each holds. *)
LEMMA DisjointCount ==
    ASSUME NEW S, NEW R, IsFiniteSet(S), IsFiniteSet(R), S \cap R = {}
    PROVE  /\ IsFiniteSet(S \cup R)
           /\ Cardinality(S \cup R) = Cardinality(S) + Cardinality(R)
PROOF
<1>1. Cardinality(S \cap R) = 0
  BY FS_EmptySet
<1>2. Cardinality(S) \in Nat /\ Cardinality(R) \in Nat
  BY FS_CardinalityType
<1>3. /\ IsFiniteSet(S \cup R)
      /\ Cardinality(S \cup R) = Cardinality(S) + Cardinality(R) - Cardinality(S \cap R)
  BY FS_Union
<1> QED
  BY <1>1, <1>2, <1>3

(* What is selected into two disjoint sets. *)
LEMMA SelectionSplits ==
    ASSUME NEW A, NEW s \in Seq(A), NEW S, NEW R, NEW T,
           \A x : x \in S <=> x \in R \/ x \in T, \A x \in R : x \notin T
    PROVE  Picked(s, S) = Picked(s, R) + Picked(s, T)
PROOF
<1> DEFINE X == Hits(s, R)
           Y == Hits(s, T)
<1>1. IsFiniteSet(X) /\ IsFiniteSet(Y) /\ Cardinality(X) \in Nat /\ Cardinality(Y) \in Nat
  BY HitsFinite
<1>2. X \cap Y = {} /\ X \cup Y = Hits(s, S)
  BY DEF Hits
<1>3. Cardinality(X \cup Y) = Cardinality(X) + Cardinality(Y)
  <2> HIDE DEF X, Y
  <2> QED
    BY <1>1, <1>2, DisjointCount
<1>4. Cardinality(X) = Picked(s, R) /\ Cardinality(Y) = Picked(s, T)
  BY HitsSelection
<1> QED
  BY <1>2, <1>3, <1>4, HitsSelection

(* A pair with a fixed first part for each member of a set. *)
LEMMA PairsCount ==
    ASSUME NEW t, NEW S, IsFiniteSet(S)
    PROVE  IsFiniteSet({t} \X S) /\ Cardinality({t} \X S) = Cardinality(S)
PROOF
<1> DEFINE f == [x \in S |-> <<t, x>>]
<1>1. f \in Bijection(S, {t} \X S)
  <2>1. f \in [S -> {t} \X S]
    OBVIOUS
  <2>2. \A x, y \in S : f[x] = f[y] => x = y
    OBVIOUS
  <2>3. \A p \in {t} \X S : \E x \in S : f[x] = p
    OBVIOUS
  <2> QED
    BY <2>1, <2>2, <2>3 DEF Bijection, Injection, IsInjective, Surjection
<1> QED
  BY <1>1, FS_Bijection DEF ExistsBijection

(* A finite union of finite sets that a finite set names. *)
LEMMA UnionFinite ==
    ASSUME NEW S, IsFiniteSet(S), NEW f, \A x \in S : IsFiniteSet(f[x])
    PROVE  IsFiniteSet(UNION {f[x] : x \in S})
PROOF
<1> DEFINE T == {f[x] : x \in S}
           g == [x \in S |-> f[x]]
<1>1. g \in Surjection(S, T)
  <2>1. g \in [S -> T]
    OBVIOUS
  <2>2. \A y \in T : \E x \in S : g[x] = y
    OBVIOUS
  <2> QED
    BY <2>1, <2>2 DEF Surjection
<1>2. IsFiniteSet(T)
  BY <1>1, FS_Surjection
<1>3. \A y \in T : IsFiniteSet(y)
  OBVIOUS
<1> QED
  BY <1>2, <1>3, FS_UNION

(* A place is a tab and a position in its queue. *)
LEMMA PlacesMembers ==
    ASSUME NEW q, NEW S
    PROVE  \A p : p \in Places(q, S) <=>
             \E t \in Tabs : \E i \in DOMAIN q[t] : q[t][i] \in S /\ p = <<t, i>>
PROOF
  BY DEF Places, Hits

(* A queue for each tab. *)
Queues(A) == [Tabs -> Seq(A)]

(* The places of the entries of interest are finitely many. *)
LEMMA PlacesFinite ==
    ASSUME NEW A, NEW q, q \in Queues(A), NEW S
    PROVE  IsFiniteSet(Places(q, S)) /\ Cardinality(Places(q, S)) \in Nat
PROOF
<1> USE DEF Queues
<1> DEFINE f == [t \in Tabs |-> {t} \X Hits(q[t], S)]
<1>1. ASSUME NEW t \in Tabs PROVE IsFiniteSet(f[t])
  BY HitsFinite, PairsCount
<1>2. Places(q, S) = UNION {f[t] : t \in Tabs}
  BY DEF Places
<1>3. IsFiniteSet(UNION {f[t] : t \in Tabs})
  <2>1. IsFiniteSet(Tabs)
    BY BroadcastAssumption
  <2> HIDE DEF f
  <2> QED
    BY <1>1, <2>1, UnionFinite
<1> QED
  BY <1>2, <1>3, FS_CardinalityType

Replaces(r, q, t, s) == r = [q EXCEPT ![t] = s]

(* When the queue of one tab changes, the number of places changes by what *)
(* this queue has more or less.                                            *)
LEMMA PlacesChange ==
    ASSUME NEW A, NEW q, q \in Queues(A), NEW t \in Tabs, NEW s \in Seq(A), NEW S,
           NEW r, Replaces(r, q, t, s)
    PROVE  Cardinality(Places(r, S)) + Picked(q[t], S)
              = Cardinality(Places(q, S)) + Picked(s, S)
PROOF
<1> DEFINE X == {t} \X Hits(q[t], S)
           Y == {t} \X Hits(s, S)
           rest == Places(q, S) \ X
<1>1. r \in Queues(A) /\ q[t] \in Seq(A)
  BY DEF Queues, Replaces
<1>2. IsFiniteSet(Places(q, S)) /\ IsFiniteSet(rest) /\ Cardinality(rest) \in Nat
  BY PlacesFinite, FS_Difference, FS_CardinalityType
<1>3. /\ IsFiniteSet(X) /\ Cardinality(X) = Picked(q[t], S)
      /\ IsFiniteSet(Y) /\ Cardinality(Y) = Picked(s, S)
  <2>2. IsFiniteSet(Hits(q[t], S)) /\ Cardinality(Hits(q[t], S)) = Picked(q[t], S)
    BY <1>1, HitsFinite, HitsSelection
  <2>3. IsFiniteSet(Hits(s, S)) /\ Cardinality(Hits(s, S)) = Picked(s, S)
    BY HitsFinite, HitsSelection
  <2> QED
    BY <2>2, <2>3, PairsCount
<1>4. Picked(q[t], S) \in Nat /\ Picked(s, S) \in Nat
  BY <1>1, PickedNat
<1>5. Places(q, S) = rest \cup X /\ rest \cap X = {}
  <2>1. X \subseteq Places(q, S)
    BY DEF Places
  <2> QED
    BY <2>1
<1>6. Places(r, S) = rest \cup Y /\ rest \cap Y = {}
  <2>1. r[t] = s /\ \A u \in Tabs : u # t => r[u] = q[u]
    BY DEF Queues, Replaces
  <2>2. \A p : p \in rest <=> \E u \in Tabs : u # t /\ p \in {u} \X Hits(q[u], S)
    BY DEF Places
  <2>3. \A p : p \in Places(r, S) <=> p \in Y \/ \E u \in Tabs : u # t /\ p \in {u} \X Hits(q[u], S)
    BY <2>1 DEF Places
  <2> HIDE DEF rest
  <2>4. \A p \in rest : p \notin Y
    BY <2>2
  <2> QED
    BY <2>2, <2>3, <2>4
<1>7. Cardinality(Places(q, S)) = Cardinality(rest) + Cardinality(X)
  <2> HIDE DEF rest, X
  <2> QED
    BY <1>2, <1>3, <1>5, DisjointCount
<1>8. Cardinality(Places(r, S)) = Cardinality(rest) + Cardinality(Y)
  <2> HIDE DEF rest, X, Y
  <2> QED
    BY <1>2, <1>3, <1>6, DisjointCount
<1> HIDE DEF rest, X, Y
<1> QED
  BY <1>2, <1>3, <1>4, <1>7, <1>8

(* The places do not depend on entries that are no members. *)
LEMMA PlacesSame ==
    ASSUME NEW A, NEW q, q \in Queues(A), NEW r, r \in Queues(A), NEW S,
           \A t \in Tabs : /\ Len(q[t]) <= Len(r[t])
                           /\ \A i \in 1 .. Len(q[t]) : r[t][i] = q[t][i]
                           /\ \A i \in Len(q[t]) + 1 .. Len(r[t]) : r[t][i] \notin S
    PROVE  Places(r, S) = Places(q, S)
PROOF
<1> SUFFICES ASSUME NEW t \in Tabs PROVE Hits(r[t], S) = Hits(q[t], S)
  BY Zenon DEF Places
<1>1. /\ DOMAIN q[t] = 1 .. Len(q[t]) /\ DOMAIN r[t] = 1 .. Len(r[t])
      /\ Len(q[t]) \in Nat /\ Len(r[t]) \in Nat
  BY DEF Queues
<1>2. ASSUME NEW i \in 1 .. Len(r[t]), r[t][i] \in S
      PROVE  i \in 1 .. Len(q[t]) /\ q[t][i] \in S
  <2>1. i \notin Len(q[t]) + 1 .. Len(r[t])
    BY <1>2
  <2>2. i \in Nat /\ i >= 1 /\ i <= Len(r[t])
    BY <1>1
  <2>3. ~(i >= Len(q[t]) + 1)
    BY <1>1, <2>1, <2>2
  <2>4. i \in 1 .. Len(q[t])
    BY <1>1, <2>2, <2>3
  <2> QED
    BY <1>2, <2>4
<1>3. ASSUME NEW i \in 1 .. Len(q[t]), q[t][i] \in S
      PROVE  i \in 1 .. Len(r[t]) /\ r[t][i] \in S
  BY <1>1, <1>3
<1> QED
  BY <1>1, <1>2, <1>3 DEF Hits

(***************************************************************************)
(* Counting the bytes of batches.                                          *)
(***************************************************************************)

ByteCount(f, bs) == Cardinality(UNION {{b} \X (1 .. f[b].size) : b \in bs})

(* The bytes of a set of batches are those of a part and of the rest. *)
LEMMA ByteCountSplit ==
    ASSUME NEW f, NEW bs, IsFiniteSet(bs), \A b \in bs : f[b].size \in Nat,
           NEW ks, ks \subseteq bs
    PROVE  /\ ByteCount(f, bs) = ByteCount(f, ks) + ByteCount(f, bs \ ks)
           /\ ByteCount(f, ks) \in Nat /\ ByteCount(f, bs \ ks) \in Nat
PROOF
<1> DEFINE tokens == [b \in bs |-> {b} \X (1 .. f[b].size)]
           All(cs) == UNION {tokens[b] : b \in cs}
<1>1. ASSUME NEW b \in bs PROVE IsFiniteSet(tokens[b])
  <2>1. IsFiniteSet(1 .. f[b].size)
    BY FS_Interval
  <2> QED
    BY <2>1, PairsCount
<1>2. ASSUME NEW cs, cs \subseteq bs
      PROVE  /\ IsFiniteSet(cs) /\ IsFiniteSet(All(cs)) /\ Cardinality(All(cs)) \in Nat
             /\ ByteCount(f, cs) = Cardinality(All(cs))
  <2>1. IsFiniteSet(cs)
    BY <1>2, FS_Subset
  <2>2. UNION {{b} \X (1 .. f[b].size) : b \in cs} = All(cs)
    BY <1>2
  <2>3. \A b \in cs : IsFiniteSet(tokens[b])
    BY <1>1, <1>2
  <2>4. IsFiniteSet(All(cs))
    <3> HIDE DEF tokens
    <3> QED
      BY <2>1, <2>3, UnionFinite
  <2>5. ByteCount(f, cs) = Cardinality(All(cs))
    BY <2>2 DEF ByteCount
  <2> QED
    BY <2>1, <2>4, <2>5, FS_CardinalityType
<1>3. All(bs) = All(ks) \cup All(bs \ ks)
  <2> HIDE DEF tokens
  <2> QED
    OBVIOUS
<1>4. All(ks) \cap All(bs \ ks) = {}
  <2> SUFFICES ASSUME NEW b \in ks, NEW c \in bs \ ks, NEW x \in tokens[b], x \in tokens[c]
               PROVE  FALSE
    OBVIOUS
  <2>1. b \in bs /\ c \in bs /\ b # c
    OBVIOUS
  <2>2. x[1] = b /\ x[1] = c
    BY <2>1
  <2> QED
    BY <2>1, <2>2
<1>5. /\ IsFiniteSet(All(ks)) /\ IsFiniteSet(All(bs \ ks))
      /\ ByteCount(f, bs) = Cardinality(All(bs))
      /\ ByteCount(f, ks) = Cardinality(All(ks)) /\ Cardinality(All(ks)) \in Nat
      /\ ByteCount(f, bs \ ks) = Cardinality(All(bs \ ks))
      /\ Cardinality(All(bs \ ks)) \in Nat
  BY <1>2
<1> HIDE DEF All
<1>6. Cardinality(All(ks) \cup All(bs \ ks)) = Cardinality(All(ks)) + Cardinality(All(bs \ ks))
  BY <1>4, <1>5, DisjointCount
<1> QED
  BY <1>3, <1>5, <1>6

(* Batches of the same sizes have the same bytes. *)
LEMMA ByteCountSame ==
    ASSUME NEW f, NEW g, NEW bs, \A b \in bs : f[b].size = g[b].size
    PROVE  ByteCount(f, bs) = ByteCount(g, bs)
PROOF
<1>1. {{b} \X (1 .. f[b].size) : b \in bs} = {{b} \X (1 .. g[b].size) : b \in bs}
  OBVIOUS
<1> QED
  BY <1>1 DEF ByteCount

(* One batch has its own bytes. *)
LEMMA ByteCountOne ==
    ASSUME NEW f, NEW b, f[b].size \in Nat
    PROVE  ByteCount(f, {b}) = f[b].size
PROOF
<1>1. UNION {{c} \X (1 .. f[c].size) : c \in {b}} = {b} \X (1 .. f[b].size)
  OBVIOUS
<1>2. IsFiniteSet(1 .. f[b].size) /\ Cardinality(1 .. f[b].size) = f[b].size
  <2> DEFINE n == f[b].size
  <2>1. n \in Nat
    OBVIOUS
  <2> HIDE DEF n
  <2>2. 1 \in Int /\ n \in Int
    BY <2>1
  <2>3. IsFiniteSet(1 .. n) /\ Cardinality(1 .. n) = IF 1 > n THEN 0 ELSE n - 1 + 1
    BY <2>2, FS_Interval
  <2>4. IsFiniteSet(1 .. n) /\ Cardinality(1 .. n) = n
    BY <2>1, <2>3
  <2> QED
    BY <2>4 DEF n
<1>3. Cardinality({b} \X (1 .. f[b].size)) = Cardinality(1 .. f[b].size)
  BY <1>2, PairsCount
<1> QED
  BY <1>1, <1>2, <1>3 DEF ByteCount

(***************************************************************************)
(* Releasing deliveries.                                                   *)
(***************************************************************************)

(* What the accounting says, with ByteCount for the bytes. *)
LEMMA Accounts ==
    /\ Bytes(DOMAIN batches) = ByteCount(batches, DOMAIN batches)
    /\ \A bs : Bytes(bs) = ByteCount(batches, bs)
    /\ Bytes(DOMAIN batches)' = ByteCount(batches', DOMAIN batches')
PROOF
  BY DEF Bytes, ByteCount

(* The entries of q are those of s and those of ds. *)
Splits(q, s, ds) ==
    \A S : Picked(q, S) = Picked(s, S) + Picked(ds, S)

(* Whatever the reason for which a queue loses deliveries: when they are   *)
(* released the counters stay exact, and they only fall.                   *)
LEMMA ReleaseKeeps ==
    ASSUME BookShapes, ExactAccounting, QueuesWithinLimits, NEW t \in Tabs,
           NEW s \in Seq(Queued), NEW ds \in Seq(Queued),
           Splits(pending[t], s, ds),
           Replaces(pending', pending, t, s), Release(ds), nextBatch' = nextBatch
    PROVE  BookShapes' /\ ExactAccounting' /\ QueuesWithinLimits'
PROOF
<1> DEFINE refs(b) == Cardinality(Places(pending, OfBatch(b)))
           refsN(b) == Cardinality(Places(pending', OfBatch(b)))
           rest(b) == batches[b].recipients - References(ds, b)
           keep == {b \in DOMAIN batches : rest(b) # 0}
<1>1. pending \in Queues(Queued) /\ pending' \in Queues(Queued)
  BY DEF BookShapes, Queues, Replaces
<1>2. ASSUME NEW S
      PROVE  /\ Cardinality(Places(pending', S)) + Picked(ds, S)
                   = Cardinality(Places(pending, S))
             /\ Cardinality(Places(pending', S)) \in Nat
             /\ Cardinality(Places(pending, S)) \in Nat
             /\ Picked(ds, S) \in Nat
  <2>1. Cardinality(Places(pending', S)) + Picked(pending[t], S)
              = Cardinality(Places(pending, S)) + Picked(s, S)
    BY <1>1, PlacesChange
  <2>2. Cardinality(Places(pending', S)) \in Nat /\ Cardinality(Places(pending, S)) \in Nat
    BY <1>1, PlacesFinite
  <2>4. Picked(s, S) \in Nat /\ Picked(ds, S) \in Nat
    BY PickedNat
  <2>5. Picked(pending[t], S) = Picked(s, S) + Picked(ds, S)
    BY Zenon DEF Splits
  <2> QED
    BY <2>1, <2>2, <2>4, <2>5
<1>3. ASSUME NEW b
      PROVE  /\ refsN(b) = refs(b) - References(ds, b)
             /\ refs(b) \in Nat /\ refsN(b) \in Nat /\ References(ds, b) \in Nat
  <2>1. References(ds, b) = Picked(ds, OfBatch(b))
    BY HitsSelection DEF References
  <2>2. /\ Cardinality(Places(pending', OfBatch(b))) + Picked(ds, OfBatch(b))
              = Cardinality(Places(pending, OfBatch(b)))
        /\ Cardinality(Places(pending', OfBatch(b))) \in Nat
        /\ Cardinality(Places(pending, OfBatch(b))) \in Nat
        /\ Picked(ds, OfBatch(b)) \in Nat
    BY <1>2
  <2>3. /\ refsN(b) + References(ds, b) = refs(b)
        /\ refsN(b) \in Nat /\ refs(b) \in Nat /\ References(ds, b) \in Nat
    BY <2>1, <2>2
  <2> HIDE DEF refs, refsN
  <2> QED
    BY <2>3
<1>4. /\ DOMAIN batches = {b \in 1 .. nextBatch : refs(b) > 0}
      /\ \A b \in DOMAIN batches : batches[b].recipients = refs(b)
      /\ pendingRecipients = Cardinality(Places(pending, Delivery))
      /\ pendingBytes = ByteCount(batches, DOMAIN batches)
  BY Accounts DEF ExactAccounting
<1>5. /\ batches' = [b \in keep |-> [batches[b] EXCEPT !.recipients = rest(b)]]
      /\ pendingRecipients' = pendingRecipients - Len(ds)
      /\ pendingBytes' = pendingBytes - ByteCount(batches, DOMAIN batches \ keep)
  BY Accounts DEF Release
<1>6. \A b \in DOMAIN batches : rest(b) = refsN(b)
  BY <1>3, <1>4
<1>7. keep = {b \in 1 .. nextBatch : refsN(b) > 0}
  <2>1. ASSUME NEW b \in keep PROVE b \in 1 .. nextBatch /\ refsN(b) > 0
    <3>1. b \in DOMAIN batches /\ rest(b) # 0
      OBVIOUS
    <3> HIDE DEF keep, refs, refsN, rest
    <3>2. b \in 1 .. nextBatch /\ rest(b) = refsN(b)
      BY <3>1, <1>4, <1>6
    <3> QED
      BY <3>1, <3>2, <1>3
  <2>2. ASSUME NEW b \in 1 .. nextBatch, refsN(b) > 0 PROVE b \in keep
    <3>1. refs(b) > 0
      <4> HIDE DEF refs, refsN
      <4> QED
        BY <1>3, <2>2
    <3>2. b \in DOMAIN batches
      BY <1>4, <3>1
    <3>3. rest(b) # 0
      <4> HIDE DEF refs, refsN, rest
      <4> QED
        BY <1>3, <1>6, <2>2, <3>2
    <3> QED
      BY <3>2, <3>3
  <2> HIDE DEF keep, refsN
  <2> QED
    BY <2>1, <2>2
<1>8. /\ DOMAIN batches' = keep /\ keep \subseteq DOMAIN batches
      /\ \A b \in keep : /\ batches'[b] \in [size : Sizes, recipients : Nat]
                         /\ batches'[b].recipients = refsN(b)
                         /\ batches'[b].size = batches[b].size
                         /\ batches[b].size \in Nat
  <2>1. ASSUME NEW b \in keep
        PROVE  /\ batches'[b] \in [size : Sizes, recipients : Nat]
               /\ batches'[b].recipients = refsN(b)
               /\ batches'[b].size = batches[b].size
               /\ batches[b].size \in Nat
    <3>1. batches[b] \in [size : Sizes, recipients : Nat]
      BY DEF BookShapes
    <3>2. rest(b) = refsN(b) /\ refsN(b) \in Nat
      BY <1>3, <1>6
    <3>3. batches'[b] = [batches[b] EXCEPT !.recipients = rest(b)]
      BY <1>5
    <3>4. Sizes \subseteq Nat
      BY BroadcastAssumption
    <3> HIDE DEF rest, refsN
    <3> QED
      BY <3>1, <3>2, <3>3, <3>4
  <2> HIDE DEF rest, refsN
  <2> QED
    BY <1>5, <2>1
<1>9. /\ pendingRecipients' = Cardinality(Places(pending', Delivery))
      /\ pendingRecipients' \in Nat /\ pendingRecipients' <= pendingRecipients
  <2>1. \A i \in 1 .. Len(ds) : ds[i] \in Delivery
    <3> SUFFICES ASSUME NEW i \in 1 .. Len(ds) PROVE ds[i] \in Delivery
      OBVIOUS
    <3>1. ds[i] \in Queued
      OBVIOUS
    <3> QED
      BY <3>1 DEF Queued, Delivery
  <2>2. Selection(ds, Delivery) = ds
    BY <2>1, SelectionAll
  <2>5. Picked(ds, Delivery) = Len(ds)
    BY <2>2 DEF Picked
  <2>3. /\ Cardinality(Places(pending', Delivery)) + Picked(ds, Delivery)
              = Cardinality(Places(pending, Delivery))
        /\ Cardinality(Places(pending', Delivery)) \in Nat
        /\ Picked(ds, Delivery) \in Nat
    BY <1>2
  <2>4. /\ pendingRecipients = Cardinality(Places(pending, Delivery))
        /\ pendingRecipients' = pendingRecipients - Len(ds)
    BY <1>4, <1>5
  <2> QED
    BY <2>3, <2>4, <2>5
<1>10. /\ pendingBytes' = ByteCount(batches', keep)
       /\ pendingBytes' \in Nat /\ pendingBytes' <= pendingBytes
  <2>1. IsFiniteSet(DOMAIN batches)
    <3>1. IsFiniteSet(1 .. nextBatch)
      BY FS_Interval DEF BookShapes
    <3> QED
      BY <3>1, FS_Subset DEF BookShapes
  <2>2. \A b \in DOMAIN batches : batches[b].size \in Nat
    BY BroadcastAssumption DEF BookShapes
  <2>3. /\ ByteCount(batches, DOMAIN batches)
              = ByteCount(batches, keep) + ByteCount(batches, DOMAIN batches \ keep)
        /\ ByteCount(batches, keep) \in Nat /\ ByteCount(batches, DOMAIN batches \ keep) \in Nat
    <3>1. keep \subseteq DOMAIN batches
      OBVIOUS
    <3> HIDE DEF keep
    <3> QED
      BY <3>1, <2>1, <2>2, ByteCountSplit
  <2>4. ByteCount(batches', keep) = ByteCount(batches, keep)
    <3> HIDE DEF keep
    <3> QED
      BY <1>8, ByteCountSame
  <2> HIDE DEF keep
  <2> QED
    BY <1>4, <1>5, <2>3, <2>4
<1>11. ExactAccounting'
  <2>1. DOMAIN batches' = {b \in 1 .. nextBatch : refsN(b) > 0}
    BY <1>7, <1>8
  <2>2. \A b \in DOMAIN batches' : batches'[b].recipients = refsN(b)
    BY <1>8
  <2>3. pendingBytes' = Bytes(DOMAIN batches)'
    BY <1>8, <1>10, Accounts
  <2>4. ExactAccounting' = /\ DOMAIN batches' = {b \in 1 .. nextBatch' : refsN(b) > 0}
                           /\ \A b \in DOMAIN batches' : batches'[b].recipients = refsN(b)
                           /\ pendingRecipients' = Cardinality(Places(pending', Delivery))
                           /\ pendingBytes' = Bytes(DOMAIN batches)'
    BY DEF ExactAccounting, Places, Hits, OfBatch, Delivery
  <2> HIDE DEF refsN
  <2> QED
    BY <1>9, <2>1, <2>2, <2>3, <2>4
<1>12. BookShapes'
  <2>1. pending' \in [Tabs -> Seq(Queued)] /\ Queued' = Queued
    BY <1>1 DEF Queues, Queued
  <2> HIDE DEF keep, rest, refs, refsN
  <2>2. /\ DOMAIN batches' \subseteq 1 .. nextBatch
        /\ \A b \in DOMAIN batches' : batches'[b] \in [size : Sizes, recipients : Nat]
    BY <1>8 DEF BookShapes
  <2> QED
    BY <1>9, <1>10, <2>1, <2>2 DEF BookShapes
<1>13. QueuesWithinLimits'
  <2>1. Len(s) <= Len(pending[t])
    <3>1. /\ Selection(s, Queued) = s /\ Selection(ds, Queued) = ds
          /\ Selection(pending[t], Queued) = pending[t]
      <4>1. pending[t] \in Seq(Queued)
        BY DEF BookShapes
      <4> QED
        BY <4>1, SelectionAll
    <3>2. Picked(pending[t], Queued) = Picked(s, Queued) + Picked(ds, Queued)
      BY DEF Splits
    <3> QED
      BY <3>1, <3>2 DEF Picked
  <2>2. ASSUME NEW u \in Tabs PROVE Len(pending'[u]) <= MaxPending
    <3>1. pending'[u] = IF u = t THEN s ELSE pending[u]
      BY DEF BookShapes, Replaces
    <3>2. pending[t] \in Seq(Queued) /\ MaxPending \in Nat
      BY BroadcastAssumption DEF BookShapes
    <3>3. Len(s) \in Nat /\ Len(pending[t]) \in Nat
      BY <3>2
    <3>4. Len(pending[u]) <= MaxPending /\ Len(pending[t]) <= MaxPending
      BY DEF QueuesWithinLimits
    <3> QED
      BY <2>1, <3>1, <3>2, <3>3, <3>4
  <2>3. pendingRecipients' <= MaxRecipients /\ pendingBytes' <= MaxBytes
    <3>1. MaxRecipients \in Nat /\ MaxBytes \in Nat
      BY BroadcastAssumption
    <3>2. pendingRecipients <= MaxRecipients /\ pendingBytes <= MaxBytes
      BY DEF QueuesWithinLimits
    <3> QED
      BY <1>9, <1>10, <3>1, <3>2 DEF BookShapes
  <2> QED
    BY <2>2, <2>3 DEF QueuesWithinLimits
<1> QED
  BY <1>11, <1>12, <1>13

(* A tab that is retired releases its whole queue. *)
LEMMA RetireKeeps ==
    ASSUME BookShapes, ExactAccounting, QueuesWithinLimits, NEW t \in Tabs, RetireTab(t)
    PROVE  BookShapes' /\ ExactAccounting' /\ QueuesWithinLimits'
PROOF
<1>1. pending[t] \in Seq(Queued) /\ <<>> \in Seq(Queued)
  BY DEF BookShapes
<1>2. Replaces(pending', pending, t, <<>>) /\ Release(pending[t]) /\ nextBatch' = nextBatch
  BY DEF RetireTab, Replaces
<1>3. ASSUME NEW S PROVE Picked(pending[t], S) = Picked(<<>>, S) + Picked(pending[t], S)
  <2>1. Picked(<<>>, S) = 0
    BY SelectionEmpty DEF Picked
  <2>2. Picked(pending[t], S) \in Nat
    BY <1>1, PickedNat
  <2> QED
    BY <2>1, <2>2
<1>4. Splits(pending[t], <<>>, pending[t])
  BY <1>3 DEF Splits
<1> QED
  BY <1>1, <1>2, <1>4, ReleaseKeeps

(* Taking the head splits a queue into the head and the rest. *)
LEMMA TailSplits ==
    ASSUME NEW A, NEW q \in Seq(A), q # <<>>
    PROVE  /\ Tail(q) \in Seq(A) /\ <<Head(q)>> \in Seq(A)
           /\ Splits(q, Tail(q), <<Head(q)>>)
PROOF
<1>1. Tail(q) \in Seq(A) /\ Head(q) \in A /\ <<Head(q)>> \in Seq(A)
  OBVIOUS
<1>2. ASSUME NEW S PROVE Picked(q, S) = Picked(Tail(q), S) + Picked(<<Head(q)>>, S)
  <2>1. Selection(q, S) = IF Head(q) \in S THEN <<Head(q)>> \o Selection(Tail(q), S)
                          ELSE Selection(Tail(q), S)
    BY SelectionTail
  <2>2. Selection(<<Head(q)>>, S) = IF Head(q) \in S THEN <<Head(q)>> ELSE <<>>
    BY SelectionSingle
  <2>3. Selection(Tail(q), S) \in Seq(A \cap S)
    BY <1>1, SelectionType
  <2>4. Len(<<Head(q)>> \o Selection(Tail(q), S)) = 1 + Len(Selection(Tail(q), S))
    BY <1>1, <2>3
  <2>5. Picked(<<Head(q)>>, S) = IF Head(q) \in S THEN 1 ELSE 0
    <3>1. Len(<<Head(q)>>) = 1 /\ Len(<<>>) = 0
      OBVIOUS
    <3> QED
      BY <2>2, <3>1 DEF Picked
  <2>6. Picked(q, S) = IF Head(q) \in S THEN 1 + Picked(Tail(q), S) ELSE Picked(Tail(q), S)
    BY <2>1, <2>4 DEF Picked
  <2>7. Picked(Tail(q), S) \in Nat
    BY <1>1, PickedNat
  <2> QED
    BY <2>5, <2>6, <2>7
<1> QED
  BY <1>1, <1>2 DEF Splits

(* Removing some deliveries splits a queue into those and the rest. *)
LEMMA FilterSplits ==
    ASSUME NEW q \in Seq(Queued), NEW gone
    PROVE  /\ Selection(q, Delivery \ gone) \in Seq(Queued)
           /\ Selection(q, gone) \in Seq(Queued)
           /\ Splits(q, Selection(q, Delivery \ gone), Selection(q, gone))
PROOF
<1> DEFINE s == Selection(q, Delivery \ gone)
           ds == Selection(q, gone)
<1>1. s \in Seq(Queued) /\ ds \in Seq(Queued)
  <2>1. s \in Seq(Queued \cap (Delivery \ gone)) /\ ds \in Seq(Queued \cap gone)
    BY SelectionType
  <2> QED
    BY <2>1
<1>2. ASSUME NEW S PROVE Picked(q, S) = Picked(s, S) + Picked(ds, S)
  <2>1. q \in Seq(Delivery) /\ \A i \in 1 .. Len(q) : q[i] \in Delivery
    <3>1. Queued \subseteq Delivery
      BY DEF Queued, Delivery
    <3> QED
      BY <3>1
  <2>2. Selection(q, Delivery) = q
    BY <2>1, SelectionAll
  <2>3. /\ Selection(Selection(q, Delivery), S \ gone) = Selection(q, Delivery \cap (S \ gone))
        /\ Selection(s, S) = Selection(q, (Delivery \ gone) \cap S)
        /\ Selection(ds, S) = Selection(q, gone \cap S)
    BY SelectionWithin
  <2>4. Delivery \cap (S \ gone) = (Delivery \ gone) \cap S /\ gone \cap S = S \cap gone
    OBVIOUS
  <2>5. Selection(s, S) = Selection(q, S \ gone) /\ Selection(ds, S) = Selection(q, S \cap gone)
    BY <2>2, <2>3, <2>4
  <2>6. Picked(q, S) = Picked(q, S \cap gone) + Picked(q, S \ gone)
    <3> HIDE DEF s, ds
    <3> QED
      BY SelectionSplits
  <2>7. Picked(q, S \cap gone) \in Nat /\ Picked(q, S \ gone) \in Nat
    BY PickedNat
  <2>8. Picked(s, S) = Picked(q, S \ gone) /\ Picked(ds, S) = Picked(q, S \cap gone)
    BY <2>5 DEF Picked
  <2> HIDE DEF s, ds
  <2> QED
    BY <2>6, <2>7, <2>8
<1>3. Splits(q, s, ds)
  <2> HIDE DEF s, ds
  <2> QED
    BY <1>2 DEF Splits
<1> QED
  BY <1>1, <1>3

(* A queue hands over its oldest delivery. *)
LEMMA TakeKeeps ==
    ASSUME BookShapes, ExactAccounting, QueuesWithinLimits, NEW t \in Tabs,
           pending[t] # <<>>, pending' = [pending EXCEPT ![t] = Tail(@)],
           Release(<<Head(pending[t])>>), nextBatch' = nextBatch
    PROVE  BookShapes' /\ ExactAccounting' /\ QueuesWithinLimits'
PROOF
<1>1. pending[t] \in Seq(Queued)
  BY DEF BookShapes
<1>2. Replaces(pending', pending, t, Tail(pending[t]))
  BY DEF Replaces
<1>3. /\ Tail(pending[t]) \in Seq(Queued) /\ <<Head(pending[t])>> \in Seq(Queued)
      /\ Splits(pending[t], Tail(pending[t]), <<Head(pending[t])>>)
  BY <1>1, TailSplits
<1> QED
  BY <1>2, <1>3, ReleaseKeeps

(* A closed channel's deliveries leave the queue, in whatever places. *)
LEMMA CloseKeeps ==
    ASSUME BookShapes, ExactAccounting, QueuesWithinLimits, NEW t \in Tabs, NEW gone,
           pending' = [pending EXCEPT ![t] = Selection(@, Delivery \ gone)],
           Release(Selection(pending[t], gone)), nextBatch' = nextBatch
    PROVE  BookShapes' /\ ExactAccounting' /\ QueuesWithinLimits'
PROOF
<1> DEFINE s == Selection(pending[t], Delivery \ gone)
           ds == Selection(pending[t], gone)
<1>1. pending[t] \in Seq(Queued)
  BY DEF BookShapes
<1>2. Replaces(pending', pending, t, s) /\ Release(ds)
  BY DEF Replaces
<1>3. s \in Seq(Queued) /\ ds \in Seq(Queued) /\ Splits(pending[t], s, ds)
  BY <1>1, FilterSplits
<1> HIDE DEF s, ds
<1> QED
  BY <1>2, <1>3, ReleaseKeeps

(***************************************************************************)
(* Accepting a post.                                                       *)
(***************************************************************************)

(* The places that a fan-out adds to the queues. *)
Added(q, targets) ==
    UNION {{u} \X (Len(q[u]) + 1 .. Len(q[u]) + Len(For(targets, u))) : u \in Tabs}

(* Each target gets one place, in the queue of its tab. *)
LEMMA FanoutCount ==
    ASSUME NEW A, NEW q, q \in Queues(A), NEW targets \in Seq(Channel)
    PROVE  IsFiniteSet(Added(q, targets)) /\ Cardinality(Added(q, targets)) = Len(targets)
PROOF
<1> DEFINE n(u) == Len(For(targets, u))
           Embeds(h, u) ==
             /\ h \in [1 .. n(u) -> 1 .. Len(targets)]
             /\ \A i \in 1 .. n(u) : targets[h[i]].tab = u
             /\ \A i, j \in 1 .. n(u) : i < j => h[i] < h[j]
             /\ \A k \in 1 .. Len(targets) : targets[k].tab = u =>
                  \E i \in 1 .. n(u) : h[i] = k
           e == [u \in Tabs |-> CHOOSE h : Embeds(h, u)]
           P == Added(q, targets)
           f == [p \in P |-> e[p[1]][p[2] - Len(q[p[1]])]]
<1>1. ASSUME NEW u \in Tabs PROVE Embeds(e[u], u)
  <2>1. PICK h \in [1 .. n(u) -> 1 .. Len(targets)] :
          /\ \A i \in 1 .. n(u) : targets[h[i]] \in OfTab(u)
          /\ \A i, j \in 1 .. n(u) : i < j => h[i] < h[j]
          /\ \A k \in 1 .. Len(targets) : targets[k] \in OfTab(u) =>
               \E i \in 1 .. n(u) : h[i] = k
    BY SelectionEmbeds DEF For
  <2>2. \A k \in 1 .. Len(targets) : targets[k] \in OfTab(u) <=> targets[k].tab = u
    BY DEF OfTab
  <2>3. Embeds(h, u)
    BY <2>1, <2>2
  <2>4. Embeds(CHOOSE g : Embeds(g, u), u)
    BY <2>3, Zenon
  <2>5. e[u] = CHOOSE g : Embeds(g, u)
    OBVIOUS
  <2> HIDE DEF Embeds, e
  <2> QED
    BY <2>4, <2>5
<1>2. ASSUME NEW u \in Tabs PROVE Len(q[u]) \in Nat /\ n(u) \in Nat
  <2>1. q[u] \in Seq(A)
    BY DEF Queues
  <2>2. For(targets, u) \in Seq(Channel \cap OfTab(u))
    BY SelectionType DEF For
  <2> QED
    BY <2>1, <2>2
<1>3. ASSUME NEW p \in P
      PROVE  /\ p[1] \in Tabs /\ p = <<p[1], p[2]>>
             /\ p[2] \in Nat /\ p[2] - Len(q[p[1]]) \in 1 .. n(p[1])
  <2>1. PICK u \in Tabs : p \in {u} \X (Len(q[u]) + 1 .. Len(q[u]) + n(u))
    BY DEF Added
  <2>2. p[1] = u /\ p = <<p[1], p[2]>> /\ p[2] \in Len(q[u]) + 1 .. Len(q[u]) + n(u)
    BY <2>1
  <2>3. Len(q[u]) \in Nat /\ n(u) \in Nat
    BY <1>2
  <2> HIDE DEF n
  <2>4. p[2] \in Nat /\ p[2] - Len(q[u]) \in 1 .. n(u)
    BY <2>2, <2>3
  <2> QED
    BY <2>2, <2>4
<1>4. ASSUME NEW u \in Tabs, NEW i \in 1 .. n(u)
      PROVE  <<u, Len(q[u]) + i>> \in P
  <2>1. Len(q[u]) + i \in Len(q[u]) + 1 .. Len(q[u]) + n(u)
    BY <1>2
  <2> QED
    BY <2>1 DEF Added
<1>5. ASSUME NEW p \in P
      PROVE  f[p] \in 1 .. Len(targets) /\ targets[f[p]].tab = p[1]
  <2> DEFINE u == p[1]
             i == p[2] - Len(q[p[1]])
  <2>1. u \in Tabs /\ i \in 1 .. n(u) /\ f[p] = e[u][i]
    BY <1>3
  <2>2. Embeds(e[u], u)
    BY <1>1, <2>1
  <2> HIDE DEF i, f, e, n
  <2> QED
    BY <2>1, <2>2
<1>6. ASSUME NEW p \in P, NEW r \in P, f[p] = f[r] PROVE p = r
  <2> DEFINE u == p[1]
             i == p[2] - Len(q[u])
             j == r[2] - Len(q[u])
  <2>1. r[1] = u /\ u \in Tabs
    BY <1>3, <1>5, <1>6
  <2>2. i \in 1 .. n(u) /\ j \in 1 .. n(u) /\ f[p] = e[u][i] /\ f[r] = e[u][j]
    BY <1>3, <2>1
  <2>3. Embeds(e[u], u)
    BY <1>1, <2>1
  <2>4. i = j
    <3>0. /\ e[u] \in [1 .. n(u) -> 1 .. Len(targets)]
          /\ \A k, l \in 1 .. n(u) : k < l => e[u][k] < e[u][l]
      BY <2>3
    <3> HIDE DEF i, j, f, e, n, P, Embeds
    <3>1. i \in Nat /\ j \in Nat
      BY <2>2
    <3>2. e[u][i] \in Nat /\ e[u][j] \in Nat
      <4>1. e[u][i] \in 1 .. Len(targets) /\ e[u][j] \in 1 .. Len(targets)
        BY <2>2, <3>0
      <4> QED
        BY <4>1
    <3>3. e[u][i] = e[u][j]
      BY <2>2, <1>6
    <3>4. ~(i < j) /\ ~(j < i)
      BY <2>2, <3>0, <3>2, <3>3
    <3> QED
      BY <3>1, <3>4
  <2>5. p[2] = r[2]
    <3>1. p[2] \in Nat /\ r[2] \in Nat /\ Len(q[u]) \in Nat
      BY <1>2, <1>3, <2>1
    <3>2. p[2] - Len(q[u]) = r[2] - Len(q[u])
      BY <2>4
    <3> HIDE DEF u
    <3> QED
      BY <3>1, <3>2
  <2>6. p = <<p[1], p[2]>> /\ r = <<r[1], r[2]>>
    BY <1>3
  <2> QED
    BY <2>1, <2>5, <2>6
<1>7. ASSUME NEW k \in 1 .. Len(targets) PROVE \E p \in P : f[p] = k
  <2> DEFINE u == targets[k].tab
  <2>1. u \in Tabs
    <3>1. targets[k] \in Channel
      OBVIOUS
    <3> QED
      BY <3>1 DEF Channel
  <2>2. PICK i \in 1 .. n(u) : e[u][i] = k
    <3> HIDE DEF e, n
    <3> QED
      BY <1>1, <2>1
  <2> DEFINE p == <<u, Len(q[u]) + i>>
  <2>3. p \in P
    BY <1>4, <2>1
  <2>4. p[1] = u /\ p[2] - Len(q[p[1]]) = i
    BY <1>2, <2>1
  <2>5. f[p] = e[p[1]][p[2] - Len(q[p[1]])]
    <3> HIDE DEF e, p
    <3> QED
      BY <2>3
  <2>6. f[p] = k
    <3> HIDE DEF e, f, p
    <3> QED
      BY <2>2, <2>4, <2>5
  <2> QED
    BY <2>3, <2>6
<1>8. f \in Injection(P, 1 .. Len(targets)) /\ f \in Surjection(P, 1 .. Len(targets))
  <2>1. f \in [P -> 1 .. Len(targets)]
    BY <1>5
  <2> HIDE DEF f, P
  <2> QED
    BY <2>1, <1>6, <1>7 DEF Injection, IsInjective, Surjection
<1>9. IsFiniteSet(1 .. Len(targets)) /\ Cardinality(1 .. Len(targets)) = Len(targets)
  <2>1. 1 \in Int /\ Len(targets) \in Nat
    OBVIOUS
  <2>2. /\ IsFiniteSet(1 .. Len(targets))
        /\ Cardinality(1 .. Len(targets))
              = IF 1 > Len(targets) THEN 0 ELSE Len(targets) - 1 + 1
    BY <2>1, FS_Interval
  <2> QED
    BY <2>1, <2>2
<1> HIDE DEF f, P
<1>10. IsFiniteSet(P) /\ (Cardinality(P) = Cardinality(1 .. Len(targets))
                           <=> f \in Surjection(P, 1 .. Len(targets)))
  BY <1>8, <1>9, FS_Injection
<1> QED
  BY <1>8, <1>9, <1>10 DEF P

(* A sequence over a set is one over every larger set. *)
LEMMA SeqWiden ==
    ASSUME NEW A, NEW B, \A x \in A : x \in B, NEW s \in Seq(A)
    PROVE  s \in Seq(B)
PROOF
<1>1. s \in [1 .. Len(s) -> A] /\ Len(s) \in Nat
  OBVIOUS
<1>2. s \in [1 .. Len(s) -> B]
  BY <1>1
<1> QED
  BY <1>1, <1>2

(* The entries of a concatenation are those of its halves. *)
LEMMA ConcatEntries ==
    ASSUME NEW A, NEW s \in Seq(A), NEW B, NEW r \in Seq(B)
    PROVE  /\ Len(s) \in Nat /\ Len(s \o r) = Len(s) + Len(r)
           /\ \A i \in 1 .. Len(s) : (s \o r)[i] = s[i]
           /\ \A i \in Len(s) + 1 .. Len(s \o r) : (s \o r)[i] \in B
PROOF
<1>1. Len(s) \in Nat /\ Len(r) \in Nat /\ Len(s \o r) = Len(s) + Len(r)
  OBVIOUS
<1>2. \A i \in 1 .. Len(s) + Len(r) : (s \o r)[i] = IF i <= Len(s) THEN s[i] ELSE r[i - Len(s)]
  OBVIOUS
<1>3. \A i \in 1 .. Len(s) : (s \o r)[i] = s[i]
  BY <1>1, <1>2
<1>4. ASSUME NEW i \in Len(s) + 1 .. Len(s \o r) PROVE (s \o r)[i] \in B
  <2>1. i \in 1 .. Len(s) + Len(r) /\ ~(i <= Len(s)) /\ i - Len(s) \in 1 .. Len(r)
    BY <1>1
  <2>2. r[i - Len(s)] \in B
    BY <2>1
  <2> QED
    BY <1>2, <2>1, <2>2
<1> QED
  BY <1>1, <1>3, <1>4

(* What Enqueue appends to the queue of u. *)
NewOf(targets, u, b) ==
    [i \in 1 .. Len(For(targets, u)) |->
        [doc |-> For(targets, u)[i].doc, id |-> For(targets, u)[i].id, batch |-> b]]

(* The new deliveries are of the new batch. *)
LEMMA NewType ==
    ASSUME NEW targets \in Seq(Channel), NEW u, NEW b \in Nat
    PROVE  /\ For(targets, u) \in Seq(Channel)
           /\ NewOf(targets, u, b) \in Seq([doc : Nat, id : Nat, batch : {b}])
           /\ Len(NewOf(targets, u, b)) = Len(For(targets, u))
PROOF
<1>1. For(targets, u) \in Seq(Channel)
  <2>1. For(targets, u) \in Seq(Channel \cap OfTab(u))
    BY SelectionType DEF For
  <2> QED
    BY <2>1
<1>2. ASSUME NEW i \in 1 .. Len(For(targets, u))
      PROVE  [doc |-> For(targets, u)[i].doc, id |-> For(targets, u)[i].id, batch |-> b]
                \in [doc : Nat, id : Nat, batch : {b}]
  <2>1. For(targets, u)[i] \in Channel
    BY <1>1
  <2> QED
    BY <2>1 DEF Channel
<1>3. Len(For(targets, u)) \in Nat
  BY <1>1
<1> QED
  BY <1>1, <1>2, <1>3 DEF NewOf

(* The queues after a post. *)
LEMMA EnqueueQueues ==
    ASSUME BookShapes, NEW targets \in Seq(Channel), NEW size, Enqueue(targets, size)
    PROVE  /\ nextBatch' = nextBatch + 1
           /\ Queued \subseteq Queued' /\ nextBatch' \in 1 .. nextBatch'
           /\ pending \in Queues(Queued') /\ pending' \in Queues(Queued')
           /\ \A u \in Tabs :
                /\ pending[u] \in Seq(Queued) /\ Len(For(targets, u)) \in Nat
                /\ Len(pending[u]) \in Nat
                /\ pending'[u] = pending[u] \o NewOf(targets, u, nextBatch + 1)
                /\ Len(pending'[u]) = Len(pending[u]) + Len(For(targets, u))
                /\ \A i \in 1 .. Len(pending[u]) : pending'[u][i] = pending[u][i]
                /\ \A i \in Len(pending[u]) + 1 .. Len(pending'[u]) :
                     /\ pending'[u][i] \in Delivery
                     /\ pending'[u][i].batch = nextBatch + 1
PROOF
<1>1. nextBatch \in Nat /\ nextBatch' = nextBatch + 1
  BY DEF BookShapes, Enqueue
<1>2. Queued \subseteq Queued' /\ nextBatch' \in 1 .. nextBatch'
  BY <1>1 DEF Queued
<1>3. pending \in [Tabs -> Seq(Queued)]
  BY DEF BookShapes
<1>4. pending' = [u \in Tabs |-> pending[u] \o NewOf(targets, u, nextBatch + 1)]
  BY DEF Enqueue, NewOf
<1>5. ASSUME NEW u \in Tabs
      PROVE  /\ pending[u] \in Seq(Queued) /\ Len(For(targets, u)) \in Nat
             /\ Len(pending[u]) \in Nat
             /\ pending'[u] = pending[u] \o NewOf(targets, u, nextBatch + 1)
             /\ Len(pending'[u]) = Len(pending[u]) + Len(For(targets, u))
             /\ \A i \in 1 .. Len(pending[u]) : pending'[u][i] = pending[u][i]
             /\ \A i \in Len(pending[u]) + 1 .. Len(pending'[u]) :
                  /\ pending'[u][i] \in Delivery
                  /\ pending'[u][i].batch = nextBatch + 1
             /\ pending'[u] \in Seq(Queued')
  <2> DEFINE q == pending[u]
             new == NewOf(targets, u, nextBatch + 1)
             New == [doc : Nat, id : Nat, batch : {nextBatch + 1}]
  <2>1. q \in Seq(Queued) /\ pending'[u] = q \o new
    BY <1>3, <1>4
  <2>2. new \in Seq(New) /\ Len(new) = Len(For(targets, u)) /\ Len(For(targets, u)) \in Nat
    <3>1. nextBatch + 1 \in Nat
      BY <1>1
    <3> QED
      BY <3>1, NewType
  <2>3. New \subseteq Queued' /\ New \subseteq Delivery /\ \A d \in New : d.batch = nextBatch + 1
    BY <1>1 DEF Queued, Delivery
  <2> HIDE DEF New, new, q
  <2>4. /\ Len(q) \in Nat /\ Len(q \o new) = Len(q) + Len(new)
        /\ \A i \in 1 .. Len(q) : (q \o new)[i] = q[i]
        /\ \A i \in Len(q) + 1 .. Len(q \o new) : (q \o new)[i] \in New
    BY <2>1, <2>2, ConcatEntries
  <2>5. q \o new \in Seq(Queued')
    <3>1. q \in Seq(Queued') /\ new \in Seq(Queued')
      BY <1>2, <2>1, <2>2, <2>3
    <3> QED
      BY <3>1
  <2>6. \A i \in Len(q) + 1 .. Len(q \o new) :
          (q \o new)[i] \in Delivery /\ (q \o new)[i].batch = nextBatch + 1
    BY <2>3, <2>4
  <2>7. /\ q \in Seq(Queued) /\ Len(For(targets, u)) \in Nat /\ Len(q) \in Nat
        /\ pending'[u] = q \o new
        /\ Len(pending'[u]) = Len(q) + Len(For(targets, u))
        /\ \A i \in 1 .. Len(q) : pending'[u][i] = q[i]
        /\ \A i \in Len(q) + 1 .. Len(pending'[u]) :
             /\ pending'[u][i] \in Delivery
             /\ pending'[u][i].batch = nextBatch + 1
        /\ pending'[u] \in Seq(Queued')
    BY <2>1, <2>2, <2>4, <2>5, <2>6
  <2> QED
    BY <2>7 DEF q, new
<1>6. pending' \in Queues(Queued')
  BY <1>4, <1>5 DEF Queues
<1>7. pending \in Queues(Queued')
  <2>1. ASSUME NEW u \in Tabs PROVE pending[u] \in Seq(Queued')
    <3>1. pending[u] \in Seq(Queued)
      BY <1>5
    <3> QED
      BY <1>2, <3>1, SeqWiden
  <2> QED
    BY <1>3, <2>1 DEF Queues
<1> QED
  BY <1>1, <1>2, <1>5, <1>6, <1>7

(* An accepted post is charged exactly, and within the limits. *)
LEMMA EnqueueKeeps ==
    ASSUME BookShapes, ExactAccounting, QueuesWithinLimits,
           NEW targets \in Seq(Channel), targets # <<>>, NEW size \in Sizes,
           Fits(targets, size), Enqueue(targets, size)
    PROVE  BookShapes' /\ ExactAccounting' /\ QueuesWithinLimits'
PROOF
<1> DEFINE b == nextBatch + 1
           refs(c) == Cardinality(Places(pending, OfBatch(c)))
           refsN(c) == Cardinality(Places(pending', OfBatch(c)))
           new == [size |-> size, recipients |-> Len(targets)]
<1>1. /\ nextBatch' = b /\ b \in Nat /\ nextBatch \in Nat
      /\ Queued \subseteq Queued' /\ b \in 1 .. b
      /\ pending \in Queues(Queued') /\ pending' \in Queues(Queued')
  BY EnqueueQueues DEF BookShapes
<1>2. ASSUME NEW u \in Tabs
      PROVE  /\ Len(For(targets, u)) \in Nat /\ Len(pending[u]) \in Nat
             /\ Len(pending'[u]) = Len(pending[u]) + Len(For(targets, u))
             /\ pending[u] \in Seq(Queued) /\ pending'[u] \in Seq(Queued')
             /\ \A i \in 1 .. Len(pending[u]) : pending'[u][i] = pending[u][i]
             /\ \A i \in Len(pending[u]) + 1 .. Len(pending'[u]) :
                     /\ pending'[u][i] \in Delivery
                     /\ pending'[u][i].batch = b
  BY <1>1, EnqueueQueues DEF Queues
<1>3. ASSUME NEW c, c # b PROVE Places(pending', OfBatch(c)) = Places(pending, OfBatch(c))
  <2>1. ASSUME NEW u \in Tabs
        PROVE  /\ Len(pending[u]) <= Len(pending'[u])
               /\ \A i \in 1 .. Len(pending[u]) : pending'[u][i] = pending[u][i]
               /\ \A i \in Len(pending[u]) + 1 .. Len(pending'[u]) :
                    pending'[u][i] \notin OfBatch(c)
    <3>1. Len(pending[u]) <= Len(pending'[u])
      BY <1>2
    <3> HIDE DEF b
    <3> QED
      BY <1>2, <1>3, <3>1 DEF OfBatch
  <2> QED
    BY <1>1, <2>1, PlacesSame
<1>4. Places(pending', OfBatch(b)) = Added(pending, targets)
  <2>1. ASSUME NEW u \in Tabs
        PROVE  Hits(pending'[u], OfBatch(b))
                  = Len(pending[u]) + 1 .. Len(pending[u]) + Len(For(targets, u))
    <3>1. DOMAIN pending'[u] = 1 .. Len(pending'[u])
      BY <1>2
    <3>2. \A i \in 1 .. Len(pending[u]) : pending'[u][i] \notin OfBatch(b)
      <4> SUFFICES ASSUME NEW i \in 1 .. Len(pending[u]) PROVE pending[u][i].batch # b
        BY <1>2 DEF OfBatch
      <4>1. pending[u][i] \in Queued
        BY <1>2
      <4> QED
        BY <4>1, <1>1 DEF Queued
    <3>3. \A i \in Len(pending[u]) + 1 .. Len(pending'[u]) : pending'[u][i] \in OfBatch(b)
      BY <1>2 DEF OfBatch
    <3>4. ASSUME NEW i PROVE i \in Hits(pending'[u], OfBatch(b))
                  <=> i \in Len(pending[u]) + 1 .. Len(pending[u]) + Len(For(targets, u))
      <4>1. /\ Len(pending'[u]) = Len(pending[u]) + Len(For(targets, u))
            /\ Len(For(targets, u)) \in Nat /\ Len(pending[u]) \in Nat
        BY <1>2
      <4>2. i \in 1 .. Len(pending'[u]) <=>
              i \in 1 .. Len(pending[u]) \/ i \in Len(pending[u]) + 1 .. Len(pending'[u])
        BY <4>1
      <4> HIDE DEF b
      <4>3. i \in Hits(pending'[u], OfBatch(b))
              <=> i \in 1 .. Len(pending'[u]) /\ pending'[u][i] \in OfBatch(b)
        BY <3>1 DEF Hits
      <4> QED
        BY <3>2, <3>3, <4>1, <4>2, <4>3
    <3> QED
      BY <3>4
  <2> QED
    BY <2>1, Zenon DEF Places, Added
<1>5. IsFiniteSet(Added(pending, targets)) /\ Cardinality(Added(pending, targets)) = Len(targets)
  BY <1>1, FanoutCount
<1>6. Len(targets) \in Nat /\ Len(targets) > 0
  OBVIOUS
<1>7. Places(pending', Delivery) = Places(pending, Delivery) \cup Added(pending, targets)
      /\ Places(pending, Delivery) \cap Added(pending, targets) = {}
  <2>1. ASSUME NEW u \in Tabs
        PROVE  /\ Hits(pending'[u], Delivery) = 1 .. Len(pending'[u])
               /\ Hits(pending[u], Delivery) = 1 .. Len(pending[u])
    <3>1. Queued \subseteq Delivery /\ Queued' \subseteq Delivery
      BY DEF Queued, Delivery
    <3>2. \A i \in 1 .. Len(pending[u]) : pending[u][i] \in Delivery
      BY <1>2, <3>1
    <3>3. \A i \in 1 .. Len(pending'[u]) : pending'[u][i] \in Delivery
      BY <1>2, <3>1
    <3>4. DOMAIN pending[u] = 1 .. Len(pending[u]) /\ DOMAIN pending'[u] = 1 .. Len(pending'[u])
      BY <1>2
    <3> QED
      BY <3>2, <3>3, <3>4 DEF Hits
  <2>2. ASSUME NEW u \in Tabs, NEW i
        PROVE  /\ i \in 1 .. Len(pending'[u]) <=>
                    \/ i \in 1 .. Len(pending[u])
                    \/ i \in Len(pending[u]) + 1 .. Len(pending[u]) + Len(For(targets, u))
               /\ ~ (/\ i \in 1 .. Len(pending[u])
                     /\ i \in Len(pending[u]) + 1 .. Len(pending[u]) + Len(For(targets, u)))
    BY <1>2
  <2>3. \A p : p \in Places(pending', Delivery) <=>
          \E u \in Tabs : p \in {u} \X (1 .. Len(pending'[u]))
    BY <2>1 DEF Places
  <2>4. \A p : p \in Places(pending, Delivery) <=>
          \E u \in Tabs : p \in {u} \X (1 .. Len(pending[u]))
    BY <2>1 DEF Places
  <2>5. \A p : p \in Added(pending, targets) <=>
          \E u \in Tabs : p \in {u} \X (Len(pending[u]) + 1 .. Len(pending[u]) + Len(For(targets, u)))
    BY DEF Added
  <2>6. ASSUME NEW p
        PROVE  p \in Places(pending', Delivery) <=>
                 p \in Places(pending, Delivery) \/ p \in Added(pending, targets)
    BY <2>2, <2>3, <2>4, <2>5
  <2>7. ASSUME NEW p \in Places(pending, Delivery), p \in Added(pending, targets) PROVE FALSE
    <3>1. PICK u \in Tabs : p \in {u} \X (1 .. Len(pending[u]))
      BY <2>4
    <3>2. PICK v \in Tabs : p \in {v} \X (Len(pending[v]) + 1 .. Len(pending[v]) + Len(For(targets, v)))
      BY <2>5, <2>7
    <3>3. p[1] = u /\ p[1] = v /\ p[2] \in 1 .. Len(pending[u])
          /\ p[2] \in Len(pending[v]) + 1 .. Len(pending[v]) + Len(For(targets, v))
      BY <3>1, <3>2
    <3>4. u = v
      BY <3>3
    <3> QED
      BY <2>2, <3>3, <3>4
  <2> QED
    BY <2>6, <2>7
<1>8. Cardinality(Places(pending', Delivery)) = Cardinality(Places(pending, Delivery)) + Len(targets)
  <2>1. IsFiniteSet(Places(pending, Delivery))
    BY <1>1, PlacesFinite
  <2> QED
    BY <1>5, <1>7, <2>1, DisjointCount
<1>9. /\ batches' = With(batches, b, new)
      /\ pendingBytes' = pendingBytes + size
      /\ pendingRecipients' = pendingRecipients + Len(targets)
  BY DEF Enqueue
<1>10. /\ DOMAIN batches' = DOMAIN batches \cup {b}
       /\ batches'[b] = new /\ b \notin DOMAIN batches
       /\ \A c \in DOMAIN batches : batches'[c] = batches[c]
  <2>1. b \notin DOMAIN batches
    BY <1>1 DEF BookShapes
  <2> HIDE DEF new, b
  <2> QED
    BY <2>1, <1>9 DEF With
<1>11. size \in Nat /\ new \in [size : Sizes, recipients : Nat] /\ new.size = size
       /\ new.recipients = Len(targets)
  BY <1>6, BroadcastAssumption
<1>12. /\ DOMAIN batches = {c \in 1 .. nextBatch : refs(c) > 0}
       /\ \A c \in DOMAIN batches : batches[c].recipients = refs(c)
       /\ pendingRecipients = Cardinality(Places(pending, Delivery))
       /\ pendingBytes = ByteCount(batches, DOMAIN batches)
  BY Accounts DEF ExactAccounting
<1>13. refsN(b) = Len(targets) /\ \A c : c # b => refsN(c) = refs(c)
  BY <1>3, <1>4, <1>5
<1>14. DOMAIN batches' = {c \in 1 .. b : refsN(c) > 0}
  <2>1. ASSUME NEW c PROVE c \in 1 .. b <=> c \in 1 .. nextBatch \/ c = b
    BY <1>1
  <2>2. b \notin 1 .. nextBatch
    BY <1>1
  <2> HIDE DEF b, refs, refsN
  <2>3. \A c : c \in DOMAIN batches' <=> c \in DOMAIN batches \/ c = b
    BY <1>10
  <2>4. \A c : c \in DOMAIN batches <=> c \in 1 .. nextBatch /\ refs(c) > 0
    BY <1>12
  <2>5. ASSUME NEW c PROVE c \in DOMAIN batches' <=> c \in 1 .. b /\ refsN(c) > 0
    BY <1>6, <1>13, <2>1, <2>2, <2>3, <2>4
  <2> QED
    BY <2>5
<1>15. \A c \in DOMAIN batches' : batches'[c].recipients = refsN(c)
  <2> HIDE DEF b, refs, refsN, new
  <2> QED
    BY <1>10, <1>11, <1>12, <1>13
<1>16. pendingBytes' = ByteCount(batches', DOMAIN batches') /\ pendingBytes' \in Nat
  <2> DEFINE D == DOMAIN batches \cup {b}
  <2>1. IsFiniteSet(D)
    <3>1. IsFiniteSet(1 .. nextBatch)
      BY <1>1, FS_Interval
    <3>2. IsFiniteSet(DOMAIN batches)
      BY <3>1, FS_Subset DEF BookShapes
    <3> QED
      BY <3>2, FS_AddElement
  <2>2. \A c \in D : batches'[c].size \in Nat
    <3>1. \A c \in DOMAIN batches : batches[c].size \in Nat
      BY BroadcastAssumption DEF BookShapes
    <3> HIDE DEF new, b
    <3> QED
      BY <1>10, <1>11, <3>1
  <2>3. DOMAIN batches \subseteq D /\ D \ DOMAIN batches = {b}
    <3> HIDE DEF b
    <3> QED
      BY <1>10
  <2>4. ByteCount(batches', D) = ByteCount(batches', DOMAIN batches) + ByteCount(batches', D \ DOMAIN batches)
    <3> HIDE DEF D
    <3> QED
      BY <2>1, <2>2, <2>3, ByteCountSplit
  <2>5. ByteCount(batches', DOMAIN batches) = ByteCount(batches, DOMAIN batches)
    BY <1>10, ByteCountSame
  <2>6. ByteCount(batches', {b}) = size
    <3>1. batches'[b].size = size
      BY <1>10, <1>11
    <3> HIDE DEF b
    <3> QED
      BY <3>1, <1>11, ByteCountOne
  <2>7. ByteCount(batches', D) = pendingBytes + size
    <3> HIDE DEF D, b
    <3> QED
      BY <2>3, <2>4, <2>5, <2>6, <1>12
  <2>8. pendingBytes + size \in Nat
    BY <1>11 DEF BookShapes
  <2>9. DOMAIN batches' = D
    BY <1>10
  <2> HIDE DEF D, b
  <2> QED
    BY <1>9, <2>7, <2>8, <2>9
<1>17. pendingRecipients' = Cardinality(Places(pending', Delivery)) /\ pendingRecipients' \in Nat
  <2>1. pendingRecipients \in Nat
    BY DEF BookShapes
  <2> QED
    BY <1>6, <1>8, <1>9, <1>12, <2>1
<1>18. ExactAccounting'
  <2>1. pendingBytes' = Bytes(DOMAIN batches)'
    BY <1>16, Accounts
  <2>2. ExactAccounting' = /\ DOMAIN batches' = {c \in 1 .. nextBatch' : refsN(c) > 0}
                           /\ \A c \in DOMAIN batches' : batches'[c].recipients = refsN(c)
                           /\ pendingRecipients' = Cardinality(Places(pending', Delivery))
                           /\ pendingBytes' = Bytes(DOMAIN batches)'
    BY DEF ExactAccounting, Places, Hits, OfBatch, Delivery
  <2> HIDE DEF refsN, b
  <2> QED
    BY <1>1, <1>14, <1>15, <1>17, <2>1, <2>2
<1>19. BookShapes'
  <2>1. pending' \in [Tabs -> Seq(Queued')]
    BY <1>1 DEF Queues
  <2>2. DOMAIN batches' \subseteq 1 .. nextBatch'
    BY <1>1, <1>14
  <2>3. \A c \in DOMAIN batches' : batches'[c] \in [size : Sizes, recipients : Nat]
    <3>1. \A c \in DOMAIN batches : batches[c] \in [size : Sizes, recipients : Nat]
      BY DEF BookShapes
    <3> HIDE DEF b, new
    <3> QED
      BY <1>10, <1>11, <3>1
  <2>4. nextBatch' \in Nat
    BY <1>1
  <2> HIDE DEF b
  <2> QED
    BY <1>16, <1>17, <2>1, <2>2, <2>3, <2>4 DEF BookShapes
<1>20. QueuesWithinLimits'
  <2>1. ASSUME NEW u \in Tabs PROVE Len(pending'[u]) <= MaxPending
    <3>1. Len(pending[u]) <= MaxPending
      BY DEF QueuesWithinLimits
    <3>2. For(targets, u) # <<>> => Len(pending[u]) + Len(For(targets, u)) <= MaxPending
      BY DEF Fits
    <3>3. For(targets, u) = <<>> => Len(For(targets, u)) = 0
      OBVIOUS
    <3> QED
      BY <1>2, <3>1, <3>2, <3>3
  <2>2. pendingRecipients' <= MaxRecipients /\ pendingBytes' <= MaxBytes
    BY <1>9 DEF Fits
  <2> QED
    BY <2>1, <2>2 DEF QueuesWithinLimits
<1> QED
  BY <1>18, <1>19, <1>20

(***************************************************************************)
(* The commands on their way.                                              *)
(***************************************************************************)

(* The smaller and the larger of two numbers. *)
LEMMA OneOfTwo ==
    ASSUME NEW a \in Int, NEW b \in Int
    PROVE  /\ Min({a, b}) \in {a, b} /\ Min({a, b}) <= a /\ Min({a, b}) <= b
           /\ Max({a, b}) \in {a, b} /\ Max({a, b}) >= a /\ Max({a, b}) >= b
PROOF
<1>1. \E x \in {a, b} : \A y \in {a, b} : x <= y
  OBVIOUS
<1>2. \E x \in {a, b} : \A y \in {a, b} : x >= y
  OBVIOUS
<1>3. Min({a, b}) \in {a, b} /\ \A y \in {a, b} : Min({a, b}) <= y
  BY <1>1 DEF Min
<1>4. Max({a, b}) \in {a, b} /\ \A y \in {a, b} : Max({a, b}) >= y
  BY <1>2 DEF Max
<1> QED
  BY <1>3, <1>4

(* The first n entries and the rest. *)
LEMMA CutInTwo ==
    ASSUME NEW A, NEW s \in Seq(A), NEW n \in 0 .. Len(s)
    PROVE  /\ SubSeq(s, 1, n) \in Seq(A) /\ Len(SubSeq(s, 1, n)) = n
           /\ SubSeq(s, n + 1, Len(s)) \in Seq(A)
           /\ Len(SubSeq(s, n + 1, Len(s))) = Len(s) - n
           /\ SubSeq(s, 1, n) \o SubSeq(s, n + 1, Len(s)) = s
PROOF
<1> DEFINE a == SubSeq(s, 1, n)
           b == SubSeq(s, n + 1, Len(s))
<1>1. Len(s) \in Nat /\ n \in Nat /\ n <= Len(s)
  OBVIOUS
<1>2. a \in Seq(A) /\ Len(a) = n /\ \A i \in 1 .. n : a[i] = s[i]
  BY <1>1
<1>3. b \in Seq(A) /\ Len(b) = Len(s) - n /\ \A i \in 1 .. Len(s) - n : b[i] = s[n + i]
  BY <1>1
<1>4. a \o b = s
  <2>1. n \in 0 .. Len(s) /\ 1 \in 1 .. Len(s) + 1 /\ Len(s) \in n .. Len(s) /\ n \in 1 - 1 .. Len(s)
    BY <1>1
  <2>2. SubSeq(s, 1, n) \o SubSeq(s, n + 1, Len(s)) = SubSeq(s, 1, Len(s))
    BY <2>1, ConcatAdjacentSubSeq, Zenon
  <2> QED
    BY <2>2, SubSeqFull
<1> QED
  BY <1>2, <1>3, <1>4 DEF a, b

(* Concatenation, appending and taking the head, as far as the proofs need *)
(* them.                                                                   *)
LEMMA ConcatTypes ==
    ASSUME NEW A, NEW r \in Seq(A), NEW s \in Seq(A), NEW t \in Seq(A)
    PROVE  /\ (r \o s) \o t = r \o (s \o t) /\ r \o s \o t \in Seq(A)
           /\ r \o <<>> = r /\ <<>> \o r = r
           /\ \A x \in A : Append(r, x) = r \o <<x>> /\ Append(r, x) \in Seq(A)
           /\ r # <<>> => /\ <<Head(r)>> \o Tail(r) = r
                          /\ Head(r) \in A /\ Tail(r) \in Seq(A)
PROOF
<1>1. (r \o s) \o t = r \o (s \o t)
  OBVIOUS
<1>2. r \o s \o t \in Seq(A)
  OBVIOUS
<1>3. r \o <<>> = r /\ <<>> \o r = r
  OBVIOUS
<1>4. \A x \in A : Append(r, x) = r \o <<x>> /\ Append(r, x) \in Seq(A)
  OBVIOUS
<1>5. r # <<>> => <<Head(r)>> \o Tail(r) = r
  OBVIOUS
<1>6. r # <<>> => Head(r) \in A /\ Tail(r) \in Seq(A)
  OBVIOUS
<1> QED
  BY <1>1, <1>2, <1>3, <1>4, <1>5, <1>6

(* The fields that a command has, by its operation. *)
LEMMA CommandParts ==
    ASSUME NEW c \in Command
    PROVE  /\ c.op \in {"open", "post", "close"} /\ c.doc \in Nat /\ c.id \in Nat
           /\ c.op = "open" => c.name \in Names
           /\ c.op = "post" => c.size \in Sizes
           /\ c \in PostsOf <=> c.op = "post"
PROOF
  BY DEF Command, PostsOf

(* One sequence of commands after another. *)
Commands == Seq(Command)
Then(p, q) == p \o q

(* Joining sequences of commands is associative. *)
LEMMA ThenAssociates ==
    /\ \A p, q \in Commands : Then(p, q) \in Commands
    /\ \A p, q, r \in Commands : Then(Then(p, q), r) = Then(p, Then(q, r))
PROOF
<1>1. ASSUME NEW p \in Commands, NEW q \in Commands PROVE Then(p, q) \in Commands
  BY DEF Commands, Then
<1>2. ASSUME NEW p \in Commands, NEW q \in Commands, NEW r \in Commands
      PROVE  Then(Then(p, q), r) = Then(p, Then(q, r))
  BY DEF Commands, Then
<1> QED
  BY <1>1, <1>2

(* The commands of a page, in the order in which they will be applied. *)
LEMMA StreamType ==
    ASSUME PipeShapes
    PROVE  /\ \A t \in Tabs : /\ turn[t] \in Seq(Command) /\ events[t] \in Seq(Command)
                              /\ out[t] \in Seq(Command) /\ Stream(t) \in Seq(Command)
           /\ Streams \in Queues(Command)
PROOF
<1>1. ASSUME NEW t \in Tabs
      PROVE  /\ turn[t] \in Seq(Command) /\ events[t] \in Seq(Command)
             /\ out[t] \in Seq(Command)
  BY DEF PipeShapes
<1>2. ASSUME NEW t \in Tabs PROVE Stream(t) \in Seq(Command)
  BY <1>1, ConcatTypes DEF Stream
<1> QED
  BY <1>1, <1>2 DEF Streams, Queues

(* A step that touches the queues of one tab. *)
Pipes(t) == \A u \in Tabs \ {t} : turn'[u] = turn[u] /\ events'[u] = events[u] /\ out'[u] = out[u]

(* A step of a tab changes no stream but its own. *)
LEMMA StreamReplaced ==
    ASSUME NEW t \in Tabs, Pipes(t)
    PROVE  /\ Replaces(Streams', Streams, t, Stream(t)')
           /\ \A u \in Tabs \ {t} : Stream(u)' = Stream(u)
PROOF
<1>1. \A u \in Tabs \ {t} : Stream(u)' = Stream(u)
  BY DEF Pipes, Stream
<1>2. Streams' = [u \in Tabs |-> Stream(u)'] /\ Streams = [u \in Tabs |-> Stream(u)]
  BY DEF Streams
<1>3. Streams' = [Streams EXCEPT ![t] = Stream(t)']
  <2> DEFINE s == Stream(t)'
             f == [u \in Tabs |-> Stream(u)']
  <2>1. \A u \in Tabs : f[u] = [Streams EXCEPT ![t] = s][u]
    BY <1>1, <1>2
  <2>2. f = Streams'
    BY <1>2
  <2>3. DOMAIN [Streams EXCEPT ![t] = s] = Tabs
    BY <1>2
  <2> QED
    BY <2>1, <2>2, <2>3, <1>2
<1> QED
  BY <1>1, <1>3 DEF Replaces

(* The page writes a command. *)
LEMMA StreamGrows ==
    ASSUME PipeShapes, NEW t \in Tabs, NEW cmd \in Command, Writes(t, cmd),
           UNCHANGED <<turn, events>>
    PROVE  Pipes(t) /\ Stream(t)' = Append(Stream(t), cmd)
PROOF
<1>1. out' = [out EXCEPT ![t] = Append(@, cmd)] /\ out \in [Tabs -> Seq(Command)]
  BY DEF Writes, PipeShapes
<1>2. out'[t] = Append(out[t], cmd) /\ \A u \in Tabs \ {t} : out'[u] = out[u]
  BY <1>1
<1>3. /\ out[t] \in Seq(Command) /\ turn[t] \in Seq(Command) /\ events[t] \in Seq(Command)
      /\ <<cmd>> \in Seq(Command)
  BY StreamType
<1> DEFINE p == turn[t]
           q == events[t]
           r == out[t]
           c == <<cmd>>
<1>4. Stream(t)' = p \o q \o (r \o c) /\ Stream(t) = p \o q \o r
  <2>1. Append(out[t], cmd) = r \o c
    BY <1>3, AppendIsConcat
  <2>2. out'[t] = r \o c
    BY <1>2, <2>1
  <2> QED
    BY <2>2 DEF Stream
<1> HIDE DEF p, q, r, c
<1>5. p \in Commands /\ q \in Commands /\ r \in Commands /\ c \in Commands
  BY <1>3 DEF p, q, r, c, Commands
<1>6. Stream(t)' = Then(Then(p, q), Then(r, c)) /\ Stream(t) = Then(Then(p, q), r)
  BY <1>4 DEF Then
<1>7. Stream(t)' = Then(Stream(t), c) /\ Stream(t) \in Commands
  BY <1>5, <1>6, ThenAssociates
<1>8. Stream(t)' = Append(Stream(t), cmd)
  BY <1>7, AppendIsConcat DEF c, Then, Commands
<1> QED
  BY <1>2, <1>8 DEF Pipes

(* The broker and the shell pass commands on. *)
LEMMA StreamMoves ==
    ASSUME PipeShapes, NEW t \in Tabs, EmitEvent(t) \/ Collect(t)
    PROVE  Pipes(t) /\ Stream(t)' = Stream(t)
PROOF
<1>1. /\ out[t] \in Seq(Command) /\ turn[t] \in Seq(Command) /\ events[t] \in Seq(Command)
  BY StreamType
<1>2. /\ out \in [Tabs -> Seq(Command)] /\ turn \in [Tabs -> Seq(Command)]
      /\ events \in [Tabs -> Seq(Command)]
  BY DEF PipeShapes
<1>3. CASE EmitEvent(t)
  <2>1. /\ out[t] # <<>> /\ out'[t] = Tail(out[t]) /\ events'[t] = Append(events[t], Head(out[t]))
        /\ turn' = turn
        /\ \A u \in Tabs \ {t} : out'[u] = out[u] /\ events'[u] = events[u]
    BY <1>2, <1>3 DEF EmitEvent, Reading, shell
  <2> DEFINE h == <<Head(out[t])>>
             r == Tail(out[t])
  <2>2. h \in Seq(Command) /\ r \in Seq(Command) /\ out[t] = h \o r
        /\ Append(events[t], Head(out[t])) = events[t] \o h
    BY <1>1, <2>1, ConcatTypes
  <2> DEFINE p == turn[t]
             q == events[t]
  <2>3. Stream(t)' = p \o (q \o h) \o r /\ Stream(t) = p \o q \o (h \o r)
    BY <2>1, <2>2 DEF Stream
  <2> HIDE DEF h, r, p, q
  <2>4. p \in Commands /\ q \in Commands /\ h \in Commands /\ r \in Commands
    BY <1>1, <2>2 DEF p, q, Commands
  <2>5. /\ Stream(t)' = Then(Then(p, Then(q, h)), r)
        /\ Stream(t) = Then(Then(p, q), Then(h, r))
    BY <2>3 DEF Then
  <2>6. Stream(t)' = Stream(t)
    BY <2>4, <2>5, ThenAssociates
  <2> QED
    BY <2>1, <2>6 DEF Pipes
<1>4. CASE Collect(t)
  <2> DEFINE n == Min({MaxTurn, Len(events[t])})
             a == SubSeq(events[t], 1, n)
             b == SubSeq(events[t], n + 1, Len(events[t]))
  <2>1. /\ turn[t] = <<>> /\ turn'[t] = a /\ events'[t] = b /\ out' = out
        /\ \A u \in Tabs \ {t} : turn'[u] = turn[u] /\ events'[u] = events[u]
    BY <1>2, <1>4 DEF Collect
  <2>2. n \in 0 .. Len(events[t])
    <3>1. MaxTurn \in Nat
      BY BroadcastAssumption
    <3>2. Len(events[t]) \in Nat
      BY <1>1
    <3> DEFINE m == Len(events[t])
    <3>3. m \in Nat
      BY <3>2
    <3> HIDE DEF m
    <3>4. MaxTurn \in Int /\ m \in Int
      BY <3>1, <3>3
    <3>5. Min({MaxTurn, m}) \in {MaxTurn, m} /\ Min({MaxTurn, m}) <= m
      BY <3>4, OneOfTwo
    <3> QED
      BY <3>1, <3>3, <3>5 DEF m
  <2> HIDE DEF n
  <2>3. a \in Seq(Command) /\ b \in Seq(Command) /\ a \o b = events[t]
    BY <1>1, <2>2, CutInTwo
  <2>4. Stream(t) = events[t] \o out[t] /\ Stream(t)' = a \o b \o out[t]
    BY <1>1, <2>1, ConcatEmptySeq DEF Stream
  <2> QED
    BY <2>1, <2>3, <2>4 DEF Pipes
<1> QED
  BY <1>3, <1>4

(* The shell has applied a command. *)
LEMMA StreamShrinks ==
    ASSUME PipeShapes, NEW t \in Tabs, ApplyCommand(t)
    PROVE  /\ Pipes(t) /\ turn[t] # <<>> /\ Head(turn[t]) \in Command
           /\ Stream(t) = <<Head(turn[t])>> \o Stream(t)'
           /\ Stream(t)' \in Seq(Command)
PROOF
<1>1. /\ out[t] \in Seq(Command) /\ turn[t] \in Seq(Command) /\ events[t] \in Seq(Command)
  BY StreamType
<1>2. /\ turn[t] # <<>> /\ turn'[t] = Tail(turn[t]) /\ events' = events /\ out' = out
      /\ \A u \in Tabs \ {t} : turn'[u] = turn[u]
  BY DEF ApplyCommand, PipeShapes
<1> DEFINE h == <<Head(turn[t])>>
           r == Tail(turn[t])
<1>3. h \in Seq(Command) /\ r \in Seq(Command) /\ turn[t] = h \o r /\ Head(turn[t]) \in Command
  BY <1>1, <1>2, ConcatTypes
<1>4. Stream(t)' = r \o events[t] \o out[t] /\ Stream(t) = h \o r \o events[t] \o out[t]
  BY <1>2, <1>3 DEF Stream
<1> DEFINE p == events[t]
           q == out[t]
<1>5. p \in Commands /\ q \in Commands /\ h \in Commands /\ r \in Commands
  BY <1>1, <1>3 DEF Commands
<1>6. Stream(t)' = Then(Then(r, p), q) /\ Stream(t) = Then(Then(Then(h, r), p), q)
  BY <1>4 DEF Then
<1> HIDE DEF h, r, p, q
<1>7. Stream(t) = Then(h, Stream(t)') /\ Stream(t)' \in Commands
  BY <1>5, <1>6, ThenAssociates
<1> QED
  BY <1>2, <1>3, <1>7 DEF Pipes, h, Then, Commands

(***************************************************************************)
(* Posts on their way.                                                     *)
(***************************************************************************)

PostsAhead == Cardinality(Places(Streams, PostsOf))

(* The posts on their way are finitely many. *)
LEMMA PostsAheadNat ==
    ASSUME PipeShapes
    PROVE  PostsAhead \in Nat
PROOF
<1>1. Streams \in Queues(Command)
  BY StreamType
<1> QED
  BY <1>1, PlacesFinite DEF PostsAhead

(* The posts ahead change as those of the tab whose queues change. *)
LEMMA PostsAheadStep ==
    ASSUME PipeShapes, PipeShapes', NEW t \in Tabs, Pipes(t), NEW k \in Int,
           Picked(Stream(t)', PostsOf) <= Picked(Stream(t), PostsOf) + k
    PROVE  /\ PostsAhead' <= PostsAhead + k
           /\ PostsAhead' \in Nat /\ PostsAhead \in Nat
PROOF
<1> DEFINE s == Stream(t)'
           a == Picked(s, PostsOf)
           b == Picked(Stream(t), PostsOf)
<1>1. s \in Seq(Command)
  <2>1. /\ out' \in [Tabs -> Seq(Command)] /\ turn' \in [Tabs -> Seq(Command)]
        /\ events' \in [Tabs -> Seq(Command)]
    BY DEF PipeShapes
  <2>2. out'[t] \in Seq(Command) /\ turn'[t] \in Seq(Command) /\ events'[t] \in Seq(Command)
    BY <2>1
  <2> QED
    BY <2>2, ConcatTypes DEF Stream
<1>2. Streams \in Queues(Command) /\ Stream(t) \in Seq(Command) /\ Streams[t] = Stream(t)
  BY StreamType DEF Streams
<1>3. Replaces(Streams', Streams, t, s)
  BY StreamReplaced
<1>4. a \in Nat /\ b \in Nat
  BY <1>1, <1>2, PickedNat
<1>5. PostsAhead \in Nat /\ PostsAhead' \in Nat
  <2>1. Streams' \in Queues(Command)
    BY <1>1, <1>2, <1>3 DEF Replaces, Queues
  <2>2. Cardinality(Places(Streams', PostsOf)) \in Nat
    BY <2>1, PlacesFinite
  <2> QED
    BY <2>2, PostsAheadNat DEF PostsAhead
<1>6. Cardinality(Places(Streams', PostsOf)) + Picked(Streams[t], PostsOf)
        = Cardinality(Places(Streams, PostsOf)) + Picked(s, PostsOf)
  <2> HIDE DEF s
  <2> QED
    BY <1>1, <1>2, <1>3, PlacesChange
<1>7. PostsAhead' + b = PostsAhead + a
  BY <1>2, <1>6 DEF PostsAhead
<1>8. a <= b + k
  OBVIOUS
<1> HIDE DEF a, b, s
<1> DEFINE x == PostsAhead'
           y == PostsAhead
<1>9. x \in Nat /\ y \in Nat /\ x + b = y + a
  BY <1>5, <1>7
<1> HIDE DEF x, y
<1>10. x <= y + k
  BY <1>4, <1>8, <1>9
<1> QED
  BY <1>5, <1>10 DEF x, y

(* The entries of interest of a concatenation are those of its halves. *)
LEMMA PickedConcat ==
    ASSUME NEW A, NEW p \in Seq(A), NEW q \in Seq(A), NEW S
    PROVE  Picked(p \o q, S) = Picked(p, S) + Picked(q, S)
PROOF
<1>1. Selection(p \o q, S) = Selection(p, S) \o Selection(q, S)
  BY SelectionConcat
<1>2. Selection(p, S) \in Seq(A \cap S) /\ Selection(q, S) \in Seq(A \cap S)
  BY SelectionType
<1>3. Len(Selection(p, S) \o Selection(q, S)) = Len(Selection(p, S)) + Len(Selection(q, S))
  BY <1>2
<1> QED
  BY <1>1, <1>3 DEF Picked

(* A single entry counts when it is of interest. *)
LEMMA PickedOne ==
    ASSUME NEW x, NEW S
    PROVE  Picked(<<x>>, S) = IF x \in S THEN 1 ELSE 0
PROOF
<1>1. Selection(<<x>>, S) = IF x \in S THEN <<x>> ELSE <<>>
  BY SelectionSingle
<1>2. Len(<<x>>) = 1 /\ Len(<<>>) = 0
  OBVIOUS
<1> QED
  BY <1>1, <1>2 DEF Picked

(* Appending an entry counts it when it is of interest. *)
LEMMA PickedAppend ==
    ASSUME NEW A, NEW p \in Seq(A), NEW x \in A, NEW S
    PROVE  Picked(Append(p, x), S) = Picked(p, S) + IF x \in S THEN 1 ELSE 0
PROOF
<1> DEFINE q == <<x>>
<1>1. Append(p, x) = p \o q /\ q \in Seq(A)
  BY AppendIsConcat
<1>2. Picked(q, S) = IF x \in S THEN 1 ELSE 0
  BY PickedOne
<1> HIDE DEF q
<1>3. Picked(p \o q, S) = Picked(p, S) + Picked(q, S)
  BY <1>1, PickedConcat
<1> QED
  BY <1>1, <1>2, <1>3

(***************************************************************************)
(* What the steps do to the types.                                         *)
(***************************************************************************)

Step(t) == Renderer(t) \/ Shell(t) \/ Page(t) \/ Fault(t) \/ Navigate(t)

books == <<pending, batches, nextBatch, pendingBytes, pendingRecipients>>

(* The steps of a tab, by name. *)
LEMMA StepCases ==
    ASSUME NEW t, Step(t)
    PROVE  \/ OpenChannel(t) \/ PostMessage(t) \/ CloseChannel(t)
           \/ Dispatch(t) \/ EmitEvent(t) \/ SendCommands(t) \/ BrokerExits(t)
           \/ Collect(t) \/ ApplyCommand(t) \/ PumpDeliveries(t) \/ FinishExit(t)
           \/ Crash(t) \/ Terminate(t) \/ Navigate(t) \/ RestartEncoding(t)
PROOF
  BY DEF Step, Renderer, Shell, Page, Fault

(* What the shell does when it applies a command. *)
LEMMA AppliedCases ==
    ASSUME NEW t, NEW cmd, Applied(t, cmd)
    PROVE  \/ /\ ~OwnsDocument(t, cmd)
              /\ UNCHANGED <<identity, channels, books, admitted>>
           \/ OwnsDocument(t, cmd) /\ Refused(t, cmd) /\ Contain(t)
           \/ /\ OwnsDocument(t, cmd) /\ ~Refused(t, cmd) /\ UNCHANGED identity
              /\ \/ cmd.op = "open" /\ ApplyOpen(t, cmd)
                 \/ cmd.op = "post" /\ ApplyPost(t, cmd)
                 \/ cmd.op = "close" /\ ApplyClose(t, cmd)
PROOF
  BY DEF Applied, books

(* The documents, the sessions and the origins. *)
LEMMA IdentityKept ==
    ASSUME IdentityShapes, NEW t \in Tabs, Step(t)
    PROVE  IdentityShapes'
PROOF
<1>1. CASE Navigate(t)
  <2>1. /\ doc' = [doc EXCEPT ![t] = @ + 1] /\ doc[t] < MaxDocs[t]
        /\ owned' = [owned EXCEPT ![t] = TRUE]
        /\ session' = [session EXCEPT ![t] = "running"]
        /\ \E o \in Origins : origin' = [origin EXCEPT ![t] = o]
    BY <1>1 DEF Navigate
  <2>2. doc[t] + 1 \in 1 .. Max({1, MaxDocs[t]})
    <3> DEFINE m == MaxDocs[t]
    <3>1. m \in Int /\ 1 \in Int
      BY BroadcastAssumption
    <3> HIDE DEF m
    <3>2. Max({1, m}) \in {1, m} /\ Max({1, m}) >= m
      BY <3>1, OneOfTwo
    <3>3. doc[t] \in Nat /\ doc[t] < m
      BY <2>1 DEF IdentityShapes, m
    <3>4. doc[t] + 1 \in 1 .. Max({1, m})
      BY <3>1, <3>2, <3>3
    <3> QED
      BY <3>4 DEF m
  <2>3. /\ doc' \in [Tabs -> Nat] /\ \A u \in Tabs : doc'[u] \in 1 .. Max({1, MaxDocs[u]})
    <3> DEFINE last(u) == Max({1, MaxDocs[u]})
    <3>1. doc \in [Tabs -> Nat] /\ \A u \in Tabs : doc[u] \in 1 .. last(u)
      BY DEF IdentityShapes
    <3>2. doc[t] + 1 \in 1 .. last(t)
      BY <2>2
    <3> HIDE DEF last
    <3>3. doc' \in [Tabs -> Nat] /\ \A u \in Tabs : doc'[u] \in 1 .. last(u)
      BY <2>1, <3>1, <3>2
    <3> QED
      BY <3>3 DEF last
  <2>4. owned' \in [Tabs -> BOOLEAN]
    BY <2>1 DEF IdentityShapes
  <2>5. session' \in [Tabs -> {"running", "ending", "gone", "none"}]
    BY <2>1 DEF IdentityShapes
  <2>6. origin' \in [Tabs -> Origins]
    BY <2>1 DEF IdentityShapes
  <2> QED
    BY <2>3, <2>4, <2>5, <2>6 DEF IdentityShapes
<1>2. CASE ~Navigate(t)
  <2>1. /\ doc' = doc /\ origin' = origin
        /\ owned' = owned \/ owned' = [owned EXCEPT ![t] = FALSE]
        /\ \/ session' = session
           \/ \E s \in {"ending", "gone", "none"} : session' = [session EXCEPT ![t] = s]
    <3>1. CASE OpenChannel(t) \/ PostMessage(t) \/ CloseChannel(t) \/ Dispatch(t)
               \/ EmitEvent(t) \/ SendCommands(t) \/ Collect(t) \/ RestartEncoding(t)
      BY <3>1 DEF OpenChannel, PostMessage, CloseChannel, Dispatch, EmitEvent, SendCommands,
                  Collect, RestartEncoding, identity
    <3>2. CASE Crash(t) \/ BrokerExits(t) \/ Terminate(t) \/ FinishExit(t)
      BY <3>2 DEF Crash, BrokerExits, Terminate, FinishExit
    <3>3. CASE ApplyCommand(t)
      BY <3>3, AppliedCases DEF ApplyCommand, Contain, identity
    <3>4. CASE PumpDeliveries(t)
      BY <3>4 DEF PumpDeliveries, TakeIf, Contain, identity
    <3> QED
      BY <1>2, <3>1, <3>2, <3>3, <3>4, StepCases
  <2>2. owned' \in [Tabs -> BOOLEAN]
    BY <2>1 DEF IdentityShapes
  <2>3. session' \in [Tabs -> {"running", "ending", "gone", "none"}]
    BY <2>1 DEF IdentityShapes
  <2> QED
    BY <2>1, <2>2, <2>3 DEF IdentityShapes
<1> QED
  BY <1>1, <1>2

(* The channels that the pages have open. *)
LEMMA PageKept ==
    ASSUME PageShapes, NEW t \in Tabs, Step(t)
    PROVE  PageShapes'
PROOF
<1> DEFINE Maps == UNION {[ids -> Names] : ids \in SUBSET Nat}
<1>1. CASE OpenChannel(t)
  <2>1. PICK n \in Names : page' = [page EXCEPT ![t] = With(@, used[t] + 1, n)]
    BY <1>1 DEF OpenChannel
  <2>2. /\ used' = [used EXCEPT ![t] = @ + 1] /\ used[t] < MaxIds[t] /\ posts' = posts
        /\ used[t] \in Nat /\ MaxIds[t] \in Nat
    BY <1>1, BroadcastAssumption DEF OpenChannel, PageShapes
  <2>3. /\ page[t] \in Maps /\ DOMAIN page[t] \subseteq 1 .. used[t]
        /\ page[t] \in [DOMAIN page[t] -> Names]
    BY DEF PageShapes
  <2>4. /\ With(page[t], used[t] + 1, n) \in [DOMAIN page[t] \cup {used[t] + 1} -> Names]
        /\ DOMAIN With(page[t], used[t] + 1, n) = DOMAIN page[t] \cup {used[t] + 1}
    BY <2>3 DEF With
  <2>5. DOMAIN page[t] \cup {used[t] + 1} \subseteq 1 .. used[t] + 1
    BY <2>2, <2>3
  <2>6. With(page[t], used[t] + 1, n) \in Maps
    <3>1. DOMAIN page[t] \cup {used[t] + 1} \in SUBSET Nat
      BY <2>2, <2>5
    <3> QED
      BY <2>4, <3>1
  <2>7. page' \in [Tabs -> Maps]
    BY <2>1, <2>6 DEF PageShapes
  <2>8. \A u \in Tabs : DOMAIN page'[u] \subseteq 1 .. used'[u]
    BY <2>1, <2>2, <2>4, <2>5 DEF PageShapes
  <2>9. used' \in [Tabs -> Nat] /\ \A u \in Tabs : used'[u] <= MaxIds[u]
    BY <2>2 DEF PageShapes
  <2> QED
    BY <2>2, <2>7, <2>8, <2>9 DEF PageShapes
<1>2. CASE CloseChannel(t)
  <2>1. PICK id \in DOMAIN page[t] : page' = [page EXCEPT ![t] = Restrict(@, DOMAIN @ \ {id})]
    BY <1>2 DEF CloseChannel
  <2>2. /\ page[t] \in Maps /\ DOMAIN page[t] \subseteq 1 .. used[t]
        /\ page[t] \in [DOMAIN page[t] -> Names] /\ used[t] \in Nat
    BY DEF PageShapes
  <2>3. /\ Restrict(page[t], DOMAIN page[t] \ {id}) \in [DOMAIN page[t] \ {id} -> Names]
        /\ DOMAIN Restrict(page[t], DOMAIN page[t] \ {id}) = DOMAIN page[t] \ {id}
    BY <2>2 DEF Restrict
  <2>4. Restrict(page[t], DOMAIN page[t] \ {id}) \in Maps
    <3>1. DOMAIN page[t] \ {id} \in SUBSET Nat
      BY <2>2
    <3> QED
      BY <2>3, <3>1
  <2>5. page' \in [Tabs -> Maps]
    BY <2>1, <2>4 DEF PageShapes
  <2>6. \A u \in Tabs : DOMAIN page'[u] \subseteq 1 .. used[u]
    BY <2>1, <2>2, <2>3 DEF PageShapes
  <2> QED
    BY <1>2, <2>5, <2>6 DEF PageShapes, CloseChannel
<1>3. CASE PostMessage(t)
  <2>1. posts' = posts + 1 /\ posts < MaxPosts /\ page' = page /\ used' = used
    BY <1>3 DEF PostMessage
  <2>2. posts' \in Nat /\ posts' <= MaxPosts
    BY <2>1, BroadcastAssumption DEF PageShapes
  <2> QED
    BY <2>1, <2>2 DEF PageShapes
<1>4. CASE Navigate(t) \/ RestartEncoding(t)
  <2>1. /\ page' = [page EXCEPT ![t] = << >>] /\ used' = [used EXCEPT ![t] = 0] /\ posts' = posts
    BY <1>4 DEF Navigate, RestartEncoding
  <2>2. << >> \in Maps /\ DOMAIN << >> = {}
    <3>1. << >> \in [{} -> Names] /\ {} \in SUBSET Nat
      OBVIOUS
    <3> QED
      BY <3>1
  <2>3. page' \in [Tabs -> Maps]
    BY <2>1, <2>2 DEF PageShapes
  <2>4. used' \in [Tabs -> Nat] /\ \A u \in Tabs : used'[u] <= MaxIds[u]
    <3>1. used \in [Tabs -> Nat] /\ \A u \in Tabs : used[u] <= MaxIds[u]
      BY DEF PageShapes
    <3>2. 0 <= MaxIds[t]
      BY BroadcastAssumption
    <3> QED
      BY <2>1, <3>1, <3>2
  <2>5. \A u \in Tabs : DOMAIN page'[u] \subseteq 1 .. used'[u]
    BY <2>1, <2>2 DEF PageShapes
  <2> QED
    BY <2>1, <2>3, <2>4, <2>5 DEF PageShapes
<1>5. CASE UNCHANGED <<page, used, posts>>
  BY <1>5 DEF PageShapes
<1>6. UNCHANGED <<page, used, posts>> \/ OpenChannel(t) \/ CloseChannel(t) \/ PostMessage(t)
         \/ Navigate(t) \/ RestartEncoding(t)
  BY StepCases DEF Dispatch, EmitEvent, SendCommands, BrokerExits, Collect, ApplyCommand,
                   PumpDeliveries, FinishExit, Crash, Terminate, child
<1> QED
  BY <1>1, <1>2, <1>3, <1>4, <1>5, <1>6

(* Whether a document runs in a second realm: only its own navigation and  *)
(* restart decide.                                                         *)
LEMMA RealmSteps ==
    ASSUME RealmShapes, NEW t \in Tabs, Step(t)
    PROVE  /\ \A u \in Tabs \ {t} : restarted'[u] = restarted[u]
           /\ ~Navigate(t) /\ ~RestartEncoding(t) => restarted' = restarted
           /\ RestartEncoding(t) => restarted'[t]
           /\ RealmShapes'
PROOF
<1>1. CASE Navigate(t)
  <2>1. restarted' = [restarted EXCEPT ![t] = FALSE]
    BY <1>1 DEF Navigate
  <2>2. ~RestartEncoding(t)
    <3>1. SUFFICES ASSUME RestartEncoding(t) PROVE FALSE
      OBVIOUS
    <3>2. restarted' = [restarted EXCEPT ![t] = TRUE]
      BY <3>1 DEF RestartEncoding
    <3> QED
      BY <2>1, <3>2 DEF RealmShapes
  <2> QED
    BY <1>1, <2>1, <2>2 DEF RealmShapes
<1>2. CASE RestartEncoding(t)
  BY <1>2 DEF RestartEncoding, RealmShapes
<1>3. CASE ~Navigate(t) /\ ~RestartEncoding(t)
  <2>1. restarted' = restarted
    BY <1>3, StepCases DEF OpenChannel, PostMessage, CloseChannel, Dispatch, EmitEvent,
       SendCommands, BrokerExits, Collect, ApplyCommand, PumpDeliveries, FinishExit, Crash,
       Terminate, child
  <2> QED
    BY <1>3, <2>1 DEF RealmShapes
<1> QED
  BY <1>1, <1>2, <1>3

(* What a page writes is a command. *)
LEMMA WritesCommand ==
    ASSUME IdentityShapes, PageShapes, NEW t \in Tabs,
           OpenChannel(t) \/ PostMessage(t) \/ CloseChannel(t)
    PROVE  \E cmd \in Command :
             /\ Writes(t, cmd) /\ UNCHANGED <<turn, events, left, session>>
             /\ cmd.doc = doc[t] /\ Runs(t)
             /\ cmd.op = "post" => posts' = posts + 1
             /\ cmd.op # "post" => posts' = posts
PROOF
<1>1. doc[t] \in Nat /\ used[t] + 1 \in Nat /\ DOMAIN page[t] \subseteq Nat
  <2>1. doc[t] \in Nat
    BY DEF IdentityShapes
  <2>2. used[t] \in Nat /\ DOMAIN page[t] \subseteq 1 .. used[t]
    BY DEF PageShapes
  <2> QED
    BY <2>1, <2>2
<1>2. CASE OpenChannel(t)
  <2>1. PICK n \in Names :
          Writes(t, [op |-> "open", doc |-> doc[t], id |-> used[t] + 1, name |-> n])
    BY <1>2 DEF OpenChannel
  <2> DEFINE cmd == [op |-> "open", doc |-> doc[t], id |-> used[t] + 1, name |-> n]
  <2>2. cmd \in Command /\ cmd.op = "open" /\ cmd.doc = doc[t]
    BY <1>1 DEF Command
  <2>3. UNCHANGED <<turn, events, left, session, posts>> /\ Runs(t)
    BY <1>2 DEF OpenChannel, shell, identity
  <2> QED
    BY <2>1, <2>2, <2>3
<1>3. CASE PostMessage(t)
  <2>1. PICK id \in DOMAIN page[t], s \in Sizes :
          Writes(t, [op |-> "post", doc |-> doc[t], id |-> id, size |-> s])
    BY <1>3 DEF PostMessage
  <2> DEFINE cmd == [op |-> "post", doc |-> doc[t], id |-> id, size |-> s]
  <2>2. cmd \in Command /\ cmd.op = "post" /\ cmd.doc = doc[t]
    BY <1>1 DEF Command
  <2>3. UNCHANGED <<turn, events, left, session>> /\ Runs(t) /\ posts' = posts + 1
    BY <1>3 DEF PostMessage, shell, identity
  <2> QED
    BY <2>1, <2>2, <2>3
<1>4. CASE CloseChannel(t)
  <2>1. PICK id \in DOMAIN page[t] : Writes(t, [op |-> "close", doc |-> doc[t], id |-> id])
    BY <1>4 DEF CloseChannel
  <2> DEFINE cmd == [op |-> "close", doc |-> doc[t], id |-> id]
  <2>2. cmd \in Command /\ cmd.op = "close" /\ cmd.doc = doc[t]
    BY <1>1 DEF Command
  <2>3. UNCHANGED <<turn, events, left, session, posts>> /\ Runs(t)
    BY <1>4 DEF CloseChannel, shell, identity
  <2> QED
    BY <2>1, <2>2, <2>3
<1> QED
  BY <1>2, <1>3, <1>4

(* The queues of commands. *)
LEMMA PipesKept ==
    ASSUME IdentityShapes, PageShapes, PipeShapes, NEW t \in Tabs, Step(t)
    PROVE  PipeShapes'
PROOF
<1>1. /\ out \in [Tabs -> Seq(Command)] /\ events \in [Tabs -> Seq(Command)]
      /\ turn \in [Tabs -> Seq(Command)] /\ left \in [Tabs -> 0 .. MaxMessages]
      /\ out[t] \in Seq(Command) /\ events[t] \in Seq(Command) /\ turn[t] \in Seq(Command)
      /\ left[t] \in 0 .. MaxMessages /\ MaxMessages \in Nat /\ MaxEvents \in Nat \ {0}
      /\ \A u \in Tabs : Len(events[u]) <= MaxEvents
      /\ \A u \in Tabs : session[u] = "none" => turn[u] = <<>> /\ events[u] = <<>>
  BY BroadcastAssumption DEF PipeShapes
<1>2. session \in [Tabs -> {"running", "ending", "gone", "none"}]
  BY DEF IdentityShapes
<1>3. CASE OpenChannel(t) \/ PostMessage(t) \/ CloseChannel(t)
  <2>1. PICK cmd \in Command : Writes(t, cmd) /\ UNCHANGED <<turn, events, left, session>>
    BY <1>3, WritesCommand
  <2>2. out' \in [Tabs -> Seq(Command)]
    BY <1>1, <2>1, ConcatTypes DEF Writes
  <2> QED
    BY <1>1, <2>1, <2>2 DEF PipeShapes
<1>4. CASE EmitEvent(t)
  <2>1. /\ out[t] # <<>> /\ left[t] > 0 /\ Len(events[t]) < MaxEvents
        /\ session[t] # "none" /\ session' = session /\ turn' = turn
        /\ events' = [events EXCEPT ![t] = Append(@, Head(out[t]))]
        /\ out' = [out EXCEPT ![t] = Tail(@)]
        /\ left' = [left EXCEPT ![t] = @ - 1]
    BY <1>4 DEF EmitEvent, Reading, identity, shell
  <2>2. Head(out[t]) \in Command /\ Tail(out[t]) \in Seq(Command)
    BY <1>1, <2>1, ConcatTypes
  <2>3. /\ Append(events[t], Head(out[t])) \in Seq(Command)
        /\ Len(Append(events[t], Head(out[t]))) = Len(events[t]) + 1
    BY <1>1, <2>2, AppendProperties
  <2>4. out' \in [Tabs -> Seq(Command)] /\ events' \in [Tabs -> Seq(Command)]
    BY <1>1, <2>1, <2>2, <2>3
  <2>5. left' \in [Tabs -> 0 .. MaxMessages]
    BY <1>1, <2>1
  <2>6. \A u \in Tabs : Len(events'[u]) <= MaxEvents
    <3>1. Len(events[t]) \in Nat
      BY <1>1
    <3>2. Len(events[t]) + 1 <= MaxEvents
      BY <1>1, <2>1, <3>1
    <3> QED
      BY <1>1, <2>1, <2>3, <3>2
  <2>7. \A u \in Tabs : session'[u] = "none" => turn'[u] = <<>> /\ events'[u] = <<>>
    BY <1>1, <2>1
  <2> QED
    BY <1>1, <2>1, <2>4, <2>5, <2>6, <2>7 DEF PipeShapes
<1>5. CASE Collect(t)
  <2> DEFINE n == Min({MaxTurn, Len(events[t])})
             a == SubSeq(events[t], 1, n)
             b == SubSeq(events[t], n + 1, Len(events[t]))
  <2>1. /\ turn' = [turn EXCEPT ![t] = a] /\ events' = [events EXCEPT ![t] = b]
        /\ out' = out /\ left' = left /\ session' = session /\ session[t] # "none"
    BY <1>5 DEF Collect, identity
  <2>2. n \in 0 .. Len(events[t])
    <3>1. MaxTurn \in Nat
      BY BroadcastAssumption
    <3>2. Len(events[t]) \in Nat
      BY <1>1
    <3> DEFINE m == Len(events[t])
    <3>3. m \in Nat
      BY <3>2
    <3> HIDE DEF m
    <3>4. MaxTurn \in Int /\ m \in Int
      BY <3>1, <3>3
    <3>5. Min({MaxTurn, m}) \in {MaxTurn, m} /\ Min({MaxTurn, m}) <= m
      BY <3>4, OneOfTwo
    <3> QED
      BY <3>1, <3>3, <3>5 DEF m
  <2> HIDE DEF n
  <2>3. a \in Seq(Command) /\ b \in Seq(Command) /\ Len(b) = Len(events[t]) - n
    BY <1>1, <2>2, CutInTwo
  <2>4. Len(b) <= MaxEvents
    <3>1. Len(events[t]) \in Nat
      BY <1>1
    <3> QED
      BY <1>1, <2>2, <2>3, <3>1
  <2> HIDE DEF a, b
  <2>5. turn' \in [Tabs -> Seq(Command)] /\ events' \in [Tabs -> Seq(Command)]
    BY <1>1, <2>1, <2>3
  <2>6. \A u \in Tabs : Len(events'[u]) <= MaxEvents
    BY <1>1, <2>1, <2>4
  <2>7. \A u \in Tabs : session'[u] = "none" => turn'[u] = <<>> /\ events'[u] = <<>>
    BY <1>1, <2>1
  <2> QED
    BY <1>1, <2>1, <2>5, <2>6, <2>7 DEF PipeShapes
<1>6. CASE ApplyCommand(t)
  <2>1. /\ turn[t] # <<>> /\ turn' = [turn EXCEPT ![t] = Tail(@)]
        /\ out' = out /\ left' = left /\ events' = events /\ session' = session
    BY <1>6, AppliedCases DEF ApplyCommand, identity, Contain
  <2>2. turn' \in [Tabs -> Seq(Command)]
    BY <1>1, <2>1, ConcatTypes
  <2>3. \A u \in Tabs : session'[u] = "none" => turn'[u] = <<>> /\ events'[u] = <<>>
    BY <1>1, <2>1
  <2> QED
    BY <1>1, <2>1, <2>2, <2>3 DEF PipeShapes
<1>7. CASE Navigate(t)
  <2>1. /\ out' = [out EXCEPT ![t] = << >>] /\ left' = [left EXCEPT ![t] = MaxMessages]
        /\ events' = [events EXCEPT ![t] = << >>] /\ turn' = [turn EXCEPT ![t] = << >>]
        /\ session' = [session EXCEPT ![t] = "running"]
    BY <1>7 DEF Navigate
  <2>2. << >> \in Seq(Command) /\ Len(<< >>) = 0
    OBVIOUS
  <2>3. /\ turn' \in [Tabs -> Seq(Command)] /\ events' \in [Tabs -> Seq(Command)]
        /\ out' \in [Tabs -> Seq(Command)] /\ left' \in [Tabs -> 0 .. MaxMessages]
    BY <1>1, <2>1, <2>2
  <2>4. \A u \in Tabs : Len(events'[u]) <= MaxEvents
    BY <1>1, <2>1, <2>2
  <2>5. \A u \in Tabs : session'[u] = "none" => turn'[u] = <<>> /\ events'[u] = <<>>
    BY <1>1, <1>2, <2>1
  <2> QED
    BY <2>3, <2>4, <2>5 DEF PipeShapes
<1>8. CASE Dispatch(t) \/ SendCommands(t) \/ BrokerExits(t) \/ PumpDeliveries(t)
           \/ FinishExit(t) \/ Crash(t) \/ Terminate(t) \/ RestartEncoding(t)
  <2>1. /\ turn' = turn /\ events' = events
        /\ out' = out \/ out' = [out EXCEPT ![t] = << >>]
        /\ left' = left \/ left' = [left EXCEPT ![t] = MaxMessages]
        /\ \/ session' = session
           \/ \E s \in {"ending", "gone"} : session' = [session EXCEPT ![t] = s]
           \/ /\ session' = [session EXCEPT ![t] = "none"]
              /\ turn[t] = <<>> /\ events[t] = <<>>
    BY <1>8 DEF Dispatch, SendCommands, BrokerExits, PumpDeliveries, TakeIf, Contain,
                FinishExit, Crash, Terminate, RestartEncoding, identity, shell
  <2>2. out' \in [Tabs -> Seq(Command)] /\ left' \in [Tabs -> 0 .. MaxMessages]
    <3>1. out' \in [Tabs -> Seq(Command)]
      <4>1. << >> \in Seq(Command)
        OBVIOUS
      <4>2. out' = out \/ out' = [out EXCEPT ![t] = << >>]
        BY <2>1
      <4> QED
        BY <1>1, <4>1, <4>2
    <3>2. left' \in [Tabs -> 0 .. MaxMessages]
      <4> DEFINE L == 0 .. MaxMessages
      <4>1. left' = left \/ left' = [left EXCEPT ![t] = MaxMessages]
        BY <2>1
      <4>2. MaxMessages \in L /\ left \in [Tabs -> L]
        BY <1>1
      <4> HIDE DEF L
      <4>3. left' \in [Tabs -> L]
        BY <4>1, <4>2
      <4> QED
        BY <4>3 DEF L
    <3> QED
      BY <3>1, <3>2
  <2>3. \A u \in Tabs : session'[u] = "none" => turn'[u] = <<>> /\ events'[u] = <<>>
    BY <1>1, <1>2, <2>1
  <2> QED
    BY <1>1, <2>1, <2>2, <2>3 DEF PipeShapes
<1> QED
  BY <1>3, <1>4, <1>5, <1>6, <1>7, <1>8, StepCases

(* The deliveries on their way to the pages: what is queued for a tab is   *)
(* of a batch, and there are no more batches than posts.                   *)
LEMMA DeliveriesKept ==
    ASSUME DeliveryShapes, PageShapes, BookShapes, nextBatch <= posts,
           NEW t \in Tabs, Step(t)
    PROVE  DeliveryShapes'
PROOF
<1>1. /\ commands \in [Tabs -> Seq(Deliveries)] /\ inbox \in [Tabs -> Seq(Deliveries)]
      /\ log \in [Tabs -> Seq(Deliveries)] /\ \A u \in Tabs : Len(commands[u]) <= MaxCommands
      /\ commands[t] \in Seq(Deliveries) /\ inbox[t] \in Seq(Deliveries)
      /\ log[t] \in Seq(Deliveries) /\ Len(commands[t]) \in Nat
      /\ MaxCommands \in Nat \ {0} /\ << >> \in Seq(Deliveries) /\ Len(<< >>) = 0
  BY BroadcastAssumption DEF DeliveryShapes
<1>2. CASE Dispatch(t)
  <2>1. /\ inbox[t] # <<>> /\ inbox' = [inbox EXCEPT ![t] = Tail(@)] /\ commands' = commands
        /\ log' = log \/ log' = [log EXCEPT ![t] = Append(@, Head(inbox[t]))]
    BY <1>2 DEF Dispatch
  <2>2. Head(inbox[t]) \in Deliveries /\ Tail(inbox[t]) \in Seq(Deliveries)
    BY <1>1, <2>1, ConcatTypes
  <2>3. Append(log[t], Head(inbox[t])) \in Seq(Deliveries)
    BY <1>1, <2>2, ConcatTypes
  <2>4. inbox' \in [Tabs -> Seq(Deliveries)]
    BY <1>1, <2>1, <2>2
  <2>5. log' \in [Tabs -> Seq(Deliveries)]
    <3>1. log' = log \/ log' = [log EXCEPT ![t] = Append(@, Head(inbox[t]))]
      BY <2>1
    <3> QED
      BY <1>1, <2>3, <3>1
  <2> QED
    BY <1>1, <2>1, <2>4, <2>5 DEF DeliveryShapes
<1>3. CASE SendCommands(t)
  <2> DEFINE n == Min({Len(commands[t]), Max({0, MaxCommands - Len(inbox[t])})})
             a == SubSeq(commands[t], 1, n)
             b == SubSeq(commands[t], n + 1, Len(commands[t]))
  <2>1. /\ commands' = [commands EXCEPT ![t] = b]
        /\ inbox' = [inbox EXCEPT ![t] = @ \o a] /\ log' = log
    BY <1>3 DEF SendCommands, child
  <2>2. n \in 0 .. Len(commands[t])
    <3> DEFINE l == Len(commands[t])
               m == MaxCommands - Len(inbox[t])
    <3>1. l \in Nat /\ m \in Int /\ 0 \in Int
      BY <1>1
    <3> HIDE DEF l, m
    <3>2. Max({0, m}) \in {0, m} /\ Max({0, m}) >= 0
      BY <3>1, OneOfTwo, Zenon
    <3> DEFINE k == Max({0, m})
    <3>3. k \in Int /\ l \in Int /\ k >= 0
      BY <3>1, <3>2
    <3> HIDE DEF k
    <3>4. Min({l, k}) \in {l, k} /\ Min({l, k}) <= l
      BY <3>3, OneOfTwo
    <3>5. Min({l, k}) \in 0 .. l
      BY <3>1, <3>3, <3>4
    <3> QED
      BY <3>5 DEF k, l, m
  <2> HIDE DEF n
  <2>3. a \in Seq(Deliveries) /\ b \in Seq(Deliveries) /\ Len(b) = Len(commands[t]) - n
    BY <1>1, <2>2, CutInTwo
  <2>4. Len(b) <= MaxCommands
    BY <1>1, <2>2, <2>3
  <2> HIDE DEF a, b
  <2>5. inbox[t] \o a \in Seq(Deliveries)
    BY <1>1, <2>3, ConcatProperties
  <2>6. commands' \in [Tabs -> Seq(Deliveries)] /\ inbox' \in [Tabs -> Seq(Deliveries)]
    BY <1>1, <2>1, <2>3, <2>5
  <2>7. \A u \in Tabs : Len(commands'[u]) <= MaxCommands
    BY <1>1, <2>1, <2>4
  <2> QED
    BY <1>1, <2>1, <2>6, <2>7 DEF DeliveryShapes
<1>4. CASE BrokerExits(t) \/ Navigate(t)
  <2>1. /\ commands' = [commands EXCEPT ![t] = << >>] /\ inbox' = [inbox EXCEPT ![t] = << >>]
        /\ log' = log \/ log' = [log EXCEPT ![t] = << >>]
    BY <1>4 DEF BrokerExits, Navigate, child
  <2>2. commands' \in [Tabs -> Seq(Deliveries)] /\ inbox' \in [Tabs -> Seq(Deliveries)]
    BY <1>1, <2>1
  <2>3. log' \in [Tabs -> Seq(Deliveries)]
    <3>1. log' = log \/ log' = [log EXCEPT ![t] = << >>]
      BY <2>1
    <3> QED
      BY <1>1, <3>1
  <2>4. \A u \in Tabs : Len(commands'[u]) <= MaxCommands
    BY <1>1, <2>1
  <2> QED
    BY <2>2, <2>3, <2>4 DEF DeliveryShapes
<1>5. CASE TakeIf(t) /\ UNCHANGED <<inbox, log>>
  <2>1. /\ pending[t] # <<>> /\ Len(commands[t]) < MaxCommands
        /\ commands' = [commands EXCEPT ![t] = Append(@, Head(pending[t]))]
    BY <1>5 DEF TakeIf
  <2>2. Head(pending[t]) \in Deliveries
    <3>1. pending[t] \in Seq(Queued)
      BY DEF BookShapes
    <3>2. Head(pending[t]) \in Queued
      BY <2>1, <3>1, ConcatTypes
    <3>3. nextBatch \in Nat /\ nextBatch <= MaxPosts
      BY BroadcastAssumption DEF PageShapes, BookShapes
    <3> QED
      BY <3>2, <3>3, BroadcastAssumption DEF Queued, Deliveries
  <2>3. /\ Append(commands[t], Head(pending[t])) \in Seq(Deliveries)
        /\ Len(Append(commands[t], Head(pending[t]))) = Len(commands[t]) + 1
    BY <1>1, <2>2, AppendProperties
  <2>4. Len(commands[t]) + 1 <= MaxCommands
    BY <1>1, <2>1
  <2>5. commands' \in [Tabs -> Seq(Deliveries)]
    BY <1>1, <2>1, <2>3
  <2>6. \A u \in Tabs : Len(commands'[u]) <= MaxCommands
    BY <1>1, <2>1, <2>3, <2>4
  <2> QED
    BY <1>1, <1>5, <2>5, <2>6 DEF DeliveryShapes
<1>6. CASE UNCHANGED <<commands, inbox, log>>
  BY <1>6 DEF DeliveryShapes
<1>8. CASE RestartEncoding(t)
  BY <1>1, <1>8 DEF DeliveryShapes, RestartEncoding
<1>7. \/ Dispatch(t) \/ SendCommands(t) \/ BrokerExits(t) \/ Navigate(t)
      \/ RestartEncoding(t)
      \/ TakeIf(t) /\ UNCHANGED <<inbox, log>>
      \/ UNCHANGED <<commands, inbox, log>>
  BY StepCases DEF OpenChannel, PostMessage, CloseChannel, EmitEvent, Collect, ApplyCommand,
                   PumpDeliveries, FinishExit, Crash, Terminate, child
<1> QED
  BY <1>2, <1>3, <1>4, <1>5, <1>6, <1>7, <1>8

(***************************************************************************)
(* What the steps do to the registry.                                      *)
(***************************************************************************)

(* The shell applies a command that the registry accepts. *)
Accepts(t, cmd) ==
    /\ OwnsDocument(t, cmd) /\ ~Refused(t, cmd) /\ UNCHANGED identity
    /\ \/ cmd.op = "open" /\ ApplyOpen(t, cmd)
       \/ cmd.op = "post" /\ ApplyPost(t, cmd)
       \/ cmd.op = "close" /\ ApplyClose(t, cmd)

(* What a step can do to the registry and the record of admissions:        *)
(* nothing, retire a tab, hand out its deliveries, or apply an accepted    *)
(* command.                                                                *)
LEMMA RegistrySteps ==
    ASSUME NEW t \in Tabs, Step(t)
    PROVE  \/ UNCHANGED <<books, channels, admitted>>
           \/ RetireTab(t) /\ UNCHANGED admitted
           \/ TakeIf(t)
           \/ ApplyCommand(t) /\ Accepts(t, Head(turn[t]))
PROOF
<1>1. CASE OpenChannel(t) \/ PostMessage(t) \/ CloseChannel(t)
  BY <1>1 DEF OpenChannel, PostMessage, CloseChannel, shell, books
<1>2. CASE Dispatch(t) \/ EmitEvent(t) \/ SendCommands(t) \/ BrokerExits(t) \/ Collect(t)
           \/ Crash(t) \/ RestartEncoding(t)
  BY <1>2 DEF Dispatch, EmitEvent, SendCommands, BrokerExits, Collect, Crash, RestartEncoding,
              shell, books
<1>3. CASE Terminate(t) \/ FinishExit(t) \/ Navigate(t)
  BY <1>3 DEF Terminate, FinishExit, Navigate
<1>4. CASE PumpDeliveries(t)
  BY <1>4 DEF PumpDeliveries, Contain
<1>5. CASE ApplyCommand(t)
  BY <1>5, AppliedCases DEF ApplyCommand, Contain, Accepts
<1> QED
  BY <1>1, <1>2, <1>3, <1>4, <1>5, StepCases

(* Nothing is queued or released. *)
LEMMA BooksSame ==
    ASSUME BookShapes, ExactAccounting, QueuesWithinLimits, UNCHANGED books
    PROVE  BookShapes' /\ ExactAccounting' /\ QueuesWithinLimits'
PROOF
<1>1. /\ pending' = pending /\ batches' = batches /\ nextBatch' = nextBatch
      /\ pendingBytes' = pendingBytes /\ pendingRecipients' = pendingRecipients
  BY DEF books
<1>2. BookShapes'
  BY <1>1 DEF BookShapes, Queued
<1>3. ExactAccounting'
  BY <1>1 DEF ExactAccounting, Bytes
<1>4. QueuesWithinLimits'
  BY <1>1 DEF QueuesWithinLimits
<1> QED
  BY <1>2, <1>3, <1>4

(* The targets of a post are channels. *)
LEMMA TargetsType ==
    ASSUME RegistryShapes, NEW t, NEW id
    PROVE  Targets(t, id) \in Seq(Channel)
PROOF
<1> DEFINE S == {c \in Channel : /\ ~Same(c, t, id)
                                 /\ c.origin = origin[t]
                                 /\ c.name = Member(t, id).name}
<1>1. channels \in Seq(Channel)
  BY DEF RegistryShapes
<1> HIDE DEF S
<1>2. Selection(channels, S) \in Seq(Channel \cap S)
  BY <1>1, SelectionType
<1>3. Selection(channels, S) \in Seq(Channel)
  BY <1>2, SeqWiden
<1> QED
  BY <1>3 DEF Targets, S

(* The counters and the queues of the registry. *)
LEMMA BooksKept ==
    ASSUME PipeShapes, BookShapes, RegistryShapes, ExactAccounting, QueuesWithinLimits,
           NEW t \in Tabs, Step(t)
    PROVE  /\ BookShapes' /\ ExactAccounting' /\ QueuesWithinLimits'
           /\ \/ nextBatch' = nextBatch
              \/ ApplyCommand(t) /\ Head(turn[t]).op = "post" /\ nextBatch' = nextBatch + 1
PROOF
<1>1. CASE UNCHANGED books
  BY <1>1, BooksSame DEF books
<1>2. CASE RetireTab(t)
  <2>1. nextBatch' = nextBatch
    BY <1>2 DEF RetireTab
  <2> QED
    BY <1>2, <2>1, RetireKeeps
<1>3. CASE TakeIf(t)
  <2>1. /\ pending[t] # <<>> /\ pending' = [pending EXCEPT ![t] = Tail(@)]
        /\ Release(<<Head(pending[t])>>) /\ nextBatch' = nextBatch
    BY <1>3 DEF TakeIf
  <2> QED
    BY <2>1, TakeKeeps
<1>4. CASE ApplyCommand(t) /\ Accepts(t, Head(turn[t]))
  <2> DEFINE cmd == Head(turn[t])
  <2>1. cmd \in Command
    BY <1>4, StreamShrinks
  <2> HIDE DEF cmd
  <2>2. \/ cmd.op = "open" /\ ApplyOpen(t, cmd)
        \/ cmd.op = "post" /\ ApplyPost(t, cmd)
        \/ cmd.op = "close" /\ ApplyClose(t, cmd)
    BY <1>4 DEF Accepts, cmd
  <2>3. CASE ApplyOpen(t, cmd)
    <3>1. UNCHANGED books
      BY <2>3 DEF ApplyOpen, books
    <3> QED
      BY <3>1, BooksSame DEF books
  <2>4. CASE cmd.op = "post" /\ ApplyPost(t, cmd)
    <3> DEFINE targets == Targets(t, cmd.id)
    <3>1. CASE UNCHANGED books
      BY <3>1, BooksSame DEF books
    <3>2. CASE targets # <<>> /\ Fits(targets, cmd.size) /\ Enqueue(targets, cmd.size)
      <4>1. targets \in Seq(Channel) /\ cmd.size \in Sizes
        BY <2>1, <2>4, TargetsType, CommandParts
      <4>2. nextBatch' = nextBatch + 1
        BY <3>2 DEF Enqueue
      <4> HIDE DEF targets
      <4>3. BookShapes' /\ ExactAccounting' /\ QueuesWithinLimits'
        BY <3>2, <4>1, EnqueueKeeps
      <4> QED
        BY <1>4, <2>4, <4>2, <4>3 DEF cmd
    <3> QED
      BY <2>4, <3>1, <3>2 DEF ApplyPost, books
  <2>5. CASE ApplyClose(t, cmd)
    <3> DEFINE gone == {d \in Delivery : d.doc = cmd.doc /\ d.id = cmd.id}
    <3>1. CASE UNCHANGED books
      BY <3>1, BooksSame DEF books
    <3>2. CASE /\ pending' = [pending EXCEPT ![t] = Selection(@, Delivery \ gone)]
               /\ Release(Selection(pending[t], gone)) /\ nextBatch' = nextBatch
      <4> HIDE DEF gone
      <4> QED
        BY <3>2, CloseKeeps
    <3> QED
      BY <2>5, <3>1, <3>2 DEF ApplyClose, books
  <2> QED
    BY <2>2, <2>3, <2>4, <2>5
<1>5. \/ UNCHANGED books \/ RetireTab(t) \/ TakeIf(t)
      \/ ApplyCommand(t) /\ Accepts(t, Head(turn[t]))
  BY RegistrySteps
<1> QED
  BY <1>1, <1>2, <1>3, <1>4, <1>5

(* The members and the batches' recipients. *)
LEMMA RegistryKept ==
    ASSUME IdentityShapes, PipeShapes, BookShapes, RegistryShapes, NEW t \in Tabs, Step(t)
    PROVE  RegistryShapes'
PROOF
<1>1. /\ channels \in Seq(Channel) /\ admitted \in Seq(SUBSET Channel)
      /\ Len(admitted) = nextBatch
  BY DEF RegistryShapes
<1>2. ASSUME NEW S PROVE Selection(channels, S) \in Seq(Channel)
  <2>1. Selection(channels, S) \in Seq(Channel \cap S)
    BY <1>1, SelectionType
  <2> QED
    BY <2>1, SeqWiden
<1>3. CASE UNCHANGED <<books, channels, admitted>>
  BY <1>1, <1>3 DEF RegistryShapes, books
<1>4. CASE RetireTab(t) /\ UNCHANGED admitted
  BY <1>1, <1>2, <1>4 DEF RegistryShapes, RetireTab
<1>5. CASE TakeIf(t)
  BY <1>1, <1>5 DEF RegistryShapes, TakeIf
<1>6. CASE ApplyCommand(t) /\ Accepts(t, Head(turn[t]))
  <2> DEFINE cmd == Head(turn[t])
  <2>1. cmd \in Command
    BY <1>6, StreamShrinks
  <2> HIDE DEF cmd
  <2>2. \/ cmd.op = "open" /\ ApplyOpen(t, cmd)
        \/ cmd.op = "post" /\ ApplyPost(t, cmd)
        \/ cmd.op = "close" /\ ApplyClose(t, cmd)
    BY <1>6 DEF Accepts, cmd
  <2>3. CASE cmd.op = "open" /\ ApplyOpen(t, cmd)
    <3> DEFINE c == [tab |-> t, doc |-> cmd.doc, id |-> cmd.id,
                     origin |-> origin[t], name |-> cmd.name]
    <3>1. c \in Channel
      <4>1. origin[t] \in Origins
        BY DEF IdentityShapes
      <4>2. cmd.doc \in Nat /\ cmd.id \in Nat /\ cmd.name \in Names
        BY <2>1, <2>3, CommandParts
      <4> QED
        BY <4>1, <4>2 DEF Channel
    <3>2. channels' = Append(channels, c) /\ admitted' = admitted /\ nextBatch' = nextBatch
      BY <2>3 DEF ApplyOpen
    <3> HIDE DEF c
    <3>3. channels' \in Seq(Channel)
      BY <1>1, <3>1, <3>2, AppendProperties
    <3> QED
      BY <1>1, <3>2, <3>3 DEF RegistryShapes
  <2>4. CASE ApplyPost(t, cmd)
    <3> DEFINE targets == Targets(t, cmd.id)
    <3>1. channels' = channels
      BY <2>4 DEF ApplyPost
    <3>2. CASE admitted' = admitted /\ nextBatch' = nextBatch
      BY <1>1, <3>1, <3>2 DEF RegistryShapes
    <3>3. CASE Enqueue(targets, cmd.size)
      <4>1. admitted' = Append(admitted, Range(targets)) /\ nextBatch' = nextBatch + 1
        BY <3>3 DEF Enqueue
      <4>2. Range(targets) \in SUBSET Channel
        BY TargetsType, RangeOfSeq
      <4> HIDE DEF targets
      <4>3. /\ admitted' \in Seq(SUBSET Channel) /\ Len(admitted') = Len(admitted) + 1
        BY <1>1, <4>1, <4>2, AppendProperties
      <4> QED
        BY <1>1, <3>1, <4>1, <4>3 DEF RegistryShapes
    <3> QED
      BY <2>4, <3>2, <3>3 DEF ApplyPost
  <2>5. CASE ApplyClose(t, cmd)
    <3>1. /\ \/ channels' = channels
             \/ \E S : channels' = Selection(channels, S)
          /\ admitted' = admitted /\ nextBatch' = nextBatch
      BY <2>5 DEF ApplyClose
    <3> QED
      BY <1>1, <1>2, <3>1 DEF RegistryShapes
  <2> QED
    BY <2>2, <2>3, <2>4, <2>5
<1> QED
  BY <1>3, <1>4, <1>5, <1>6, RegistrySteps

(* How many posts a step takes from, or adds to, those on their way. *)
LEMMA StreamSteps ==
    ASSUME IdentityShapes, PageShapes, PipeShapes, PipeShapes', NEW t \in Tabs, Step(t)
    PROVE  /\ Pipes(t)
           /\ Picked(Stream(t)', PostsOf) \in Nat /\ Picked(Stream(t), PostsOf) \in Nat
           /\ \/ PostMessage(t) /\ Picked(Stream(t)', PostsOf) <= Picked(Stream(t), PostsOf) + 1
              \/ /\ ApplyCommand(t) /\ Head(turn[t]).op = "post"
                 /\ Picked(Stream(t)', PostsOf) <= Picked(Stream(t), PostsOf) + (-1)
              \/ /\ ~(ApplyCommand(t) /\ Head(turn[t]).op = "post")
                 /\ Picked(Stream(t)', PostsOf) <= Picked(Stream(t), PostsOf) + 0
PROOF
<1> DEFINE s == Stream(t)'
           p == Stream(t)
<1>1. s \in Seq(Command) /\ p \in Seq(Command)
  <2>1. /\ out' \in [Tabs -> Seq(Command)] /\ turn' \in [Tabs -> Seq(Command)]
        /\ events' \in [Tabs -> Seq(Command)]
    BY DEF PipeShapes
  <2>2. out'[t] \in Seq(Command) /\ turn'[t] \in Seq(Command) /\ events'[t] \in Seq(Command)
    BY <2>1
  <2> QED
    BY <2>2, ConcatTypes, StreamType DEF Stream
<1>2. Picked(s, PostsOf) \in Nat /\ Picked(p, PostsOf) \in Nat
  <2> HIDE DEF s, p
  <2> QED
    BY <1>1, PickedNat
<1>3. CASE OpenChannel(t) \/ PostMessage(t) \/ CloseChannel(t)
  <2>1. PICK cmd \in Command :
          /\ Writes(t, cmd) /\ UNCHANGED <<turn, events>>
          /\ cmd.op = "post" => posts' = posts + 1
          /\ cmd.op # "post" => posts' = posts
    BY <1>3, WritesCommand
  <2>2. Pipes(t) /\ s = Append(p, cmd)
    BY <2>1, StreamGrows
  <2>3. Picked(s, PostsOf) = Picked(p, PostsOf) + IF cmd \in PostsOf THEN 1 ELSE 0
    <3> HIDE DEF s, p
    <3> QED
      BY <1>1, <2>2, PickedAppend
  <2>4. cmd.op = "post" => PostMessage(t)
    <3>1. posts \in Nat
      BY DEF PageShapes
    <3>2. ~PostMessage(t) => posts' = posts
      BY <1>3 DEF OpenChannel, CloseChannel
    <3> QED
      BY <2>1, <3>1, <3>2
  <2>6. ~ApplyCommand(t)
    <3>1. turn' = turn
      BY <2>1
    <3>2. turn[t] \in Seq(Command) /\ turn \in [Tabs -> Seq(Command)]
      BY DEF PipeShapes
    <3>3. ASSUME turn[t] # <<>> PROVE Tail(turn[t]) # turn[t]
      <4> DEFINE q == turn[t]
      <4>1. Len(Tail(q)) = Len(q) - 1 /\ Len(q) \in Nat
        BY <3>2, <3>3
      <4> HIDE DEF q
      <4>2. ASSUME Tail(q) = q PROVE FALSE
        <5>1. Len(Tail(q)) = Len(q)
          BY <4>2
        <5> QED
          BY <4>1, <5>1
      <4> QED
        BY <4>2 DEF q
    <3> QED
      BY <3>1, <3>2, <3>3 DEF ApplyCommand
  <2>7. cmd \in PostsOf <=> cmd.op = "post"
    BY CommandParts
  <2>8. CASE cmd.op = "post"
    <3>1. Picked(s, PostsOf) <= Picked(p, PostsOf) + 1
      BY <1>2, <2>3, <2>7, <2>8
    <3> QED
      BY <1>2, <2>2, <2>4, <2>8, <3>1
  <2>9. CASE cmd.op # "post"
    <3>1. Picked(s, PostsOf) <= Picked(p, PostsOf) + 0
      BY <1>2, <2>3, <2>7, <2>9
    <3> QED
      BY <1>2, <2>2, <2>6, <2>9, <3>1
  <2> QED
    BY <2>8, <2>9
<1>4. CASE ApplyCommand(t)
  <2> DEFINE h == Head(turn[t])
             hs == <<h>>
  <2>1. Pipes(t) /\ h \in Command /\ p = hs \o s
    BY <1>4, StreamShrinks
  <2>2. Picked(hs, PostsOf) = IF h \in PostsOf THEN 1 ELSE 0
    BY PickedOne
  <2>3. h \in PostsOf <=> h.op = "post"
    BY <2>1, CommandParts
  <2>4. hs \in Seq(Command)
    BY <2>1
  <2>5. Picked(hs \o s, PostsOf) = Picked(hs, PostsOf) + Picked(s, PostsOf)
    <3> HIDE DEF hs, s
    <3> QED
      BY <1>1, <2>4, PickedConcat
  <2>6. Picked(p, PostsOf) = (IF h.op = "post" THEN 1 ELSE 0) + Picked(s, PostsOf)
    BY <2>1, <2>2, <2>3, <2>5
  <2> HIDE DEF h, hs, p, s
  <2>7. CASE h.op = "post"
    <3>1. Picked(s, PostsOf) <= Picked(p, PostsOf) + (-1)
      BY <1>2, <2>6, <2>7
    <3> QED
      BY <1>2, <1>4, <2>1, <2>7, <3>1 DEF h, p, s
  <2>8. CASE h.op # "post"
    <3>1. Picked(s, PostsOf) <= Picked(p, PostsOf) + 0
      BY <1>2, <2>6, <2>8
    <3> QED
      BY <1>2, <2>1, <2>8, <3>1 DEF h, p, s
  <2> QED
    BY <2>7, <2>8
<1>5. CASE ~ApplyCommand(t) /\ ~(OpenChannel(t) \/ PostMessage(t) \/ CloseChannel(t))
  <2>1. Pipes(t) /\ Picked(s, PostsOf) <= Picked(p, PostsOf)
    <3>1. CASE EmitEvent(t) \/ Collect(t)
      <4>1. Pipes(t) /\ s = p
        BY <3>1, StreamMoves
      <4> QED
        BY <1>2, <4>1
    <3>2. CASE BrokerExits(t) \/ Navigate(t)
      <4>1. /\ out' = [out EXCEPT ![t] = << >>]
            /\ \/ turn' = turn /\ events' = events
               \/ turn' = [turn EXCEPT ![t] = << >>] /\ events' = [events EXCEPT ![t] = << >>]
        BY <3>2 DEF BrokerExits, Navigate, shell
      <4>2. /\ out \in [Tabs -> Seq(Command)] /\ turn \in [Tabs -> Seq(Command)]
            /\ events \in [Tabs -> Seq(Command)]
        BY DEF PipeShapes
      <4> DEFINE q == turn[t] \o events[t]
                 r == out[t]
      <4>3. q \in Seq(Command) /\ r \in Seq(Command) /\ << >> \in Seq(Command) /\ p = q \o r
        BY <4>2 DEF Stream
      <4>4. /\ Pipes(t)
            /\ \/ s = q \o << >>
               \/ s = << >> \o << >> \o << >>
        BY <4>1, <4>2 DEF Pipes, Stream
      <4>5. s = q \/ s = << >>
        BY <4>3, <4>4, ConcatEmptySeq
      <4>6. Picked(p, PostsOf) = Picked(q, PostsOf) + Picked(r, PostsOf)
        <5> HIDE DEF q, r, p
        <5> QED
          BY <4>3, PickedConcat
      <4>7. Picked(q, PostsOf) \in Nat /\ Picked(r, PostsOf) \in Nat
        <5> HIDE DEF q, r
        <5> QED
          BY <4>3, PickedNat
      <4>8. Picked(<< >>, PostsOf) = 0
        BY SelectionEmpty DEF Picked
      <4> HIDE DEF p, q, r, s
      <4> QED
        BY <4>4, <4>5, <4>6, <4>7, <4>8
    <3>3. CASE UNCHANGED <<turn, events, out>>
      <4>1. Pipes(t) /\ s = p
        BY <3>3 DEF Pipes, Stream
      <4> QED
        BY <1>2, <4>1
    <3>4. \/ EmitEvent(t) \/ Collect(t) \/ BrokerExits(t) \/ Navigate(t)
          \/ UNCHANGED <<turn, events, out>>
      BY <1>5, StepCases DEF Dispatch, SendCommands, PumpDeliveries, FinishExit, Crash,
                             Terminate, RestartEncoding, shell
    <3> QED
      BY <3>1, <3>2, <3>3, <3>4
  <2>2. Picked(s, PostsOf) <= Picked(p, PostsOf) + 0
    <3> HIDE DEF s, p
    <3> QED
      BY <1>2, <2>1
  <2> QED
    BY <1>2, <1>5, <2>1, <2>2
<1> QED
  BY <1>3, <1>4, <1>5

(***************************************************************************)
(* The first two layers of the invariant.                                  *)
(***************************************************************************)

CoreInv == Shapes /\ Counted

(* Empty queues have no places. *)
LEMMA EmptyPlaces ==
    ASSUME NEW q, \A t \in Tabs : q[t] = <<>>, NEW S
    PROVE  Places(q, S) = {} /\ Cardinality(Places(q, S)) = 0
PROOF
<1>1. ASSUME NEW t \in Tabs PROVE Hits(q[t], S) = {}
  <2>1. q[t] = <<>> /\ DOMAIN <<>> = {}
    OBVIOUS
  <2>2. DOMAIN q[t] = {}
    BY <2>1
  <2> QED
    BY <2>2 DEF Hits
<1>2. Places(q, S) = {}
  BY <1>1 DEF Places
<1> QED
  BY <1>2, FS_EmptySet

(* At the start the shapes and the accounts are right. *)
LEMMA CoreStarts == Init => CoreInv
PROOF
<1> SUFFICES ASSUME Init PROVE CoreInv
  OBVIOUS
<1> USE DEF Init
<1>1. << >> \in Seq(Command) /\ << >> \in Seq(Deliveries) /\ << >> \in Seq(Queued)
      /\ << >> \in Seq(Channel) /\ << >> \in Seq(SUBSET Channel) /\ Len(<< >>) = 0
      /\ DOMAIN << >> = {}
  OBVIOUS
<1>2. IdentityShapes
  <2>1. ASSUME NEW t \in Tabs PROVE 1 \in 1 .. Max({1, MaxDocs[t]})
    <3> DEFINE m == MaxDocs[t]
    <3>1. m \in Int /\ 1 \in Int
      BY BroadcastAssumption
    <3> HIDE DEF m
    <3>2. Max({1, m}) \in {1, m} /\ Max({1, m}) >= 1
      BY <3>1, OneOfTwo
    <3>3. 1 \in 1 .. Max({1, m})
      BY <3>1, <3>2
    <3> QED
      BY <3>3 DEF m
  <2> QED
    BY <2>1 DEF IdentityShapes
<1>3. PageShapes
  <2>1. << >> \in UNION {[ids -> Names] : ids \in SUBSET Nat}
    <3>1. << >> \in [{} -> Names] /\ {} \in SUBSET Nat
      OBVIOUS
    <3> QED
      BY <3>1
  <2>2. page \in [Tabs -> UNION {[ids -> Names] : ids \in SUBSET Nat}]
    BY <2>1
  <2>3. used \in [Tabs -> Nat] /\ (\A t \in Tabs : used[t] <= MaxIds[t]) /\ posts = 0
        /\ 0 <= MaxPosts
    BY BroadcastAssumption
  <2>4. \A t \in Tabs : DOMAIN page[t] \subseteq 1 .. used[t]
    BY <1>1
  <2> QED
    BY <2>2, <2>3, <2>4 DEF PageShapes
<1>11. RealmShapes
  BY DEF RealmShapes
<1>4. PipeShapes
  BY <1>1, BroadcastAssumption DEF PipeShapes
<1>5. DeliveryShapes
  BY <1>1, BroadcastAssumption DEF DeliveryShapes
<1>6. BookShapes
  BY <1>1 DEF BookShapes
<1>7. RegistryShapes
  BY <1>1 DEF RegistryShapes
<1>8. ExactAccounting
  <2>1. \A S : Cardinality(Places(pending, S)) = 0
    BY EmptyPlaces
  <2>2. DOMAIN batches = {}
    BY <1>1
  <2>3. Bytes(DOMAIN batches) = 0
    <3>1. UNION {{b} \X (1 .. batches[b].size) : b \in DOMAIN batches} = {}
      BY <2>2
    <3> QED
      BY <3>1, FS_EmptySet DEF Bytes
  <2>4. {b \in 1 .. nextBatch : Cardinality(Places(pending, OfBatch(b))) > 0} = {}
    BY <2>1
  <2> QED
    BY <2>1, <2>2, <2>3, <2>4 DEF ExactAccounting
<1>9. QueuesWithinLimits
  BY <1>1, BroadcastAssumption DEF QueuesWithinLimits
<1>10. nextBatch + Cardinality(Places(Streams, PostsOf)) <= posts
  <2>1. \A t \in Tabs : Streams[t] = <<>>
    BY DEF Streams, Stream
  <2>2. Cardinality(Places(Streams, PostsOf)) = 0
    BY <2>1, EmptyPlaces
  <2> QED
    BY <2>2
<1> QED
  BY <1>2, <1>3, <1>4, <1>5, <1>6, <1>7, <1>8, <1>9, <1>10, <1>11
     DEF CoreInv, Shapes, Counted

(* Every step keeps the shapes and the accounts. *)
LEMMA CoreSteps == CoreInv /\ [Next]_vars => CoreInv'
PROOF
<1> SUFFICES ASSUME CoreInv, [Next]_vars PROVE CoreInv'
  OBVIOUS
<1>1. /\ IdentityShapes /\ PageShapes /\ RealmShapes /\ PipeShapes /\ DeliveryShapes
      /\ BookShapes /\ RegistryShapes /\ ExactAccounting /\ QueuesWithinLimits
      /\ nextBatch + PostsAhead <= posts
  BY DEF CoreInv, Shapes, Counted, PostsAhead
<1>2. CASE UNCHANGED vars
  <2>1. /\ UNCHANGED identity /\ UNCHANGED child /\ UNCHANGED <<out, left, events, turn>>
        /\ UNCHANGED books /\ UNCHANGED <<commands, inbox, channels, admitted>>
    BY <1>2 DEF vars, shell, books
  <2>2. UNCHANGED <<doc, owned, session, origin, page, used, restarted, posts, log>>
    BY <2>1 DEF identity, child
  <2>3. IdentityShapes' /\ PageShapes' /\ RealmShapes' /\ DeliveryShapes'
    BY <1>1, <2>1, <2>2 DEF IdentityShapes, PageShapes, RealmShapes, DeliveryShapes
  <2>4. PipeShapes'
    BY <1>1, <2>1, <2>2 DEF PipeShapes
  <2>5. BookShapes' /\ ExactAccounting' /\ QueuesWithinLimits'
    BY <1>1, <2>1, BooksSame
  <2>6. RegistryShapes' /\ nextBatch' = nextBatch
    BY <1>1, <2>1 DEF RegistryShapes, books
  <2>7. PostsAhead' = PostsAhead
    BY <2>1 DEF PostsAhead, Streams, Stream, Places, Hits
  <2> QED
    BY <1>1, <2>2, <2>3, <2>4, <2>5, <2>6, <2>7 DEF CoreInv, Shapes, Counted, PostsAhead
<1>3. ASSUME NEW t \in Tabs, Step(t) PROVE CoreInv'
  <2>1. PostsAhead \in Nat /\ nextBatch \in Nat /\ posts \in Nat
    BY <1>1, PostsAheadNat DEF BookShapes, PageShapes
  <2>2. nextBatch <= posts
    BY <1>1, <2>1
  <2>3. /\ IdentityShapes' /\ PageShapes' /\ RealmShapes' /\ PipeShapes'
        /\ DeliveryShapes' /\ RegistryShapes'
    BY <1>1, <1>3, <2>2, IdentityKept, PageKept, RealmSteps, PipesKept, DeliveriesKept,
       RegistryKept
  <2>4. /\ BookShapes' /\ ExactAccounting' /\ QueuesWithinLimits'
        /\ \/ nextBatch' = nextBatch
           \/ ApplyCommand(t) /\ Head(turn[t]).op = "post" /\ nextBatch' = nextBatch + 1
    BY <1>1, <1>3, BooksKept
  <2>5. /\ posts' \in Nat /\ posts' >= posts
        /\ PostMessage(t) => posts' = posts + 1 /\ nextBatch' = nextBatch
    <3>1. posts' \in Nat
      BY <2>3 DEF PageShapes
    <3>2. PostMessage(t) => posts' = posts + 1 /\ nextBatch' = nextBatch
      BY DEF PostMessage, shell
    <3>3. ~PostMessage(t) => posts' = posts
      BY <1>3, StepCases DEF OpenChannel, CloseChannel, Dispatch, EmitEvent, SendCommands,
         BrokerExits, Collect, ApplyCommand, PumpDeliveries, FinishExit, Crash, Terminate,
         Navigate, RestartEncoding, child
    <3> QED
      BY <2>1, <3>1, <3>2, <3>3
  <2>6. nextBatch' + PostsAhead' <= posts'
    <3> DEFINE a == Picked(Stream(t)', PostsOf)
               b == Picked(Stream(t), PostsOf)
               x == PostsAhead'
               y == PostsAhead
    <3>1. /\ Pipes(t)
          /\ \/ PostMessage(t) /\ a <= b + 1
             \/ ApplyCommand(t) /\ Head(turn[t]).op = "post" /\ a <= b + (-1)
             \/ ~(ApplyCommand(t) /\ Head(turn[t]).op = "post") /\ a <= b + 0
      BY <1>1, <1>3, <2>3, StreamSteps
    <3>2. ASSUME NEW k \in Int, a <= b + k PROVE x <= y + k /\ x \in Nat /\ y \in Nat
      BY <1>1, <2>3, <3>1, <3>2, PostsAheadStep
    <3>3. 1 \in Int /\ -1 \in Int /\ 0 \in Int
      OBVIOUS
    <3> HIDE DEF a, b, x, y
    <3>4. \/ PostMessage(t) /\ x <= y + 1 /\ x \in Nat /\ y \in Nat
          \/ /\ ApplyCommand(t) /\ Head(turn[t]).op = "post"
             /\ x <= y + (-1) /\ x \in Nat /\ y \in Nat
          \/ /\ ~(ApplyCommand(t) /\ Head(turn[t]).op = "post")
             /\ x <= y + 0 /\ x \in Nat /\ y \in Nat
      BY <3>1, <3>2, <3>3
    <3>5. nextBatch + y <= posts
      BY <1>1 DEF y
    <3> DEFINE n == nextBatch'
               p == posts'
    <3>6. p \in Nat /\ p >= posts /\ (PostMessage(t) => p = posts + 1 /\ n = nextBatch)
          /\ \/ n = nextBatch
             \/ ApplyCommand(t) /\ Head(turn[t]).op = "post" /\ n = nextBatch + 1
      BY <2>4, <2>5
    <3> HIDE DEF n, p
    <3>7. n + x <= p
      <4>1. CASE PostMessage(t) /\ x <= y + 1 /\ x \in Nat /\ y \in Nat
        BY <2>1, <3>5, <3>6, <4>1
      <4>2. CASE ApplyCommand(t) /\ Head(turn[t]).op = "post" /\ x <= y + (-1)
                   /\ x \in Nat /\ y \in Nat
        BY <2>1, <3>5, <3>6, <4>2
      <4>3. CASE /\ ~(ApplyCommand(t) /\ Head(turn[t]).op = "post")
                 /\ x <= y + 0 /\ x \in Nat /\ y \in Nat
        BY <2>1, <3>5, <3>6, <4>3
      <4> QED
        BY <3>4, <4>1, <4>2, <4>3
    <3> QED
      BY <3>7 DEF n, p, x
  <2> QED
    BY <2>3, <2>4, <2>6 DEF CoreInv, Shapes, Counted, PostsAhead
<1>4. Next <=> \E t \in Tabs : Step(t)
  BY DEF Next, Step
<1> QED
  BY <1>2, <1>3, <1>4

(* The invariant CoreInv in every state that can be reached. *)
LEMMA CoreHolds == Spec => []CoreInv
PROOF
<1> QED
  BY CoreStarts, CoreSteps, PTL DEF Spec

(***************************************************************************)
(* The members of the registry.                                            *)
(***************************************************************************)

(* A selection depends on what the set says of the entries only. *)
LEMMA SelectionAgree ==
    ASSUME NEW A, NEW s \in Seq(A), NEW S, NEW R,
           \A i \in 1 .. Len(s) : s[i] \in S <=> s[i] \in R
    PROVE  Selection(s, S) = Selection(s, R)
PROOF
<1> DEFINE X == {s[i] : i \in 1 .. Len(s)}
<1>1. Selection(s, X) = s
  BY SelectionAll
<1>2. X \cap S = X \cap R
  OBVIOUS
<1> HIDE DEF X
<1>3. Selection(Selection(s, X), S) = Selection(s, X \cap S)
  BY SelectionWithin
<1>4. Selection(Selection(s, X), R) = Selection(s, X \cap R)
  BY SelectionWithin
<1> QED
  BY <1>1, <1>2, <1>3, <1>4

(* A selection thins a sequence out. *)
LEMMA SelectionThins ==
    ASSUME NEW A, NEW s \in Seq(A), NEW S, NEW r, r = Selection(s, S)
    PROVE  /\ DOMAIN r = 1 .. Len(r) /\ DOMAIN s = 1 .. Len(s)
           /\ \E h \in [DOMAIN r -> DOMAIN s] :
                /\ \A i \in DOMAIN r : r[i] = s[h[i]] /\ r[i] \in S /\ r[i] \in A
                /\ \A i, j \in DOMAIN r : h[i] = h[j] => i = j
                /\ \A k \in DOMAIN s : s[k] \in S => \E i \in DOMAIN r : h[i] = k
PROOF
<1>1. Selection(s, S) \in Seq(A \cap S)
  BY SelectionType
<1>2. r \in Seq(A \cap S)
  BY <1>1
<1>3. /\ DOMAIN r = 1 .. Len(r) /\ DOMAIN s = 1 .. Len(s) /\ Len(r) \in Nat
      /\ \A i \in DOMAIN r : r[i] \in S /\ r[i] \in A
  BY <1>2
<1>4. PICK h \in [1 .. Len(Selection(s, S)) -> 1 .. Len(s)] :
        /\ \A i \in 1 .. Len(Selection(s, S)) :
              s[h[i]] \in S /\ s[h[i]] = Selection(s, S)[i]
        /\ \A i, j \in 1 .. Len(Selection(s, S)) : i < j => h[i] < h[j]
        /\ \A n \in 1 .. Len(s) : s[n] \in S => \E i \in 1 .. Len(Selection(s, S)) : h[i] = n
  BY SelectionEmbeds
<1>5. /\ h \in [DOMAIN r -> DOMAIN s]
      /\ \A i \in DOMAIN r : r[i] = s[h[i]]
      /\ \A i, j \in DOMAIN r : i < j => h[i] < h[j]
      /\ \A k \in DOMAIN s : s[k] \in S => \E i \in DOMAIN r : h[i] = k
  BY <1>3, <1>4
<1>6. ASSUME NEW i \in DOMAIN r, NEW j \in DOMAIN r, h[i] = h[j] PROVE i = j
  <2>1. i \in Nat /\ j \in Nat /\ h[i] \in Nat /\ h[j] \in Nat
    BY <1>3, <1>5
  <2>2. ~(i < j) /\ ~(j < i)
    BY <1>5, <1>6, <2>1
  <2> QED
    BY <2>1, <2>2
<1> QED
  BY <1>3, <1>5, <1>6

(* How many members a tab has. *)
Crowd(t) == Len(For(channels, t))

(* The members that stay are as current as they were. *)
LEMMA MembersThinned ==
    ASSUME RegistryShapes, RegistryIsCurrent, NEW S, channels' = Selection(channels, S),
           \A c \in Channel : c \in S =>
             /\ doc'[c.tab] = doc[c.tab] /\ origin'[c.tab] = origin[c.tab]
             /\ owned[c.tab] => owned'[c.tab]
             /\ session[c.tab] # "none" => session'[c.tab] # "none"
    PROVE  RegistryIsCurrent' /\ \A t \in Tabs : Crowd(t)' <= Crowd(t) /\ Crowd(t) \in Nat
PROOF
<1>1. channels \in Seq(Channel)
  BY DEF RegistryShapes
<1>2. RegistryIsCurrent'
  <2> DEFINE r == channels'
  <2>1. PICK h \in [DOMAIN r -> DOMAIN channels] :
          /\ \A i \in DOMAIN r : r[i] = channels[h[i]] /\ r[i] \in S /\ r[i] \in Channel
          /\ \A i, j \in DOMAIN r : h[i] = h[j] => i = j
    BY <1>1, SelectionThins
  <2>2. /\ \A i \in DOMAIN channels :
             LET c == channels[i]
             IN  /\ c.doc = doc[c.tab] /\ c.origin = origin[c.tab]
                 /\ owned[c.tab] /\ session[c.tab] # "none"
        /\ \A i, j \in DOMAIN channels :
             channels[i].tab = channels[j].tab /\ channels[i].id = channels[j].id => i = j
    BY DEF RegistryIsCurrent
  <2>3. ASSUME NEW i \in DOMAIN r
        PROVE  /\ r[i].doc = doc'[r[i].tab] /\ r[i].origin = origin'[r[i].tab]
               /\ owned'[r[i].tab] /\ session'[r[i].tab] # "none"
    BY <2>1, <2>2
  <2>4. ASSUME NEW i \in DOMAIN r, NEW j \in DOMAIN r,
               r[i].tab = r[j].tab, r[i].id = r[j].id
        PROVE  i = j
    BY <2>1, <2>2, <2>4
  <2> QED
    BY <2>3, <2>4 DEF RegistryIsCurrent
<1>3. ASSUME NEW t \in Tabs PROVE Crowd(t)' <= Crowd(t) /\ Crowd(t) \in Nat
  <2> DEFINE T == OfTab(t)
             a == Selection(channels, T)
  <2>1. a \in Seq(Channel \cap T)
    BY <1>1, SelectionType
  <2>2. Len(a) \in Nat
    BY <2>1
  <2>3. Len(Selection(a, S)) <= Len(a)
    <3> HIDE DEF a
    <3> QED
      BY <2>1, SelectionLength
  <2>4. Selection(a, S) = Selection(channels, T \cap S)
    <3> HIDE DEF T
    <3> QED
      BY <1>1, SelectionWithin
  <2>5. Selection(channels', T) = Selection(channels, S \cap T)
    <3> HIDE DEF T
    <3> QED
      BY <1>1, SelectionWithin
  <2>6. S \cap T = T \cap S
    OBVIOUS
  <2>7. Crowd(t) = Len(a) /\ Crowd(t)' = Len(Selection(channels', T))
    BY DEF Crowd, For, OfTab
  <2> HIDE DEF a, T
  <2> QED
    BY <2>2, <2>3, <2>4, <2>5, <2>6, <2>7
<1> QED
  BY <1>2, <1>3

(* A new member. *)
LEMMA MembersGrow ==
    ASSUME RegistryShapes, RegistryIsCurrent, UNCHANGED identity, NEW t \in Tabs,
           NEW c \in Channel, c.tab = t, channels' = Append(channels, c),
           c.doc = doc[t], c.origin = origin[t], owned[t],
           session[t] # "none", ~Known(t, c.id),
           NEW D, \A d \in Channel : d \in D <=> d.tab = t /\ d.doc = c.doc,
           Len(Selection(channels, D)) < MaxChannels
    PROVE  /\ RegistryIsCurrent'
           /\ \A u \in Tabs : u # t => Crowd(u)' = Crowd(u)
           /\ Crowd(t)' <= MaxChannels
PROOF
<1>1. channels \in Seq(Channel)
  BY DEF RegistryShapes
<1>2. /\ \A i \in DOMAIN channels :
           LET d == channels[i]
           IN  /\ d.doc = doc[d.tab] /\ d.origin = origin[d.tab]
               /\ owned[d.tab] /\ session[d.tab] # "none"
      /\ \A i, j \in DOMAIN channels :
           channels[i].tab = channels[j].tab /\ channels[i].id = channels[j].id => i = j
  BY DEF RegistryIsCurrent
<1>3. /\ DOMAIN channels = 1 .. Len(channels) /\ Len(channels) \in Nat
      /\ DOMAIN channels' = 1 .. Len(channels) + 1
      /\ \A i \in 1 .. Len(channels) : channels'[i] = channels[i]
      /\ channels'[Len(channels) + 1] = c
  BY <1>1
<1>4. doc' = doc /\ origin' = origin /\ owned' = owned /\ session' = session
  BY DEF identity
<1>5. \A i \in DOMAIN channels : ~(channels[i].tab = t /\ channels[i].id = c.id)
  BY <1>2 DEF Known, Same
<1>6. RegistryIsCurrent'
  <2> DEFINE r == channels'
             n == Len(channels)
  <2>1. \A i \in DOMAIN r : \/ i \in DOMAIN channels /\ r[i] = channels[i]
                            \/ i = n + 1 /\ r[i] = c
    BY <1>3
  <2>2. ASSUME NEW i \in DOMAIN r
        PROVE  /\ r[i].doc = doc[r[i].tab] /\ r[i].origin = origin[r[i].tab]
               /\ owned[r[i].tab] /\ session[r[i].tab] # "none"
    <3> HIDE DEF r
    <3> QED
      BY <1>2, <2>1
  <2>3. ASSUME NEW i \in DOMAIN r, NEW j \in DOMAIN r,
               r[i].tab = r[j].tab, r[i].id = r[j].id
        PROVE  i = j
    <3> HIDE DEF r
    <3> QED
      BY <1>2, <1>5, <2>1, <2>3
  <2> QED
    BY <1>4, <2>2, <2>3 DEF RegistryIsCurrent
<1>7. ASSUME NEW u \in Tabs
      PROVE  Crowd(u) \in Nat /\ Crowd(u)' = Crowd(u) + IF t = u THEN 1 ELSE 0
  <2> DEFINE T == OfTab(u)
             a == Selection(channels, T)
  <2>1. a \in Seq(Channel \cap T)
    BY <1>1, SelectionType
  <2>2. Len(a) \in Nat
    BY <2>1
  <2>3. Selection(Append(channels, c), T) = IF c \in T THEN Append(a, c) ELSE a
    <3> HIDE DEF T
    <3> QED
      BY <1>1, SelectionAppend
  <2>4. c \in T <=> t = u
    BY DEF OfTab
  <2>5. c \in T => Len(Append(a, c)) = Len(a) + 1
    BY <2>1
  <2>6. Crowd(u) = Len(a) /\ Crowd(u)' = Len(Selection(Append(channels, c), T))
    BY DEF Crowd, For, OfTab
  <2> HIDE DEF a, T
  <2> QED
    BY <2>2, <2>3, <2>4, <2>5, <2>6
<1>8. Crowd(t)' <= MaxChannels
  <2>1. \A i \in 1 .. Len(channels) : channels[i] \in OfTab(t) <=> channels[i] \in D
    BY <1>1, <1>2, <1>3 DEF OfTab
  <2>2. Selection(channels, OfTab(t)) = Selection(channels, D)
    BY <1>1, <2>1, SelectionAgree
  <2>3. Crowd(t) < MaxChannels
    BY <2>2 DEF Crowd, For
  <2> DEFINE x == Crowd(t)
             y == Crowd(t)'
  <2>4. x \in Nat /\ y = x + 1 /\ x < MaxChannels
    BY <1>7, <2>3
  <2>5. MaxChannels \in Nat
    BY BroadcastAssumption
  <2> HIDE DEF x, y
  <2>6. y <= MaxChannels
    BY <2>4, <2>5
  <2> QED
    BY <2>6 DEF y
<1>9. ASSUME NEW u \in Tabs, u # t PROVE Crowd(u)' = Crowd(u)
  <2>1. Crowd(u) \in Nat /\ Crowd(u)' = Crowd(u) + 0
    BY <1>7, <1>9
  <2> QED
    BY <2>1
<1> QED
  BY <1>6, <1>8, <1>9

(***************************************************************************)
(* The stream of a tab, step by step.                                      *)
(***************************************************************************)

(* What a step does to its tab's stream: it grows at the end by a command  *)
(* of the page, it is used up from the head by the registry, it loses its  *)
(* end when the broker exits, it is dropped with the document, or it only  *)
(* moves along.                                                            *)
LEMMA StreamCases ==
    ASSUME IdentityShapes, PageShapes, PipeShapes, PipeShapes', NEW t \in Tabs, Step(t)
    PROVE  /\ Pipes(t) /\ Stream(t) \in Commands /\ Stream(t)' \in Commands
           /\ \/ OpenChannel(t) \/ PostMessage(t) \/ CloseChannel(t)
              \/ /\ Stream(t)' = Stream(t)
                 /\ UNCHANGED <<page, used>> \/ Navigate(t) \/ RestartEncoding(t)
              \/ ApplyCommand(t) /\ Stream(t) = Then(<<Head(turn[t])>>, Stream(t)')
              \/ BrokerExits(t) /\ \E r \in Commands : Stream(t) = Then(Stream(t)', r)
              \/ Navigate(t) /\ Stream(t)' = <<>>
PROOF
<1> DEFINE s == Stream(t)'
           p == Stream(t)
<1>1. s \in Commands /\ p \in Commands
  <2>1. /\ out' \in [Tabs -> Seq(Command)] /\ turn' \in [Tabs -> Seq(Command)]
        /\ events' \in [Tabs -> Seq(Command)]
    BY DEF PipeShapes
  <2>2. out'[t] \in Seq(Command) /\ turn'[t] \in Seq(Command) /\ events'[t] \in Seq(Command)
    BY <2>1
  <2> QED
    BY <2>2, ConcatTypes, StreamType DEF Stream, Commands
<1>2. Pipes(t)
  BY StreamSteps
<1>3. CASE EmitEvent(t) \/ Collect(t)
  <2>1. UNCHANGED <<page, used>>
    BY <1>3 DEF EmitEvent, Collect, child
  <2> QED
    BY <1>1, <1>2, <1>3, <2>1, StreamMoves
<1>4. CASE ApplyCommand(t)
  BY <1>1, <1>2, <1>4, StreamShrinks DEF Then
<1>5. CASE BrokerExits(t)
  <2>1. /\ out' = [out EXCEPT ![t] = << >>] /\ turn' = turn /\ events' = events
    BY <1>5 DEF BrokerExits, shell
  <2>2. /\ out \in [Tabs -> Seq(Command)] /\ turn \in [Tabs -> Seq(Command)]
        /\ events \in [Tabs -> Seq(Command)]
    BY DEF PipeShapes
  <2> DEFINE q == turn[t] \o events[t]
             r == out[t]
  <2>3. q \in Seq(Command) /\ r \in Seq(Command) /\ p = q \o r /\ s = q \o << >>
    BY <2>1, <2>2 DEF Stream
  <2>4. s = q
    BY <2>3, ConcatEmptySeq
  <2>5. p = Then(s, r) /\ r \in Commands
    BY <2>3, <2>4 DEF Then, Commands
  <2> QED
    BY <1>1, <1>2, <1>5, <2>5
<1>6. CASE Navigate(t)
  <2>1. /\ out' = [out EXCEPT ![t] = << >>] /\ turn' = [turn EXCEPT ![t] = << >>]
        /\ events' = [events EXCEPT ![t] = << >>]
    BY <1>6 DEF Navigate
  <2>2. turn'[t] = << >> /\ events'[t] = << >> /\ out'[t] = << >>
    BY <2>1 DEF PipeShapes
  <2>3. s = << >> \o << >> \o << >>
    BY <2>2 DEF Stream
  <2>4. s = << >>
    BY <2>3, ConcatEmptySeq
  <2> QED
    BY <1>1, <1>2, <1>6, <2>4
<1>7. CASE UNCHANGED <<turn, events, out, page, used>> \/ RestartEncoding(t)
  <2>1. s = p
    BY <1>7 DEF Stream, RestartEncoding, shell
  <2> QED
    BY <1>1, <1>2, <1>7, <2>1
<1>8. CASE OpenChannel(t) \/ PostMessage(t) \/ CloseChannel(t)
  BY <1>1, <1>2, <1>8
<1>9. \/ EmitEvent(t) \/ Collect(t) \/ ApplyCommand(t) \/ BrokerExits(t) \/ Navigate(t)
      \/ OpenChannel(t) \/ PostMessage(t) \/ CloseChannel(t) \/ RestartEncoding(t)
      \/ UNCHANGED <<turn, events, out, page, used>>
  BY StepCases DEF Dispatch, SendCommands, PumpDeliveries, FinishExit, Crash, Terminate,
                   shell, child
<1> QED
  BY <1>3, <1>4, <1>5, <1>6, <1>7, <1>8, <1>9

(* The entries of a stream and of what it is made of. *)
LEMMA ThenEntries ==
    ASSUME NEW p \in Commands, NEW q \in Commands
    PROVE  /\ Len(p) \in Nat /\ Len(q) \in Nat /\ Len(Then(p, q)) = Len(p) + Len(q)
           /\ DOMAIN p = 1 .. Len(p) /\ DOMAIN q = 1 .. Len(q)
           /\ DOMAIN Then(p, q) = 1 .. Len(p) + Len(q)
           /\ \A k \in 1 .. Len(p) : Then(p, q)[k] = p[k]
           /\ \A k \in 1 .. Len(q) : Then(p, q)[Len(p) + k] = q[k]
PROOF
<1>1. /\ Len(p) \in Nat /\ Len(q) \in Nat /\ Len(p \o q) = Len(p) + Len(q)
      /\ DOMAIN p = 1 .. Len(p) /\ DOMAIN q = 1 .. Len(q)
      /\ DOMAIN (p \o q) = 1 .. Len(p) + Len(q)
      /\ \A k \in 1 .. Len(p) + Len(q) :
            (p \o q)[k] = IF k <= Len(p) THEN p[k] ELSE q[k - Len(p)]
  BY DEF Commands
<1>2. \A k \in 1 .. Len(p) : (p \o q)[k] = p[k]
  BY <1>1
<1>3. ASSUME NEW k \in 1 .. Len(q) PROVE (p \o q)[Len(p) + k] = q[k]
  <2>1. Len(p) + k \in 1 .. Len(p) + Len(q) /\ ~(Len(p) + k <= Len(p)) /\ Len(p) + k - Len(p) = k
    BY <1>1
  <2> QED
    BY <1>1, <2>1
<1> QED
  BY <1>1, <1>2, <1>3 DEF Then

(* The entries of a sequence of commands to which one is appended. *)
LEMMA AppendEntries ==
    ASSUME NEW p \in Commands, NEW c \in Command
    PROVE  /\ Append(p, c) \in Commands /\ Len(p) \in Nat /\ DOMAIN p = 1 .. Len(p)
           /\ Len(Append(p, c)) = Len(p) + 1 /\ DOMAIN Append(p, c) = 1 .. Len(p) + 1
           /\ \A k \in 1 .. Len(p) : Append(p, c)[k] = p[k]
           /\ Append(p, c)[Len(p) + 1] = c
PROOF
  BY DEF Commands

(* A command and those behind it. *)
LEMMA HeadEntries ==
    ASSUME NEW h \in Command, NEW q \in Commands, NEW p, p = Then(<<h>>, q)
    PROVE  /\ p \in Commands /\ Len(q) \in Nat /\ Len(p) = Len(q) + 1
           /\ DOMAIN p = 1 .. Len(q) + 1 /\ DOMAIN q = 1 .. Len(q)
           /\ p[1] = h /\ \A k \in 1 .. Len(q) : p[k + 1] = q[k]
PROOF
<1>1. <<h>> \in Commands /\ Len(<<h>>) = 1 /\ <<h>>[1] = h
  BY DEF Commands
<1> DEFINE hs == <<h>>
<1>2. hs \in Commands /\ Len(hs) = 1 /\ hs[1] = h
  BY <1>1
<1> HIDE DEF hs
<1>3. /\ Len(q) \in Nat /\ Len(Then(hs, q)) = Len(hs) + Len(q)
      /\ DOMAIN q = 1 .. Len(q) /\ DOMAIN Then(hs, q) = 1 .. Len(hs) + Len(q)
      /\ \A k \in 1 .. Len(hs) : Then(hs, q)[k] = hs[k]
      /\ \A k \in 1 .. Len(q) : Then(hs, q)[Len(hs) + k] = q[k]
  BY <1>2, ThenEntries
<1>4. Then(hs, q) \in Commands
  BY <1>2, ThenAssociates
<1>5. Then(hs, q)[1] = h
  BY <1>2, <1>3
<1>6. \A k \in 1 .. Len(q) : Then(hs, q)[k + 1] = q[k]
  BY <1>2, <1>3
<1> QED
  BY <1>2, <1>3, <1>4, <1>5, <1>6 DEF hs

(* The commands on their way are those of the document that the tab shows. *)
StreamDocs == \A t \in Tabs : \A k \in DOMAIN Stream(t) : Stream(t)[k].doc = doc[t]

(* The commands on their way keep being of documents that exist. *)
LEMMA StreamDocsKept ==
    ASSUME IdentityShapes, PageShapes, PipeShapes, PipeShapes', StreamDocs,
           NEW t \in Tabs, Step(t)
    PROVE  StreamDocs'
PROOF
<1> DEFINE s == Stream(t)'
           p == Stream(t)
<1>1. /\ Pipes(t) /\ p \in Commands /\ s \in Commands
      /\ \/ OpenChannel(t) \/ PostMessage(t) \/ CloseChannel(t)
         \/ s = p
         \/ ApplyCommand(t) /\ p = Then(<<Head(turn[t])>>, s)
         \/ BrokerExits(t) /\ \E r \in Commands : p = Then(s, r)
         \/ Navigate(t) /\ s = <<>>
  BY StreamCases
<1>2. \A u \in Tabs \ {t} : Stream(u)' = Stream(u) /\ doc'[u] = doc[u]
  <2>1. doc' = doc \/ doc' = [doc EXCEPT ![t] = @ + 1]
    BY StepCases, AppliedCases DEF OpenChannel, PostMessage, CloseChannel, Dispatch, EmitEvent,
       SendCommands, BrokerExits, Collect, ApplyCommand, PumpDeliveries, TakeIf, FinishExit,
       Crash, Terminate, Navigate, RestartEncoding, Contain, identity
  <2>2. \A u \in Tabs \ {t} : doc'[u] = doc[u]
    BY <2>1 DEF IdentityShapes
  <2> QED
    BY <1>1, <2>2, StreamReplaced
<1>3. \A k \in DOMAIN p : p[k].doc = doc[t]
  BY DEF StreamDocs
<1>4. CASE Navigate(t)
  <2>1. s = <<>>
    <3>1. /\ out' = [out EXCEPT ![t] = << >>] /\ turn' = [turn EXCEPT ![t] = << >>]
          /\ events' = [events EXCEPT ![t] = << >>]
      BY <1>4 DEF Navigate
    <3>2. turn'[t] = << >> /\ events'[t] = << >> /\ out'[t] = << >>
      BY <3>1 DEF PipeShapes
    <3>3. s = << >> \o << >> \o << >>
      BY <3>2 DEF Stream
    <3> QED
      BY <3>3, ConcatEmptySeq
  <2>2. \A k \in DOMAIN s : s[k].doc = doc'[t]
    <3>1. DOMAIN << >> = {}
      OBVIOUS
    <3> QED
      BY <2>1, <3>1
  <2> QED
    BY <1>2, <2>2 DEF StreamDocs
<1>5. CASE ~Navigate(t)
  <2>1. doc' = doc
    BY <1>5, StepCases, AppliedCases DEF OpenChannel, PostMessage, CloseChannel, Dispatch,
       EmitEvent, SendCommands, BrokerExits, Collect, ApplyCommand, PumpDeliveries, TakeIf,
       FinishExit, Crash, Terminate, RestartEncoding, Contain, identity
  <2>2. \A k \in DOMAIN s : s[k].doc = doc[t]
    <3>1. CASE OpenChannel(t) \/ PostMessage(t) \/ CloseChannel(t)
      <4>1. PICK cmd \in Command :
              Writes(t, cmd) /\ UNCHANGED <<turn, events>> /\ cmd.doc = doc[t]
        BY <3>1, WritesCommand
      <4>2. s = Append(p, cmd)
        BY <4>1, StreamGrows
      <4> HIDE DEF s, p
      <4>3. /\ Len(p) \in Nat /\ DOMAIN p = 1 .. Len(p)
            /\ DOMAIN s = 1 .. Len(p) + 1
            /\ \A k \in 1 .. Len(p) : s[k] = p[k]
            /\ s[Len(p) + 1] = cmd
        BY <1>1, <4>2, AppendEntries
      <4> QED
        BY <1>3, <4>1, <4>3
    <3>2. CASE s = p
      BY <1>3, <3>2
    <3>3. CASE ApplyCommand(t) /\ p = Then(<<Head(turn[t])>>, s)
      <4> DEFINE h == Head(turn[t])
      <4>1. h \in Command /\ p = Then(<<h>>, s)
        BY <3>3, StreamShrinks
      <4> HIDE DEF s, p, h
      <4>2. /\ Len(s) \in Nat /\ DOMAIN p = 1 .. Len(s) + 1 /\ DOMAIN s = 1 .. Len(s)
            /\ \A k \in 1 .. Len(s) : p[k + 1] = s[k]
        BY <1>1, <4>1, HeadEntries
      <4>3. \A k \in 1 .. Len(s) : k + 1 \in 1 .. Len(s) + 1
        BY <4>2
      <4> QED
        BY <1>3, <4>2, <4>3
    <3>4. CASE BrokerExits(t) /\ \E r \in Commands : p = Then(s, r)
      <4>1. PICK r \in Commands : p = Then(s, r)
        BY <3>4
      <4> HIDE DEF s, p
      <4>2. /\ Len(s) \in Nat /\ Len(r) \in Nat /\ DOMAIN s = 1 .. Len(s)
            /\ DOMAIN Then(s, r) = 1 .. Len(s) + Len(r)
            /\ \A k \in 1 .. Len(s) : Then(s, r)[k] = s[k]
        BY <1>1, <4>1, ThenEntries
      <4>3. \A k \in 1 .. Len(s) : k \in DOMAIN p /\ p[k] = s[k]
        BY <4>1, <4>2
      <4> QED
        BY <1>3, <4>2, <4>3
    <3> QED
      BY <1>1, <1>5, <3>1, <3>2, <3>3, <3>4
  <2> QED
    BY <1>2, <2>1, <2>2 DEF StreamDocs
<1> QED
  BY <1>4, <1>5

MemberInv == CoreInv /\ Members

(* What a navigation, an exit, a failure or a crash of a tab changes. *)
LEMMA IdentitySteps ==
    ASSUME IdentityShapes, NEW t \in Tabs, Step(t)
    PROVE  /\ \A u \in Tabs \ {t} : /\ doc'[u] = doc[u] /\ origin'[u] = origin[u]
                                    /\ owned'[u] = owned[u] /\ session'[u] = session[u]
           /\ \/ RetireTab(t)
              \/ /\ doc' = doc /\ origin' = origin /\ owned' = owned
                 /\ session[t] # "none" => session'[t] # "none"
PROOF
<1>1. CASE Navigate(t)
  <2>1. /\ RetireTab(t)
        /\ doc' = [doc EXCEPT ![t] = @ + 1]
        /\ owned' = [owned EXCEPT ![t] = TRUE]
        /\ session' = [session EXCEPT ![t] = "running"]
        /\ \E o \in Origins : origin' = [origin EXCEPT ![t] = o]
    BY <1>1 DEF Navigate
  <2> QED
    BY <2>1 DEF IdentityShapes
<1>2. CASE Terminate(t) \/ FinishExit(t)
  <2>1. /\ RetireTab(t) /\ doc' = doc /\ origin' = origin /\ owned' = owned
        /\ \E s \in {"ending", "none"} : session' = [session EXCEPT ![t] = s]
    BY <1>2 DEF Terminate, FinishExit
  <2> QED
    BY <2>1 DEF IdentityShapes
<1>3. CASE Crash(t) \/ BrokerExits(t)
  <2>1. /\ doc' = doc /\ origin' = origin /\ owned' = owned
        /\ \E s \in {"ending", "gone"} : session' = [session EXCEPT ![t] = s]
    BY <1>3 DEF Crash, BrokerExits
  <2> QED
    BY <2>1 DEF IdentityShapes
<1>4. CASE Contain(t)
  <2>1. /\ RetireTab(t) /\ doc' = doc /\ origin' = origin /\ session' = session
        /\ owned' = [owned EXCEPT ![t] = FALSE]
    BY <1>4 DEF Contain
  <2> QED
    BY <2>1 DEF IdentityShapes
<1>5. CASE UNCHANGED identity
  BY <1>5 DEF identity
<1>6. \/ Navigate(t) \/ Terminate(t) \/ FinishExit(t) \/ Crash(t) \/ BrokerExits(t)
      \/ Contain(t) \/ UNCHANGED identity
  BY StepCases, AppliedCases DEF OpenChannel, PostMessage, CloseChannel, Dispatch, EmitEvent,
     SendCommands, Collect, ApplyCommand, PumpDeliveries, TakeIf, RestartEncoding
<1> QED
  BY <1>1, <1>2, <1>3, <1>4, <1>5, <1>6

(* The registry keeps holding at most one channel of each number, and of   *)
(* current documents only.                                                 *)
LEMMA RegistryIsCurrentKept ==
    ASSUME Shapes, PipeShapes', RegistryIsCurrent, \A u \in Tabs : Crowd(u) <= MaxChannels,
           NEW t \in Tabs, Step(t)
    PROVE  RegistryIsCurrent' /\ \A u \in Tabs : Crowd(u)' <= MaxChannels
PROOF
<1> USE DEF Shapes
<1>1. channels \in Seq(Channel) /\ MaxChannels \in Nat
  BY BroadcastAssumption DEF RegistryShapes
<1>2. /\ \A u \in Tabs \ {t} : /\ doc'[u] = doc[u] /\ origin'[u] = origin[u]
                               /\ owned'[u] = owned[u] /\ session'[u] = session[u]
      /\ \/ RetireTab(t)
         \/ /\ doc' = doc /\ origin' = origin /\ owned' = owned
            /\ session[t] # "none" => session'[t] # "none"
  BY IdentitySteps
<1>3. ASSUME NEW S, channels' = Selection(channels, S),
             \A c \in Channel : c \in S =>
               /\ doc'[c.tab] = doc[c.tab] /\ origin'[c.tab] = origin[c.tab]
               /\ owned[c.tab] => owned'[c.tab]
               /\ session[c.tab] # "none" => session'[c.tab] # "none"
      PROVE  RegistryIsCurrent' /\ \A u \in Tabs : Crowd(u)' <= MaxChannels
  <2>1. RegistryIsCurrent' /\ \A u \in Tabs : Crowd(u)' <= Crowd(u) /\ Crowd(u) \in Nat
    BY <1>3, MembersThinned
  <2>2. ASSUME NEW u \in Tabs PROVE Crowd(u)' <= MaxChannels
    <3> DEFINE x == Crowd(u)'
               y == Crowd(u)
    <3>1. x <= y /\ y \in Nat /\ y <= MaxChannels
      BY <2>1
    <3>2. x \in Nat
      <4>1. channels' \in Seq(Channel)
        <5>1. channels' \in Seq(Channel \cap S)
          BY <1>1, <1>3, SelectionType
        <5> QED
          BY <5>1, SeqWiden
      <4>2. Selection(channels', OfTab(u)) \in Seq(Channel \cap OfTab(u))
        BY <4>1, SelectionType
      <4>3. Len(Selection(channels', OfTab(u))) \in Nat
        BY <4>2
      <4> QED
        BY <4>3 DEF Crowd, For, OfTab
    <3> HIDE DEF x, y
    <3>3. x <= MaxChannels
      BY <1>1, <3>1, <3>2
    <3> QED
      BY <3>3 DEF x
  <2> QED
    BY <2>1, <2>2
<1>4. CASE RetireTab(t)
  <2> DEFINE S == {c \in Channel : c.tab # t}
  <2>1. channels' = Selection(channels, S)
    BY <1>4 DEF RetireTab
  <2>2. \A c \in Channel : c \in S =>
               /\ doc'[c.tab] = doc[c.tab] /\ origin'[c.tab] = origin[c.tab]
               /\ owned[c.tab] => owned'[c.tab]
               /\ session[c.tab] # "none" => session'[c.tab] # "none"
    BY <1>2 DEF Channel
  <2> HIDE DEF S
  <2> QED
    BY <1>3, <2>1, <2>2
<1>5. ASSUME ~RetireTab(t), \E S : channels' = Selection(channels, S)
      PROVE  RegistryIsCurrent' /\ \A u \in Tabs : Crowd(u)' <= MaxChannels
  <2>1. PICK S : channels' = Selection(channels, S)
    BY <1>5
  <2>2. \A c \in Channel : c \in S =>
               /\ doc'[c.tab] = doc[c.tab] /\ origin'[c.tab] = origin[c.tab]
               /\ owned[c.tab] => owned'[c.tab]
               /\ session[c.tab] # "none" => session'[c.tab] # "none"
    BY <1>2, <1>5 DEF Channel
  <2> QED
    BY <1>3, <2>1, <2>2
<1>6. CASE ~RetireTab(t) /\ channels' = channels
  <2>1. Selection(channels, Channel) = channels
    BY <1>1, SelectionAll
  <2> QED
    BY <1>5, <1>6, <2>1
<1>7. CASE ~RetireTab(t) /\ ApplyCommand(t) /\ Accepts(t, Head(turn[t]))
  <2> DEFINE cmd == Head(turn[t])
  <2>1. cmd \in Command /\ turn[t] # <<>>
    BY <1>7, StreamShrinks
  <2>2. session[t] # "none"
    BY <2>1 DEF PipeShapes
  <2> HIDE DEF cmd
  <2>3. /\ owned[t] /\ cmd.doc = doc[t] /\ ~Refused(t, cmd) /\ UNCHANGED identity
        /\ \/ cmd.op = "open" /\ ApplyOpen(t, cmd)
           \/ ApplyPost(t, cmd)
           \/ ApplyClose(t, cmd)
    BY <1>7 DEF Accepts, OwnsDocument, cmd
  <2>4. CASE cmd.op = "open" /\ ApplyOpen(t, cmd)
    <3> DEFINE c == [tab |-> t, doc |-> cmd.doc, id |-> cmd.id,
                     origin |-> origin[t], name |-> cmd.name]
    <3>1. c \in Channel /\ c.tab = t /\ c.doc = cmd.doc /\ c.id = cmd.id /\ c.origin = origin[t]
      <4>1. origin[t] \in Origins
        BY DEF IdentityShapes
      <4>2. cmd.doc \in Nat /\ cmd.id \in Nat /\ cmd.name \in Names
        BY <2>1, <2>4, CommandParts
      <4> QED
        BY <4>1, <4>2 DEF Channel
    <3>2. channels' = Append(channels, c)
      BY <2>4 DEF ApplyOpen
    <3>3. ~Known(t, cmd.id)
      BY <2>3, <2>4 DEF Refused
    <3> DEFINE D == {d \in Channel : d.tab = t /\ d.doc = cmd.doc}
               n == Len(Selection(channels, D))
    <3>4. n < MaxChannels
      <4>1. ~(n >= MaxChannels)
        BY <2>3, <2>4 DEF Refused
      <4>2. n \in Nat
        <5> HIDE DEF D
        <5>1. Selection(channels, D) \in Seq(Channel \cap D)
          BY <1>1, SelectionType
        <5> QED
          BY <5>1
      <4> HIDE DEF n
      <4> QED
        BY <1>1, <4>1, <4>2
    <3> HIDE DEF c
    <3>5. \A d \in Channel : d \in D <=> d.tab = t /\ d.doc = c.doc
      BY <3>1
    <3> HIDE DEF D
    <3>6. /\ c \in Channel /\ c.tab = t /\ c.doc = doc[t] /\ c.origin = origin[t]
          /\ owned[t] /\ session[t] # "none" /\ ~Known(t, c.id)
          /\ Len(Selection(channels, D)) < MaxChannels
      BY <2>2, <2>3, <3>1, <3>3, <3>4
    <3>7. /\ RegistryIsCurrent'
          /\ \A u \in Tabs : u # t => Crowd(u)' = Crowd(u)
          /\ Crowd(t)' <= MaxChannels
      BY <2>3, <3>2, <3>5, <3>6, MembersGrow
    <3> QED
      BY <3>7
  <2>5. CASE ApplyPost(t, cmd)
    <3>1. channels' = channels
      BY <2>5 DEF ApplyPost
    <3> QED
      BY <1>6, <1>7, <3>1
  <2>6. CASE ApplyClose(t, cmd)
    <3>1. channels' = channels \/ \E S : channels' = Selection(channels, S)
      BY <2>6 DEF ApplyClose
    <3> QED
      BY <1>5, <1>6, <1>7, <3>1
  <2> QED
    BY <2>3, <2>4, <2>5, <2>6
<1>8. \/ channels' = channels \/ RetireTab(t)
      \/ ApplyCommand(t) /\ Accepts(t, Head(turn[t]))
  BY RegistrySteps DEF TakeIf
<1> QED
  BY <1>4, <1>6, <1>7, <1>8

(* At the start the registry has no members. *)
LEMMA MembersStart == Init => Members
PROOF
<1> SUFFICES ASSUME Init PROVE Members
  OBVIOUS
<1>1. channels = << >> /\ DOMAIN << >> = {} /\ Len(<< >>) = 0
  BY DEF Init
<1>2. RegistryIsCurrent
  BY <1>1 DEF RegistryIsCurrent
<1>3. \A t \in Tabs : Len(For(channels, t)) <= MaxChannels
  <2>1. \A t \in Tabs : For(channels, t) = << >>
    BY <1>1, SelectionEmpty DEF For
  <2> QED
    BY <1>1, <2>1, BroadcastAssumption
<1>4. \A t \in Tabs : \A k \in DOMAIN Stream(t) : Stream(t)[k].doc = doc[t]
  <2>1. ASSUME NEW t \in Tabs PROVE Stream(t) = << >>
    BY DEF Init, Stream
  <2> QED
    BY <1>1, <2>1
<1> QED
  BY <1>2, <1>3, <1>4 DEF Members

(* Every step keeps what is known of the registry's members. *)
LEMMA MembersSteps == MemberInv /\ CoreInv' /\ [Next]_vars => Members'
PROOF
<1> SUFFICES ASSUME MemberInv, CoreInv', [Next]_vars PROVE Members'
  OBVIOUS
<1>1. /\ Shapes /\ Shapes' /\ RegistryIsCurrent /\ StreamDocs
      /\ \A u \in Tabs : Crowd(u) <= MaxChannels
  BY DEF MemberInv, CoreInv, Members, StreamDocs, Crowd
<1>2. CASE UNCHANGED vars
  <2>1. /\ channels' = channels /\ doc' = doc /\ owned' = owned /\ session' = session
        /\ origin' = origin /\ turn' = turn /\ events' = events /\ out' = out
    BY <1>2 DEF vars, identity, shell
  <2> QED
    BY <2>1, <1>1 DEF Members, RegistryIsCurrent, StreamDocs, Crowd, Stream, For, OfTab
<1>3. ASSUME NEW t \in Tabs, Step(t) PROVE Members'
  <2>1. RegistryIsCurrent' /\ \A u \in Tabs : Crowd(u)' <= MaxChannels
    BY <1>1, <1>3, RegistryIsCurrentKept DEF Shapes
  <2>2. StreamDocs'
    BY <1>1, <1>3, StreamDocsKept DEF Shapes
  <2> QED
    BY <2>1, <2>2 DEF Members, StreamDocs, Crowd
<1>4. Next <=> \E t \in Tabs : Step(t)
  BY DEF Next, Step
<1> QED
  BY <1>2, <1>3, <1>4

(***************************************************************************)
(* What the commands of a stream open and close.                           *)
(***************************************************************************)

Alone(b, x) == IF b THEN {x} ELSE {}

(* A command appended to a stream opens or closes what it names and        *)
(* nothing else.                                                           *)
LEMMA OpenedAppend ==
    ASSUME NEW p \in Commands, NEW c \in Command
    PROVE  /\ \A k \in 0 .. Len(p) : /\ Opened(Append(p, c), k) = Opened(p, k)
                                     /\ Closed(Append(p, c), k) = Closed(p, k)
           /\ Opened(Append(p, c), Len(p) + 1) = Opened(p, Len(p)) \cup Alone(c.op = "open", c.id)
           /\ Closed(Append(p, c), Len(p) + 1) = Closed(p, Len(p)) \cup Alone(c.op = "close", c.id)
PROOF
<1> DEFINE r == Append(p, c)
           n == Len(p)
<1>1. n \in Nat /\ (\A k \in 1 .. n : r[k] = p[k]) /\ r[n + 1] = c
  BY AppendEntries
<1> HIDE DEF r, n
<1>2. ASSUME NEW k \in 0 .. n PROVE Opened(r, k) = Opened(p, k) /\ Closed(r, k) = Closed(p, k)
  <2>1. \A j \in 1 .. k : j \in 1 .. n
    BY <1>1
  <2>2. \A j \in 1 .. k : r[j] = p[j]
    BY <1>1, <2>1
  <2> QED
    BY <2>2 DEF Opened, Closed
<1>3. \A j : j \in 1 .. n + 1 <=> j \in 1 .. n \/ j = n + 1
  BY <1>1
<1>4. Opened(r, n + 1) = Opened(p, n) \cup Alone(c.op = "open", c.id)
  BY <1>1, <1>3 DEF Opened, Alone
<1>5. Closed(r, n + 1) = Closed(p, n) \cup Alone(c.op = "close", c.id)
  BY <1>1, <1>3 DEF Closed, Alone
<1> QED
  BY <1>2, <1>4, <1>5 DEF r, n

(* What a stream opens and closes is what its head does and what the rest  *)
(* does.                                                                   *)
LEMMA OpenedHead ==
    ASSUME NEW h \in Command, NEW q \in Commands, NEW p, p = Then(<<h>>, q),
           NEW k \in 0 .. Len(q)
    PROVE  /\ Opened(p, k + 1) = Opened(q, k) \cup Alone(h.op = "open", h.id)
           /\ Closed(p, k + 1) = Closed(q, k) \cup Alone(h.op = "close", h.id)
PROOF
<1>1. /\ Len(q) \in Nat /\ p[1] = h /\ \A i \in 1 .. Len(q) : p[i + 1] = q[i]
  BY HeadEntries
<1>2. k \in Nat /\ \A i \in 1 .. k : i \in 1 .. Len(q)
  BY <1>1
<1>3. \A i \in 1 .. k : p[i + 1] = q[i]
  BY <1>1, <1>2
<1>4. \A j : j \in 1 .. k + 1 <=> j = 1 \/ \E i \in 1 .. k : j = i + 1
  <2>1. ASSUME NEW j, j \in 1 .. k + 1 PROVE j = 1 \/ \E i \in 1 .. k : j = i + 1
    <3>1. CASE j # 1
      <4>1. j - 1 \in 1 .. k /\ j = (j - 1) + 1
        BY <1>2, <2>1, <3>1
      <4> QED
        BY <4>1
    <3> QED
      BY <3>1
  <2>2. 1 \in 1 .. k + 1 /\ \A i \in 1 .. k : i + 1 \in 1 .. k + 1
    BY <1>2
  <2> QED
    BY <2>1, <2>2
<1>5. ASSUME NEW x PROVE x \in Opened(p, k + 1) <=> x \in Opened(q, k) \cup Alone(h.op = "open", h.id)
  <2>1. x \in Opened(p, k + 1) <=> \E j \in 1 .. k + 1 : p[j].op = "open" /\ p[j].id = x
    BY DEF Opened
  <2>2. x \in Opened(q, k) <=> \E i \in 1 .. k : q[i].op = "open" /\ q[i].id = x
    BY DEF Opened
  <2>3. (\E j \in 1 .. k + 1 : p[j].op = "open" /\ p[j].id = x)
          <=> \/ p[1].op = "open" /\ p[1].id = x
              \/ \E i \in 1 .. k : p[i + 1].op = "open" /\ p[i + 1].id = x
    BY <1>4
  <2>4. (\E i \in 1 .. k : p[i + 1].op = "open" /\ p[i + 1].id = x)
          <=> \E i \in 1 .. k : q[i].op = "open" /\ q[i].id = x
    BY <1>3
  <2> QED
    BY <1>1, <2>1, <2>2, <2>3, <2>4 DEF Alone
<1>6. ASSUME NEW x
      PROVE  x \in Closed(p, k + 1) <=> x \in Closed(q, k) \cup Alone(h.op = "close", h.id)
  <2>1. x \in Closed(p, k + 1) <=> \E j \in 1 .. k + 1 : p[j].op = "close" /\ p[j].id = x
    BY DEF Closed
  <2>2. x \in Closed(q, k) <=> \E i \in 1 .. k : q[i].op = "close" /\ q[i].id = x
    BY DEF Closed
  <2>3. (\E j \in 1 .. k + 1 : p[j].op = "close" /\ p[j].id = x)
          <=> \/ p[1].op = "close" /\ p[1].id = x
              \/ \E i \in 1 .. k : p[i + 1].op = "close" /\ p[i + 1].id = x
    BY <1>4
  <2>4. (\E i \in 1 .. k : p[i + 1].op = "close" /\ p[i + 1].id = x)
          <=> \E i \in 1 .. k : q[i].op = "close" /\ q[i].id = x
    BY <1>3
  <2> QED
    BY <1>1, <2>1, <2>2, <2>3, <2>4 DEF Alone
<1> QED
  BY <1>5, <1>6

(* A page that runs writes a command that fits the end of its stream. *)
LEMMA FollowsAppend ==
    ASSUME NEW R, NEW p \in Commands, NEW n \in Nat, Follows(R, p, n), NEW c \in Command,
           NEW m \in Nat, NEW L, L = Live(R, p, Len(p)),
           \/ c.op = "open" /\ c.id = n + 1 /\ m = n + 1 /\ Cardinality(L) < MaxChannels
           \/ c.op # "open" /\ c.id \in L /\ m = n
    PROVE  /\ Follows(R, Append(p, c), m)
           /\ Live(R, Append(p, c), Len(Append(p, c)))
                 = (L \cup Alone(c.op = "open", c.id)) \ Alone(c.op = "close", c.id)
PROOF
<1> DEFINE r == Append(p, c)
           l == Len(p)
<1>1. /\ l \in Nat /\ DOMAIN p = 1 .. l /\ DOMAIN r = 1 .. l + 1 /\ Len(r) = l + 1
      /\ (\A k \in 1 .. l : r[k] = p[k]) /\ r[l + 1] = c
  BY AppendEntries
<1>2. /\ \A k \in 0 .. l : Opened(r, k) = Opened(p, k) /\ Closed(r, k) = Closed(p, k)
      /\ Opened(r, l + 1) = Opened(p, l) \cup Alone(c.op = "open", c.id)
      /\ Closed(r, l + 1) = Closed(p, l) \cup Alone(c.op = "close", c.id)
  BY OpenedAppend
<1> HIDE DEF r, l
<1>3. /\ R \subseteq 1 .. n
      /\ \A k \in 1 .. l :
           /\ p[k].id \in 1 .. n
           /\ p[k].op = "open" => /\ p[k].id \notin R \cup Opened(p, k - 1)
                                  /\ Cardinality(Live(R, p, k - 1)) < MaxChannels
           /\ p[k].op # "open" => p[k].id \in Live(R, p, k - 1)
  BY <1>1 DEF Follows
<1>4. Opened(p, l) \subseteq 1 .. n /\ Closed(p, l) \subseteq 1 .. n
  BY <1>3 DEF Opened, Closed
<1>5. \A x \in 1 .. n : x \in 1 .. m
  OBVIOUS
<1>6. L = (R \cup Opened(p, l)) \ Closed(p, l) /\ L \subseteq 1 .. n
  BY <1>3, <1>4 DEF Live, l
<1>7. n + 1 \notin 1 .. n /\ c.id \in 1 .. m
  BY <1>6
<1>8. \A k \in 0 .. l : Live(R, r, k) = Live(R, p, k)
  BY <1>2 DEF Live
<1>9. ASSUME NEW k \in 1 .. l + 1
      PROVE  /\ r[k].id \in 1 .. m
             /\ r[k].op = "open" => /\ r[k].id \notin R \cup Opened(r, k - 1)
                                    /\ Cardinality(Live(R, r, k - 1)) < MaxChannels
             /\ r[k].op # "open" => r[k].id \in Live(R, r, k - 1)
  <2>1. CASE k \in 1 .. l
    <3>1. k - 1 \in 0 .. l
      BY <1>1, <2>1
    <3>2. /\ r[k] = p[k] /\ Opened(r, k - 1) = Opened(p, k - 1)
          /\ Live(R, r, k - 1) = Live(R, p, k - 1)
      BY <1>1, <1>2, <1>8, <2>1, <3>1
    <3> QED
      BY <1>3, <1>5, <2>1, <3>2
  <2>2. CASE k = l + 1
    <3>1. k - 1 = l /\ l \in 0 .. l
      BY <1>1, <2>2
    <3>2. /\ r[k] = c /\ Opened(r, k - 1) = Opened(p, l) /\ Live(R, r, k - 1) = L
      BY <1>1, <1>2, <1>8, <2>2, <3>1 DEF l
    <3>3. CASE c.op = "open"
      <4>1. c.id = n + 1 /\ Cardinality(L) < MaxChannels
        BY <3>3
      <4>2. c.id \notin R \cup Opened(p, l)
        BY <1>3, <1>4, <1>7, <4>1
      <4> QED
        BY <1>7, <3>2, <3>3, <4>1, <4>2
    <3>4. CASE c.op # "open"
      BY <1>7, <3>2, <3>4
    <3> QED
      BY <3>3, <3>4
  <2> QED
    BY <1>1, <2>1, <2>2
<1>10. R \subseteq 1 .. m
  BY <1>3, <1>5
<1>11. Follows(R, r, m)
  BY <1>1, <1>9, <1>10 DEF Follows
<1>12. Live(R, r, l + 1) = (R \cup Opened(p, l) \cup Alone(c.op = "open", c.id))
                              \ (Closed(p, l) \cup Alone(c.op = "close", c.id))
  BY <1>2 DEF Live
<1>13. \A x \in Alone(c.op = "open", c.id) : x \notin Closed(p, l)
  BY <1>4, <1>7 DEF Alone
<1>14. Live(R, r, l + 1) = (L \cup Alone(c.op = "open", c.id)) \ Alone(c.op = "close", c.id)
  BY <1>6, <1>12, <1>13
<1> QED
  BY <1>1, <1>11, <1>14 DEF r

(* The registry that has applied the first command is what the next one    *)
(* needs.                                                                  *)
LEMMA FollowsTail ==
    ASSUME NEW R, NEW h \in Command, NEW q \in Commands, NEW p, p = Then(<<h>>, q),
           NEW n, Follows(R, p, n),
           NEW Q, Q = (R \cup Alone(h.op = "open", h.id)) \ Alone(h.op = "close", h.id)
    PROVE  /\ Follows(Q, q, n)
           /\ Live(R, p, Len(p)) = Live(Q, q, Len(q))
PROOF
<1> DEFINE l == Len(q)
<1>1. /\ l \in Nat /\ DOMAIN q = 1 .. l /\ DOMAIN p = 1 .. l + 1 /\ Len(p) = l + 1
      /\ p[1] = h /\ \A k \in 1 .. l : p[k + 1] = q[k]
  BY HeadEntries
<1>2. ASSUME NEW k \in 0 .. l
      PROVE  /\ Opened(p, k + 1) = Opened(q, k) \cup Alone(h.op = "open", h.id)
             /\ Closed(p, k + 1) = Closed(q, k) \cup Alone(h.op = "close", h.id)
  BY OpenedHead
<1> HIDE DEF l
<1>3. /\ R \subseteq 1 .. n
      /\ \A k \in 1 .. l + 1 :
           /\ p[k].id \in 1 .. n
           /\ p[k].op = "open" => /\ p[k].id \notin R \cup Opened(p, k - 1)
                                  /\ Cardinality(Live(R, p, k - 1)) < MaxChannels
           /\ p[k].op # "open" => p[k].id \in Live(R, p, k - 1)
  BY <1>1 DEF Follows
<1>4. ASSUME NEW k \in 1 .. l
      PROVE  /\ k + 1 \in 1 .. l + 1 /\ p[k + 1] = q[k] /\ (k + 1) - 1 = k
             /\ k - 1 \in 0 .. l /\ (k - 1) + 1 = k
  BY <1>1
<1>5. ASSUME NEW k \in 1 .. l
      PROVE  /\ Opened(p, k) = Opened(q, k - 1) \cup Alone(h.op = "open", h.id)
             /\ Closed(p, k) = Closed(q, k - 1) \cup Alone(h.op = "close", h.id)
  <2> DEFINE j == k - 1
  <2>1. j \in 0 .. l /\ j + 1 = k
    BY <1>4
  <2> HIDE DEF j
  <2>2. /\ Opened(p, j + 1) = Opened(q, j) \cup Alone(h.op = "open", h.id)
        /\ Closed(p, j + 1) = Closed(q, j) \cup Alone(h.op = "close", h.id)
    BY <1>2, <2>1
  <2> QED
    BY <2>1, <2>2 DEF j
<1>6. h.op = "close" => h.id \in R
  <2>1. 1 \in 1 .. l + 1 /\ 1 - 1 = 0
    BY <1>1
  <2>2. h.op = "close" => h.id \in Live(R, p, 0)
    BY <1>1, <1>3, <2>1
  <2>3. Opened(p, 0) = {}
    BY DEF Opened
  <2> QED
    BY <2>2, <2>3 DEF Live
<1>7. ASSUME NEW k \in 1 .. l, q[k].op = "open"
      PROVE  q[k].id \notin R \cup Opened(p, k)
  BY <1>3, <1>4, <1>7
<1>8. ASSUME NEW k \in 0 .. l PROVE Live(R, p, k + 1) = Live(Q, q, k)
  <2>1. Live(R, p, k + 1) = (R \cup Opened(q, k) \cup Alone(h.op = "open", h.id))
                               \ (Closed(q, k) \cup Alone(h.op = "close", h.id))
    BY <1>2 DEF Live
  <2>2. \A x \in Alone(h.op = "close", h.id) : x \notin Opened(q, k)
    <3>1. ASSUME h.op = "close", h.id \in Opened(q, k) PROVE FALSE
      <4>1. PICK i \in 1 .. k : q[i].op = "open" /\ q[i].id = h.id
        BY <3>1 DEF Opened
      <4>2. i \in 1 .. l
        BY <1>1
      <4> QED
        BY <1>6, <1>7, <3>1, <4>1, <4>2
    <3> QED
      BY <3>1 DEF Alone
  <2> QED
    BY <2>1, <2>2 DEF Live
<1>9. ASSUME NEW k \in 1 .. l PROVE Live(R, p, k) = Live(Q, q, k - 1)
  <2> DEFINE j == k - 1
  <2>1. j \in 0 .. l /\ j + 1 = k
    BY <1>4
  <2> HIDE DEF j
  <2>2. Live(R, p, j + 1) = Live(Q, q, j)
    BY <1>8, <2>1
  <2> QED
    BY <2>1, <2>2 DEF j
<1>10. Q \subseteq 1 .. n
  <2>1. h.id \in 1 .. n
    BY <1>1, <1>3
  <2> QED
    BY <1>3, <2>1 DEF Alone
<1>11. ASSUME NEW k \in 1 .. l
       PROVE  /\ q[k].id \in 1 .. n
              /\ q[k].op = "open" => /\ q[k].id \notin Q \cup Opened(q, k - 1)
                                     /\ Cardinality(Live(Q, q, k - 1)) < MaxChannels
              /\ q[k].op # "open" => q[k].id \in Live(Q, q, k - 1)
  <2>1. /\ q[k].id \in 1 .. n
        /\ q[k].op = "open" => /\ q[k].id \notin R \cup Opened(p, k)
                               /\ Cardinality(Live(R, p, k)) < MaxChannels
        /\ q[k].op # "open" => q[k].id \in Live(R, p, k)
    BY <1>3, <1>4
  <2> QED
    BY <1>5, <1>9, <2>1
<1>12. Follows(Q, q, n)
  BY <1>1, <1>10, <1>11 DEF Follows
<1>13. l \in 0 .. l
  BY <1>1
<1> QED
  BY <1>1, <1>8, <1>12, <1>13 DEF l

(***************************************************************************)
(* What the registry answers to a running page.                            *)
(***************************************************************************)

(* As many identifiers as members. *)
LEMMA RegisteredCount ==
    ASSUME RegistryShapes, RegistryIsCurrent, NEW t \in Tabs
    PROVE  Cardinality(Registered(t)) = Crowd(t) /\ IsFiniteSet(Registered(t))
PROOF
<1> DEFINE r == For(channels, t)
           R == Registered(t)
<1>1. channels \in Seq(Channel) /\ DOMAIN channels = 1 .. Len(channels)
  BY DEF RegistryShapes
<1>2. /\ DOMAIN r = 1 .. Len(r)
      /\ \E h \in [DOMAIN r -> DOMAIN channels] :
           /\ \A i \in DOMAIN r : r[i] = channels[h[i]] /\ r[i] \in OfTab(t)
           /\ \A i, j \in DOMAIN r : h[i] = h[j] => i = j
           /\ \A k \in DOMAIN channels : channels[k] \in OfTab(t) => \E i \in DOMAIN r : h[i] = k
  <2> DEFINE T == OfTab(t)
  <2>1. r = Selection(channels, T)
    BY DEF For
  <2> HIDE DEF r, T
  <2>2. /\ DOMAIN r = 1 .. Len(r)
        /\ \E h \in [DOMAIN r -> DOMAIN channels] :
             /\ \A i \in DOMAIN r : r[i] = channels[h[i]] /\ r[i] \in T /\ r[i] \in Channel
             /\ \A i, j \in DOMAIN r : h[i] = h[j] => i = j
             /\ \A k \in DOMAIN channels : channels[k] \in T => \E i \in DOMAIN r : h[i] = k
    BY <1>1, <2>1, SelectionThins
  <2> QED
    BY <2>2 DEF T
<1>3. PICK h \in [DOMAIN r -> DOMAIN channels] :
        /\ \A i \in DOMAIN r : r[i] = channels[h[i]] /\ r[i] \in OfTab(t)
        /\ \A i, j \in DOMAIN r : h[i] = h[j] => i = j
        /\ \A k \in DOMAIN channels : channels[k] \in OfTab(t) => \E i \in DOMAIN r : h[i] = k
  BY <1>2
<1>4. \A i, j \in DOMAIN channels :
         channels[i].tab = channels[j].tab /\ channels[i].id = channels[j].id => i = j
  BY DEF RegistryIsCurrent
<1>5. \A k \in DOMAIN channels : channels[k] \in OfTab(t) <=> channels[k].tab = t
  BY <1>1 DEF OfTab
<1> DEFINE f == [i \in DOMAIN r |-> r[i].id]
<1>6. f \in [DOMAIN r -> R]
  <2>1. ASSUME NEW i \in DOMAIN r PROVE r[i].id \in R
    BY <1>3, <1>5 DEF Registered
  <2> QED
    BY <2>1
<1>7. \A i, j \in DOMAIN r : f[i] = f[j] => i = j
  <2>1. ASSUME NEW i \in DOMAIN r, NEW j \in DOMAIN r, r[i].id = r[j].id PROVE i = j
    BY <1>3, <1>4, <1>5, <2>1
  <2> QED
    BY <2>1
<1>8. \A x \in R : \E i \in DOMAIN r : f[i] = x
  <2>1. ASSUME NEW k \in DOMAIN channels, channels[k].tab = t
        PROVE  \E i \in DOMAIN r : f[i] = channels[k].id
    BY <1>3, <1>5, <2>1
  <2> QED
    BY <2>1 DEF Registered
<1>9. Len(r) \in Nat /\ Crowd(t) = Len(r)
  <2>1. Selection(channels, OfTab(t)) \in Seq(Channel \cap OfTab(t))
    BY <1>1, SelectionType
  <2> QED
    BY <2>1 DEF For, Crowd
<1> HIDE DEF r, R
<1>10. f \in Bijection(DOMAIN r, R)
  BY <1>6, <1>7, <1>8 DEF Bijection, Injection, IsInjective, Surjection
<1> DEFINE n == Len(r)
<1>11. IsFiniteSet(1 .. n) /\ Cardinality(1 .. n) = n
  <2>1. n \in Nat
    BY <1>9
  <2> HIDE DEF n
  <2>2. 1 \in Int /\ n \in Int
    BY <2>1
  <2>3. IsFiniteSet(1 .. n) /\ Cardinality(1 .. n) = IF 1 > n THEN 0 ELSE n - 1 + 1
    BY <2>2, FS_Interval
  <2> QED
    BY <2>1, <2>3
<1>12. ExistsBijection(1 .. n, R)
  BY <1>2, <1>10 DEF ExistsBijection, n, r
<1> HIDE DEF n
<1>13. IsFiniteSet(R) /\ Cardinality(R) = Cardinality(1 .. n)
  BY <1>11, <1>12, FS_Bijection
<1> QED
  BY <1>9, <1>11, <1>13 DEF R, n

(* The registry knows the channels of its members' documents. *)
LEMMA KnownIsRegistered ==
    ASSUME RegistryIsCurrent, NEW t \in Tabs, NEW id
    PROVE  Known(t, id) <=> id \in Registered(t)
PROOF
<1>1. \A i \in DOMAIN channels : channels[i].doc = doc[channels[i].tab]
  BY DEF RegistryIsCurrent
<1> QED
  BY <1>1 DEF Known, Same, Registered

(* All the members fit a fan-out and its sender. *)
LEMMA MembersFit ==
    ASSUME RegistryShapes, \A u \in Tabs : Crowd(u) <= MaxChannels
    PROVE  Len(channels) <= MaxRecipients + 1 /\ Len(channels) \in Nat
PROOF
<1> DEFINE q == [u \in Tabs |-> << >>]
           P == Added(q, channels)
           G == Tabs \X (1 .. MaxChannels)
<1>1. channels \in Seq(Channel) /\ Len(channels) \in Nat
  BY DEF RegistryShapes
<1>2. q \in Queues(Nat)
  <2>1. << >> \in Seq(Nat)
    OBVIOUS
  <2> QED
    BY <2>1 DEF Queues
<1>3. IsFiniteSet(P) /\ Cardinality(P) = Len(channels)
  <2> HIDE DEF q
  <2> QED
    BY <1>1, <1>2, FanoutCount
<1>4. MaxChannels \in Nat /\ IsFiniteSet(Tabs) /\ MaxRecipients \in Nat
  BY BroadcastAssumption
<1>5. P \subseteq G
  <2>1. ASSUME NEW u \in Tabs, NEW i \in Len(q[u]) + 1 .. Len(q[u]) + Len(For(channels, u))
        PROVE  i \in 1 .. MaxChannels
    <3>1. Len(q[u]) = 0
      OBVIOUS
    <3>2. Crowd(u) <= MaxChannels /\ Crowd(u) \in Nat
      <4>1. Selection(channels, OfTab(u)) \in Seq(Channel \cap OfTab(u))
        BY <1>1, SelectionType
      <4> QED
        BY <4>1 DEF Crowd, For
    <3>3. i \in 1 .. Crowd(u)
      BY <3>1, <3>2 DEF Crowd
    <3> QED
      BY <1>4, <3>2, <3>3
  <2> QED
    BY <2>1 DEF Added
<1>6. IsFiniteSet(G)
  <2>1. IsFiniteSet(1 .. MaxChannels)
    BY <1>4, FS_Interval
  <2> QED
    BY <1>4, <2>1, FS_Product
<1>7. Cardinality(P) <= Cardinality(G)
  <2> HIDE DEF P, G
  <2> QED
    BY <1>5, <1>6, FS_Subset
<1>8. Cardinality(G) <= MaxRecipients + 1 /\ Cardinality(G) \in Nat
  <2>1. Cardinality(G) \in Nat
    <3> HIDE DEF G
    <3> QED
      BY <1>6, FS_CardinalityType
  <2> QED
    BY <2>1, FanoutAssumption
<1> HIDE DEF P, G
<1> QED
  BY <1>1, <1>3, <1>4, <1>7, <1>8

(* A member's post reaches fewer channels than a fan-out admits. *)
LEMMA TargetsFit ==
    ASSUME RegistryShapes, \A u \in Tabs : Crowd(u) <= MaxChannels,
           NEW t \in Tabs, NEW id, Known(t, id)
    PROVE  Len(Targets(t, id)) <= MaxRecipients
PROOF
<1> DEFINE S == {c \in Channel : /\ ~Same(c, t, id)
                                 /\ c.origin = origin[t]
                                 /\ c.name = Member(t, id).name}
           r == Selection(channels, S)
<1>1. channels \in Seq(Channel) /\ DOMAIN channels = 1 .. Len(channels)
  BY DEF RegistryShapes
<1>2. Targets(t, id) = r
  BY DEF Targets
<1>3. PICK k \in DOMAIN channels : channels[k] \notin S
  BY DEF Known
<1> HIDE DEF S
<1> DEFINE a == Picked(channels, S)
           b == Picked(channels, Channel \ S)
           n == Len(channels)
<1>4. a \in Nat /\ b \in Nat
  BY <1>1, PickedNat
<1>5. n \in Nat /\ n <= MaxRecipients + 1
  BY MembersFit
<1>6. n = a + b
  <2> DEFINE T == Channel \ S
             X == S \cap Channel
  <2>1. \A x : x \in Channel <=> x \in X \/ x \in T
    OBVIOUS
  <2>2. \A x \in X : x \notin T
    OBVIOUS
  <2> HIDE DEF X, T
  <2>3. Picked(channels, Channel) = Picked(channels, X) + Picked(channels, T)
    BY <1>1, <2>1, <2>2, SelectionSplits
  <2>4. Selection(channels, Channel) = channels
    BY <1>1, SelectionAll
  <2>5. Selection(channels, X) = Selection(channels, S)
    <3>1. \A i \in 1 .. Len(channels) : channels[i] \in X <=> channels[i] \in S
      BY <1>1 DEF X
    <3> QED
      BY <1>1, <3>1, SelectionAgree
  <2> QED
    BY <2>3, <2>4, <2>5 DEF Picked, T
<1>7. b >= 1
  <2> DEFINE T == Channel \ S
  <2>1. channels[k] \in T
    BY <1>1, <1>3
  <2> HIDE DEF T
  <2>2. Cardinality(Hits(channels, T)) = Picked(channels, T) /\ IsFiniteSet(Hits(channels, T))
    BY <1>1, HitsSelection, HitsFinite
  <2>3. Hits(channels, T) # {}
    BY <1>3, <2>1 DEF Hits
  <2>4. Picked(channels, T) # 0
    BY <2>2, <2>3, FS_EmptySet
  <2> QED
    BY <1>4, <2>4 DEF T
<1>8. Len(r) = a
  BY DEF Picked
<1>9. MaxRecipients \in Nat
  BY BroadcastAssumption
<1> HIDE DEF a, b, n, r
<1> QED
  BY <1>2, <1>4, <1>5, <1>6, <1>7, <1>8, <1>9

(* The sender of a post is the member it is found as. *)
LEMMA MemberIsCurrent ==
    ASSUME RegistryShapes, RegistryIsCurrent, NEW t \in Tabs, NEW id, Known(t, id)
    PROVE  /\ Member(t, id) \in Channel /\ Same(Member(t, id), t, id)
           /\ Member(t, id).origin = origin[t]
           /\ \E i \in DOMAIN channels : channels[i] = Member(t, id)
PROOF
<1>1. channels \in Seq(Channel)
  BY DEF RegistryShapes
<1>2. Range(channels) = {channels[i] : i \in DOMAIN channels}
  BY DEF Range
<1>3. \E c \in Range(channels) : Same(c, t, id)
  BY <1>2 DEF Known
<1>4. Member(t, id) \in Range(channels) /\ Same(Member(t, id), t, id)
  BY <1>3 DEF Member
<1>5. PICK i \in DOMAIN channels : channels[i] = Member(t, id)
  BY <1>2, <1>4
<1>6. channels[i] \in Channel
  BY <1>1
<1>7. channels[i].origin = origin[channels[i].tab]
  BY DEF RegistryIsCurrent
<1> QED
  BY <1>4, <1>5, <1>6, <1>7 DEF Same

(* The registry refuses no command that follows. *)
LEMMA NotRefused ==
    ASSUME RegistryShapes, RegistryIsCurrent, \A u \in Tabs : Crowd(u) <= MaxChannels,
           NEW t \in Tabs, NEW h \in Command, NEW q \in Commands, NEW n,
           NEW p, p = Then(<<h>>, q), Follows(Registered(t), p, n), OwnsDocument(t, h)
    PROVE  ~Refused(t, h)
PROOF
<1> DEFINE R == Registered(t)
<1>1. /\ h.op = "open" => h.id \notin R /\ Cardinality(R) < MaxChannels
      /\ h.op # "open" => h.id \in R
  <2>1. /\ Len(q) \in Nat /\ DOMAIN p = 1 .. Len(q) + 1 /\ p[1] = h
    BY HeadEntries
  <2>2. 1 \in DOMAIN p /\ 1 - 1 = 0
    BY <2>1
  <2>3. /\ h.op = "open" => /\ h.id \notin R \cup Opened(p, 0)
                            /\ Cardinality(Live(R, p, 0)) < MaxChannels
        /\ h.op # "open" => h.id \in Live(R, p, 0)
    BY <2>1, <2>2 DEF Follows
  <2>4. Opened(p, 0) = {} /\ Closed(p, 0) = {}
    BY DEF Opened, Closed
  <2>5. Live(R, p, 0) = R
    BY <2>4 DEF Live
  <2> QED
    BY <2>3, <2>5
<1>2. Known(t, h.id) <=> h.id \in R
  BY KnownIsRegistered
<1>3. h.doc = doc[t]
  BY DEF OwnsDocument
<1>4. CASE h.op = "open"
  <2> DEFINE D == {c \in Channel : c.tab = t /\ c.doc = h.doc}
  <2>1. channels \in Seq(Channel)
    BY DEF RegistryShapes
  <2>2. \A i \in 1 .. Len(channels) : channels[i] \in D <=> channels[i] \in OfTab(t)
    <3>1. \A i \in DOMAIN channels : channels[i].doc = doc[channels[i].tab]
      BY DEF RegistryIsCurrent
    <3>2. DOMAIN channels = 1 .. Len(channels)
      BY <2>1
    <3> QED
      BY <1>3, <2>1, <3>1, <3>2 DEF OfTab
  <2> HIDE DEF D
  <2>3. Selection(channels, D) = Selection(channels, OfTab(t))
    BY <2>1, <2>2, SelectionAgree
  <2>4. Len(Selection(channels, D)) = Crowd(t)
    BY <2>3 DEF Crowd, For
  <2>5. Cardinality(R) = Crowd(t)
    BY RegisteredCount
  <2> DEFINE x == Len(Selection(channels, D))
  <2>6. x < MaxChannels
    BY <1>1, <1>4, <2>4, <2>5
  <2>7. x \in Nat
    <3>1. Selection(channels, D) \in Seq(Channel \cap D)
      BY <2>1, SelectionType
    <3> QED
      BY <3>1
  <2>8. MaxChannels \in Nat
    BY BroadcastAssumption
  <2> HIDE DEF x
  <2>9. ~(x >= MaxChannels)
    BY <2>6, <2>7, <2>8
  <2>10. ~(Len(Selection(channels, {c \in Channel : c.tab = t /\ c.doc = h.doc})) >= MaxChannels)
    BY <2>9 DEF x, D
  <2> QED
    BY <1>1, <1>2, <1>4, <2>10 DEF Refused
<1>5. CASE h.op # "open"
  <2>1. Known(t, h.id)
    BY <1>1, <1>2, <1>5
  <2>2. Member(t, h.id).origin = origin[t]
    BY <2>1, MemberIsCurrent
  <2> DEFINE x == Len(Targets(t, h.id))
  <2>3. x <= MaxRecipients
    BY <2>1, TargetsFit
  <2>4. x \in Nat /\ MaxRecipients \in Nat
    <3>1. Targets(t, h.id) \in Seq(Channel)
      BY TargetsType
    <3> QED
      BY <3>1, BroadcastAssumption
  <2> HIDE DEF x
  <2>5. ~(x > MaxRecipients)
    BY <2>3, <2>4
  <2>6. ~(Len(Targets(t, h.id)) > MaxRecipients)
    BY <2>5 DEF x
  <2> QED
    BY <1>5, <2>1, <2>2, <2>6 DEF Refused
<1> QED
  BY <1>4, <1>5

(***************************************************************************)
(* The identifiers that are registered.                                    *)
(***************************************************************************)

(* The channels of a tab after the registry was thinned. *)
LEMMA RegisteredThinned ==
    ASSUME RegistryShapes, NEW S, channels' = Selection(channels, S), NEW u
    PROVE  \A x : x \in Registered(u)' <=>
             \E j \in DOMAIN channels :
                /\ channels[j].tab = u /\ channels[j].id = x /\ channels[j] \in S
PROOF
<1> DEFINE r == channels'
<1>1. channels \in Seq(Channel) /\ r = Selection(channels, S)
  BY DEF RegistryShapes
<1>2. \E h \in [DOMAIN r -> DOMAIN channels] :
        /\ \A i \in DOMAIN r : r[i] = channels[h[i]] /\ r[i] \in S
        /\ \A k \in DOMAIN channels : channels[k] \in S => \E i \in DOMAIN r : h[i] = k
  <2> HIDE DEF r
  <2>1. \E h \in [DOMAIN r -> DOMAIN channels] :
          /\ \A i \in DOMAIN r : r[i] = channels[h[i]] /\ r[i] \in S /\ r[i] \in Channel
          /\ \A i, j \in DOMAIN r : h[i] = h[j] => i = j
          /\ \A k \in DOMAIN channels : channels[k] \in S => \E i \in DOMAIN r : h[i] = k
    BY <1>1, SelectionThins
  <2> QED
    BY <2>1
<1>3. PICK h \in [DOMAIN r -> DOMAIN channels] :
        /\ \A i \in DOMAIN r : r[i] = channels[h[i]] /\ r[i] \in S
        /\ \A k \in DOMAIN channels : channels[k] \in S => \E i \in DOMAIN r : h[i] = k
  BY <1>2
<1>4. Registered(u)' = {r[i].id : i \in {j \in DOMAIN r : r[j].tab = u}}
  BY DEF Registered
<1> HIDE DEF r
<1>5. ASSUME NEW i \in DOMAIN r, r[i].tab = u
      PROVE  /\ channels[h[i]].tab = u /\ channels[h[i]].id = r[i].id
             /\ channels[h[i]] \in S /\ h[i] \in DOMAIN channels
  BY <1>3, <1>5
<1>6. ASSUME NEW j \in DOMAIN channels, channels[j].tab = u, channels[j] \in S
      PROVE  \E i \in DOMAIN r : r[i].tab = u /\ r[i].id = channels[j].id
  BY <1>3, <1>6
<1> QED
  BY <1>4, <1>5, <1>6

(* How a step changes the channels that the registry holds of each tab. *)
LEMMA RegisteredSteps ==
    ASSUME RegistryShapes, RegistryIsCurrent, PipeShapes, NEW t \in Tabs, Step(t)
    PROVE  /\ \A u \in Tabs : u # t => Registered(u)' = Registered(u)
           /\ channels' = channels => Registered(t)' = Registered(t)
           /\ RetireTab(t) => Registered(t)' = {}
           /\ ApplyCommand(t) /\ Accepts(t, Head(turn[t])) =>
                 Registered(t)' =
                    (Registered(t) \cup Alone(Head(turn[t]).op = "open", Head(turn[t]).id))
                       \ Alone(Head(turn[t]).op = "close", Head(turn[t]).id)
PROOF
<1>1. channels \in Seq(Channel) /\ DOMAIN channels = 1 .. Len(channels)
  BY DEF RegistryShapes
<1>2. ASSUME channels' = channels PROVE \A u \in Tabs : Registered(u)' = Registered(u)
  BY <1>2 DEF Registered
<1>3. ASSUME RetireTab(t)
      PROVE  /\ \A u \in Tabs : u # t => Registered(u)' = Registered(u)
             /\ Registered(t)' = {}
  <2> DEFINE S == {c \in Channel : c.tab # t}
  <2>1. channels' = Selection(channels, S)
    BY <1>3 DEF RetireTab
  <2>2. \A j \in DOMAIN channels : channels[j] \in S <=> channels[j].tab # t
    BY <1>1
  <2> HIDE DEF S
  <2>3. ASSUME NEW u \in Tabs, u # t PROVE Registered(u)' = Registered(u)
    <3>1. \A x : x \in Registered(u)' <=>
             \E j \in DOMAIN channels :
                /\ channels[j].tab = u /\ channels[j].id = x /\ channels[j] \in S
      BY <2>1, RegisteredThinned
    <3>2. \A x : x \in Registered(u)' <=> x \in Registered(u)
      BY <2>2, <2>3, <3>1 DEF Registered
    <3> QED
      BY <3>2
  <2>4. Registered(t)' = {}
    <3>1. \A x : x \in Registered(t)' <=>
             \E j \in DOMAIN channels :
                /\ channels[j].tab = t /\ channels[j].id = x /\ channels[j] \in S
      BY <2>1, RegisteredThinned
    <3> QED
      BY <2>2, <3>1
  <2> QED
    BY <1>3, <2>3, <2>4
<1>4. ASSUME ApplyCommand(t) /\ Accepts(t, Head(turn[t]))
      PROVE  /\ \A u \in Tabs : u # t => Registered(u)' = Registered(u)
             /\ Registered(t)' =
                   (Registered(t) \cup Alone(Head(turn[t]).op = "open", Head(turn[t]).id))
                      \ Alone(Head(turn[t]).op = "close", Head(turn[t]).id)
  <2> DEFINE cmd == Head(turn[t])
  <2>1. cmd \in Command
    BY <1>4, StreamShrinks
  <2> HIDE DEF cmd
  <2>2. /\ cmd.doc = doc[t]
        /\ \/ cmd.op = "open" /\ ApplyOpen(t, cmd)
           \/ cmd.op = "post" /\ ApplyPost(t, cmd)
           \/ cmd.op = "close" /\ ApplyClose(t, cmd)
    BY <1>4 DEF Accepts, OwnsDocument, cmd
  <2> SUFFICES /\ \A u \in Tabs : u # t => Registered(u)' = Registered(u)
               /\ Registered(t)' = (Registered(t) \cup Alone(cmd.op = "open", cmd.id))
                                       \ Alone(cmd.op = "close", cmd.id)
    BY <1>4 DEF cmd
  <2>3. CASE cmd.op = "open" /\ ApplyOpen(t, cmd)
    <3> DEFINE c == [tab |-> t, doc |-> cmd.doc, id |-> cmd.id,
                     origin |-> origin[t], name |-> cmd.name]
               r == channels'
               n == Len(channels)
    <3>1. r = Append(channels, c) /\ c.tab = t /\ c.id = cmd.id
      BY <2>3 DEF ApplyOpen
    <3> HIDE DEF c
    <3>2. /\ n \in Nat /\ DOMAIN r = 1 .. n + 1 /\ r[n + 1] = c
          /\ \A i \in 1 .. n : r[i] = channels[i]
      BY <1>1, <3>1
    <3>3. \A i : i \in 1 .. n + 1 <=> i \in 1 .. n \/ i = n + 1
      BY <3>2
    <3>4. \A u : Registered(u)' = {r[i].id : i \in {j \in DOMAIN r : r[j].tab = u}}
      BY DEF Registered
    <3> HIDE DEF r
    <3> HIDE DEF n
    <3>5. ASSUME NEW u PROVE Registered(u)' = Registered(u) \cup Alone(u = t, cmd.id)
      <4>1. \A x : x \in Registered(u)' <=>
               \E j \in 1 .. n + 1 : r[j].tab = u /\ r[j].id = x
        BY <3>2, <3>4
      <4>2. \A x : x \in Registered(u) <=>
               \E j \in 1 .. n : channels[j].tab = u /\ channels[j].id = x
        BY <1>1 DEF Registered, n
      <4>3. \A x : (\E j \in 1 .. n + 1 : r[j].tab = u /\ r[j].id = x) <=>
               \/ \E j \in 1 .. n : r[j].tab = u /\ r[j].id = x
               \/ r[n + 1].tab = u /\ r[n + 1].id = x
        BY <3>3
      <4>4. \A x : (\E j \in 1 .. n : r[j].tab = u /\ r[j].id = x) <=> x \in Registered(u)
        BY <3>2, <4>2
      <4>5. \A x : r[n + 1].tab = u /\ r[n + 1].id = x <=> u = t /\ x = cmd.id
        BY <3>1, <3>2
      <4>6. \A x : x \in Registered(u)' <=> x \in Registered(u) \/ (u = t /\ x = cmd.id)
        BY <4>1, <4>3, <4>4, <4>5
      <4> QED
        BY <4>6 DEF Alone
    <3> QED
      BY <2>3, <3>5 DEF Alone
  <2>4. CASE cmd.op = "post" /\ ApplyPost(t, cmd)
    <3>1. channels' = channels
      BY <2>4 DEF ApplyPost
    <3> QED
      BY <2>4, <3>1 DEF Registered, Alone
  <2>5. CASE cmd.op = "close" /\ ApplyClose(t, cmd)
    <3>1. CASE ~Known(t, cmd.id) /\ channels' = channels
      <4>1. cmd.id \notin Registered(t)
        BY <3>1, KnownIsRegistered
      <4> QED
        BY <2>5, <3>1, <4>1 DEF Registered, Alone
    <3>2. CASE channels' = Selection(channels, {c \in Channel : ~Same(c, t, cmd.id)})
      <4> DEFINE S == {c \in Channel : ~Same(c, t, cmd.id)}
      <4>1. \A j \in DOMAIN channels :
               channels[j] \in S <=> ~(channels[j].tab = t /\ channels[j].id = cmd.id)
        <5>1. \A j \in DOMAIN channels : channels[j].doc = doc[channels[j].tab]
          BY DEF RegistryIsCurrent
        <5> QED
          BY <1>1, <5>1 DEF Same
      <4>2. channels' = Selection(channels, S)
        BY <3>2
      <4> HIDE DEF S
      <4>3. ASSUME NEW u PROVE Registered(u)' = Registered(u) \ Alone(u = t, cmd.id)
        <5>1. \A x : x \in Registered(u)' <=>
                 \E j \in DOMAIN channels :
                    /\ channels[j].tab = u /\ channels[j].id = x /\ channels[j] \in S
          BY <4>2, RegisteredThinned
        <5>2. \A x : x \in Registered(u) <=>
                 \E j \in DOMAIN channels : channels[j].tab = u /\ channels[j].id = x
          BY DEF Registered
        <5>3. \A x : x \in Registered(u)' <=> x \in Registered(u) /\ ~(u = t /\ x = cmd.id)
          BY <4>1, <5>1, <5>2
        <5> QED
          BY <5>3 DEF Alone
      <4> QED
        BY <2>5, <4>3 DEF Alone
    <3> QED
      BY <2>5, <3>1, <3>2 DEF ApplyClose
  <2> QED
    BY <2>2, <2>3, <2>4, <2>5
<1>5. \/ channels' = channels \/ RetireTab(t)
      \/ ApplyCommand(t) /\ Accepts(t, Head(turn[t]))
  BY RegistrySteps DEF TakeIf
<1> QED
  BY <1>2, <1>3, <1>4, <1>5

(***************************************************************************)
(* A running page is served.                                               *)
(***************************************************************************)

ServedPage(t) ==
    OneRealm(t) =>
        /\ owned[t]
        /\ Follows(Registered(t), Stream(t), used[t])
        /\ DOMAIN page[t] = Live(Registered(t), Stream(t), Len(Stream(t)))

(* What a task of a page does to its channels and to its stream.           *)
LEMMA PageWrites ==
    ASSUME IdentityShapes, PageShapes, PipeShapes, NEW t \in Tabs,
           OpenChannel(t) \/ PostMessage(t) \/ CloseChannel(t)
    PROVE  /\ \A u \in Tabs \ {t} : page'[u] = page[u] /\ used'[u] = used[u]
           /\ \E cmd \in Command :
                /\ Pipes(t) /\ Stream(t)' = Append(Stream(t), cmd)
                /\ DOMAIN page'[t] = (DOMAIN page[t] \cup Alone(cmd.op = "open", cmd.id))
                                         \ Alone(cmd.op = "close", cmd.id)
                /\ \/ /\ cmd.op = "open" /\ cmd.id = used[t] + 1 /\ used'[t] = used[t] + 1
                      /\ Cardinality(DOMAIN page[t]) < MaxChannels
                   \/ /\ cmd.op # "open" /\ cmd.id \in DOMAIN page[t] /\ used'[t] = used[t]
PROOF
<1>1. /\ used[t] \in Nat /\ doc[t] \in Nat /\ DOMAIN page[t] \subseteq 1 .. used[t]
      /\ page \in [Tabs -> UNION {[ids -> Names] : ids \in SUBSET Nat}]
      /\ used \in [Tabs -> Nat]
  BY DEF PageShapes, IdentityShapes
<1>2. CASE OpenChannel(t)
  <2>1. PICK n \in Names :
          /\ page' = [page EXCEPT ![t] = With(@, used[t] + 1, n)]
          /\ Writes(t, [op |-> "open", doc |-> doc[t], id |-> used[t] + 1, name |-> n])
    BY <1>2 DEF OpenChannel
  <2>2. /\ Cardinality(DOMAIN page[t]) < MaxChannels
        /\ used' = [used EXCEPT ![t] = @ + 1] /\ UNCHANGED <<turn, events>>
    BY <1>2 DEF OpenChannel, shell
  <2> DEFINE cmd == [op |-> "open", doc |-> doc[t], id |-> used[t] + 1, name |-> n]
  <2>3. cmd \in Command /\ cmd.op = "open" /\ cmd.id = used[t] + 1
    BY <1>1 DEF Command
  <2>4. Writes(t, cmd)
    BY <2>1
  <2> HIDE DEF cmd
  <2>5. Pipes(t) /\ Stream(t)' = Append(Stream(t), cmd)
    BY <2>2, <2>3, <2>4, StreamGrows
  <2>6. /\ used'[t] = used[t] + 1
        /\ \A u \in Tabs \ {t} : page'[u] = page[u] /\ used'[u] = used[u]
    BY <1>1, <2>1, <2>2
  <2>7. page'[t] = With(page[t], used[t] + 1, n)
    BY <1>1, <2>1
  <2>8. DOMAIN page'[t] = DOMAIN page[t] \cup {used[t] + 1}
    BY <2>7 DEF With
  <2>9. DOMAIN page'[t] = (DOMAIN page[t] \cup Alone(cmd.op = "open", cmd.id))
                               \ Alone(cmd.op = "close", cmd.id)
    BY <2>3, <2>8 DEF Alone
  <2> QED
    BY <2>2, <2>3, <2>5, <2>6, <2>9
<1>3. CASE PostMessage(t)
  <2>1. PICK id \in DOMAIN page[t], s \in Sizes :
          Writes(t, [op |-> "post", doc |-> doc[t], id |-> id, size |-> s])
    BY <1>3 DEF PostMessage
  <2>2. UNCHANGED <<page, used, turn, events>>
    BY <1>3 DEF PostMessage, shell
  <2> DEFINE cmd == [op |-> "post", doc |-> doc[t], id |-> id, size |-> s]
  <2>3. cmd \in Command /\ cmd.op = "post" /\ cmd.id = id
    BY <1>1 DEF Command
  <2>4. Writes(t, cmd)
    BY <2>1
  <2> HIDE DEF cmd
  <2>5. Pipes(t) /\ Stream(t)' = Append(Stream(t), cmd)
    BY <2>2, <2>3, <2>4, StreamGrows
  <2> QED
    BY <2>1, <2>2, <2>3, <2>5 DEF Alone
<1>4. CASE CloseChannel(t)
  <2>1. PICK id \in DOMAIN page[t] :
          /\ page' = [page EXCEPT ![t] = Restrict(@, DOMAIN @ \ {id})]
          /\ Writes(t, [op |-> "close", doc |-> doc[t], id |-> id])
    BY <1>4 DEF CloseChannel
  <2>2. UNCHANGED <<used, turn, events>>
    BY <1>4 DEF CloseChannel, shell
  <2> DEFINE cmd == [op |-> "close", doc |-> doc[t], id |-> id]
  <2>3. cmd \in Command /\ cmd.op = "close" /\ cmd.id = id
    BY <1>1 DEF Command
  <2>4. Writes(t, cmd)
    BY <2>1
  <2> HIDE DEF cmd
  <2>5. Pipes(t) /\ Stream(t)' = Append(Stream(t), cmd)
    BY <2>2, <2>3, <2>4, StreamGrows
  <2>6. \A u \in Tabs \ {t} : page'[u] = page[u]
    BY <1>1, <2>1
  <2>7. page'[t] = Restrict(page[t], DOMAIN page[t] \ {id})
    BY <1>1, <2>1
  <2>8. DOMAIN page'[t] = DOMAIN page[t] \ {id}
    BY <2>7 DEF Restrict
  <2>9. DOMAIN page'[t] = (DOMAIN page[t] \cup Alone(cmd.op = "open", cmd.id))
                               \ Alone(cmd.op = "close", cmd.id)
    BY <2>3, <2>8 DEF Alone
  <2> QED
    BY <2>1, <2>2, <2>3, <2>5, <2>6, <2>9
<1> QED
  BY <1>2, <1>3, <1>4

(* A page keeps its channels outside its own tasks, its navigations and    *)
(* its restarts.                                                           *)
LEMMA PageSteps ==
    ASSUME PageShapes, NEW t \in Tabs, Step(t)
    PROVE  /\ \A u \in Tabs \ {t} : page'[u] = page[u] /\ used'[u] = used[u]
           /\ \/ OpenChannel(t) \/ PostMessage(t) \/ CloseChannel(t) \/ RestartEncoding(t)
              \/ Navigate(t) /\ DOMAIN page'[t] = {} /\ used'[t] = 0
              \/ ~Navigate(t) /\ UNCHANGED <<page, used>>
PROOF
<1>1. /\ page \in [Tabs -> UNION {[ids -> Names] : ids \in SUBSET Nat}]
      /\ used \in [Tabs -> Nat]
  BY DEF PageShapes
<1>2. CASE OpenChannel(t) \/ PostMessage(t) \/ CloseChannel(t)
  <2>1. /\ used' = used \/ used' = [used EXCEPT ![t] = @ + 1]
        /\ \/ page' = page
           \/ \E n : page' = [page EXCEPT ![t] = With(@, used[t] + 1, n)]
           \/ \E id : page' = [page EXCEPT ![t] = Restrict(@, DOMAIN @ \ {id})]
    BY <1>2 DEF OpenChannel, PostMessage, CloseChannel
  <2> QED
    BY <1>1, <1>2, <2>1
<1>3. CASE Navigate(t)
  <2>1. page' = [page EXCEPT ![t] = << >>] /\ used' = [used EXCEPT ![t] = 0]
    BY <1>3 DEF Navigate
  <2>2. page'[t] = << >> /\ used'[t] = 0
    BY <1>1, <2>1
  <2>3. DOMAIN << >> = {}
    OBVIOUS
  <2> QED
    BY <1>1, <1>3, <2>1, <2>2, <2>3
<1>4. CASE ~Navigate(t) /\ UNCHANGED <<page, used>>
  BY <1>4
<1>5. CASE RestartEncoding(t)
  <2>1. page' = [page EXCEPT ![t] = << >>] /\ used' = [used EXCEPT ![t] = 0]
    BY <1>5 DEF RestartEncoding
  <2> QED
    BY <1>1, <1>5, <2>1
<1> QED
  BY <1>2, <1>3, <1>4, <1>5, StepCases DEF Dispatch, EmitEvent, SendCommands, BrokerExits, Collect,
     ApplyCommand, PumpDeliveries, FinishExit, Crash, Terminate, child

(* A step of one tab leaves the realms of the others alone.                *)
LEMMA RealmOfOthers ==
    ASSUME IdentityShapes, RealmShapes, NEW t \in Tabs, Step(t), NEW u \in Tabs, u # t
    PROVE  OneRealm(u)' <=> OneRealm(u)
PROOF
<1>1. session'[u] = session[u]
  BY IdentitySteps
<1>2. restarted'[u] = restarted[u]
  BY RealmSteps
<1> QED
  BY <1>1, <1>2 DEF OneRealm

(* A step of one tab leaves the agreement of every other page with the     *)
(* registry alone.                                                         *)
LEMMA ServedOthers ==
    ASSUME Shapes, Shapes', Members, NEW t \in Tabs, Step(t),
           NEW u \in Tabs, u # t, ServedPage(u)
    PROVE  ServedPage(u)'
PROOF
<1>1. (OneRealm(u)' <=> OneRealm(u)) /\ owned'[u] = owned[u]
  BY RealmOfOthers, IdentitySteps DEF Shapes
<1>2. Stream(u)' = Stream(u)
  BY StreamCases, StreamReplaced DEF Shapes
<1>3. page'[u] = page[u] /\ used'[u] = used[u]
  BY PageSteps DEF Shapes
<1>4. Registered(u)' = Registered(u)
  BY RegisteredSteps DEF Shapes, Members
<1> DEFINE p == Stream(u)
           s == Stream(u)'
           R == Registered(u)
           Q == Registered(u)'
<1>5. s = p /\ Q = R
  BY <1>2, <1>4
<1>6. ServedPage(u) <=> (OneRealm(u) =>
          owned[u] /\ Follows(R, p, used[u]) /\ DOMAIN page[u] = Live(R, p, Len(p)))
  BY DEF ServedPage
<1>7. ServedPage(u)' <=> (OneRealm(u)' =>
          owned'[u] /\ Follows(Q, s, used'[u]) /\ DOMAIN page'[u] = Live(Q, s, Len(s)))
  BY DEF ServedPage, Follows, Live, Opened, Closed
<1> HIDE DEF p, s, R, Q
<1> QED
  BY <1>1, <1>3, <1>5, <1>6, <1>7

(* A step of a tab after which its page runs, other than a navigation, is  *)
(* a step of a running page; if the shell applies a command, it is         *)
(* accepted; and nothing else changes the registry.                        *)
LEMMA RunningSteps ==
    ASSUME IdentityShapes, RealmShapes, NEW t \in Tabs, Step(t), ~Navigate(t), OneRealm(t)'
    PROVE  /\ OneRealm(t)
           /\ ApplyCommand(t) \/ (channels' = channels /\ owned' = owned)
           /\ ~BrokerExits(t) /\ ~RestartEncoding(t)
PROOF
<1>1. /\ session \in [Tabs -> {"running", "ending", "gone", "none"}]
      /\ session'[t] = "running" /\ ~restarted'[t]
  BY DEF IdentityShapes, OneRealm
<1>8. ~RestartEncoding(t) /\ restarted' = restarted
  BY <1>1, RealmSteps
<1>9. session' = session => OneRealm(t)
  BY <1>1, <1>8 DEF OneRealm
<1>2. CASE Crash(t) \/ Terminate(t)
  <2>1. session' = [session EXCEPT ![t] = "ending"]
    BY <1>2 DEF Crash, Terminate
  <2> QED
    BY <1>1, <2>1
<1>3. CASE BrokerExits(t)
  <2>1. session' = [session EXCEPT ![t] = "gone"]
    BY <1>3 DEF BrokerExits
  <2> QED
    BY <1>1, <2>1
<1>4. CASE FinishExit(t)
  <2>1. session' = [session EXCEPT ![t] = "none"]
    BY <1>4 DEF FinishExit
  <2> QED
    BY <1>1, <2>1
<1>5. CASE PumpDeliveries(t)
  <2>1. session' = session
    BY <1>5 DEF PumpDeliveries, TakeIf, Contain, identity
  <2>2. TakeIf(t) /\ ~BrokerExits(t)
    BY <1>1, <1>5, <2>1 DEF PumpDeliveries, BrokerExits
  <2> QED
    BY <1>8, <1>9, <2>1, <2>2 DEF TakeIf, identity
<1>6. CASE ApplyCommand(t)
  <2>1. session' = session
    BY <1>6 DEF ApplyCommand, Applied, Contain, identity
  <2>2. ~BrokerExits(t)
    BY <1>1, <2>1 DEF BrokerExits
  <2> QED
    BY <1>6, <1>8, <1>9, <2>1, <2>2
<1>7. CASE \/ OpenChannel(t) \/ PostMessage(t) \/ CloseChannel(t) \/ Dispatch(t)
           \/ EmitEvent(t) \/ SendCommands(t) \/ Collect(t)
  <2>1. session' = session /\ channels' = channels /\ owned' = owned
    BY <1>7 DEF OpenChannel, PostMessage, CloseChannel, Dispatch, EmitEvent, SendCommands,
                Collect, identity, shell
  <2>2. ~BrokerExits(t)
    BY <1>1, <2>1 DEF BrokerExits
  <2> QED
    BY <1>8, <1>9, <2>1, <2>2
<1> QED
  BY <1>2, <1>3, <1>4, <1>5, <1>6, <1>7, <1>8, StepCases

(* A page that opens, posts or closes still agrees with the registry and   *)
(* its stream.                                                             *)
LEMMA ServedWrites ==
    ASSUME Shapes, Shapes', Members, NEW t \in Tabs, Step(t), ServedPage(t),
           OneRealm(t), OneRealm(t)', owned'[t] = owned[t],
           channels' = channels, OpenChannel(t) \/ PostMessage(t) \/ CloseChannel(t)
    PROVE  ServedPage(t)'
PROOF
<1> DEFINE p == Stream(t)
           s == Stream(t)'
           R == Registered(t)
           Q == Registered(t)'
           L == DOMAIN page[t]
<1>1. PICK cmd \in Command :
        /\ s = Append(p, cmd)
        /\ DOMAIN page'[t] = (L \cup Alone(cmd.op = "open", cmd.id))
                                 \ Alone(cmd.op = "close", cmd.id)
        /\ \/ /\ cmd.op = "open" /\ cmd.id = used[t] + 1 /\ used'[t] = used[t] + 1
              /\ Cardinality(L) < MaxChannels
           \/ /\ cmd.op # "open" /\ cmd.id \in L /\ used'[t] = used[t]
  <2>1. \E cmd \in Command :
                /\ Pipes(t) /\ Stream(t)' = Append(Stream(t), cmd)
                /\ DOMAIN page'[t] = (DOMAIN page[t] \cup Alone(cmd.op = "open", cmd.id))
                                         \ Alone(cmd.op = "close", cmd.id)
                /\ \/ /\ cmd.op = "open" /\ cmd.id = used[t] + 1 /\ used'[t] = used[t] + 1
                      /\ Cardinality(DOMAIN page[t]) < MaxChannels
                   \/ /\ cmd.op # "open" /\ cmd.id \in DOMAIN page[t] /\ used'[t] = used[t]
    BY PageWrites DEF Shapes
  <2> QED
    BY <2>1
<1>2. Q = R
  BY RegisteredSteps DEF Shapes, Members
<1>3. owned[t] /\ Follows(R, p, used[t]) /\ L = Live(R, p, Len(p))
  BY DEF ServedPage
<1>4. ServedPage(t)' <=> (OneRealm(t)' =>
          owned'[t] /\ Follows(Q, s, used'[t]) /\ DOMAIN page'[t] = Live(Q, s, Len(s)))
  BY DEF ServedPage, Follows, Live, Opened, Closed
<1>5. used[t] \in Nat /\ used'[t] \in Nat
  BY DEF Shapes, PageShapes
<1>6. p \in Commands
  BY StreamCases DEF Shapes
<1> DEFINE n == used[t]
           m == used'[t]
<1> HIDE DEF p, s, R, Q, L, n, m
<1>7. \/ cmd.op = "open" /\ cmd.id = n + 1 /\ m = n + 1 /\ Cardinality(L) < MaxChannels
      \/ cmd.op # "open" /\ cmd.id \in L /\ m = n
  BY <1>1 DEF n, m
<1>8. n \in Nat /\ m \in Nat /\ Follows(R, p, n)
  BY <1>3, <1>5 DEF n, m
<1>9. /\ Follows(R, Append(p, cmd), m)
      /\ Live(R, Append(p, cmd), Len(Append(p, cmd)))
            = (L \cup Alone(cmd.op = "open", cmd.id)) \ Alone(cmd.op = "close", cmd.id)
  BY <1>3, <1>6, <1>7, <1>8, FollowsAppend
<1> QED
  BY <1>1, <1>2, <1>3, <1>4, <1>9 DEF m

(* A running page's command is accepted, and the agreement holds without   *)
(* it.                                                                     *)
LEMMA ServedApplies ==
    ASSUME Shapes, Shapes', Members, NEW t \in Tabs, Step(t), ServedPage(t),
           OneRealm(t), ApplyCommand(t)
    PROVE  Accepts(t, Head(turn[t])) /\ ServedPage(t)'
PROOF
<1> DEFINE p == Stream(t)
           s == Stream(t)'
           R == Registered(t)
           Q == Registered(t)'
           h == Head(turn[t])
<1>1. h \in Command /\ p = Then(<<h>>, s) /\ s \in Commands
  BY StreamShrinks DEF Shapes, Then, Commands
<1>2. owned[t] /\ Follows(R, p, used[t]) /\ DOMAIN page[t] = Live(R, p, Len(p))
  BY DEF ServedPage
<1>3. ServedPage(t)' <=> (OneRealm(t)' =>
          owned'[t] /\ Follows(Q, s, used'[t]) /\ DOMAIN page'[t] = Live(Q, s, Len(s)))
  BY DEF ServedPage, Follows, Live, Opened, Closed
<1>4. \A k \in DOMAIN p : p[k].doc = doc[t]
  BY DEF Members
<1>5. page' = page /\ used' = used
  BY DEF ApplyCommand, child
<1>6. Applied(t, h)
  BY DEF ApplyCommand
<1>7. \A u \in Tabs : Crowd(u) <= MaxChannels
  BY DEF Members, Crowd
<1> HIDE DEF p, s, R, Q, h
<1>8. p[1] = h /\ 1 \in DOMAIN p
  <2>1. Len(s) \in Nat /\ DOMAIN p = 1 .. Len(s) + 1 /\ p[1] = h
    BY <1>1, HeadEntries
  <2> QED
    BY <2>1
<1>9. OwnsDocument(t, h)
  BY <1>2, <1>4, <1>8 DEF OwnsDocument
<1>10. ~Refused(t, h)
  BY <1>1, <1>2, <1>7, <1>9, NotRefused DEF Shapes, Members, R
<1>11. Accepts(t, h)
  BY <1>6, <1>9, <1>10 DEF Applied, Accepts
<1>12. owned' = owned
  BY <1>11 DEF Accepts, identity
<1>13. Q = (R \cup Alone(h.op = "open", h.id)) \ Alone(h.op = "close", h.id)
  <2>1. ApplyCommand(t) /\ Accepts(t, Head(turn[t]))
    BY <1>11 DEF h
  <2>2. Registered(t)' =
                    (Registered(t) \cup Alone(Head(turn[t]).op = "open", Head(turn[t]).id))
                       \ Alone(Head(turn[t]).op = "close", Head(turn[t]).id)
    BY <2>1, RegisteredSteps DEF Shapes, Members
  <2> QED
    BY <2>2 DEF Q, R, h
<1>14. Follows(Q, s, used[t]) /\ Live(R, p, Len(p)) = Live(Q, s, Len(s))
  <2> DEFINE n == used[t]
  <2> HIDE DEF n
  <2>1. Follows(R, p, n)
    BY <1>2 DEF n
  <2>2. Follows(Q, s, n) /\ Live(R, p, Len(p)) = Live(Q, s, Len(s))
    BY <1>1, <1>13, <2>1, FollowsTail
  <2> QED
    BY <2>2 DEF n
<1>15. ServedPage(t)'
  BY <1>2, <1>3, <1>5, <1>12, <1>14
<1>16. Accepts(t, Head(turn[t]))
  BY <1>11 DEF h
<1> QED
  BY <1>15, <1>16

(* An empty stream from an empty registry follows the rules and leaves     *)
(* nothing open.                                                           *)
LEMMA NothingFollows ==
    ASSUME NEW n
    PROVE  Follows({}, <<>>, n) /\ Live({}, <<>>, Len(<<>>)) = {}
PROOF
<1>1. DOMAIN <<>> = {} /\ Len(<<>>) = 0
  OBVIOUS
<1>2. 1 .. 0 = {}
  OBVIOUS
<1> QED
  BY <1>1, <1>2 DEF Follows, Live, Opened, Closed

(* Every other step of a tab keeps its page's agreement with the registry. *)
LEMMA ServedElse ==
    ASSUME Shapes, Shapes', Members, NEW t \in Tabs, Step(t), ServedPage(t),
           ~(OpenChannel(t) \/ PostMessage(t) \/ CloseChannel(t)), ~ApplyCommand(t)
    PROVE  ServedPage(t)'
PROOF
<1> DEFINE p == Stream(t)
           s == Stream(t)'
           R == Registered(t)
           Q == Registered(t)'
<1>1. ServedPage(t)' <=> (OneRealm(t)' =>
          owned'[t] /\ Follows(Q, s, used'[t]) /\ DOMAIN page'[t] = Live(Q, s, Len(s)))
  BY DEF ServedPage, Follows, Live, Opened, Closed
<1>2. CASE Navigate(t)
  <2>1. RetireTab(t) /\ owned' = [owned EXCEPT ![t] = TRUE]
    BY <1>2 DEF Navigate
  <2>2. owned'[t]
    BY <2>1 DEF Shapes, IdentityShapes
  <2>3. Q = {}
    BY <2>1, RegisteredSteps DEF Shapes, Members
  <2>4. s = <<>>
    <3>1. /\ out' = [out EXCEPT ![t] = << >>] /\ turn' = [turn EXCEPT ![t] = << >>]
          /\ events' = [events EXCEPT ![t] = << >>]
      BY <1>2 DEF Navigate
    <3>2. turn'[t] = << >> /\ events'[t] = << >> /\ out'[t] = << >>
      BY <3>1 DEF Shapes, PipeShapes
    <3>3. s = << >> \o << >> \o << >>
      BY <3>2 DEF Stream
    <3> QED
      BY <3>3, ConcatEmptySeq
  <2>5. DOMAIN page'[t] = {}
    <3>1. page' = [page EXCEPT ![t] = << >>]
      BY <1>2 DEF Navigate
    <3>2. page'[t] = << >>
      BY <3>1 DEF Shapes, PageShapes
    <3>3. DOMAIN << >> = {}
      OBVIOUS
    <3> QED
      BY <3>2, <3>3
  <2> HIDE DEF s, Q
  <2> QED
    BY <1>1, <2>2, <2>3, <2>4, <2>5, NothingFollows
<1>3. CASE ~Navigate(t) /\ OneRealm(t)'
  <2>1. /\ OneRealm(t) /\ channels' = channels /\ owned' = owned
        /\ ~BrokerExits(t) /\ ~RestartEncoding(t)
    BY <1>3, RunningSteps DEF Shapes
  <2>2. page' = page /\ used' = used
    BY <1>3, <2>1, PageSteps DEF Shapes
  <2>3. s = p
    BY <1>3, <2>1, StreamCases DEF Shapes
  <2>4. Q = R
    BY <2>1, RegisteredSteps DEF Shapes, Members
  <2>5. owned[t] /\ Follows(R, p, used[t]) /\ DOMAIN page[t] = Live(R, p, Len(p))
    BY <2>1 DEF ServedPage
  <2> HIDE DEF s, p, Q, R
  <2> QED
    BY <1>1, <2>1, <2>2, <2>3, <2>4, <2>5
<1>4. CASE ~OneRealm(t)'
  BY <1>1, <1>4
<1> QED
  BY <1>2, <1>3, <1>4

(* The agreement is one of each page. *)
LEMMA ServedIsPages == (Served <=> \A t \in Tabs : ServedPage(t))
PROOF
  BY DEF Served, ServedPage

ServedInv == MemberInv /\ Served

(* Every step keeps the agreement of pages and registry. *)
LEMMA ServedSteps == ServedInv /\ MemberInv' /\ [Next]_vars => Served'
PROOF
<1> SUFFICES ASSUME ServedInv, MemberInv', [Next]_vars PROVE Served'
  OBVIOUS
<1>1. Shapes /\ Shapes' /\ Members /\ \A t \in Tabs : ServedPage(t)
  BY ServedIsPages DEF ServedInv, MemberInv, CoreInv
<1>2. CASE UNCHANGED vars
  <2> SUFFICES ASSUME NEW t \in Tabs PROVE ServedPage(t)'
    BY DEF Served, ServedPage
  <2>1. /\ turn' = turn /\ events' = events /\ out' = out /\ channels' = channels
        /\ session' = session /\ owned' = owned /\ page' = page /\ used' = used
        /\ restarted' = restarted
    BY <1>2 DEF vars, identity, child, shell
  <2>6. OneRealm(t)' <=> OneRealm(t)
    BY <2>1 DEF OneRealm
  <2> DEFINE p == Stream(t)
             s == Stream(t)'
             R == Registered(t)
             Q == Registered(t)'
  <2>2. s = p /\ Q = R
    BY <2>1 DEF Stream, Registered
  <2>3. ServedPage(t) <=> (OneRealm(t) =>
            owned[t] /\ Follows(R, p, used[t]) /\ DOMAIN page[t] = Live(R, p, Len(p)))
    BY DEF ServedPage
  <2>4. ServedPage(t)' <=> (OneRealm(t)' =>
            owned'[t] /\ Follows(Q, s, used'[t]) /\ DOMAIN page'[t] = Live(Q, s, Len(s)))
    BY DEF ServedPage, Follows, Live, Opened, Closed
  <2>5. ServedPage(t)
    BY <1>1
  <2> HIDE DEF p, s, R, Q
  <2> QED
    BY <2>1, <2>2, <2>3, <2>4, <2>5, <2>6
<1>3. ASSUME NEW t \in Tabs, Step(t) PROVE Served'
  <2>1. ServedPage(t)'
    <3>1. CASE ApplyCommand(t)
      <4>1. OneRealm(t)' <=> OneRealm(t)
        BY <3>1 DEF ApplyCommand, Applied, Contain, identity, child, OneRealm
      <4>2. CASE OneRealm(t)
        BY <1>1, <1>3, <3>1, <4>2, ServedApplies
      <4>3. CASE ~OneRealm(t)
        BY <4>1, <4>3 DEF ServedPage
      <4> QED
        BY <4>2, <4>3
    <3>2. CASE OpenChannel(t) \/ PostMessage(t) \/ CloseChannel(t)
      <4>1. /\ OneRealm(t)' <=> OneRealm(t)
            /\ owned' = owned /\ channels' = channels
        BY <3>2 DEF OpenChannel, PostMessage, CloseChannel, identity, shell, OneRealm
      <4>2. CASE OneRealm(t)
        BY <1>1, <1>3, <3>2, <4>1, <4>2, ServedWrites
      <4>3. CASE ~OneRealm(t)
        BY <4>1, <4>3 DEF ServedPage
      <4> QED
        BY <4>2, <4>3
    <3>3. CASE ~(OpenChannel(t) \/ PostMessage(t) \/ CloseChannel(t)) /\ ~ApplyCommand(t)
      BY <1>1, <1>3, <3>3, ServedElse
    <3> QED
      BY <3>1, <3>2, <3>3
  <2>2. \A u \in Tabs : u # t => ServedPage(u)'
    BY <1>1, <1>3, ServedOthers
  <2>3. \A u \in Tabs : ServedPage(u)'
    BY <2>1, <2>2
  <2> QED
    BY <2>3 DEF Served, ServedPage
<1> QED
  BY <1>2, <1>3 DEF Next, Step

(* At the start every page agrees with the registry. *)
LEMMA ServedStart == Init => Served
PROOF
<1> SUFFICES ASSUME Init, NEW t \in Tabs PROVE ServedPage(t)
  BY ServedIsPages
<1>1. /\ owned[t] = TRUE /\ channels = <<>> /\ page[t] = <<>>
      /\ turn[t] = <<>> /\ events[t] = <<>> /\ out[t] = <<>>
  BY DEF Init
<1>2. DOMAIN <<>> = {}
  OBVIOUS
<1>3. Registered(t) = {}
  BY <1>1, <1>2 DEF Registered
<1>4. Stream(t) = <<>>
  BY <1>1, ConcatEmptySeq DEF Stream
<1> QED
  BY <1>1, <1>2, <1>3, <1>4, NothingFollows DEF ServedPage

(* Pages and registry agree at every moment. *)
LEMMA ServedHolds == Spec => []ServedInv
PROOF
<1>1. Init => ServedInv
  BY CoreStarts, MembersStart, ServedStart DEF ServedInv, MemberInv
<1>2. ServedInv /\ [Next]_vars => ServedInv'
  BY CoreSteps, MembersSteps, ServedSteps DEF ServedInv, MemberInv
<1> QED
  BY <1>1, <1>2, PTL DEF Spec

(* The shapes and the accounts imply the type invariant. *)
LEMMA TypesHold == CoreInv => TypeOK
PROOF
<1> SUFFICES ASSUME CoreInv PROVE TypeOK
  OBVIOUS
<1>1. /\ IdentityShapes /\ PageShapes /\ RealmShapes /\ PipeShapes /\ DeliveryShapes
      /\ BookShapes /\ RegistryShapes /\ Counted
  BY DEF CoreInv, Shapes
<1>2. nextBatch <= posts /\ posts <= MaxPosts /\ posts \in Nat /\ nextBatch \in Nat
  <2> DEFINE n == Cardinality(Places(Streams, PostsOf))
  <2>1. n \in Nat
    BY <1>1, PostsAheadNat DEF PostsAhead
  <2>2. nextBatch + n <= posts
    BY <1>1 DEF Counted
  <2>3. nextBatch \in Nat /\ posts \in Nat /\ posts <= MaxPosts
    BY <1>1 DEF BookShapes, PageShapes
  <2> HIDE DEF n
  <2> QED
    BY <2>1, <2>2, <2>3
<1>3. Queued \subseteq Deliveries
  <2>1. 1 .. nextBatch \subseteq 1 .. MaxPosts
    BY <1>2, BroadcastAssumption
  <2> QED
    BY <2>1 DEF Queued, Deliveries
<1>4. ASSUME NEW t \in Tabs
      PROVE  /\ doc[t] \in 1 .. Max({1, MaxDocs[t]})
             /\ DOMAIN page[t] \subseteq 1 .. used[t]
             /\ used[t] \in 0 .. MaxIds[t] /\ left[t] \in 0 .. MaxMessages
             /\ Len(commands[t]) <= MaxCommands /\ Len(events[t]) <= MaxEvents
  <2>1. used[t] \in Nat /\ used[t] <= MaxIds[t] /\ MaxIds[t] \in Nat
    BY <1>1, BroadcastAssumption DEF PageShapes
  <2> QED
    BY <1>1, <2>1 DEF IdentityShapes, PageShapes, PipeShapes, DeliveryShapes
<1>5. ASSUME NEW t \in Tabs
      PROVE  {pending[t], commands[t], inbox[t], log[t]} \subseteq Seq(Deliveries)
  <2>1. pending[t] \in Seq(Queued)
    BY <1>1 DEF BookShapes
  <2>2. pending[t] \in Seq(Deliveries)
    BY <1>3, <2>1, SeqWiden
  <2>3. /\ commands[t] \in Seq(Deliveries) /\ inbox[t] \in Seq(Deliveries)
        /\ log[t] \in Seq(Deliveries)
    BY <1>1 DEF DeliveryShapes
  <2> QED
    BY <2>2, <2>3
<1>6. ASSUME NEW t \in Tabs
      PROVE  \A i \in DOMAIN out[t] : out[t][i].op \in {"open", "post", "close"}
  <2>1. out[t] \in Seq(Command)
    BY <1>1 DEF PipeShapes
  <2>2. \A i \in DOMAIN out[t] : out[t][i] \in Command
    BY <2>1
  <2> QED
    BY <2>2, CommandParts
<1>7. /\ DOMAIN batches \subseteq 1 .. nextBatch
      /\ pendingBytes \in Nat /\ pendingRecipients \in Nat
      /\ Len(admitted) = nextBatch /\ nextBatch <= posts
      /\ owned \in [Tabs -> BOOLEAN]
      /\ session \in [Tabs -> {"running", "ending", "gone", "none"}]
      /\ origin \in [Tabs -> Origins] /\ restarted \in [Tabs -> BOOLEAN]
  BY <1>1, <1>2 DEF IdentityShapes, RealmShapes, BookShapes, RegistryShapes
<1> QED
  BY <1>4, <1>5, <1>6, <1>7 DEF TypeOK

(* The registry's counters are exact, whatever mix of deliveries, closes   *)
(* and retirements released the references (release_batch_reference): a    *)
(* batch is never missing while it is queued, and no budget leaks.         *)
THEOREM AccountsAreExact == Spec => []ExactAccounting
PROOF
<1>1. CoreInv => ExactAccounting
  BY DEF CoreInv, Counted
<1> QED
  BY <1>1, CoreHolds, PTL

(* Every member of the registry belongs to the document its tab shows, the *)
(* queues keep their limits, and the registry refuses no command of a page *)
(* that runs in its document's first realm (BroadcastRegistry::apply,      *)
(* retire_tab).  Of a realm that began again at another charset it does    *)
(* refuse one, the first channel, and the page is contained.               *)
THEOREM RegistryIsSound == Spec => []RegistryInvariant
PROOF
<1>1. ServedInv => RegistryInvariant
  BY TypesHold DEF ServedInv, MemberInv, CoreInv, Counted, Members, Served,
     RegistryInvariant, RunningPageIsServed
<1> QED
  BY <1>1, ServedHolds, PTL

(***************************************************************************)
(* What the queues of a tab hold for a channel.                            *)
(***************************************************************************)

Trails == Seq(Delivery)

(* What a channel is fed by a trail is a sequence of batches. *)
LEMMA FedType ==
    ASSUME NEW s \in Trails, NEW x
    PROVE  /\ Fed(s, x) \in Seq(Nat)
           /\ Selection(s, ForId(x)) \in Trails
           /\ Len(Fed(s, x)) = Len(Selection(s, ForId(x)))
           /\ \A k \in 1 .. Len(Fed(s, x)) : Fed(s, x)[k] = Selection(s, ForId(x))[k].batch
PROOF
<1> DEFINE r == Selection(s, ForId(x))
<1>1. r \in Seq(Delivery \cap ForId(x))
  BY SelectionType DEF Trails
<1>2. r \in Seq(Delivery)
  BY <1>1
<1>3. Fed(s, x) = [k \in DOMAIN r |-> r[k].batch]
  BY DEF Fed
<1> HIDE DEF r
<1>4. DOMAIN r = 1 .. Len(r) /\ Len(r) \in Nat /\ \A k \in 1 .. Len(r) : r[k].batch \in Nat
  <2>1. DOMAIN r = 1 .. Len(r) /\ Len(r) \in Nat /\ \A k \in 1 .. Len(r) : r[k] \in Delivery
    BY <1>2
  <2>2. \A d \in Delivery : d.batch \in Nat
    BY DEF Delivery
  <2> QED
    BY <2>1, <2>2
<1> DEFINE n == Len(r)
<1>5. Fed(s, x) = [k \in 1 .. n |-> r[k].batch]
  BY <1>3, <1>4
<1> HIDE DEF n
<1>6. n \in Nat /\ \A k \in 1 .. n : r[k].batch \in Nat
  BY <1>4 DEF n
<1>7. Fed(s, x) \in Seq(Nat) /\ Len(Fed(s, x)) = n
  BY <1>5, <1>6
<1>8. \A k \in 1 .. n : Fed(s, x)[k] = r[k].batch
  BY <1>5
<1> QED
  BY <1>2, <1>7, <1>8 DEF r, n, Trails

(* A concatenated trail feeds what its halves feed, in that order. *)
LEMMA FedConcat ==
    ASSUME NEW p \in Trails, NEW q \in Trails, NEW x
    PROVE  Then(p, q) \in Trails /\ Fed(Then(p, q), x) = Then(Fed(p, x), Fed(q, x))
PROOF
<1> DEFINE a == Selection(p, ForId(x))
           b == Selection(q, ForId(x))
           c == Selection(Then(p, q), ForId(x))
           f == Fed(p, x)
           g == Fed(q, x)
           h == Fed(Then(p, q), x)
<1>1. Then(p, q) \in Trails
  BY ConcatProperties DEF Then, Trails
<1>2. c = a \o b
  BY SelectionConcat DEF Then, Trails
<1>3. /\ f \in Seq(Nat) /\ g \in Seq(Nat) /\ a \in Seq(Delivery) /\ b \in Seq(Delivery)
      /\ Len(f) = Len(a) /\ Len(g) = Len(b)
      /\ \A k \in 1 .. Len(f) : f[k] = a[k].batch
      /\ \A k \in 1 .. Len(g) : g[k] = b[k].batch
  BY FedType DEF Trails
<1>4. /\ h \in Seq(Nat) /\ Len(h) = Len(c) /\ \A k \in 1 .. Len(h) : h[k] = c[k].batch
  BY <1>1, FedType
<1> HIDE DEF a, b, c, f, g, h
<1>5. /\ Len(c) = Len(a) + Len(b)
      /\ \A k \in 1 .. Len(c) : c[k] = IF k <= Len(a) THEN a[k] ELSE b[k - Len(a)]
  BY <1>2, <1>3, ConcatProperties
<1>6. /\ f \o g \in Seq(Nat) /\ Len(f \o g) = Len(f) + Len(g)
      /\ \A k \in 1 .. Len(f) + Len(g) :
            (f \o g)[k] = IF k <= Len(f) THEN f[k] ELSE g[k - Len(f)]
  BY <1>3, ConcatProperties
<1> DEFINE z == f \o g
<1> HIDE DEF z
<1>7. z \in Seq(Nat) /\ Len(z) = Len(h)
  BY <1>3, <1>4, <1>5, <1>6 DEF z
<1>8. ASSUME NEW k \in 1 .. Len(h) PROVE h[k] = z[k]
  <2>1. Len(a) \in Nat /\ Len(b) \in Nat /\ k \in 1 .. Len(a) + Len(b)
    BY <1>3, <1>4, <1>5
  <2>2. CASE k <= Len(a)
    <3>1. k \in 1 .. Len(f)
      BY <1>3, <2>1, <2>2
    <3>2. c[k] = a[k] /\ z[k] = f[k]
      BY <1>3, <1>4, <1>5, <1>6, <2>1, <2>2 DEF z
    <3> QED
      BY <1>3, <1>4, <3>1, <3>2
  <2>3. CASE ~(k <= Len(a))
    <3> DEFINE j == k - Len(a)
    <3>1. j \in 1 .. Len(g)
      BY <1>3, <2>1, <2>3
    <3>2. c[k] = b[j] /\ z[k] = g[j]
      BY <1>3, <1>4, <1>5, <1>6, <2>1, <2>3 DEF z
    <3> QED
      BY <1>3, <1>4, <3>1, <3>2
  <2> QED
    BY <2>2, <2>3
<1>9. h = z
  BY <1>4, <1>7, <1>8, SeqEqual
<1> QED
  BY <1>1, <1>9 DEF h, z, f, g, Then

(* An empty trail feeds nothing. *)
LEMMA FedEmpty ==
    ASSUME NEW x
    PROVE  Fed(<<>>, x) = <<>> /\ <<>> \in Trails
PROOF
<1>1. Selection(<<>>, ForId(x)) = <<>>
  BY SelectionEmpty
<1>2. Fed(<<>>, x) = [k \in DOMAIN <<>> |-> <<>>[k].batch]
  BY <1>1 DEF Fed
<1>3. Fed(<<>>, x) \in Seq(Nat) /\ Len(Fed(<<>>, x)) = Len(Selection(<<>>, ForId(x)))
  <2>1. <<>> \in Trails
    BY DEF Trails
  <2> QED
    BY <2>1, FedType
<1>4. Len(Fed(<<>>, x)) = 0
  BY <1>1, <1>3
<1> QED
  BY <1>3, <1>4 DEF Trails

(* Nothing is fed to a channel by deliveries for others. *)
LEMMA FedNone ==
    ASSUME NEW s \in Trails, NEW x, \A k \in 1 .. Len(s) : s[k].id # x
    PROVE  Fed(s, x) = <<>>
PROOF
<1>1. \A k \in 1 .. Len(s) : s[k] \notin ForId(x)
  BY DEF ForId
<1>2. Selection(s, ForId(x)) = <<>>
  BY <1>1, SelectionNone DEF Trails
<1>3. Fed(s, x) \in Seq(Nat) /\ Len(Fed(s, x)) = Len(Selection(s, ForId(x)))
  BY FedType
<1>4. Len(Fed(s, x)) = 0
  BY <1>2, <1>3
<1> QED
  BY <1>3, <1>4

(* A selection with one candidate. *)
LEMMA SelectionOnly ==
    ASSUME NEW A, NEW s \in Seq(A), NEW S, NEW i \in DOMAIN s,
           \A k \in DOMAIN s : s[k] \in S <=> k = i
    PROVE  Len(Selection(s, S)) = 1 /\ Selection(s, S)[1] = s[i]
PROOF
<1> DEFINE r == Selection(s, S)
           n == Len(r)
<1>1. r \in Seq(A \cap S)
  BY SelectionType
<1>2. n \in Nat /\ DOMAIN r = 1 .. n
  BY <1>1
<1>3. \E h \in [1 .. n -> 1 .. Len(s)] :
         /\ \A j \in 1 .. n : s[h[j]] \in S /\ s[h[j]] = r[j]
         /\ \A j, k \in 1 .. n : j < k => h[j] < h[k]
         /\ \A k \in 1 .. Len(s) : s[k] \in S => \E j \in 1 .. n : h[j] = k
  BY SelectionEmbeds
<1> HIDE DEF r, n
<1>4. DOMAIN s = 1 .. Len(s) /\ Len(s) \in Nat
  OBVIOUS
<1>5. PICK h \in [1 .. n -> 1 .. Len(s)] :
         /\ \A j \in 1 .. n : s[h[j]] \in S /\ s[h[j]] = r[j]
         /\ \A j, k \in 1 .. n : j < k => h[j] < h[k]
         /\ \A k \in 1 .. Len(s) : s[k] \in S => \E j \in 1 .. n : h[j] = k
  BY <1>3
<1>6. \A j \in 1 .. n : h[j] \in 1 .. Len(s) /\ h[j] = i
  BY <1>4, <1>5
<1>7. \E j \in 1 .. n : h[j] = i
  BY <1>4, <1>5
<1>8. \A j, k \in 1 .. n : ~(j < k)
  <2>1. ASSUME NEW j \in 1 .. n, NEW k \in 1 .. n, j < k PROVE FALSE
    <3>1. h[j] < h[k] /\ h[j] = i /\ h[k] = i
      BY <1>5, <1>6, <2>1
    <3>2. i < i /\ i \in Nat
      BY <1>4, <3>1
    <3> QED
      BY <3>2
  <2> QED
    BY <2>1
<1>9. n = 1
  <2>1. n # 0
    BY <1>7
  <2>2. ~(n > 1)
    <3>1. SUFFICES ASSUME n > 1 PROVE FALSE
      OBVIOUS
    <3>2. 1 \in 1 .. n /\ 2 \in 1 .. n
      BY <1>2, <3>1
    <3> QED
      BY <1>8, <3>2
  <2> QED
    BY <1>2, <2>1, <2>2
<1>10. r[1] = s[i]
  BY <1>5, <1>6, <1>9
<1> QED
  BY <1>9, <1>10 DEF n, r

(* One delivery feeds one batch. *)
LEMMA FedOne ==
    ASSUME NEW s \in Trails, NEW x, NEW i \in 1 .. Len(s), s[i].id = x,
           \A k \in 1 .. Len(s) : s[k].id = x => k = i
    PROVE  Fed(s, x) = <<s[i].batch>>
PROOF
<1> DEFINE f == Fed(s, x)
<1>1. s \in Seq(Delivery)
  BY DEF Trails
<1>2. DOMAIN s = 1 .. Len(s)
  BY <1>1
<1>3. i \in DOMAIN s
  BY <1>2
<1>4. \A k \in DOMAIN s : s[k] \in ForId(x) <=> k = i
  BY <1>1, <1>2 DEF ForId
<1>5. Len(Selection(s, ForId(x))) = 1 /\ Selection(s, ForId(x))[1] = s[i]
  BY <1>1, <1>3, <1>4, SelectionOnly
<1>6. /\ f \in Seq(Nat) /\ Len(f) = Len(Selection(s, ForId(x)))
      /\ \A k \in 1 .. Len(f) : f[k] = Selection(s, ForId(x))[k].batch
  BY FedType
<1> HIDE DEF f
<1>7. Len(f) = 1
  BY <1>5, <1>6, Zenon
<1>8. f[1] = s[i].batch
  BY <1>5, <1>6, <1>7
<1>9. f = <<s[i].batch>>
  BY <1>6, <1>7, <1>8
<1> QED
  BY <1>9 DEF f

(* Removing deliveries for other channels changes nothing for x. *)
LEMMA FedFiltered ==
    ASSUME NEW s \in Trails, NEW x, NEW gone, \A d \in gone : d.id # x
    PROVE  Selection(s, Delivery \ gone) \in Trails
           /\ Fed(Selection(s, Delivery \ gone), x) = Fed(s, x)
PROOF
<1> DEFINE r == Selection(s, Delivery \ gone)
<1>1. r \in Seq(Delivery \cap (Delivery \ gone))
  BY SelectionType DEF Trails
<1>2. r \in Trails
  BY <1>1 DEF Trails
<1>3. Selection(r, ForId(x)) = Selection(s, (Delivery \ gone) \cap ForId(x))
  BY SelectionWithin DEF Trails
<1>4. (Delivery \ gone) \cap ForId(x) = ForId(x)
  BY DEF ForId
<1>5. Selection(r, ForId(x)) = Selection(s, ForId(x))
  BY <1>3, <1>4
<1>6. Fed(r, x) = Fed(s, x)
  BY <1>5 DEF Fed
<1> QED
  BY <1>2, <1>6

(* What is removed from a queue that feeds nothing to x feeds nothing.     *)
LEMMA FedThinned ==
    ASSUME NEW s \in Trails, NEW x, NEW S, Fed(s, x) = <<>>
    PROVE  Fed(Selection(s, S), x) = <<>>
PROOF
<1> DEFINE r == Selection(s, S)
<1>1. r \in Seq(Delivery \cap S)
  BY SelectionType DEF Trails
<1>2. r \in Trails
  BY <1>1 DEF Trails
<1>3. Selection(r, ForId(x)) = Selection(s, S \cap ForId(x))
  BY SelectionWithin DEF Trails
<1>4. Len(Selection(s, ForId(x))) = 0 /\ Selection(s, ForId(x)) \in Trails
  BY FedType
<1>5. Selection(s, ForId(x)) = <<>>
  BY <1>4 DEF Trails
<1>6. Selection(Selection(s, ForId(x)), S) = Selection(s, ForId(x) \cap S)
  BY SelectionWithin DEF Trails
<1>7. ForId(x) \cap S = S \cap ForId(x)
  OBVIOUS
<1>8. Selection(r, ForId(x)) = <<>>
  BY <1>3, <1>5, <1>6, <1>7, SelectionEmpty
<1>9. Fed(r, x) \in Seq(Nat) /\ Len(Fed(r, x)) = Len(Selection(r, ForId(x)))
  BY <1>2, FedType
<1>10. Len(Fed(r, x)) = 0
  BY <1>8, <1>9
<1> QED
  BY <1>9, <1>10

(* The four queues of a tab in a line. *)
Lined(a, b, c, d) == Then(Then(Then(a, b), c), d)

(* Joining sequences is associative. *)
LEMMA ThenJoins ==
    ASSUME NEW A, NEW p \in Seq(A), NEW q \in Seq(A)
    PROVE  /\ Then(p, q) \in Seq(A)
           /\ \A r \in Seq(A) : Then(Then(p, q), r) = Then(p, Then(q, r))
PROOF
<1>1. p \o q \in Seq(A)
  BY ConcatProperties
<1>2. ASSUME NEW r \in Seq(A) PROVE (p \o q) \o r = p \o (q \o r)
  BY ConcatAssociative
<1> QED
  BY <1>1, <1>2 DEF Then

(* A piece may move from the head of one place to the end of the place     *)
(* ahead of it.                                                            *)
LEMMA LinedMoves ==
    ASSUME NEW A, NEW a \in Seq(A), NEW b \in Seq(A), NEW c \in Seq(A), NEW d \in Seq(A),
           NEW h \in Seq(A)
    PROVE  /\ Lined(a, Then(h, b), c, d) = Lined(Then(a, h), b, c, d)
           /\ Lined(a, b, Then(h, c), d) = Lined(a, Then(b, h), c, d)
           /\ Lined(a, b, c, Then(h, d)) = Lined(a, b, Then(c, h), d)
PROOF
<1> DEFINE p == Then(a, b)
           q == Then(p, c)
<1>1. Then(Then(a, h), b) = Then(a, Then(h, b)) /\ Then(p, h) = Then(a, Then(b, h))
  BY ThenJoins
<1>2. p \in Seq(A)
  BY ThenJoins
<1> HIDE DEF p
<1>3. q \in Seq(A) /\ Then(Then(p, h), c) = Then(p, Then(h, c)) /\ Then(q, h) = Then(p, Then(c, h))
  BY <1>2, ThenJoins
<1> HIDE DEF q
<1>4. Then(Then(q, h), d) = Then(q, Then(h, d))
  BY <1>3, ThenJoins
<1>5. Lined(a, Then(h, b), c, d) = Lined(Then(a, h), b, c, d)
  BY <1>1 DEF Lined
<1>6. Lined(a, b, Then(h, c), d) = Lined(a, Then(b, h), c, d)
  BY <1>1, <1>3 DEF Lined, p
<1>7. Lined(a, b, c, Then(h, d)) = Lined(a, b, Then(c, h), d)
  BY <1>3, <1>4 DEF Lined, p, q
<1> QED
  BY <1>5, <1>6, <1>7

(* The empty sequence is neutral. *)
LEMMA ThenEmpty ==
    ASSUME NEW A, NEW p \in Seq(A), NEW q \in Seq(A)
    PROVE  /\ Then(p, q) \in Seq(A)
           /\ Then(p, q) = <<>> <=> p = <<>> /\ q = <<>>
           /\ Then(p, <<>>) = p /\ Then(<<>>, p) = p
PROOF
<1>1. /\ p \o q \in Seq(A) /\ Len(p \o q) = Len(p) + Len(q)
      /\ p \o <<>> = p /\ <<>> \o p = p
  BY ConcatProperties, ConcatEmptySeq
<1>2. Len(p) \in Nat /\ Len(q) \in Nat
  OBVIOUS
<1> DEFINE m == Len(p)
           n == Len(q)
           z == p \o q
<1>3. z = <<>> <=> Len(z) = 0
  BY <1>1, EmptySeq
<1>4. p = <<>> <=> m = 0
  BY EmptySeq
<1>5. q = <<>> <=> n = 0
  BY EmptySeq
<1>6. Len(z) = m + n /\ m \in Nat /\ n \in Nat
  BY <1>1, <1>2
<1> HIDE DEF m, n, z
<1>7. z = <<>> <=> p = <<>> /\ q = <<>>
  BY <1>3, <1>4, <1>5, <1>6
<1> QED
  BY <1>1, <1>7 DEF z, Then

(* A line of places is empty when every place is. *)
LEMMA LinedEmpty ==
    ASSUME NEW A, NEW a \in Seq(A), NEW b \in Seq(A), NEW c \in Seq(A), NEW d \in Seq(A)
    PROVE  /\ Lined(a, b, c, d) \in Seq(A)
           /\ Lined(a, b, c, d) = <<>> <=> a = <<>> /\ b = <<>> /\ c = <<>> /\ d = <<>>
PROOF
<1>1. Then(a, b) \in Seq(A) /\ (Then(a, b) = <<>> <=> a = <<>> /\ b = <<>>)
  BY ThenEmpty
<1> DEFINE p == Then(a, b)
<1> HIDE DEF p
<1>2. Then(p, c) \in Seq(A) /\ (Then(p, c) = <<>> <=> p = <<>> /\ c = <<>>)
  BY <1>1, ThenEmpty DEF p
<1> DEFINE q == Then(p, c)
<1> HIDE DEF q
<1>3. Then(q, d) \in Seq(A) /\ (Then(q, d) = <<>> <=> q = <<>> /\ d = <<>>)
  BY <1>2, ThenEmpty DEF q
<1> QED
  BY <1>1, <1>2, <1>3 DEF Lined, p, q

(* What a line of places feeds is what they feed in a row. *)
LEMMA FedLined ==
    ASSUME NEW a \in Trails, NEW b \in Trails, NEW c \in Trails, NEW d \in Trails, NEW x
    PROVE  /\ Lined(a, b, c, d) \in Trails
           /\ Fed(Lined(a, b, c, d), x) = Lined(Fed(a, x), Fed(b, x), Fed(c, x), Fed(d, x))
PROOF
<1>1. Then(a, b) \in Trails /\ Fed(Then(a, b), x) = Then(Fed(a, x), Fed(b, x))
  BY FedConcat
<1> DEFINE p == Then(a, b)
<1> HIDE DEF p
<1>2. p \in Trails /\ Fed(p, x) = Then(Fed(a, x), Fed(b, x))
  BY <1>1 DEF p
<1>3. Then(p, c) \in Trails /\ Fed(Then(p, c), x) = Then(Fed(p, x), Fed(c, x))
  BY <1>2, FedConcat
<1> DEFINE q == Then(p, c)
<1> HIDE DEF q
<1>4. q \in Trails /\ Fed(q, x) = Then(Fed(p, x), Fed(c, x))
  BY <1>3 DEF q
<1>5. Then(q, d) \in Trails /\ Fed(Then(q, d), x) = Then(Fed(q, x), Fed(d, x))
  BY <1>4, FedConcat
<1> QED
  BY <1>2, <1>4, <1>5 DEF Lined, p, q

(* The deliveries to a tab are its page's log, the inbox, the commands and *)
(* what is pending, in a row.                                              *)
LEMMA DeliveredParts ==
    ASSUME DeliveryShapes, BookShapes, NEW t \in Tabs
    PROVE  /\ log[t] \in Trails /\ inbox[t] \in Trails /\ commands[t] \in Trails
           /\ pending[t] \in Trails /\ Delivered(t) \in Trails
           /\ Delivered(t) = Lined(log[t], inbox[t], commands[t], pending[t])
PROOF
<1>1. /\ log[t] \in Seq(Deliveries) /\ inbox[t] \in Seq(Deliveries)
      /\ commands[t] \in Seq(Deliveries) /\ pending[t] \in Seq(Queued)
  BY DEF DeliveryShapes, BookShapes
<1>2. (\A d \in Deliveries : d \in Delivery) /\ (\A d \in Queued : d \in Delivery)
  BY DEF Deliveries, Queued, Delivery
<1>3. /\ log[t] \in Trails /\ inbox[t] \in Trails /\ commands[t] \in Trails
      /\ pending[t] \in Trails
  BY <1>1, <1>2, SeqWiden DEF Trails
<1>4. Delivered(t) = Lined(log[t], inbox[t], commands[t], pending[t])
  BY DEF Delivered, Lined, Then
<1>5. Lined(log[t], inbox[t], commands[t], pending[t]) \in Trails
  BY <1>3, LinedEmpty DEF Trails
<1> QED
  BY <1>3, <1>4, <1>5

(***************************************************************************)
(* What the steps do to the deliveries of a tab.                           *)
(***************************************************************************)

(* The shell admits a post. *)
Admits(t) ==
    LET cmd == Head(turn[t])
    IN  /\ ApplyCommand(t) /\ Accepts(t, cmd) /\ cmd.op = "post"
        /\ Enqueue(Targets(t, cmd.id), cmd.size)

(* What the deliveries of tab u feed to its open channels, and the channels *)
(* that nothing is fed to, are the same after the step.                    *)
FedKept(u) ==
    \A x \in Nat : x \in DOMAIN page[u] \/ Fed(Delivered(u), x) = <<>> =>
        Fed(Delivered(u)', x) = Fed(Delivered(u), x)

(* A step of one tab touches another's queues only when it admits a post,  *)
(* and then only what is pending.                                          *)
LEMMA QueuesOfOthers ==
    ASSUME DeliveryShapes, BookShapes, NEW t \in Tabs, Step(t), NEW u \in Tabs, u # t
    PROVE  /\ log'[u] = log[u] /\ inbox'[u] = inbox[u] /\ commands'[u] = commands[u]
           /\ pending'[u] = pending[u] \/ Admits(t)
PROOF
<1>1. /\ commands \in [Tabs -> Seq(Deliveries)] /\ inbox \in [Tabs -> Seq(Deliveries)]
      /\ log \in [Tabs -> Seq(Deliveries)] /\ pending \in [Tabs -> Seq(Queued)]
  BY DEF DeliveryShapes, BookShapes
<1>2. /\ log' = log \/ (\E v : log' = [log EXCEPT ![t] = v])
      /\ inbox' = inbox \/ (\E v : inbox' = [inbox EXCEPT ![t] = v])
      /\ commands' = commands \/ (\E v : commands' = [commands EXCEPT ![t] = v])
  <2>1. CASE Dispatch(t)
    <3>1. /\ inbox' = [inbox EXCEPT ![t] = Tail(inbox[t])] /\ commands' = commands
          /\ log' = log \/ log' = [log EXCEPT ![t] = Append(log[t], Head(inbox[t]))]
      BY <2>1 DEF Dispatch
    <3> QED
      BY <3>1, Zenon
  <2>2. CASE SendCommands(t)
    <3> DEFINE n == Min({Len(commands[t]), Max({0, MaxCommands - Len(inbox[t])})})
    <3>1. /\ inbox' = [inbox EXCEPT ![t] = inbox[t] \o SubSeq(commands[t], 1, n)]
          /\ commands' = [commands EXCEPT ![t] = SubSeq(commands[t], n + 1, Len(commands[t]))]
          /\ log' = log
      BY <2>2 DEF SendCommands, child
    <3> HIDE DEF n
    <3> QED
      BY <3>1, Zenon
  <2>3. CASE BrokerExits(t) \/ Navigate(t)
    <3>1. /\ inbox' = [inbox EXCEPT ![t] = <<>>] /\ commands' = [commands EXCEPT ![t] = <<>>]
          /\ log' = log \/ log' = [log EXCEPT ![t] = <<>>]
      BY <2>3 DEF BrokerExits, Navigate, child
    <3> QED
      BY <3>1, Zenon
  <2>4. CASE PumpDeliveries(t)
    <3>1. /\ inbox' = inbox /\ log' = log
          /\ \/ commands' = commands
             \/ commands' = [commands EXCEPT ![t] = Append(commands[t], Head(pending[t]))]
      BY <2>4 DEF PumpDeliveries, TakeIf, child
    <3> QED
      BY <3>1, Zenon
  <2>5. CASE UNCHANGED <<log, inbox, commands>>
    BY <2>5
  <2>6. CASE RestartEncoding(t)
    <3>1. /\ inbox' = inbox /\ commands' = commands /\ log' = [log EXCEPT ![t] = <<>>]
      BY <2>6 DEF RestartEncoding
    <3> QED
      BY <3>1, Zenon
  <2> QED
    BY <2>1, <2>2, <2>3, <2>4, <2>5, <2>6, StepCases DEF OpenChannel, PostMessage, CloseChannel,
       EmitEvent, Collect, ApplyCommand, FinishExit, Crash, Terminate, child
<1>5. \/ pending' = pending \/ (\E v : pending' = [pending EXCEPT ![t] = v]) \/ Admits(t)
  <2>1. CASE UNCHANGED <<books, channels, admitted>>
    BY <2>1 DEF books
  <2>2. CASE RetireTab(t) \/ TakeIf(t)
    BY <2>2 DEF RetireTab, TakeIf
  <2>3. CASE ApplyCommand(t) /\ Accepts(t, Head(turn[t]))
    BY <2>3 DEF Accepts, ApplyOpen, ApplyPost, ApplyClose, Admits
  <2> QED
    BY <2>1, <2>2, <2>3, RegistrySteps
<1>6. log'[u] = log[u]
  BY <1>1, <1>2
<1>7. inbox'[u] = inbox[u]
  BY <1>1, <1>2
<1>8. commands'[u] = commands[u]
  BY <1>1, <1>2
<1>9. pending'[u] = pending[u] \/ Admits(t)
  BY <1>1, <1>5
<1> QED
  BY <1>6, <1>7, <1>8, <1>9

(* Unless it admits a post, a step leaves the deliveries to other tabs     *)
(* alone.                                                                  *)
LEMMA DeliveredOfOthers ==
    ASSUME DeliveryShapes, BookShapes, NEW t \in Tabs, Step(t), NEW u \in Tabs, u # t,
           ~Admits(t)
    PROVE  FedKept(u)
PROOF
<1>1. /\ log'[u] = log[u] /\ inbox'[u] = inbox[u] /\ commands'[u] = commands[u]
      /\ pending'[u] = pending[u]
  BY QueuesOfOthers
<1>2. Delivered(u)' = Delivered(u)
  BY <1>1 DEF Delivered
<1> QED
  BY <1>2 DEF FedKept

(* Dispatching a message takes it from the inbox to the log. *)
LEMMA DispatchKeeps ==
    ASSUME DeliveryShapes, BookShapes, DeliveryShapes', BookShapes', NEW t \in Tabs,
           Dispatch(t)
    PROVE  FedKept(t)
PROOF
<1> DEFINE a == log[t]
           b == inbox[t]
           c == commands[t]
           d == pending[t]
           h == <<Head(inbox[t])>>
           r == Tail(inbox[t])
           D == Delivered(t)
           E == Delivered(t)'
<1>1. /\ a \in Trails /\ b \in Trails /\ c \in Trails /\ d \in Trails
      /\ D = Lined(a, b, c, d)
  BY DeliveredParts
<1>2. /\ log'[t] \in Trails /\ inbox'[t] \in Trails /\ commands'[t] \in Trails
      /\ pending'[t] \in Trails
      /\ E = Lined(log'[t], inbox'[t], commands'[t], pending'[t])
  <2>1. Delivered(t)' = Lined(log'[t], inbox'[t], commands'[t], pending'[t])
    BY DEF Delivered, Lined, Then
  <2>2. /\ \A u \in Tabs : log'[u] \in Seq(Deliveries) /\ inbox'[u] \in Seq(Deliveries)
        /\ \A u \in Tabs : commands'[u] \in Seq(Deliveries)
    BY DEF DeliveryShapes
  <2>3. pending'[t] = pending[t]
    BY DEF Dispatch, shell
  <2>4. \A e \in Deliveries : e \in Delivery
    BY DEF Deliveries, Delivery
  <2>5. log'[t] \in Trails /\ inbox'[t] \in Trails /\ commands'[t] \in Trails
    BY <2>2, <2>4, SeqWiden DEF Trails
  <2> QED
    BY <1>1, <2>1, <2>3, <2>5
<1>3. /\ b # <<>> /\ inbox'[t] = r /\ commands'[t] = c /\ pending'[t] = d
      /\ IF Head(b).id \in DOMAIN page[t] THEN log'[t] = Append(a, Head(b)) ELSE log'[t] = a
  <2>1. /\ inbox[t] # <<>> /\ inbox' = [inbox EXCEPT ![t] = Tail(@)]
        /\ log' = IF Head(inbox[t]).id \in DOMAIN page[t]
                  THEN [log EXCEPT ![t] = Append(@, Head(inbox[t]))] ELSE log
        /\ commands' = commands /\ pending' = pending
    BY DEF Dispatch, shell
  <2>2. inbox \in [Tabs -> Seq(Deliveries)] /\ log \in [Tabs -> Seq(Deliveries)]
    BY DEF DeliveryShapes
  <2>3. inbox'[t] = r
    BY <2>1, <2>2
  <2>4. CASE Head(b).id \in DOMAIN page[t]
    BY <2>1, <2>2, <2>3, <2>4
  <2>5. CASE Head(b).id \notin DOMAIN page[t]
    BY <2>1, <2>2, <2>3, <2>5
  <2> QED
    BY <2>4, <2>5
<1>4. /\ h \in Trails /\ r \in Trails /\ b = Then(h, r) /\ Append(a, Head(b)) = Then(a, h)
      /\ Head(b) \in Delivery
  <2>1. b \in Seq(Delivery) /\ a \in Seq(Delivery)
    BY <1>1 DEF Trails
  <2> HIDE DEF a, b
  <2>2. /\ <<Head(b)>> \o Tail(b) = b /\ Head(b) \in Delivery /\ Tail(b) \in Seq(Delivery)
    BY <1>3, <2>1, ConcatTypes
  <2>3. Append(a, Head(b)) = a \o <<Head(b)>>
    BY <2>1, <2>2, AppendIsConcat
  <2>4. <<Head(b)>> \in Seq(Delivery)
    BY <2>2
  <2> QED
    BY <2>2, <2>3, <2>4 DEF Trails, Then, b
<1> DEFINE y == Head(b).id
<1>5. ASSUME NEW x \in Nat, x \in DOMAIN page[t] \/ Fed(D, x) = <<>>
      PROVE  Fed(E, x) = Fed(D, x)
  <2> HIDE DEF a, b, c, d, h, r, D, E
  <2>1. CASE y \in DOMAIN page[t]
    <3>1. E = Lined(Then(a, h), r, c, d)
      BY <1>2, <1>3, <1>4, <2>1
    <3>2. D = Lined(a, Then(h, r), c, d)
      BY <1>1, <1>4
    <3> QED
      BY <1>1, <1>4, <3>1, <3>2, LinedMoves DEF Trails
  <2>2. CASE y \notin DOMAIN page[t]
    <3>1. E = Lined(a, r, c, d)
      BY <1>2, <1>3, <2>2
    <3>2. Fed(E, x) = Lined(Fed(a, x), Fed(r, x), Fed(c, x), Fed(d, x))
      BY <1>1, <1>4, <3>1, FedLined
    <3>3. Fed(D, x) = Lined(Fed(a, x), Fed(b, x), Fed(c, x), Fed(d, x))
      BY <1>1, FedLined
    <3>4. Fed(b, x) = Then(Fed(h, x), Fed(r, x))
      BY <1>4, FedConcat
    <3>5. /\ Fed(a, x) \in Seq(Nat) /\ Fed(b, x) \in Seq(Nat) /\ Fed(c, x) \in Seq(Nat)
          /\ Fed(d, x) \in Seq(Nat) /\ Fed(h, x) \in Seq(Nat) /\ Fed(r, x) \in Seq(Nat)
      BY <1>1, <1>4, FedType
    <3>6. Fed(h, x) = <<>>
      <4>1. CASE x \in DOMAIN page[t]
        <5>1. y # x
          BY <2>2, <4>1
        <5>2. Len(h) = 1 /\ h[1].id = y
          BY DEF h, b
        <5>3. \A k \in 1 .. Len(h) : h[k].id # x
          BY <5>1, <5>2
        <5> QED
          BY <1>4, <5>3, FedNone
      <4>2. CASE Fed(D, x) = <<>>
        <5>1. Lined(Fed(a, x), Fed(b, x), Fed(c, x), Fed(d, x)) = <<>>
          BY <3>3, <4>2
        <5>2. Fed(b, x) = <<>>
          BY <3>5, <5>1, LinedEmpty
        <5> QED
          BY <3>4, <3>5, <5>2, ThenEmpty
      <4> QED
        BY <1>5, <4>1, <4>2
    <3>7. Fed(b, x) = Fed(r, x)
      BY <3>4, <3>5, <3>6, ThenEmpty
    <3> QED
      BY <3>2, <3>3, <3>7
  <2> QED
    BY <2>1, <2>2
<1> QED
  BY <1>5 DEF FedKept

(* Sending commands takes them from the queue to the inbox. *)
LEMMA SendKeeps ==
    ASSUME DeliveryShapes, BookShapes, NEW t \in Tabs, SendCommands(t)
    PROVE  Delivered(t)' = Delivered(t)
PROOF
<1> DEFINE n == Min({Len(commands[t]), Max({0, MaxCommands - Len(inbox[t])})})
           a == SubSeq(commands[t], 1, n)
           b == SubSeq(commands[t], n + 1, Len(commands[t]))
<1>1. /\ commands \in [Tabs -> Seq(Deliveries)] /\ inbox \in [Tabs -> Seq(Deliveries)]
      /\ log[t] \in Seq(Deliveries) /\ commands[t] \in Seq(Deliveries)
      /\ inbox[t] \in Seq(Deliveries) /\ Len(commands[t]) \in Nat /\ Len(inbox[t]) \in Nat
      /\ MaxCommands \in Nat
  BY BroadcastAssumption DEF DeliveryShapes
<1>2. /\ commands' = [commands EXCEPT ![t] = b] /\ inbox' = [inbox EXCEPT ![t] = @ \o a]
      /\ log' = log /\ pending' = pending
  BY DEF SendCommands, child, shell
<1>3. n \in 0 .. Len(commands[t])
  <2> DEFINE l == Len(commands[t])
             m == MaxCommands - Len(inbox[t])
  <2>1. l \in Nat /\ m \in Int /\ 0 \in Int
    BY <1>1
  <2> HIDE DEF l, m
  <2>2. Max({0, m}) \in {0, m} /\ Max({0, m}) >= 0
    BY <2>1, OneOfTwo, Zenon
  <2> DEFINE k == Max({0, m})
  <2>3. k \in Int /\ l \in Int /\ k >= 0
    BY <2>1, <2>2
  <2> HIDE DEF k
  <2>4. Min({l, k}) \in {l, k} /\ Min({l, k}) <= l
    BY <2>3, OneOfTwo
  <2>5. Min({l, k}) \in 0 .. l
    BY <2>1, <2>3, <2>4
  <2> QED
    BY <2>5 DEF k, l, m
<1> HIDE DEF n
<1>4. /\ a \in Seq(Deliveries) /\ b \in Seq(Deliveries) /\ commands[t] = a \o b
  BY <1>1, <1>3, CutInTwo
<1> HIDE DEF a, b
<1>5. commands'[t] = b /\ inbox'[t] = Then(inbox[t], a) /\ commands[t] = Then(a, b)
  BY <1>1, <1>2, <1>4 DEF Then
<1>6. /\ Delivered(t)' = Lined(log'[t], inbox'[t], commands'[t], pending'[t])
      /\ Delivered(t) = Lined(log[t], inbox[t], commands[t], pending[t])
  BY DEF Delivered, Lined, Then
<1> DEFINE w == log[t]
           i == inbox[t]
           d == pending[t]
<1>7. /\ w \in Trails /\ i \in Trails /\ d \in Trails /\ a \in Trails /\ b \in Trails
  <2>1. \A e \in Deliveries : e \in Delivery
    BY DEF Deliveries, Delivery
  <2>2. a \in Trails /\ b \in Trails
    BY <1>4, <2>1, SeqWiden DEF Trails
  <2> QED
    BY <2>2, DeliveredParts
<1>8. /\ Delivered(t)' = Lined(w, Then(i, a), b, d)
      /\ Delivered(t) = Lined(w, i, Then(a, b), d)
  BY <1>2, <1>5, <1>6
<1> HIDE DEF w, i, d
<1> QED
  BY <1>7, <1>8, LinedMoves DEF Trails

(* The deliveries taken from the registry go to the end of the commands. *)
LEMMA TakeKeepsOrder ==
    ASSUME DeliveryShapes, BookShapes, NEW t \in Tabs, TakeIf(t), UNCHANGED <<log, inbox>>
    PROVE  Delivered(t)' = Delivered(t)
PROOF
<1> DEFINE w == log[t]
           i == inbox[t]
           c == commands[t]
           d == pending[t]
           h == <<Head(d)>>
           r == Tail(d)
<1>1. /\ Delivered(t)' = Lined(log'[t], inbox'[t], commands'[t], pending'[t])
      /\ Delivered(t) = Lined(w, i, c, d)
  BY DEF Delivered, Lined, Then
<1>2. w \in Trails /\ i \in Trails /\ c \in Trails /\ d \in Trails
  BY DeliveredParts
<1>3. /\ d # <<>> /\ commands'[t] = Append(c, Head(d)) /\ pending'[t] = r
      /\ log'[t] = w /\ inbox'[t] = i
  <2>1. /\ pending[t] # <<>> /\ commands' = [commands EXCEPT ![t] = Append(@, Head(pending[t]))]
        /\ pending' = [pending EXCEPT ![t] = Tail(@)]
    BY DEF TakeIf
  <2> QED
    BY <2>1 DEF DeliveryShapes, BookShapes
<1> HIDE DEF w, i, c, d
<1>4. /\ h \in Trails /\ r \in Trails /\ d = Then(h, r) /\ Append(c, Head(d)) = Then(c, h)
  <2>1. c \in Seq(Delivery) /\ d \in Seq(Delivery)
    BY <1>2 DEF Trails
  <2>2. /\ <<Head(d)>> \o Tail(d) = d /\ Head(d) \in Delivery /\ Tail(d) \in Seq(Delivery)
    BY <1>3, <2>1, ConcatTypes
  <2>3. Append(c, Head(d)) = c \o <<Head(d)>>
    BY <2>1, <2>2, AppendIsConcat
  <2>4. <<Head(d)>> \in Seq(Delivery)
    BY <2>2
  <2> QED
    BY <2>2, <2>3, <2>4 DEF Trails, Then
<1> HIDE DEF h, r
<1>5. /\ Delivered(t)' = Lined(w, i, Then(c, h), r)
      /\ Delivered(t) = Lined(w, i, c, Then(h, r))
  BY <1>1, <1>3, <1>4
<1> QED
  BY <1>2, <1>4, <1>5, LinedMoves DEF Trails

(* Closing takes the deliveries of the closed channel only.                *)
LEMMA CloseKeepsOthers ==
    ASSUME DeliveryShapes, BookShapes, NEW t \in Tabs, NEW cmd, ApplyClose(t, cmd),
           UNCHANGED <<log, inbox, commands>>, cmd.id \notin DOMAIN page[t]
    PROVE  FedKept(t)
PROOF
<1> DEFINE w == log[t]
           i == inbox[t]
           c == commands[t]
           d == pending[t]
           gone == {e \in Delivery : e.doc = cmd.doc /\ e.id = cmd.id}
           s == Selection(d, Delivery \ gone)
           D == Delivered(t)
           E == Delivered(t)'
<1>1. /\ E = Lined(log'[t], inbox'[t], commands'[t], pending'[t])
      /\ D = Lined(w, i, c, d)
  BY DEF Delivered, Lined, Then
<1>2. w \in Trails /\ i \in Trails /\ c \in Trails /\ d \in Trails
  BY DeliveredParts
<1>3. CASE pending' = pending
  <2>1. E = D
    BY <1>1, <1>3
  <2> QED
    BY <2>1 DEF FedKept
<1>4. CASE pending' = [pending EXCEPT ![t] = Selection(@, Delivery \ gone)]
  <2>1. pending'[t] = s
    BY <1>4 DEF BookShapes
  <2>2. E = Lined(w, i, c, s)
    BY <1>1, <2>1
  <2>3. \A e \in gone : e.id = cmd.id
    OBVIOUS
  <2> SUFFICES ASSUME NEW x \in Nat, x \in DOMAIN page[t] \/ Fed(D, x) = <<>>
               PROVE  Fed(E, x) = Fed(D, x)
    BY DEF FedKept
  <2> HIDE DEF w, i, c, d, gone, D, E
  <2>4. s \in Trails
    <3>1. s \in Seq(Delivery \cap (Delivery \ gone))
      BY <1>2, SelectionType DEF Trails
    <3> QED
      BY <3>1 DEF Trails
  <2>5. /\ Fed(D, x) = Lined(Fed(w, x), Fed(i, x), Fed(c, x), Fed(d, x))
        /\ Fed(E, x) = Lined(Fed(w, x), Fed(i, x), Fed(c, x), Fed(s, x))
    <3> HIDE DEF s
    <3> QED
      BY <1>1, <1>2, <2>2, <2>4, FedLined
  <2>6. Fed(s, x) = Fed(d, x)
    <3>1. CASE x # cmd.id
      <4>1. \A e \in gone : e.id # x
        BY <2>3, <3>1
      <4> QED
        BY <1>2, <4>1, FedFiltered
    <3>2. CASE x = cmd.id
      <4>1. Fed(D, x) = <<>>
        BY <3>2
      <4>2. /\ Fed(w, x) \in Seq(Nat) /\ Fed(i, x) \in Seq(Nat) /\ Fed(c, x) \in Seq(Nat)
            /\ Fed(d, x) \in Seq(Nat)
        BY <1>2, FedType
      <4>3. Lined(Fed(w, x), Fed(i, x), Fed(c, x), Fed(d, x)) = <<>>
        BY <2>5, <4>1
      <4>4. Fed(d, x) = <<>>
        BY <4>2, <4>3, LinedEmpty
      <4>5. Fed(s, x) = <<>>
        BY <1>2, <4>4, FedThinned
      <4> QED
        BY <4>4, <4>5
    <3> QED
      BY <3>1, <3>2
  <2> QED
    BY <2>5, <2>6
<1> QED
  BY <1>3, <1>4 DEF ApplyClose

(***************************************************************************)
(* What an admitted post feeds.                                            *)
(***************************************************************************)

(* D holds the members of tab u that are in S. *)
OwnIn(D, u, S) ==
    \A k \in DOMAIN channels : channels[k] \in D <=> channels[k] \in S /\ channels[k].tab = u

(* A selection of the registry holds each channel of a tab once. *)
LEMMA ThinnedOnce ==
    ASSUME RegistryShapes, RegistryIsCurrent, NEW u, NEW S, NEW D, OwnIn(D, u, S),
           NEW r, r = Selection(channels, D)
    PROVE  /\ DOMAIN r = 1 .. Len(r) /\ Len(r) \in Nat
           /\ \A i \in DOMAIN r : \E k \in DOMAIN channels :
                 r[i] = channels[k] /\ channels[k].tab = u /\ channels[k] \in S
           /\ \A k \in DOMAIN channels : channels[k].tab = u /\ channels[k] \in S =>
                 \E i \in DOMAIN r : r[i] = channels[k]
           /\ \A i, j \in DOMAIN r : r[i].id = r[j].id => i = j
PROOF
<1>1. channels \in Seq(Channel)
  BY DEF RegistryShapes
<1>2. \A i, j \in DOMAIN channels :
          channels[i].tab = channels[j].tab /\ channels[i].id = channels[j].id => i = j
  BY DEF RegistryIsCurrent
<1>3. r \in Seq(Channel \cap D)
  BY <1>1, SelectionType
<1>4. DOMAIN r = 1 .. Len(r) /\ Len(r) \in Nat
  BY <1>3
<1>5. \E h \in [DOMAIN r -> DOMAIN channels] :
         /\ \A i \in DOMAIN r : r[i] = channels[h[i]] /\ r[i] \in D /\ r[i] \in Channel
         /\ \A i, j \in DOMAIN r : h[i] = h[j] => i = j
         /\ \A k \in DOMAIN channels : channels[k] \in D => \E i \in DOMAIN r : h[i] = k
  BY <1>1, SelectionThins
<1>6. PICK h \in [DOMAIN r -> DOMAIN channels] :
         /\ \A i \in DOMAIN r : r[i] = channels[h[i]] /\ r[i] \in D
         /\ \A i, j \in DOMAIN r : h[i] = h[j] => i = j
         /\ \A k \in DOMAIN channels : channels[k] \in D => \E i \in DOMAIN r : h[i] = k
  BY <1>5
<1>7. \A i \in DOMAIN r : /\ h[i] \in DOMAIN channels /\ r[i] = channels[h[i]]
                          /\ channels[h[i]].tab = u /\ channels[h[i]] \in S
  BY <1>6 DEF OwnIn
<1>8. ASSUME NEW k \in DOMAIN channels, channels[k].tab = u, channels[k] \in S
      PROVE  \E i \in DOMAIN r : r[i] = channels[k]
  BY <1>6, <1>8 DEF OwnIn
<1>9. ASSUME NEW i \in DOMAIN r, NEW j \in DOMAIN r, r[i].id = r[j].id PROVE i = j
  <2>1. h[i] = h[j]
    BY <1>2, <1>7, <1>9
  <2> QED
    BY <1>6, <2>1
<1> QED
  BY <1>4, <1>7, <1>8, <1>9

(* An admitted post feeds each of its targets once and no other channel. *)
LEMMA FanoutFeeds ==
    ASSUME RegistryShapes, RegistryIsCurrent, NEW S, NEW targets,
           targets = Selection(channels, S), NEW u \in Tabs, NEW b \in Nat,
           NEW n, n = NewOf(targets, u, b)
    PROVE  /\ n \in Trails
           /\ \A x : x \notin Registered(u) => Fed(n, x) = <<>>
           /\ \A i \in DOMAIN channels : channels[i].tab = u =>
                 Fed(n, channels[i].id) = IF channels[i] \in S THEN <<b>> ELSE <<>>
PROOF
<1> DEFINE r == For(targets, u)
           D == S \cap OfTab(u)
<1>1. channels \in Seq(Channel) /\ targets \in Seq(Channel)
  <2>1. channels \in Seq(Channel)
    BY DEF RegistryShapes
  <2>2. targets \in Seq(Channel \cap S)
    BY <2>1, SelectionType
  <2> QED
    BY <2>1, <2>2
<1>2. r = Selection(channels, D)
  BY <1>1, SelectionWithin DEF For
<1>3. OwnIn(D, u, S)
  BY <1>1 DEF OfTab, OwnIn
<1> HIDE DEF r, D
<1>4. /\ DOMAIN r = 1 .. Len(r) /\ Len(r) \in Nat
      /\ \A i \in DOMAIN r : \E k \in DOMAIN channels :
            r[i] = channels[k] /\ channels[k].tab = u /\ channels[k] \in S
      /\ \A k \in DOMAIN channels : channels[k].tab = u /\ channels[k] \in S =>
            \E i \in DOMAIN r : r[i] = channels[k]
      /\ \A i, j \in DOMAIN r : r[i].id = r[j].id => i = j
  BY <1>2, <1>3, ThinnedOnce
<1>5. n = [i \in 1 .. Len(r) |-> [doc |-> r[i].doc, id |-> r[i].id, batch |-> b]]
  BY DEF NewOf, r
<1>6. n \in Trails
  <2>1. n \in Seq([doc : Nat, id : Nat, batch : {b}])
    BY <1>1, NewType
  <2>2. \A e \in [doc : Nat, id : Nat, batch : {b}] : e \in Delivery
    BY DEF Delivery
  <2> QED
    BY <2>1, <2>2, SeqWiden DEF Trails
<1>7. Len(n) = Len(r) /\ \A i \in 1 .. Len(n) : n[i].id = r[i].id /\ n[i].batch = b
  <2> DEFINE m == Len(r)
  <2>1. m \in Nat /\ n = [i \in 1 .. m |-> [doc |-> r[i].doc, id |-> r[i].id, batch |-> b]]
    BY <1>4, <1>5
  <2>2. n \in Seq(Delivery)
    BY <1>6 DEF Trails
  <2> HIDE DEF m
  <2>3. DOMAIN n = 1 .. m /\ \A i \in 1 .. m : n[i].id = r[i].id /\ n[i].batch = b
    BY <2>1
  <2>4. Len(n) = m
    BY <2>1, <2>2, <2>3
  <2> QED
    BY <2>3, <2>4 DEF m
<1>8. ASSUME NEW x, x \notin Registered(u) PROVE Fed(n, x) = <<>>
  <2>1. \A k \in DOMAIN channels : channels[k].tab = u => channels[k].id # x
    BY <1>8 DEF Registered
  <2>2. \A i \in 1 .. Len(n) : n[i].id # x
    BY <1>4, <1>7, <2>1
  <2> QED
    BY <1>6, <2>2, FedNone
<1>9. ASSUME NEW i \in DOMAIN channels, channels[i].tab = u, channels[i] \in S
      PROVE  Fed(n, channels[i].id) = <<b>>
  <2>1. PICK j \in DOMAIN r : r[j] = channels[i]
    BY <1>4, <1>9
  <2> DEFINE x == channels[i].id
  <2>2. j \in 1 .. Len(n) /\ n[j].id = x /\ n[j].batch = b
    BY <1>4, <1>7, <2>1
  <2>3. \A k \in 1 .. Len(n) : n[k].id = x => k = j
    BY <1>4, <1>7, <2>1
  <2> HIDE DEF x
  <2>4. Fed(n, x) = <<n[j].batch>>
    BY <1>6, <2>2, <2>3, FedOne
  <2> QED
    BY <2>2, <2>4 DEF x
<1>10. ASSUME NEW i \in DOMAIN channels, channels[i].tab = u, channels[i] \notin S
       PROVE  Fed(n, channels[i].id) = <<>>
  <2> DEFINE x == channels[i].id
  <2>1. \A j \in DOMAIN r : r[j].id # x
    <3>1. ASSUME NEW j \in DOMAIN r, r[j].id = x PROVE FALSE
      <4>1. PICK k \in DOMAIN channels :
                r[j] = channels[k] /\ channels[k].tab = u /\ channels[k] \in S
        BY <1>4
      <4>2. k = i
        BY <1>10, <3>1, <4>1 DEF RegistryIsCurrent
      <4> QED
        BY <1>10, <4>1, <4>2
    <3> QED
      BY <3>1
  <2>2. \A k \in 1 .. Len(n) : n[k].id # x
    BY <1>4, <1>7, <2>1
  <2> HIDE DEF x
  <2>3. Fed(n, x) = <<>>
    BY <1>6, <2>2, FedNone
  <2> QED
    BY <2>3 DEF x
<1> QED
  BY <1>6, <1>8, <1>9, <1>10

(* The batches admitted for a member.                                      *)
LEMMA NumbersType ==
    ASSUME NEW n \in Nat
    PROVE  /\ Numbers(n) \in Seq(Nat) /\ Len(Numbers(n)) = n
           /\ \A i \in 1 .. n : Numbers(n)[i] = i
           /\ Numbers(n + 1) = Append(Numbers(n), n + 1)
PROOF
<1>1. Numbers(n) \in Seq(Nat) /\ Len(Numbers(n)) = n /\ \A i \in 1 .. n : Numbers(n)[i] = i
  BY DEF Numbers
<1> DEFINE m == n + 1
           s == Numbers(n)
           r == Numbers(m)
           q == Append(s, m)
<1>2. m \in Nat
  OBVIOUS
<1>3. r \in Seq(Nat) /\ Len(r) = m /\ \A i \in 1 .. m : r[i] = i
  <2> HIDE DEF m
  <2> QED
    BY <1>2 DEF Numbers
<1> HIDE DEF s, r
<1>4. q \in Seq(Nat) /\ Len(q) = m /\ (\A i \in 1 .. n : q[i] = s[i]) /\ q[m] = m
  BY <1>1, <1>2, AppendProperties DEF s
<1> HIDE DEF q
<1>5. \A i \in 1 .. m : q[i] = r[i]
  <2>1. \A i : i \in 1 .. m <=> i \in 1 .. n \/ i = m
    OBVIOUS
  <2> QED
    BY <1>1, <1>3, <1>4, <2>1 DEF s
<1>6. q = r
  BY <1>3, <1>4, <1>5, SeqEqual
<1> QED
  BY <1>1, <1>6 DEF q, r, s, m

(* The admissions that are due to a channel are numbers of batches. *)
LEMMA OrderType ==
    ASSUME nextBatch \in Nat, NEW c
    PROVE  Order(c) \in Seq(Nat)
PROOF
<1>1. Numbers(nextBatch) \in Seq(Nat)
  BY NumbersType
<1>2. Order(c) \in Seq(Nat \cap Admitting(c))
  BY <1>1, SelectionType DEF Order
<1> QED
  BY <1>2

(* A channel that no admission names is owed nothing. *)
LEMMA OrderNone ==
    ASSUME nextBatch \in Nat, Len(admitted) = nextBatch, admitted \in Seq(SUBSET Channel),
           NEW c, \A b \in DOMAIN admitted : c \notin admitted[b]
    PROVE  Order(c) = <<>>
PROOF
<1>1. /\ Numbers(nextBatch) \in Seq(Nat) /\ Len(Numbers(nextBatch)) = nextBatch
      /\ \A i \in 1 .. nextBatch : Numbers(nextBatch)[i] = i
  BY NumbersType
<1>2. DOMAIN admitted = 1 .. nextBatch
  OBVIOUS
<1>3. \A i \in 1 .. nextBatch : i \notin Admitting(c)
  BY <1>2 DEF Admitting
<1> DEFINE s == Numbers(nextBatch)
<1> HIDE DEF s
<1>4. s \in Seq(Nat) /\ \A i \in 1 .. Len(s) : s[i] \notin Admitting(c)
  BY <1>1, <1>3 DEF s
<1>5. Selection(s, Admitting(c)) = <<>>
  BY <1>4, SelectionNone
<1> QED
  BY <1>5 DEF Order, s

(* An admission is added at the end of what its targets are owed. *)
LEMMA OrderGrows ==
    ASSUME nextBatch \in Nat, Len(admitted) = nextBatch, admitted \in Seq(SUBSET Channel),
           NEW T, nextBatch' = nextBatch + 1, admitted' = Append(admitted, T), NEW c
    PROVE  Order(c)' = Then(Order(c), IF c \in T THEN <<nextBatch + 1>> ELSE <<>>)
PROOF
<1> DEFINE n == nextBatch
           m == nextBatch + 1
           s == Numbers(n)
           r == Numbers(m)
           S == Admitting(c)
           R == Admitting(c)'
<1>1. n \in Nat /\ m \in Nat /\ m = n + 1
  OBVIOUS
<1>2. \A b \in 1 .. n : admitted'[b] = admitted[b]
  BY AppendProperties
<1>3. admitted'[m] = T
  BY AppendProperties
<1>4. \A b \in 1 .. n : b \in R <=> b \in S
  <2>1. \A b \in 1 .. n : b \in 1 .. m
    OBVIOUS
  <2> QED
    BY <1>2, <2>1 DEF Admitting
<1>5. m \in R <=> c \in T
  <2>1. m \in 1 .. m
    OBVIOUS
  <2> QED
    BY <1>3, <2>1 DEF Admitting
<1>6. /\ s \in Seq(Nat) /\ Len(s) = n /\ (\A i \in 1 .. n : s[i] = i) /\ r = Append(s, m)
  BY NumbersType
<1>7. Order(c) = Selection(s, S) /\ Order(c)' = Selection(r, R)
  <2>1. Order(c) = Selection(s, S)
    BY DEF Order
  <2>2. Order(c)' = Selection(Numbers(nextBatch'), R)
    BY DEF Order, Selection, PartialSelections, Numbers
  <2> QED
    BY <2>1, <2>2
<1> HIDE DEF n, m, s, r, S, R
<1>8. \A i \in 1 .. Len(s) : s[i] \in R <=> s[i] \in S
  BY <1>4, <1>6
<1>9. Selection(s, R) = Selection(s, S)
  BY <1>6, <1>8, SelectionAgree
<1>10. Selection(r, R) = IF m \in R THEN Append(Selection(s, R), m) ELSE Selection(s, R)
  <2>1. s \in Seq(Nat) /\ m \in Nat
    BY <1>1, <1>6
  <2>2. Selection(Append(s, m), R)
           = IF m \in R THEN Append(Selection(s, R), m) ELSE Selection(s, R)
    BY <2>1, SelectionAppend, Zenon
  <2> QED
    BY <1>6, <2>2
<1>11. Selection(s, S) \in Seq(Nat)
  BY <1>7, OrderType DEF n
<1> DEFINE o == Selection(s, S)
<1> HIDE DEF o
<1>12. o \in Seq(Nat) /\ Append(o, m) = Then(o, <<m>>) /\ Then(o, <<>>) = o
  <2>1. o \in Seq(Nat)
    BY <1>11 DEF o
  <2>2. Append(o, m) = o \o <<m>>
    BY <1>1, <2>1, AppendIsConcat
  <2>3. Then(o, <<>>) = o
    BY <2>1, ThenEmpty
  <2> QED
    BY <2>1, <2>2, <2>3 DEF Then
<1>13. CASE c \in T
  BY <1>5, <1>7, <1>9, <1>10, <1>12, <1>13 DEF o, m
<1>14. CASE c \notin T
  BY <1>5, <1>7, <1>9, <1>10, <1>12, <1>14 DEF o, m
<1> QED
  BY <1>13, <1>14

(* The members of a selection of the registry. *)
LEMMA SelectionMembers ==
    ASSUME RegistryShapes, NEW S, NEW r, r = Selection(channels, S)
    PROVE  /\ \A c \in Range(r) : \E i \in DOMAIN channels : c = channels[i]
           /\ \A i \in DOMAIN channels : channels[i] \in S <=> channels[i] \in Range(r)
PROOF
<1>1. channels \in Seq(Channel)
  BY DEF RegistryShapes
<1>2. \E h \in [DOMAIN r -> DOMAIN channels] :
         /\ \A i \in DOMAIN r : r[i] = channels[h[i]] /\ r[i] \in S /\ r[i] \in Channel
         /\ \A i, j \in DOMAIN r : h[i] = h[j] => i = j
         /\ \A k \in DOMAIN channels : channels[k] \in S => \E i \in DOMAIN r : h[i] = k
  BY <1>1, SelectionThins
<1>3. PICK h \in [DOMAIN r -> DOMAIN channels] :
         /\ \A i \in DOMAIN r : r[i] = channels[h[i]] /\ r[i] \in S
         /\ \A k \in DOMAIN channels : channels[k] \in S => \E i \in DOMAIN r : h[i] = k
  BY <1>2
<1>4. Range(r) = {r[i] : i \in DOMAIN r}
  BY DEF Range
<1>5. \A i \in DOMAIN r : h[i] \in DOMAIN channels /\ r[i] = channels[h[i]] /\ r[i] \in S
  BY <1>3
<1>6. ASSUME NEW k \in DOMAIN channels, channels[k] \in S PROVE channels[k] \in Range(r)
  <2>1. PICK i \in DOMAIN r : h[i] = k
    BY <1>3, <1>6
  <2> QED
    BY <1>4, <1>5, <2>1
<1>7. ASSUME NEW c \in Range(r) PROVE c \in S /\ \E i \in DOMAIN channels : c = channels[i]
  BY <1>4, <1>5
<1> QED
  BY <1>6, <1>7

(* What is appended to the last place is appended to the line. *)
LEMMA LinedExtends ==
    ASSUME NEW a \in Trails, NEW b \in Trails, NEW c \in Trails, NEW d \in Trails,
           NEW n \in Trails
    PROVE  Lined(a, b, c, Then(d, n)) = Then(Lined(a, b, c, d), n)
PROOF
<1>1. Then(a, b) \in Trails
  BY ThenJoins DEF Trails
<1> DEFINE p == Then(a, b)
<1> HIDE DEF p
<1>2. Then(p, c) \in Trails
  BY <1>1, ThenJoins DEF p, Trails
<1> DEFINE q == Then(p, c)
<1> HIDE DEF q
<1>3. Then(Then(q, d), n) = Then(q, Then(d, n))
  BY <1>2, ThenJoins DEF q, Trails
<1> QED
  BY <1>3 DEF Lined, p, q

(* What an admitted post does to the queues: each tab's line grows at its  *)
(* end by the deliveries to its channels.                                  *)
LEMMA AdmitsQueues ==
    ASSUME DeliveryShapes, BookShapes, RegistryShapes, NEW t \in Tabs, Admits(t),
           NEW targets, targets = Targets(t, Head(turn[t]).id), NEW u \in Tabs
    PROVE  /\ nextBatch' = nextBatch + 1 /\ admitted' = Append(admitted, Range(targets))
           /\ UNCHANGED <<page, used, channels, identity>>
           /\ NewOf(targets, u, nextBatch + 1) \in Trails
           /\ Delivered(u)' = Then(Delivered(u), NewOf(targets, u, nextBatch + 1))
PROOF
<1> DEFINE b == nextBatch + 1
           n == NewOf(targets, u, b)
<1>1. /\ ApplyCommand(t) /\ Accepts(t, Head(turn[t])) /\ Head(turn[t]).op = "post"
      /\ Enqueue(targets, Head(turn[t]).size)
  BY DEF Admits
<1>2. targets \in Seq(Channel)
  BY TargetsType
<1>3. /\ nextBatch' = b /\ admitted' = Append(admitted, Range(targets))
  BY <1>1 DEF Enqueue
<1>4. UNCHANGED <<page, used, channels, identity, log, inbox, commands>>
  BY <1>1 DEF ApplyCommand, Accepts, ApplyPost, child
<1>5. pending'[u] = pending[u] \o n
  BY <1>1, <1>2, EnqueueQueues
<1>6. n \in Trails
  <2>1. b \in Nat
    BY DEF BookShapes
  <2>2. n \in Seq([doc : Nat, id : Nat, batch : {b}])
    BY <1>2, <2>1, NewType
  <2>3. \A e \in [doc : Nat, id : Nat, batch : {b}] : e \in Delivery
    BY <2>1 DEF Delivery
  <2> DEFINE N == [doc : Nat, id : Nat, batch : {b}]
  <2> HIDE DEF n, b, N
  <2>4. n \in Seq(N) /\ \A e \in N : e \in Delivery
    BY <2>2, <2>3 DEF N
  <2>5. n \in Seq(Delivery)
    BY <2>4, SeqWiden
  <2> QED
    BY <2>5 DEF Trails
<1> HIDE DEF n
<1>7. Delivered(u)' = Lined(log[u], inbox[u], commands[u], Then(pending[u], n))
  BY <1>4, <1>5 DEF Delivered, Lined, Then
<1>8. /\ log[u] \in Trails /\ inbox[u] \in Trails /\ commands[u] \in Trails
      /\ pending[u] \in Trails
      /\ Delivered(u) = Lined(log[u], inbox[u], commands[u], pending[u])
  BY DeliveredParts
<1> DEFINE a == log[u]
           i == inbox[u]
           c == commands[u]
           d == pending[u]
<1>9. /\ a \in Trails /\ i \in Trails /\ c \in Trails /\ d \in Trails
      /\ Delivered(u) = Lined(a, i, c, d) /\ Delivered(u)' = Lined(a, i, c, Then(d, n))
  BY <1>7, <1>8
<1> HIDE DEF a, i, c, d
<1>10. Delivered(u)' = Then(Delivered(u), n)
  BY <1>6, <1>9, LinedExtends
<1> QED
  BY <1>3, <1>4, <1>6, <1>10 DEF n

TargetSet(t, id) ==
    {c \in Channel : ~Same(c, t, id) /\ c.origin = origin[t] /\ c.name = Member(t, id).name}

(* A post feeds its batch to the members it is admitted for, and nothing   *)
(* to the other channels.                                                  *)
LEMMA AdmitsFeeds ==
    ASSUME Shapes, Members, NEW t \in Tabs, Admits(t)
    PROVE  /\ nextBatch' = nextBatch + 1 /\ UNCHANGED <<page, used, channels, identity>>
           /\ \E T : /\ admitted' = Append(admitted, T)
                     /\ \A c \in T : \E i \in DOMAIN channels : c = channels[i]
                     /\ \A u \in Tabs : \A x : x \notin Registered(u) =>
                           Fed(Delivered(u)', x) = Fed(Delivered(u), x)
                     /\ \A u \in Tabs : \A i \in DOMAIN channels : channels[i].tab = u =>
                           Fed(Delivered(u)', channels[i].id)
                              = Then(Fed(Delivered(u), channels[i].id),
                                     IF channels[i] \in T THEN <<nextBatch + 1>> ELSE <<>>)
PROOF
<1> DEFINE id == Head(turn[t]).id
           targets == Targets(t, id)
           S == TargetSet(t, id)
           b == nextBatch + 1
           T == Range(targets)
<1>1. /\ DeliveryShapes /\ BookShapes /\ RegistryShapes /\ RegistryIsCurrent /\ b \in Nat
      /\ \A i \in DOMAIN channels : channels[i].tab \in Tabs
  <2>1. channels \in Seq(Channel)
    BY DEF Shapes, RegistryShapes
  <2>2. \A i \in DOMAIN channels : channels[i].tab \in Tabs
    <3>1. \A i \in DOMAIN channels : channels[i] \in Channel
      BY <2>1
    <3>2. \A c \in Channel : c.tab \in Tabs
      BY DEF Channel
    <3> QED
      BY <3>1, <3>2
  <2> QED
    BY <2>2 DEF Shapes, Members, BookShapes
<1>2. targets = Selection(channels, S)
  BY DEF Targets, TargetSet
<1>3. targets = Targets(t, Head(turn[t]).id)
  OBVIOUS
<1> HIDE DEF targets, S, T, b
<1>4. ASSUME NEW u \in Tabs
      PROVE  /\ nextBatch' = nextBatch + 1 /\ admitted' = Append(admitted, Range(targets))
             /\ UNCHANGED <<page, used, channels, identity>>
             /\ NewOf(targets, u, nextBatch + 1) \in Trails
             /\ Delivered(u)' = Then(Delivered(u), NewOf(targets, u, nextBatch + 1))
  BY <1>1, <1>3, AdmitsQueues
<1>5. ASSUME NEW u \in Tabs
      PROVE  /\ NewOf(targets, u, b) \in Trails /\ Delivered(u) \in Trails
             /\ Delivered(u)' = Then(Delivered(u), NewOf(targets, u, b))
             /\ \A x : x \notin Registered(u) => Fed(NewOf(targets, u, b), x) = <<>>
             /\ \A i \in DOMAIN channels : channels[i].tab = u =>
                   Fed(NewOf(targets, u, b), channels[i].id)
                      = IF channels[i] \in S THEN <<b>> ELSE <<>>
  <2>1. Delivered(u) \in Trails
    BY <1>1, DeliveredParts
  <2>2. /\ \A x : x \notin Registered(u) => Fed(NewOf(targets, u, b), x) = <<>>
        /\ \A i \in DOMAIN channels : channels[i].tab = u =>
              Fed(NewOf(targets, u, b), channels[i].id)
                 = IF channels[i] \in S THEN <<b>> ELSE <<>>
    BY <1>1, <1>2, FanoutFeeds
  <2> QED
    BY <1>4, <2>1, <2>2 DEF b
<1>6. /\ \A c \in T : \E i \in DOMAIN channels : c = channels[i]
      /\ \A i \in DOMAIN channels : channels[i] \in S <=> channels[i] \in T
  BY <1>1, <1>2, SelectionMembers DEF T
<1>7. ASSUME NEW u \in Tabs, NEW x, x \notin Registered(u)
      PROVE  Fed(Delivered(u)', x) = Fed(Delivered(u), x)
  <2> DEFINE D == Delivered(u)
             n == NewOf(targets, u, b)
  <2>1. D \in Trails /\ n \in Trails /\ Delivered(u)' = Then(D, n) /\ Fed(n, x) = <<>>
    BY <1>5, <1>7
  <2> HIDE DEF D, n
  <2>2. Fed(Then(D, n), x) = Then(Fed(D, x), Fed(n, x)) /\ Fed(D, x) \in Seq(Nat)
    BY <2>1, FedConcat, FedType
  <2>3. Then(Fed(D, x), <<>>) = Fed(D, x)
    BY <2>2, ThenEmpty
  <2>4. Fed(Delivered(u)', x) = Fed(D, x)
    BY <2>1, <2>2, <2>3
  <2> QED
    BY <2>4 DEF D
<1>8. ASSUME NEW u \in Tabs, NEW i \in DOMAIN channels, channels[i].tab = u
      PROVE  Fed(Delivered(u)', channels[i].id)
                = Then(Fed(Delivered(u), channels[i].id),
                       IF channels[i] \in T THEN <<b>> ELSE <<>>)
  <2> DEFINE x == channels[i].id
             D == Delivered(u)
             n == NewOf(targets, u, b)
  <2>2. /\ D \in Trails /\ n \in Trails /\ Delivered(u)' = Then(D, n)
        /\ Fed(n, x) = IF channels[i] \in T THEN <<b>> ELSE <<>>
    <3>1. D \in Trails /\ n \in Trails /\ Delivered(u)' = Then(D, n)
      BY <1>5
    <3>2. Fed(n, x) = IF channels[i] \in S THEN <<b>> ELSE <<>>
      BY <1>5, <1>8
    <3>3. channels[i] \in S <=> channels[i] \in T
      BY <1>6
    <3> QED
      BY <3>1, <3>2, <3>3
  <2> HIDE DEF D, n
  <2>3. Fed(Then(D, n), x) = Then(Fed(D, x), Fed(n, x))
    BY <2>2, FedConcat
  <2> QED
    BY <2>2, <2>3 DEF D
<1>9. \E u : u \in Tabs
  OBVIOUS
<1>10. nextBatch' = nextBatch + 1 /\ UNCHANGED <<page, used, channels, identity>>
       /\ admitted' = Append(admitted, T)
  BY <1>4, <1>9 DEF T
<1> QED
  BY <1>6, <1>7, <1>8, <1>10 DEF b

(***************************************************************************)
(* What a step of a page that runs on does to its own deliveries.          *)
(***************************************************************************)

(* A page has not opened again what a closing on its way closes.           *)
LEMMA ClosedInPage ==
    ASSUME Shapes, Shapes', NEW t \in Tabs, Step(t), ServedPage(t), OneRealm(t),
           ApplyCommand(t), Head(turn[t]).op = "close"
    PROVE  Head(turn[t]).id \notin DOMAIN page[t]
PROOF
<1> DEFINE p == Stream(t)
           s == Stream(t)'
           h == Head(turn[t])
           R == Registered(t)
<1>1. h \in Command /\ p = Then(<<h>>, s) /\ s \in Commands /\ h.op = "close"
  BY StreamShrinks DEF Shapes, Then, Commands
<1>2. DOMAIN page[t] = Live(R, p, Len(p))
  BY DEF ServedPage
<1> HIDE DEF p, s, h, R
<1>3. Len(s) \in Nat /\ Len(p) = Len(s) + 1 /\ Len(s) \in 0 .. Len(s)
  BY <1>1, HeadEntries
<1>4. Closed(p, Len(s) + 1) = Closed(s, Len(s)) \cup Alone(h.op = "close", h.id)
  BY <1>1, <1>3, OpenedHead
<1>5. h.id \in Closed(p, Len(p))
  BY <1>1, <1>3, <1>4 DEF Alone
<1> QED
  BY <1>2, <1>5 DEF Live, h

(* A command that admits nothing leaves the deliveries to its own tab's    *)
(* open channels alone.                                                    *)
LEMMA OwnApplies ==
    ASSUME Shapes, Shapes', Members, NEW t \in Tabs, Step(t), ServedPage(t),
           OneRealm(t), ApplyCommand(t), ~Admits(t)
    PROVE  FedKept(t)
PROOF
<1> DEFINE cmd == Head(turn[t])
<1>1. Accepts(t, cmd)
  BY ServedApplies
<1>2. UNCHANGED <<log, inbox, commands>>
  BY DEF ApplyCommand, child
<1>3. ASSUME pending' = pending PROVE FedKept(t)
  BY <1>2, <1>3 DEF FedKept, Delivered
<1>4. CASE ApplyOpen(t, cmd)
  BY <1>3, <1>4 DEF ApplyOpen
<1>5. CASE cmd.op = "post" /\ ApplyPost(t, cmd)
  BY <1>1, <1>3, <1>5 DEF ApplyPost, Admits
<1>6. CASE cmd.op = "close" /\ ApplyClose(t, cmd)
  <2>1. cmd.id \notin DOMAIN page[t]
    BY <1>6, ClosedInPage
  <2> HIDE DEF cmd
  <2> QED
    BY <1>2, <1>6, <2>1, CloseKeepsOthers DEF Shapes
<1> QED
  BY <1>1, <1>4, <1>5, <1>6 DEF Accepts

(* So does every other step of a page that stays. *)
LEMMA OwnKept ==
    ASSUME Shapes, Shapes', Members, NEW t \in Tabs, Step(t), ServedPage(t), ~Navigate(t),
           OneRealm(t)', ~Admits(t)
    PROVE  FedKept(t)
PROOF
<1>1. OneRealm(t) /\ ~BrokerExits(t) /\ ~RestartEncoding(t)
  BY RunningSteps DEF Shapes
<1>2. ASSUME Delivered(t)' = Delivered(t) PROVE FedKept(t)
  BY <1>2 DEF FedKept
<1>3. CASE Dispatch(t)
  BY <1>3, DispatchKeeps DEF Shapes
<1>4. CASE SendCommands(t)
  BY <1>2, <1>4, SendKeeps DEF Shapes
<1>5. CASE PumpDeliveries(t)
  <2>1. TakeIf(t) /\ UNCHANGED <<log, inbox>>
    BY <1>1, <1>5 DEF PumpDeliveries, child, OneRealm
  <2> QED
    BY <1>2, <2>1, TakeKeepsOrder DEF Shapes
<1>6. CASE ApplyCommand(t)
  BY <1>1, <1>6, OwnApplies
<1>7. CASE UNCHANGED <<log, inbox, commands, pending>>
  BY <1>2, <1>7 DEF Delivered
<1>8. session \in [Tabs -> {"running", "ending", "gone", "none"}]
  BY DEF Shapes, IdentityShapes
<1>9. ~Terminate(t) /\ ~FinishExit(t)
  BY <1>8 DEF Terminate, FinishExit, OneRealm
<1> QED
  BY <1>1, <1>3, <1>4, <1>5, <1>6, <1>7, <1>9, StepCases DEF OpenChannel, PostMessage,
     CloseChannel, EmitEvent, Collect, Crash, child, shell

(* What is not fed to a channel in the queues of a running page.           *)
LEMMA FeedsKept ==
    ASSUME Shapes, Shapes', Members, \A u \in Tabs : ServedPage(u), NEW t \in Tabs, Step(t),
           ~Admits(t), NEW u \in Tabs, OneRealm(u)', ~(Navigate(t) /\ u = t)
    PROVE  FedKept(u)
PROOF
<1>1. CASE u = t
  BY <1>1, OwnKept
<1>2. CASE u # t
  BY <1>2, DeliveredOfOthers DEF Shapes
<1> QED
  BY <1>1, <1>2

(* The batches and the recipients they were admitted for stay.             *)
LEMMA AdmittedSteps ==
    ASSUME NEW t \in Tabs, Step(t), ~Admits(t)
    PROVE  UNCHANGED <<admitted, nextBatch>>
PROOF
<1>1. CASE ApplyCommand(t) /\ Accepts(t, Head(turn[t]))
  BY <1>1 DEF Accepts, ApplyOpen, ApplyPost, ApplyClose, Admits
<1>2. CASE RetireTab(t) /\ UNCHANGED admitted
  BY <1>2 DEF RetireTab
<1>3. CASE TakeIf(t)
  BY <1>3 DEF TakeIf
<1>4. CASE UNCHANGED <<books, channels, admitted>>
  BY <1>4 DEF books
<1> QED
  BY <1>1, <1>2, <1>3, <1>4, RegistrySteps

(***************************************************************************)
(* The identifiers that can have been delivered to.                        *)
(***************************************************************************)

(* Those that are registered are among them. *)
LEMMA RegisteredSeen ==
    ASSUME PipeShapes, NEW u \in Tabs, ServedPage(u), OneRealm(u)
    PROVE  Registered(u) \subseteq Seen(u)
PROOF
<1> DEFINE p == Stream(u)
           R == Registered(u)
           n == used[u]
<1>1. p \in Seq(Command)
  <2>1. /\ out[u] \in Seq(Command) /\ turn[u] \in Seq(Command) /\ events[u] \in Seq(Command)
    BY DEF PipeShapes
  <2> QED
    BY <2>1, ConcatTypes, StreamType DEF Stream
<1>2. Follows(R, p, n)
  BY DEF ServedPage
<1>3. Seen(u) = (1 .. n) \ Opened(p, Len(p))
  BY DEF Seen
<1> HIDE DEF p, R, n
<1>4. DOMAIN p = 1 .. Len(p)
  BY <1>1
<1>5. /\ R \subseteq 1 .. n
      /\ \A k \in 1 .. Len(p) : p[k].op = "open" => p[k].id \notin R
  BY <1>2, <1>4 DEF Follows
<1>6. \A x \in R : x \notin Opened(p, Len(p))
  BY <1>5 DEF Opened
<1> QED
  BY <1>3, <1>5, <1>6 DEF R

(* They become more, as long as the document stays.                        *)
LEMMA SeenGrows ==
    ASSUME Shapes, Shapes', NEW t \in Tabs, Step(t), NEW u \in Tabs,
           OneRealm(u)', ~(Navigate(t) /\ u = t)
    PROVE  /\ OneRealm(u) /\ doc'[u] = doc[u]
           /\ \A x \in Seen(u) : x \in Seen(u)'
PROOF
<1>1. CASE u # t
  <2>1. OneRealm(u) /\ doc'[u] = doc[u]
    BY <1>1, RealmOfOthers, IdentitySteps DEF Shapes
  <2>2. Stream(u)' = Stream(u)
    BY <1>1, StreamCases, StreamReplaced DEF Shapes
  <2>3. used'[u] = used[u]
    BY <1>1, PageSteps DEF Shapes
  <2>4. Seen(u)' = Seen(u)
    <3> DEFINE p == Stream(u)
               s == Stream(u)'
    <3>1. /\ Seen(u) = (1 .. used[u]) \ Opened(p, Len(p))
          /\ Seen(u)' = (1 .. used'[u]) \ Opened(s, Len(s))
      BY DEF Seen, Opened
    <3>2. s = p
      BY <2>2
    <3> HIDE DEF s, p
    <3> QED
      BY <2>3, <3>1, <3>2
  <2> QED
    BY <2>1, <2>4
<1>2. CASE u = t /\ ~Navigate(t)
  <2> DEFINE p == Stream(t)
             s == Stream(t)'
             n == used[t]
             m == used'[t]
  <2>1. OneRealm(t) /\ ~BrokerExits(t) /\ ~RestartEncoding(t)
    BY <1>2, RunningSteps DEF Shapes
  <2>2. doc'[t] = doc[t]
    BY <1>2, <2>1, StepCases, AppliedCases DEF OpenChannel, PostMessage, CloseChannel,
       Dispatch, EmitEvent, SendCommands, Collect, ApplyCommand, PumpDeliveries, TakeIf,
       BrokerExits, Crash, Terminate, FinishExit, Contain, identity
  <2>3. /\ Seen(t) = (1 .. n) \ Opened(p, Len(p))
        /\ Seen(t)' = (1 .. m) \ Opened(s, Len(s))
    BY DEF Seen, Opened
  <2>4. p \in Commands /\ s \in Commands /\ n \in Nat
    BY StreamCases DEF Shapes, PageShapes
  <2>5. CASE OpenChannel(t) \/ PostMessage(t) \/ CloseChannel(t)
    <3>1. \E cmd \in Command :
            /\ s = Append(p, cmd)
            /\ \/ cmd.op = "open" /\ cmd.id = n + 1 /\ m = n + 1
               \/ cmd.op # "open" /\ m = n
      <4>1. \E cmd \in Command :
                /\ Pipes(t) /\ Stream(t)' = Append(Stream(t), cmd)
                /\ DOMAIN page'[t] = (DOMAIN page[t] \cup Alone(cmd.op = "open", cmd.id))
                                         \ Alone(cmd.op = "close", cmd.id)
                /\ \/ /\ cmd.op = "open" /\ cmd.id = used[t] + 1 /\ used'[t] = used[t] + 1
                      /\ Cardinality(DOMAIN page[t]) < MaxChannels
                   \/ /\ cmd.op # "open" /\ cmd.id \in DOMAIN page[t] /\ used'[t] = used[t]
        BY <2>5, PageWrites DEF Shapes
      <4> QED
        BY <4>1
    <3>2. PICK cmd \in Command :
            /\ s = Append(p, cmd)
            /\ \/ cmd.op = "open" /\ cmd.id = n + 1 /\ m = n + 1
               \/ cmd.op # "open" /\ m = n
      BY <3>1
    <3> HIDE DEF p, s, n, m
    <3>3. Len(s) = Len(p) + 1
      BY <2>4, <3>2, AppendEntries
    <3>4. Opened(s, Len(s)) = Opened(p, Len(p)) \cup Alone(cmd.op = "open", cmd.id)
      BY <2>4, <3>2, <3>3, OpenedAppend
    <3>5. \A x \in 1 .. n : x \in 1 .. m /\ x \notin Alone(cmd.op = "open", cmd.id)
      BY <2>4, <3>2 DEF Alone
    <3> QED
      BY <1>2, <2>1, <2>2, <2>3, <3>4, <3>5
  <2>6. CASE s = p /\ UNCHANGED <<page, used>>
    <3> HIDE DEF p, s
    <3> QED
      BY <1>2, <2>1, <2>2, <2>3, <2>6
  <2>7. CASE ApplyCommand(t)
    <3> DEFINE h == Head(turn[t])
    <3>1. h \in Command /\ p = Then(<<h>>, s)
      BY <2>7, StreamShrinks DEF Shapes, Then
    <3>2. m = n
      BY <2>7 DEF ApplyCommand, child
    <3> HIDE DEF p, s, n, m, h
    <3>3. Len(s) \in Nat /\ Len(p) = Len(s) + 1 /\ Len(s) \in 0 .. Len(s)
      BY <2>4, <3>1, HeadEntries
    <3>4. Opened(p, Len(s) + 1) = Opened(s, Len(s)) \cup Alone(h.op = "open", h.id)
      BY <2>4, <3>1, <3>3, OpenedHead
    <3> QED
      BY <1>2, <2>1, <2>2, <2>3, <3>2, <3>3, <3>4
  <2> QED
    BY <1>2, <2>1, <2>5, <2>6, <2>7, StreamCases DEF Shapes
<1> QED
  BY <1>1, <1>2

(***************************************************************************)
(* No delivery and no admission precedes the opening of its channel.       *)
(***************************************************************************)

(* Documents are numbered upwards. *)
LEMMA DocSteps ==
    ASSUME IdentityShapes, NEW t \in Tabs, Step(t)
    PROVE  /\ \A u \in Tabs : doc[u] \in Nat /\ doc'[u] \in Nat /\ doc[u] <= doc'[u]
           /\ Navigate(t) => doc'[t] = doc[t] + 1
PROOF
<1>1. doc \in [Tabs -> Nat]
  BY DEF IdentityShapes
<1>2. CASE Navigate(t)
  <2>1. doc' = [doc EXCEPT ![t] = @ + 1]
    BY <1>2 DEF Navigate
  <2>2. doc'[t] = doc[t] + 1 /\ \A u \in Tabs \ {t} : doc'[u] = doc[u]
    BY <1>1, <2>1
  <2>3. \A u \in Tabs : doc[u] \in Nat
    BY <1>1
  <2> QED
    BY <2>2, <2>3
<1>3. CASE ~Navigate(t)
  <2>1. doc' = doc
    BY <1>3, StepCases, AppliedCases DEF OpenChannel, PostMessage, CloseChannel, Dispatch,
       EmitEvent, SendCommands, Collect, ApplyCommand, PumpDeliveries, TakeIf, BrokerExits,
       Crash, Terminate, FinishExit, RestartEncoding, Contain, identity
  <2>2. \A u \in Tabs : doc[u] \in Nat
    BY <1>1
  <2> QED
    BY <1>3, <2>1, <2>2
<1> QED
  BY <1>2, <1>3

(* The record of admissions keeps naming only channels that were opened. *)
LEMMA FreshAdmissionsKept ==
    ASSUME Shapes, Shapes', Members, \A u \in Tabs : ServedPage(u), FreshAdmissions,
           NEW t \in Tabs, Step(t)
    PROVE  FreshAdmissions'
PROOF
<1>1. admitted \in Seq(SUBSET Channel) /\ channels \in Seq(Channel)
  BY DEF Shapes, RegistryShapes
<1>2. \A c \in Channel : c.tab \in Tabs /\ c.doc \in Nat
  BY DEF Channel
<1>3. \A u \in Tabs : doc[u] \in Nat /\ doc'[u] \in Nat /\ doc[u] <= doc'[u]
  BY DocSteps DEF Shapes
<1>4. ASSUME NEW u \in Tabs, NEW d \in Nat, d <= doc[u], OneRealm(u)', d = doc'[u]
      PROVE  /\ OneRealm(u) /\ d = doc[u] /\ \A x \in Seen(u) : x \in Seen(u)'
  <2>1. ~(Navigate(t) /\ u = t)
    <3>1. SUFFICES ASSUME Navigate(t), u = t PROVE FALSE
      OBVIOUS
    <3>2. doc'[u] = doc[u] + 1
      BY <3>1, DocSteps DEF Shapes
    <3> QED
      BY <1>3, <1>4, <3>2
  <2> QED
    BY <1>4, <2>1, SeenGrows
<1> DEFINE Placed(c) ==
      /\ c.doc <= doc'[c.tab]
      /\ OneRealm(c.tab)' /\ c.doc = doc'[c.tab] => c.id \in Seen(c.tab)'
<1>5. ASSUME NEW b \in DOMAIN admitted, NEW c \in admitted[b] PROVE Placed(c)
  <2>1. c \in Channel
    BY <1>1
  <2>2. c.tab \in Tabs /\ c.doc \in Nat
    BY <1>2, <2>1
  <2>3. /\ c.doc <= doc[c.tab]
        /\ OneRealm(c.tab) /\ c.doc = doc[c.tab] => c.id \in Seen(c.tab)
    BY DEF FreshAdmissions
  <2>4. c.doc <= doc'[c.tab]
    BY <1>3, <2>2, <2>3
  <2>5. ASSUME OneRealm(c.tab)' /\ c.doc = doc'[c.tab] PROVE c.id \in Seen(c.tab)'
    BY <1>4, <2>2, <2>3, <2>5
  <2> QED
    BY <2>4, <2>5
<1>6. ASSUME NEW c, NEW i \in DOMAIN channels, c = channels[i] PROVE Placed(c)
  <2>1. c \in Channel
    BY <1>1, <1>6
  <2>2. c.tab \in Tabs /\ c.doc \in Nat
    BY <1>2, <2>1
  <2>3. c.doc = doc[c.tab]
    BY <1>6 DEF Members, RegistryIsCurrent
  <2>4. c.id \in Registered(c.tab)
    BY <1>6 DEF Registered
  <2>5. c.doc <= doc'[c.tab]
    BY <1>3, <2>2, <2>3
  <2>6. ASSUME OneRealm(c.tab)' /\ c.doc = doc'[c.tab] PROVE c.id \in Seen(c.tab)'
    <3>1. OneRealm(c.tab) /\ \A x \in Seen(c.tab) : x \in Seen(c.tab)'
      <4> DEFINE d == c.doc
      <4>1. d \in Nat /\ d <= doc[c.tab] /\ OneRealm(c.tab)' /\ d = doc'[c.tab]
        BY <1>3, <2>2, <2>3, <2>6
      <4> HIDE DEF d
      <4> QED
        BY <1>4, <2>2, <4>1
    <3>2. c.id \in Seen(c.tab)
      BY <2>2, <2>4, <3>1, RegisteredSeen DEF Shapes
    <3> QED
      BY <3>1, <3>2
  <2> QED
    BY <2>5, <2>6
<1>7. CASE ~Admits(t)
  <2>1. admitted' = admitted
    BY <1>7, AdmittedSteps
  <2>2. \A b \in DOMAIN admitted : \A c \in admitted[b] : Placed(c)
    BY <1>5
  <2> HIDE DEF Placed
  <2>3. \A b \in DOMAIN admitted' : \A c \in admitted'[b] : Placed(c)
    BY <2>1, <2>2
  <2> QED
    BY <2>3 DEF FreshAdmissions, Placed
<1>8. CASE Admits(t)
  <2>1. \E T : /\ admitted' = Append(admitted, T)
               /\ \A c \in T : \E i \in DOMAIN channels : c = channels[i]
    BY <1>8, AdmitsFeeds
  <2>2. PICK T : /\ admitted' = Append(admitted, T)
                 /\ \A c \in T : \E i \in DOMAIN channels : c = channels[i]
    BY <2>1
  <2>3. \A c \in T : Placed(c)
    <3>1. \A c : \A i \in DOMAIN channels : c = channels[i] => Placed(c)
      BY <1>6
    <3> HIDE DEF Placed
    <3> QED
      BY <2>2, <3>1
  <2>4. \A b \in DOMAIN admitted' : \/ b \in DOMAIN admitted /\ admitted'[b] = admitted[b]
                                    \/ admitted'[b] = T
    <3> DEFINE a == admitted
    <3>1. Len(a) \in Nat /\ DOMAIN a = 1 .. Len(a)
      BY <1>1
    <3>2. /\ DOMAIN Append(a, T) = 1 .. Len(a) + 1
          /\ \A b \in 1 .. Len(a) : Append(a, T)[b] = a[b]
          /\ Append(a, T)[Len(a) + 1] = T
      BY <1>1
    <3> HIDE DEF a
    <3>3. \A b \in 1 .. Len(a) + 1 : b \in 1 .. Len(a) \/ b = Len(a) + 1
      BY <3>1
    <3>4. admitted' = Append(a, T)
      BY <2>2 DEF a
    <3> QED
      BY <3>1, <3>2, <3>3, <3>4 DEF a
  <2>5. \A b \in DOMAIN admitted : \A c \in admitted[b] : Placed(c)
    BY <1>5
  <2> HIDE DEF Placed
  <2>6. \A b \in DOMAIN admitted' : \A c \in admitted'[b] : Placed(c)
    BY <2>3, <2>4, <2>5
  <2> QED
    BY <2>6 DEF FreshAdmissions, Placed
<1> QED
  BY <1>7, <1>8

(* A page's unused numbers stay unknown to every queue and to the record. *)
LEMMA FreshPagesKept ==
    ASSUME Shapes, Shapes', Members, \A u \in Tabs : ServedPage(u),
           \A u \in Tabs : FreshPage(u), NEW t \in Tabs, Step(t), NEW u \in Tabs
    PROVE  FreshPage(u)'
PROOF
<1> SUFFICES ASSUME OneRealm(u)', NEW x \in Nat, x \notin Seen(u)'
             PROVE  Fed(Delivered(u)', x) = <<>>
  BY DEF FreshPage
<1>1. CASE Navigate(t) /\ u = t
  <2>1. /\ RetireTab(t) /\ log' = [log EXCEPT ![t] = << >>]
        /\ commands' = [commands EXCEPT ![t] = << >>] /\ inbox' = [inbox EXCEPT ![t] = << >>]
    BY <1>1 DEF Navigate
  <2>2. pending' = [pending EXCEPT ![t] = << >>]
    BY <2>1 DEF RetireTab
  <2>3. log'[t] = <<>> /\ commands'[t] = <<>> /\ inbox'[t] = <<>> /\ pending'[t] = <<>>
    BY <2>1, <2>2 DEF Shapes, DeliveryShapes, BookShapes
  <2>4. Delivered(t)' = <<>> \o <<>> \o <<>> \o <<>>
    BY <2>3 DEF Delivered
  <2>5. Delivered(t)' = <<>>
    BY <2>4, ConcatEmptySeq
  <2> QED
    BY <1>1, <2>5, FedEmpty
<1>2. CASE ~(Navigate(t) /\ u = t)
  <2>1. OneRealm(u) /\ \A y \in Seen(u) : y \in Seen(u)'
    BY <1>2, SeenGrows
  <2>2. x \notin Seen(u)
    BY <2>1
  <2>3. Fed(Delivered(u), x) = <<>>
    BY <2>1, <2>2 DEF FreshPage
  <2>4. CASE ~Admits(t)
    <3>1. FedKept(u)
      BY <1>2, <2>4, FeedsKept
    <3> QED
      BY <2>3, <3>1 DEF FedKept
  <2>5. CASE Admits(t)
    <3>1. x \notin Registered(u)
      BY <2>1, <2>2, RegisteredSeen DEF Shapes
    <3>2. \E T : \A v \in Tabs : \A y : y \notin Registered(v) =>
                    Fed(Delivered(v)', y) = Fed(Delivered(v), y)
      BY <2>5, AdmitsFeeds
    <3>3. Fed(Delivered(u)', x) = Fed(Delivered(u), x)
      BY <3>1, <3>2
    <3> QED
      BY <2>3, <3>3
  <2> QED
    BY <2>4, <2>5
<1> QED
  BY <1>1, <1>2

(***************************************************************************)
(* The posts arrive in the order in which they were admitted.              *)
(***************************************************************************)

(* Every member of the registry was one before, or has just been opened.   *)
LEMMA MembersComeFrom ==
    ASSUME RegistryShapes, NEW t \in Tabs, Step(t), NEW c \in Range(channels')
    PROVE  /\ \/ c \in Range(channels)
              \/ /\ ApplyCommand(t) /\ Accepts(t, Head(turn[t])) /\ ~Admits(t)
                 /\ Head(turn[t]).op = "open"
                 /\ c.tab = t /\ c.doc = doc[t] /\ c.id = Head(turn[t]).id
           /\ RetireTab(t) => c.tab # t
PROOF
<1>1. channels \in Seq(Channel)
  BY DEF RegistryShapes
<1>2. \A x : x \in Range(channels) <=> \E i \in DOMAIN channels : x = channels[i]
  BY DEF Range
<1>3. ASSUME NEW S, channels' = Selection(channels, S)
      PROVE  c \in Range(channels) /\ c \in S
  <2> DEFINE r == channels'
  <2>1. r = Selection(channels, S)
    BY <1>3
  <2> HIDE DEF r
  <2>2. /\ \A x \in Range(r) : \E i \in DOMAIN channels : x = channels[i]
        /\ \A i \in DOMAIN channels : channels[i] \in S <=> channels[i] \in Range(r)
    BY <2>1, SelectionMembers
  <2>3. c \in Range(r)
    BY DEF r
  <2> QED
    BY <1>2, <2>2, <2>3
<1>4. CASE RetireTab(t)
  <2> DEFINE S == {x \in Channel : x.tab # t}
  <2>1. channels' = Selection(channels, S)
    BY <1>4 DEF RetireTab
  <2>2. c \in Range(channels) /\ c \in S
    BY <1>3, <2>1
  <2> QED
    BY <2>2
<1>5. CASE ~RetireTab(t) /\ channels' = channels
  BY <1>5
<1>6. CASE ~RetireTab(t) /\ ApplyCommand(t) /\ Accepts(t, Head(turn[t]))
  <2> DEFINE cmd == Head(turn[t])
  <2>1. OwnsDocument(t, cmd) /\ cmd.doc = doc[t]
    BY <1>6 DEF Accepts, OwnsDocument
  <2>2. CASE cmd.op = "open" /\ ApplyOpen(t, cmd)
    <3> DEFINE n == [tab |-> t, doc |-> cmd.doc, id |-> cmd.id,
                     origin |-> origin[t], name |-> cmd.name]
    <3>1. channels' = Append(channels, n) /\ n.tab = t /\ n.id = cmd.id /\ n.doc = doc[t]
      BY <2>1, <2>2 DEF ApplyOpen
    <3>2. ~Admits(t)
      BY <2>2 DEF Admits
    <3> HIDE DEF n
    <3>3. \A i \in DOMAIN Append(channels, n) :
             \/ i \in DOMAIN channels /\ Append(channels, n)[i] = channels[i]
             \/ Append(channels, n)[i] = n
      BY <1>1
    <3>4. c \in Range(channels) \/ c = n
      BY <1>2, <3>1, <3>3 DEF Range
    <3> QED
      BY <1>6, <2>2, <3>1, <3>2, <3>4
  <2>3. CASE ApplyPost(t, cmd)
    BY <1>6, <2>3 DEF ApplyPost
  <2>4. CASE ApplyClose(t, cmd)
    <3>1. channels' = channels \/ \E S : channels' = Selection(channels, S)
      BY <2>4 DEF ApplyClose
    <3> QED
      BY <1>3, <1>6, <3>1
  <2> QED
    BY <1>6, <2>2, <2>3, <2>4 DEF Accepts
<1> QED
  BY <1>4, <1>5, <1>6, RegistrySteps DEF TakeIf

(* A page opens no identifier that it has given out before.                *)
LEMMA PageThins ==
    ASSUME IdentityShapes, PageShapes, PipeShapes, NEW t \in Tabs, Step(t), NEW u \in Tabs,
           NEW x, x \in 1 .. used[u], x \in DOMAIN page'[u]
    PROVE  x \in DOMAIN page[u]
PROOF
<1>1. CASE u # t
  BY <1>1, PageSteps
<1>2. CASE u = t
  <2>1. CASE OpenChannel(t) \/ PostMessage(t) \/ CloseChannel(t)
    <3>1. \E cmd \in Command :
             /\ DOMAIN page'[t] = (DOMAIN page[t] \cup Alone(cmd.op = "open", cmd.id))
                                     \ Alone(cmd.op = "close", cmd.id)
             /\ cmd.op = "open" => cmd.id = used[t] + 1
      <4>1. \E cmd \in Command :
                /\ Pipes(t) /\ Stream(t)' = Append(Stream(t), cmd)
                /\ DOMAIN page'[t] = (DOMAIN page[t] \cup Alone(cmd.op = "open", cmd.id))
                                         \ Alone(cmd.op = "close", cmd.id)
                /\ \/ /\ cmd.op = "open" /\ cmd.id = used[t] + 1 /\ used'[t] = used[t] + 1
                      /\ Cardinality(DOMAIN page[t]) < MaxChannels
                   \/ /\ cmd.op # "open" /\ cmd.id \in DOMAIN page[t] /\ used'[t] = used[t]
        BY <2>1, PageWrites
      <4> QED
        BY <4>1
    <3>2. PICK cmd \in Command :
             /\ DOMAIN page'[t] = (DOMAIN page[t] \cup Alone(cmd.op = "open", cmd.id))
                                     \ Alone(cmd.op = "close", cmd.id)
             /\ cmd.op = "open" => cmd.id = used[t] + 1
      BY <3>1
    <3>3. used[t] \in Nat
      BY DEF PageShapes
    <3>4. used[t] + 1 \notin 1 .. used[t]
      BY <3>3
    <3>5. x \notin Alone(cmd.op = "open", cmd.id)
      BY <1>2, <3>2, <3>4 DEF Alone
    <3> QED
      BY <1>2, <3>2, <3>5
  <2>2. CASE Navigate(t) /\ DOMAIN page'[t] = {}
    BY <1>2, <2>2
  <2>3. CASE UNCHANGED <<page, used>>
    BY <2>3
  <2>4. CASE RestartEncoding(t)
    <3>1. page' = [page EXCEPT ![t] = << >>]
      BY <2>4 DEF RestartEncoding
    <3>2. page'[t] = << >> /\ DOMAIN << >> = {}
      BY <3>1 DEF PageShapes
    <3> QED
      BY <1>2, <3>2
  <2> QED
    BY <2>1, <2>2, <2>3, <2>4, PageSteps
<1> QED
  BY <1>1, <1>2

(* What is fed to a member is what was admitted for it. *)
InOrderFor(c) ==
    OneRealm(c.tab) /\ c.id \in DOMAIN page[c.tab] =>
        Fed(Delivered(c.tab), c.id) = Order(c)

InOrder == \A c \in Range(channels) : InOrderFor(c)

(* When what was received and what is on its way are together the          *)
(* admissions, what was received is a beginning of them.                   *)
LEMMA InOrderIsReceived == InOrder => ReceivesInOrder
PROOF
<1> SUFFICES ASSUME InOrder, NEW i \in DOMAIN channels,
                    OneRealm(channels[i].tab),
                    channels[i].id \in DOMAIN page[channels[i].tab]
             PROVE  Fed(Delivered(channels[i].tab), channels[i].id) = Order(channels[i])
  BY DEF ReceivesInOrder, Fed, Delivered, ForId, Order, Numbers, Admitting
<1>1. channels[i] \in Range(channels)
  BY DEF Range
<1> QED
  BY <1>1 DEF InOrder, InOrderFor

(* Without an admission a channel is owed what it was. *)
LEMMA OrderSame ==
    ASSUME UNCHANGED <<admitted, nextBatch>>, NEW c
    PROVE  Order(c)' = Order(c)
PROOF
  BY DEF Order, Admitting, Numbers, Selection, PartialSelections

(* A member that stays. *)
LEMMA OldInOrder ==
    ASSUME Shapes, Shapes', Members, \A v \in Tabs : ServedPage(v), InOrder,
           NEW t \in Tabs, Step(t), NEW c \in Range(channels), c.tab \in Tabs,
           OneRealm(c.tab)', ~(Navigate(t) /\ c.tab = t),
           c.id \in DOMAIN page'[c.tab]
    PROVE  Fed(Delivered(c.tab)', c.id) = Order(c)'
PROOF
<1> DEFINE u == c.tab
           x == c.id
<1>1. u \in Tabs /\ OneRealm(u)' /\ ~(Navigate(t) /\ u = t) /\ x \in DOMAIN page'[u]
  OBVIOUS
<1>2. PICK i \in DOMAIN channels : c = channels[i]
  BY DEF Range
<1>3. x \in Registered(u) /\ channels[i].tab = u /\ channels[i].id = x
  BY <1>2 DEF Registered
<1>4. InOrderFor(c) <=> (OneRealm(u) /\ x \in DOMAIN page[u] =>
                            Fed(Delivered(u), x) = Order(c))
  BY DEF InOrderFor
<1>5. InOrderFor(c)
  BY DEF InOrder
<1> SUFFICES Fed(Delivered(u)', x) = Order(c)'
  OBVIOUS
<1> HIDE DEF u, x
<1>6. OneRealm(u)
  BY <1>1, SeenGrows
<1>7. x \in 1 .. used[u]
  <2>1. x \in Seen(u)
    BY <1>1, <1>3, <1>6, RegisteredSeen DEF Shapes
  <2> QED
    BY <2>1 DEF Seen
<1>8. x \in DOMAIN page[u] /\ x \in Nat
  BY <1>1, <1>7, PageThins DEF Shapes
<1>9. Fed(Delivered(u), x) = Order(c)
  BY <1>4, <1>5, <1>6, <1>8
<1>10. CASE ~Admits(t)
  <2>1. FedKept(u)
    BY <1>1, <1>10, FeedsKept
  <2>2. Fed(Delivered(u)', x) = Fed(Delivered(u), x)
    BY <1>8, <2>1 DEF FedKept
  <2>3. Order(c)' = Order(c)
    BY <1>10, AdmittedSteps, OrderSame
  <2> QED
    BY <1>9, <2>2, <2>3
<1>11. CASE Admits(t)
  <2>1. nextBatch' = nextBatch + 1
    BY <1>11, AdmitsFeeds
  <2>2. \E T : /\ admitted' = Append(admitted, T)
               /\ \A v \in Tabs : \A k \in DOMAIN channels : channels[k].tab = v =>
                     Fed(Delivered(v)', channels[k].id)
                        = Then(Fed(Delivered(v), channels[k].id),
                               IF channels[k] \in T THEN <<nextBatch + 1>> ELSE <<>>)
    BY <1>11, AdmitsFeeds
  <2>3. PICK T : /\ admitted' = Append(admitted, T)
                 /\ \A v \in Tabs : \A k \in DOMAIN channels : channels[k].tab = v =>
                       Fed(Delivered(v)', channels[k].id)
                          = Then(Fed(Delivered(v), channels[k].id),
                                 IF channels[k] \in T THEN <<nextBatch + 1>> ELSE <<>>)
    BY <2>2
  <2>4. Fed(Delivered(u)', channels[i].id)
           = Then(Fed(Delivered(u), channels[i].id),
                  IF channels[i] \in T THEN <<nextBatch + 1>> ELSE <<>>)
    BY <1>1, <1>3, <2>3
  <2>5. Fed(Delivered(u)', x)
           = Then(Fed(Delivered(u), x), IF c \in T THEN <<nextBatch + 1>> ELSE <<>>)
    BY <1>2, <1>3, <2>4
  <2>6. Order(c)' = Then(Order(c), IF c \in T THEN <<nextBatch + 1>> ELSE <<>>)
    BY <2>1, <2>3, OrderGrows DEF Shapes, RegistryShapes, BookShapes
  <2> QED
    BY <1>9, <2>5, <2>6
<1> QED
  BY <1>10, <1>11

(* A member that has just been opened. *)
LEMMA NewInOrder ==
    ASSUME Shapes, Shapes', Members, \A v \in Tabs : ServedPage(v), Fresh,
           NEW t \in Tabs, Step(t), NEW c, ApplyCommand(t), ~Admits(t),
           Head(turn[t]).op = "open",
           c.tab = t, c.doc = doc[t], c.id = Head(turn[t]).id,
           OneRealm(t)'
    PROVE  Fed(Delivered(t)', c.id) = Order(c)'
PROOF
<1> DEFINE h == Head(turn[t])
           x == h.id
           p == Stream(t)
           s == Stream(t)'
<1>1. h \in Command /\ p = Then(<<h>>, s) /\ s \in Commands
  BY StreamShrinks DEF Shapes, Then, Commands
<1>2. x \in Nat
  BY <1>1, CommandParts
<1>3. x \notin Seen(t)
  <2>1. Seen(t) = (1 .. used[t]) \ Opened(p, Len(p))
    BY DEF Seen
  <2>2. h.op = "open"
    OBVIOUS
  <2> HIDE DEF p, s, h
  <2>3. Len(s) \in Nat /\ Len(p) = Len(s) + 1 /\ Len(s) \in 0 .. Len(s)
    BY <1>1, HeadEntries
  <2>4. Opened(p, Len(s) + 1) = Opened(s, Len(s)) \cup Alone(h.op = "open", h.id)
    BY <1>1, <2>3, OpenedHead
  <2>5. h.id \in Opened(p, Len(p))
    BY <2>2, <2>3, <2>4 DEF Alone
  <2> QED
    BY <2>1, <2>5
<1>4. OneRealm(t) /\ ~Navigate(t)
  <2>1. session' = session /\ restarted' = restarted
    BY DEF ApplyCommand, Applied, Contain, identity, child
  <2>2. OneRealm(t)
    BY <2>1 DEF OneRealm
  <2>3. doc' = doc
    BY DEF ApplyCommand, Applied, Contain, identity
  <2>4. Navigate(t) => doc'[t] = doc[t] + 1
    BY DocSteps DEF Shapes
  <2>5. doc[t] \in Nat
    BY DocSteps DEF Shapes
  <2> QED
    BY <2>2, <2>3, <2>4, <2>5
<1> HIDE DEF h, x, p, s
<1>5. Fed(Delivered(t), x) = <<>>
  BY <1>2, <1>3, <1>4 DEF Fresh, FreshPage
<1>6. FedKept(t)
  BY <1>4, OwnKept
<1>7. Fed(Delivered(t)', x) = <<>>
  BY <1>2, <1>5, <1>6 DEF FedKept
<1>8. c.id = x
  BY DEF x, h
<1>9. \A b \in DOMAIN admitted : c \notin admitted[b]
  BY <1>3, <1>4, <1>8 DEF Fresh, FreshAdmissions
<1>10. Order(c) = <<>>
  BY <1>9, OrderNone DEF Shapes, RegistryShapes, BookShapes
<1>11. Order(c)' = Order(c)
  BY AdmittedSteps, OrderSame
<1> QED
  BY <1>7, <1>8, <1>10, <1>11

OrderInv == ServedInv /\ Fresh /\ InOrder

(* A stuttering step keeps the order. *)
LEMMA OrderStutters == Fresh /\ InOrder /\ UNCHANGED vars => Fresh' /\ InOrder'
PROOF
<1> SUFFICES ASSUME Fresh, InOrder, UNCHANGED vars PROVE Fresh' /\ InOrder'
  OBVIOUS
<1>1. /\ turn' = turn /\ events' = events /\ out' = out /\ channels' = channels /\ doc' = doc
      /\ session' = session /\ restarted' = restarted
      /\ page' = page /\ used' = used /\ admitted' = admitted
      /\ nextBatch' = nextBatch /\ log' = log /\ inbox' = inbox /\ commands' = commands
      /\ pending' = pending
  BY DEF vars, identity, child, shell
<1>2. \A u \in Tabs : Seen(u)' = Seen(u) /\ Delivered(u)' = Delivered(u)
  BY <1>1 DEF Seen, Stream, Opened, Delivered
<1>3. \A u \in Tabs : FreshPage(u)'
  <2> SUFFICES ASSUME NEW u \in Tabs, OneRealm(u)', NEW x \in Nat, x \notin Seen(u)'
               PROVE  Fed(Delivered(u)', x) = <<>>
    BY DEF FreshPage
  <2>1. x \notin Seen(u) /\ OneRealm(u)
    BY <1>1, <1>2 DEF OneRealm
  <2>2. Fed(Delivered(u), x) = <<>>
    BY <2>1 DEF Fresh, FreshPage
  <2> QED
    BY <1>2, <2>2
<1>4. FreshAdmissions'
  <2> SUFFICES ASSUME NEW b \in DOMAIN admitted', NEW c \in admitted'[b]
               PROVE  /\ c.doc <= doc'[c.tab]
                      /\ OneRealm(c.tab)' /\ c.doc = doc'[c.tab] =>
                            c.id \in Seen(c.tab)'
    BY DEF FreshAdmissions
  <2>1. Seen(c.tab)' = Seen(c.tab)
    BY <1>1 DEF Seen, Stream, Opened
  <2>2. b \in DOMAIN admitted /\ c \in admitted[b]
    BY <1>1
  <2>3. OneRealm(c.tab)' <=> OneRealm(c.tab)
    BY <1>1 DEF OneRealm
  <2> QED
    BY <1>1, <2>1, <2>2, <2>3 DEF Fresh, FreshAdmissions
<1>5. InOrder'
  <2> SUFFICES ASSUME NEW c \in Range(channels') PROVE InOrderFor(c)'
    BY DEF InOrder
  <2>1. Delivered(c.tab)' = Delivered(c.tab)
    BY <1>1 DEF Delivered
  <2>2. Order(c)' = Order(c)
    BY <1>1, OrderSame
  <2>3. InOrderFor(c)
    BY <1>1 DEF InOrder
  <2> SUFFICES ASSUME OneRealm(c.tab)', c.id \in DOMAIN page'[c.tab]
               PROVE  Fed(Delivered(c.tab)', c.id) = Order(c)'
    BY DEF InOrderFor
  <2>5. OneRealm(c.tab)
    BY <1>1 DEF OneRealm
  <2>4. Fed(Delivered(c.tab), c.id) = Order(c)
    BY <1>1, <2>3, <2>5 DEF InOrderFor
  <2> QED
    BY <2>1, <2>2, <2>4
<1> QED
  BY <1>3, <1>4, <1>5 DEF Fresh

(* Every step keeps each open channel's deliveries equal to its            *)
(* admissions.                                                             *)
LEMMA InOrderKept ==
    ASSUME Shapes, Shapes', Members, \A v \in Tabs : ServedPage(v), Fresh, InOrder,
           NEW t \in Tabs, Step(t)
    PROVE  InOrder'
PROOF
<1> SUFFICES ASSUME NEW c \in Range(channels'), OneRealm(c.tab)',
                    c.id \in DOMAIN page'[c.tab]
             PROVE  Fed(Delivered(c.tab)', c.id) = Order(c)'
  BY DEF InOrder, InOrderFor
<1>1. c.tab \in Tabs
  <2>1. channels' \in Seq(Channel)
    BY DEF Shapes, RegistryShapes
  <2>2. c \in Channel
    BY <2>1 DEF Range
  <2> QED
    BY <2>2 DEF Channel
<1>2. /\ \/ c \in Range(channels)
         \/ /\ ApplyCommand(t) /\ Accepts(t, Head(turn[t])) /\ ~Admits(t)
            /\ Head(turn[t]).op = "open"
            /\ c.tab = t /\ c.doc = doc[t] /\ c.id = Head(turn[t]).id
      /\ RetireTab(t) => c.tab # t
  BY MembersComeFrom DEF Shapes
<1>3. ~(Navigate(t) /\ c.tab = t)
  BY <1>2 DEF Navigate
<1>4. CASE c \in Range(channels)
  BY <1>1, <1>3, <1>4, OldInOrder
<1>5. CASE /\ ApplyCommand(t) /\ ~Admits(t) /\ Head(turn[t]).op = "open"
           /\ c.tab = t /\ c.doc = doc[t] /\ c.id = Head(turn[t]).id
  <2>1. Fed(Delivered(t)', c.id) = Order(c)'
    BY <1>5, NewInOrder
  <2> QED
    BY <1>5, <2>1
<1> QED
  BY <1>2, <1>4, <1>5

(* Every step keeps the order invariant. *)
LEMMA OrderSteps == OrderInv /\ ServedInv' /\ [Next]_vars => Fresh' /\ InOrder'
PROOF
<1> SUFFICES ASSUME OrderInv, ServedInv', [Next]_vars PROVE Fresh' /\ InOrder'
  OBVIOUS
<1>1. /\ Shapes /\ Shapes' /\ Members /\ (\A u \in Tabs : ServedPage(u)) /\ Fresh /\ InOrder
      /\ FreshAdmissions /\ \A u \in Tabs : FreshPage(u)
  BY ServedIsPages DEF OrderInv, ServedInv, MemberInv, CoreInv, Fresh
<1>2. CASE UNCHANGED vars
  BY <1>1, <1>2, OrderStutters
<1>3. ASSUME NEW t \in Tabs, Step(t) PROVE Fresh' /\ InOrder'
  <2>1. FreshAdmissions'
    BY <1>1, <1>3, FreshAdmissionsKept
  <2>2. \A u \in Tabs : FreshPage(u)'
    BY <1>1, <1>3, FreshPagesKept
  <2>3. InOrder'
    BY <1>1, <1>3, InOrderKept
  <2> QED
    BY <2>1, <2>2, <2>3 DEF Fresh
<1> QED
  BY <1>2, <1>3 DEF Next, Step

(* At the start nothing was admitted and nothing is on its way. *)
LEMMA OrderStart == Init => Fresh /\ InOrder
PROOF
<1> SUFFICES ASSUME Init PROVE Fresh /\ InOrder
  OBVIOUS
<1>1. channels = <<>> /\ admitted = <<>> /\ DOMAIN <<>> = {}
  BY DEF Init
<1>2. \A u \in Tabs : FreshPage(u)
  <2> SUFFICES ASSUME NEW u \in Tabs, NEW x \in Nat PROVE Fed(Delivered(u), x) = <<>>
    BY DEF FreshPage
  <2>1. log[u] = <<>> /\ inbox[u] = <<>> /\ commands[u] = <<>> /\ pending[u] = <<>>
    BY DEF Init
  <2>2. Delivered(u) = <<>>
    BY <2>1, ConcatEmptySeq DEF Delivered
  <2> QED
    BY <2>2, FedEmpty
<1>3. FreshAdmissions
  BY <1>1 DEF FreshAdmissions
<1>4. InOrder
  BY <1>1 DEF InOrder, Range
<1> QED
  BY <1>2, <1>3, <1>4 DEF Fresh

(* What a member open in its page, which runs in one realm, was and will   *)
(* be handed is exactly the posts admitted for it, in that order: no post  *)
(* is lost to a full queue, repeated by a retry (take_if), or reordered,   *)
(* whatever other pages do, their restarts at another charset included.    *)
THEOREM PostsArriveInOrder == Spec => []ReceivesInOrder
PROOF
<1>1. Init => OrderInv
  BY CoreStarts, MembersStart, ServedStart, OrderStart DEF OrderInv, ServedInv, MemberInv
<1>2. OrderInv /\ [Next]_vars => OrderInv'
  BY CoreSteps, MembersSteps, ServedSteps, OrderSteps DEF OrderInv, ServedInv, MemberInv
<1>3. OrderInv => ReceivesInOrder
  BY InOrderIsReceived DEF OrderInv
<1> QED
  BY <1>1, <1>2, <1>3, PTL DEF Spec
=============================================================================
