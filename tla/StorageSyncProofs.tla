-------------------------- MODULE StorageSyncProofs --------------------------
(***************************************************************************)
(* Proofs about StorageSync for every number of tabs, keys, values and     *)
(* every bound, and at the end that it implements SharedMap.               *)
(***************************************************************************)
EXTENDS StorageRefinement, SequenceTheorems, NaturalsInduction, WellFoundedInduction,
        TLAPS

(***************************************************************************)
(* Facts about the operators of StorageArea, for every choice of keys,     *)
(* values and quota.                                                       *)
(***************************************************************************)

(* A nonempty set of positions in a sequence has a last one. *)
LEMMA LastExists ==
    ASSUME NEW n \in Nat, NEW S \in SUBSET (1 .. n), S # {}
    PROVE  \E i \in S : \A j \in S : j <= i
<1> DEFINE R == {p \in Nat \X Nat : p[1] < p[2]}
           T == {x \in Nat : \E i \in S : x = n - i}
<1>1. IsWellFoundedOn(R, Nat)
  BY NatLessThanWellFounded DEF OpToRel
<1>2. T \subseteq Nat /\ T # {}
  <2>1. PICK i \in S : TRUE
    OBVIOUS
  <2>2. n - i \in T
    BY <2>1
  <2> QED
    BY <2>2
<1>3. PICK x \in T : \A y \in T : <<y, x>> \notin R
  <2> HIDE DEF R, T
  <2> QED
    BY <1>1, <1>2, WFMin
<1>4. PICK i \in S : x = n - i
  BY <1>3
<1>5. ASSUME NEW j \in S PROVE j <= i
  <2>1. n - j \in T
    OBVIOUS
  <2>2. ~(n - j < n - i)
    BY <1>3, <1>4, <2>1
  <2> QED
    BY <2>2
<1> QED
  BY <1>5

(* The operation that decides a key's value in an overlay. *)
LEMMA OverlayOfLast ==
    ASSUME NEW m \in Maps, NEW ops \in Seq(Operations), NEW k \in Keys,
           NEW i \in TouchedIn(ops, k), \A j \in TouchedIn(ops, k) : j <= i
    PROVE  Overlay(m, ops)[k] = ops[i].value
<1> DEFINE last == CHOOSE x \in TouchedIn(ops, k) :
                      \A j \in TouchedIn(ops, k) : j <= x
<1>1. TouchedIn(ops, k) \subseteq 1 .. Len(ops)
  BY DEF TouchedIn
<1>2. last \in TouchedIn(ops, k) /\ \A j \in TouchedIn(ops, k) : j <= last
  OBVIOUS
<1>3. last = i
  BY <1>1, <1>2
<1> QED
  BY <1>3 DEF Overlay

(* A key no operation touches keeps the value of the map. *)
LEMMA OverlayUntouched ==
    ASSUME NEW m \in Maps, NEW ops \in Seq(Operations), NEW k \in Keys,
           TouchedIn(ops, k) = {}
    PROVE  Overlay(m, ops)[k] = m[k]
BY DEF Overlay

(* Either some operation decides the key's value or none touches it. *)
LEMMA TouchedCases ==
    ASSUME NEW ops \in Seq(Operations), NEW k \in Keys, TouchedIn(ops, k) # {}
    PROVE  \E i \in TouchedIn(ops, k) : \A j \in TouchedIn(ops, k) : j <= i
BY LastExists, LenProperties DEF TouchedIn

(* ApplyMap yields a map. *)
LEMMA ApplyMapType ==
    ASSUME NEW m \in Maps, NEW op \in Operations
    PROVE  ApplyMap(m, op) \in Maps
BY DEF Maps, Operations, ApplyMap, EmptyMap

(* What ApplyMap does to one key. *)
LEMMA ApplyMapValue ==
    ASSUME NEW m \in Maps, NEW op \in Operations, NEW k \in Keys
    PROVE  ApplyMap(m, op)[k] = IF Touches(op, k) THEN op.value ELSE m[k]
BY AreaAssumption DEF Maps, Operations, ApplyMap, EmptyMap, Touches

(* An operation changes a map exactly when applying it yields another map. *)
LEMMA OperationChangesIsDifference ==
    ASSUME NEW m \in Maps, NEW op \in Operations
    PROVE  OperationChanges(m, op) <=> ApplyMap(m, op) # m
BY AreaAssumption DEF Maps, Operations, OperationChanges, ApplyMap, EmptyMap

(* Two maps that agree on every key are equal. *)
LEMMA MapEqual ==
    ASSUME NEW m \in Maps, NEW n \in Maps, \A k \in Keys : m[k] = n[k]
    PROVE  m = n
BY DEF Maps

(* An overlay yields a map. *)
LEMMA OverlayType ==
    ASSUME NEW m \in Maps, NEW ops \in Seq(Operations)
    PROVE  Overlay(m, ops) \in Maps
<1>1. ASSUME NEW k \in Keys PROVE Overlay(m, ops)[k] \in Values \cup {None}
  <2>1. CASE TouchedIn(ops, k) = {}
    BY <2>1, OverlayUntouched DEF Maps
  <2>2. CASE TouchedIn(ops, k) # {}
    <3>1. PICK i \in TouchedIn(ops, k) : \A j \in TouchedIn(ops, k) : j <= i
      BY <2>2, TouchedCases
    <3>2. ops[i] \in Operations
      BY <3>1, ElementOfSeq DEF TouchedIn
    <3> QED
      BY <3>1, <3>2, OverlayOfLast DEF Operations
  <2> QED
    BY <2>1, <2>2
<1>2. Overlay(m, ops) = [k \in Keys |-> Overlay(m, ops)[k]]
  BY DEF Overlay
<1> QED
  BY <1>1, <1>2 DEF Maps

(* Nothing pending: the overlay is the map itself. *)
LEMMA OverlayEmpty ==
    ASSUME NEW m \in Maps
    PROVE  Overlay(m, <<>>) = m
<1>1. <<>> \in Seq(Operations) /\ Len(<<>>) = 0
  OBVIOUS
<1>2. \A k \in Keys : TouchedIn(<<>>, k) = {}
  BY <1>1 DEF TouchedIn
<1> QED
  BY <1>1, <1>2, OverlayUntouched, OverlayType, MapEqual

(* The overlay after one more write is that write on top of the overlay:   *)
(* StorageProjection::write may apply its operation to the visible map.    *)
LEMMA OverlayAppend ==
    ASSUME NEW m \in Maps, NEW ops \in Seq(Operations), NEW op \in Operations
    PROVE  Overlay(m, Append(ops, op)) = ApplyMap(Overlay(m, ops), op)
<1> DEFINE new == Append(ops, op)
           L == Len(ops)
<1>1. /\ new \in Seq(Operations) /\ Len(new) = L + 1 /\ L \in Nat
      /\ \A i \in 1 .. L : new[i] = ops[i]
      /\ new[L + 1] = op
  BY AppendProperties, LenProperties
<1>2. Overlay(m, ops) \in Maps /\ Overlay(m, new) \in Maps
  BY <1>1, OverlayType
<1>3. ASSUME NEW k \in Keys
      PROVE  Overlay(m, new)[k] = ApplyMap(Overlay(m, ops), op)[k]
  <2>1. TouchedIn(new, k) = TouchedIn(ops, k) \cup
                              (IF Touches(op, k) THEN {L + 1} ELSE {})
    BY <1>1 DEF TouchedIn
  <2>2. CASE Touches(op, k)
    <3>1. L + 1 \in TouchedIn(new, k) /\ \A j \in TouchedIn(new, k) : j <= L + 1
      BY <1>1, <2>1, <2>2 DEF TouchedIn
    <3>2. Overlay(m, new)[k] = op.value
      BY <1>1, <3>1, OverlayOfLast, ZenonT(30)
    <3> QED
      BY <1>2, <2>2, <3>2, ApplyMapValue
  <2>3. CASE ~Touches(op, k)
    <3>1. TouchedIn(new, k) = TouchedIn(ops, k)
      BY <2>1, <2>3
    <3>2. Overlay(m, new)[k] = Overlay(m, ops)[k]
      <4>1. CASE TouchedIn(ops, k) = {}
        BY <1>1, <3>1, <4>1, OverlayUntouched, ZenonT(30)
      <4>2. CASE TouchedIn(ops, k) # {}
        <5>1. PICK i \in TouchedIn(ops, k) : \A j \in TouchedIn(ops, k) : j <= i
          BY <4>2, TouchedCases
        <5>2. Overlay(m, ops)[k] = ops[i].value
          BY <5>1, OverlayOfLast
        <5>3. Overlay(m, new)[k] = new[i].value
          BY <1>1, <3>1, <5>1, OverlayOfLast
        <5>4. new[i] = ops[i]
          BY <1>1, <5>1 DEF TouchedIn
        <5> QED
          BY <5>2, <5>3, <5>4
      <4> QED
        BY <4>1, <4>2
    <3> QED
      BY <1>2, <2>3, <3>2, ApplyMapValue
  <2> QED
    BY <2>2, <2>3
<1> QED
  BY <1>2, <1>3, ApplyMapType, MapEqual

(* Moving the oldest pending operation into the map leaves the overlay     *)
(* alone: the shortcut of StorageProjection::apply.                        *)
LEMMA OverlayHead ==
    ASSUME NEW m \in Maps, NEW ops \in Seq(Operations), ops # <<>>
    PROVE  Overlay(ApplyMap(m, Head(ops)), Tail(ops)) = Overlay(m, ops)
<1> DEFINE L == Len(ops)
           rest == Tail(ops)
           base == ApplyMap(m, Head(ops))
<1>1. /\ L \in Nat \ {0} /\ Head(ops) = ops[1] /\ Head(ops) \in Operations
      /\ rest \in Seq(Operations) /\ Len(rest) = L - 1
      /\ \A i \in 1 .. L - 1 : rest[i] = ops[i + 1]
  BY LenProperties, EmptySeq, HeadTailProperties, ElementOfSeq
<1>2. base \in Maps
  BY <1>1, ApplyMapType
<1>3. Overlay(base, rest) \in Maps /\ Overlay(m, ops) \in Maps
  BY <1>1, <1>2, OverlayType
<1>4. ASSUME NEW k \in Keys
      PROVE  Overlay(base, rest)[k] = Overlay(m, ops)[k]
  <2>1. \A i \in 1 .. L - 1 : i \in TouchedIn(rest, k) <=> i + 1 \in TouchedIn(ops, k)
    BY <1>1 DEF TouchedIn
  <2>2. TouchedIn(rest, k) \subseteq 1 .. L - 1 /\ TouchedIn(ops, k) \subseteq 1 .. L
    BY <1>1 DEF TouchedIn
  <2>3. CASE TouchedIn(rest, k) # {}
    <3>1. PICK i \in TouchedIn(rest, k) : \A j \in TouchedIn(rest, k) : j <= i
      BY <1>1, <2>3, TouchedCases
    <3>2. i \in 1 .. L - 1 /\ i + 1 \in TouchedIn(ops, k)
      BY <2>1, <2>2, <3>1
    <3>3. ASSUME NEW j \in TouchedIn(ops, k) PROVE j <= i + 1
      <4>1. j \in 1 .. L
        BY <2>2
      <4>2. CASE j = 1
        BY <3>2, <4>2
      <4>3. CASE j # 1
        <5>1. j - 1 \in 1 .. L - 1 /\ (j - 1) + 1 = j
          BY <1>1, <4>1, <4>3
        <5>2. j - 1 \in TouchedIn(rest, k)
          BY <2>1, <5>1
        <5> QED
          BY <3>1, <3>2, <4>1, <5>2
      <4> QED
        BY <4>2, <4>3
    <3>4. Overlay(m, ops)[k] = ops[i + 1].value
      BY <3>2, <3>3, OverlayOfLast
    <3>5. Overlay(base, rest)[k] = rest[i].value
      BY <1>1, <1>2, <3>1, OverlayOfLast
    <3> QED
      BY <1>1, <3>2, <3>4, <3>5
  <2>4. CASE TouchedIn(rest, k) = {}
    <3>1. Overlay(base, rest)[k] = base[k]
      BY <1>1, <1>2, <2>4, OverlayUntouched
    <3>2. \A j \in TouchedIn(ops, k) : j = 1
      <4> SUFFICES ASSUME NEW j \in TouchedIn(ops, k), j # 1 PROVE FALSE
        OBVIOUS
      <4>1. j - 1 \in 1 .. L - 1 /\ (j - 1) + 1 = j
        BY <1>1, <2>2
      <4> QED
        BY <2>1, <2>4, <4>1
    <3>3. CASE Touches(Head(ops), k)
      <4>1. 1 \in TouchedIn(ops, k) /\ \A j \in TouchedIn(ops, k) : j <= 1
        BY <1>1, <3>2, <3>3 DEF TouchedIn
      <4>2. Overlay(m, ops)[k] = ops[1].value
        BY <4>1, OverlayOfLast
      <4> QED
        BY <1>1, <3>1, <3>3, <4>2, ApplyMapValue
    <3>4. CASE ~Touches(Head(ops), k)
      <4>1. TouchedIn(ops, k) = {}
        BY <1>1, <3>2, <3>4 DEF TouchedIn
      <4> QED
        BY <1>1, <3>1, <3>4, <4>1, OverlayUntouched, ApplyMapValue
    <3> QED
      BY <3>3, <3>4
  <2> QED
    BY <2>3, <2>4
<1> QED
  BY <1>3, <1>4, MapEqual

(***************************************************************************)
(* Sequences of updates.                                                   *)
(***************************************************************************)

(* The elements of a concatenation. *)
LEMMA ConcatElements ==
    ASSUME NEW S, NEW a \in Seq(S), NEW b \in Seq(S)
    PROVE  /\ a \o b \in Seq(S)
           /\ Len(a \o b) = Len(a) + Len(b)
           /\ Len(a) \in Nat /\ Len(b) \in Nat
           /\ \A i \in 1 .. Len(a) : (a \o b)[i] = a[i]
           /\ \A i \in 1 .. Len(b) : (a \o b)[Len(a) + i] = b[i]
           /\ \A i \in 1 .. Len(a \o b) :
                \/ i \in 1 .. Len(a)
                \/ i - Len(a) \in 1 .. Len(b) /\ (a \o b)[i] = b[i - Len(a)]
<1>1. Len(a) \in Nat /\ Len(b) \in Nat
  BY LenProperties
<1> QED
  BY <1>1, ConcatProperties

(* The fields of the updates in a sequence. *)
LEMMA UpdateFields ==
    ASSUME NEW us \in Seq(Updates), NEW i \in 1 .. Len(us)
    PROVE  us[i] \in Updates /\ us[i].ver \in Nat /\ us[i].ack \in Nat
<1>1. us[i] \in Updates
  BY ElementOfSeq
<1> QED
  BY <1>1 DEF Updates

(* Runs of changes compose. *)
LEMMA ChangesConcat ==
    ASSUME NEW a \in Seq(Updates), NEW b \in Seq(Updates), NEW h,
           NEW from \in Nat, NEW mid \in Nat, NEW to \in Nat,
           CarriesChanges(a, h, from, mid), CarriesChanges(b, h, mid, to)
    PROVE  CarriesChanges(a \o b, h, from, to)
<1> DEFINE c == a \o b
           A == Len(a)
           B == Len(b)
<1>1. /\ A \in Nat /\ B \in Nat /\ Len(c) = A + B
      /\ \A i \in 1 .. A : c[i] = a[i]
      /\ \A i \in 1 .. B : c[A + i] = b[i]
      /\ \A i \in 1 .. Len(c) : \/ i \in 1 .. A
                                \/ i - A \in 1 .. B /\ c[i] = b[i - A]
  BY ConcatElements
<1>2. /\ \A i \in 1 .. A : a[i].ver \in Nat
      /\ \A i \in 1 .. B : b[i].ver \in Nat
  BY UpdateFields
<1> HIDE DEF c, A, B
<1>a. /\ from <= mid
      /\ \A i \in 1 .. A :
            IF a[i].change = None THEN a[i].ver \in from .. mid
            ELSE a[i].ver \in from + 1 .. mid /\ Records(h, a[i].ver, a[i].change)
      /\ \A i, j \in 1 .. A : i < j =>
            /\ a[i].ver <= a[j].ver
            /\ a[j].change # None => a[i].ver < a[j].ver
      /\ \A v \in from + 1 .. mid : \E i \in 1 .. A :
            a[i].change # None /\ a[i].ver = v
  BY DEF CarriesChanges, A
<1>b. /\ mid <= to
      /\ \A i \in 1 .. B :
            IF b[i].change = None THEN b[i].ver \in mid .. to
            ELSE b[i].ver \in mid + 1 .. to /\ Records(h, b[i].ver, b[i].change)
      /\ \A i, j \in 1 .. B : i < j =>
            /\ b[i].ver <= b[j].ver
            /\ b[j].change # None => b[i].ver < b[j].ver
      /\ \A v \in mid + 1 .. to : \E i \in 1 .. B :
            b[i].change # None /\ b[i].ver = v
  BY DEF CarriesChanges, B
<1>3. from <= to
  BY <1>a, <1>b
<1>4. ASSUME NEW i \in 1 .. Len(c)
      PROVE  IF c[i].change = None THEN c[i].ver \in from .. to
             ELSE c[i].ver \in from + 1 .. to /\ Records(h, c[i].ver, c[i].change)
  <2>1. CASE i \in 1 .. A
    <3>1. c[i] = a[i]
      BY <1>1, <2>1
    <3>2. a[i].ver \in from .. mid => a[i].ver \in from .. to
      BY <1>a, <1>b
    <3>3. a[i].ver \in from + 1 .. mid => a[i].ver \in from + 1 .. to
      BY <1>a, <1>b
    <3> QED
      BY <1>a, <2>1, <3>1, <3>2, <3>3
  <2>2. CASE i - A \in 1 .. B /\ c[i] = b[i - A]
    <3>2. b[i - A].ver \in mid .. to => b[i - A].ver \in from .. to
      BY <1>a, <1>b
    <3>3. b[i - A].ver \in mid + 1 .. to => b[i - A].ver \in from + 1 .. to
      BY <1>a, <1>b
    <3> QED
      BY <1>b, <2>2, <3>2, <3>3
  <2> QED
    BY <1>1, <2>1, <2>2
<1>5. ASSUME NEW i \in 1 .. Len(c), NEW j \in 1 .. Len(c), i < j
      PROVE  /\ c[i].ver <= c[j].ver
             /\ c[j].change # None => c[i].ver < c[j].ver
  <2>1. CASE i \in 1 .. A /\ j \in 1 .. A
    BY <1>1, <1>a, <1>5, <2>1
  <2>2. CASE i \in 1 .. A /\ j - A \in 1 .. B /\ c[j] = b[j - A]
    <3>1. c[i] = a[i] /\ a[i].ver <= mid /\ a[i].ver \in Nat
      BY <1>1, <1>2, <1>a, <2>2
    <3>2. b[j - A].ver \in Nat /\ mid <= b[j - A].ver
      BY <1>2, <1>b, <2>2
    <3>3. b[j - A].change # None => mid < b[j - A].ver
      BY <1>b, <2>2
    <3> QED
      BY <2>2, <3>1, <3>2, <3>3, SMTT(30)
  <2>3. CASE i \notin 1 .. A
    <3>1. i - A \in 1 .. B /\ c[i] = b[i - A]
      BY <1>1, <2>3
    <3>2. j - A \in 1 .. B /\ c[j] = b[j - A]
      BY <1>1, <1>5, <2>3
    <3>3. i - A < j - A
      BY <1>1, <1>5
    <3> QED
      BY <1>b, <3>1, <3>2, <3>3
  <2> QED
    BY <1>1, <2>1, <2>2, <2>3
<1>6. ASSUME NEW v \in from + 1 .. to
      PROVE  \E i \in 1 .. Len(c) : c[i].change # None /\ c[i].ver = v
  <2>1. CASE v <= mid
    <3>1. v \in from + 1 .. mid
      BY <2>1
    <3>2. PICK i \in 1 .. A : a[i].change # None /\ a[i].ver = v
      BY <1>a, <3>1
    <3>3. i \in 1 .. Len(c) /\ c[i] = a[i]
      BY <1>1
    <3> QED
      BY <3>2, <3>3
  <2>2. CASE ~(v <= mid)
    <3>1. v \in mid + 1 .. to
      BY <2>2
    <3>2. PICK i \in 1 .. B : b[i].change # None /\ b[i].ver = v
      BY <1>b, <3>1
    <3>3. A + i \in 1 .. Len(c) /\ c[A + i] = b[i]
      BY <1>1
    <3> QED
      BY <3>2, <3>3
  <2> QED
    BY <2>1, <2>2
<1> QED
  BY <1>3, <1>4, <1>5, <1>6 DEF CarriesChanges, c

(* A run of changes only depends on the part of the history it covers. *)
LEMMA ChangesFrame ==
    ASSUME NEW us, NEW h, NEW g, NEW from \in Nat \ {0}, NEW to \in Nat,
           \A v \in 1 .. to : h[v] = g[v],
           CarriesChanges(us, h, from, to)
    PROVE  CarriesChanges(us, g, from, to)
<1>1. ASSUME NEW v \in from + 1 .. to, NEW c, Records(h, v, c)
      PROVE  Records(g, v, c)
  <2>1. v \in 1 .. to /\ v - 1 \in 1 .. to
    OBVIOUS
  <2>2. h[v] = g[v] /\ h[v - 1] = g[v - 1]
    BY <2>1
  <2> QED
    BY <1>1, <2>2 DEF Records
<1> QED
  BY <1>1 DEF CarriesChanges

(* Nothing in flight carries no change. *)
LEMMA ChangesEmpty ==
    ASSUME NEW h, NEW from \in Nat
    PROVE  CarriesChanges(<<>>, h, from, from)
BY DEF CarriesChanges

(* An empty run bridges no version. *)
LEMMA ChangesOfEmpty ==
    ASSUME NEW h, NEW from \in Nat, NEW to \in Nat,
           CarriesChanges(<<>>, h, from, to)
    PROVE  from = to
BY DEF CarriesChanges

(* The first update of a run continues the version it starts from, and the *)
(* others start where it ends.                                             *)
LEMMA ChangesHead ==
    ASSUME NEW us \in Seq(Updates), us # <<>>, NEW h,
           NEW from \in Nat, NEW to \in Nat, CarriesChanges(us, h, from, to)
    PROVE  /\ IF Head(us).change = None THEN Head(us).ver = from
              ELSE Head(us).ver = from + 1 /\ from + 1 <= to
                   /\ Records(h, from + 1, Head(us).change)
           /\ Head(us).ver \in Nat
           /\ CarriesChanges(Tail(us), h, Head(us).ver, to)
<1> DEFINE L == Len(us)
           rest == Tail(us)
           w == us[1].ver
<1>1. /\ L \in Nat \ {0} /\ Head(us) = us[1]
      /\ rest \in Seq(Updates) /\ Len(rest) = L - 1
      /\ \A i \in 1 .. L - 1 : rest[i] = us[i + 1]
  BY LenProperties, EmptySeq, HeadTailProperties
<1>2. /\ \A i \in 1 .. L : us[i].ver \in Nat
      /\ 1 \in 1 .. L /\ w \in Nat
  BY <1>1, UpdateFields
<1>a. /\ from <= to
      /\ \A i \in 1 .. L :
            IF us[i].change = None THEN us[i].ver \in from .. to
            ELSE us[i].ver \in from + 1 .. to /\ Records(h, us[i].ver, us[i].change)
      /\ \A i, j \in 1 .. L : i < j =>
            /\ us[i].ver <= us[j].ver
            /\ us[j].change # None => us[i].ver < us[j].ver
      /\ \A v \in from + 1 .. to : \E i \in 1 .. L :
            us[i].change # None /\ us[i].ver = v
  BY DEF CarriesChanges
<1> HIDE DEF L, rest
<1>3. ASSUME NEW v \in from + 1 .. to, v <= w
      PROVE  us[1].change # None /\ v = w
  <2>1. PICK i \in 1 .. L : us[i].change # None /\ us[i].ver = v
    BY <1>a
  <2>2. CASE i = 1
    BY <2>1, <2>2
  <2>3. CASE i # 1
    <3>1. 1 < i
      BY <1>1, <2>3
    <3>2. w < us[i].ver
      BY <1>2, <1>a, <2>1, <3>1
    <3> QED
      BY <1>2, <1>3, <2>1, <3>2
  <2> QED
    BY <2>2, <2>3
<1>6. IF us[1].change = None THEN w = from
      ELSE w = from + 1 /\ from + 1 <= to /\ Records(h, from + 1, us[1].change)
  <2>1. CASE us[1].change = None
    <3>1. w \in from .. to
      BY <1>2, <1>a, <2>1
    <3>2. w = from
      <4> SUFFICES ASSUME w # from PROVE FALSE
        OBVIOUS
      <4>1. w \in from + 1 .. to
        BY <3>1
      <4> QED
        BY <1>3, <2>1, <4>1
    <3> QED
      BY <2>1, <3>2
  <2>2. CASE us[1].change # None
    <3>1. w \in from + 1 .. to /\ Records(h, w, us[1].change)
      BY <1>2, <1>a, <2>2
    <3>2. w = from + 1
      <4>1. from + 1 \in from + 1 .. to /\ from + 1 <= w
        BY <3>1
      <4> QED
        BY <1>3, <4>1
    <3> QED
      BY <2>2, <3>1, <3>2
  <2> QED
    BY <2>1, <2>2
<1>7. w <= to
  BY <1>2, <1>a
<1>8. ASSUME NEW i \in 1 .. L - 1
      PROVE  /\ i + 1 \in 1 .. L /\ 1 < i + 1 /\ rest[i] = us[i + 1]
             /\ IF rest[i].change = None THEN rest[i].ver \in w .. to
                ELSE rest[i].ver \in w + 1 .. to /\ Records(h, rest[i].ver, rest[i].change)
  <2>1. i + 1 \in 1 .. L /\ 1 < i + 1 /\ rest[i] = us[i + 1]
    BY <1>1
  <2>2. /\ w <= us[i + 1].ver
        /\ us[i + 1].change # None => w < us[i + 1].ver
    BY <1>2, <1>a, <2>1
  <2>3. us[i + 1].ver \in Nat
    BY <1>2, <2>1
  <2>4. us[i + 1].ver <= to
    BY <1>a, <2>1
  <2>5. us[i + 1].change # None => Records(h, us[i + 1].ver, us[i + 1].change)
    BY <1>a, <2>1
  <2> QED
    BY <1>2, <2>1, <2>2, <2>3, <2>4, <2>5
<1>9. ASSUME NEW i \in 1 .. L - 1, NEW j \in 1 .. L - 1, i < j
      PROVE  /\ rest[i].ver <= rest[j].ver
             /\ rest[j].change # None => rest[i].ver < rest[j].ver
  <2>1. i + 1 \in 1 .. L /\ j + 1 \in 1 .. L /\ i + 1 < j + 1
    BY <1>1, <1>9
  <2> QED
    BY <1>1, <1>a, <2>1, ZenonT(30)
<1>10. ASSUME NEW v \in w + 1 .. to
       PROVE  \E i \in 1 .. L - 1 : rest[i].change # None /\ rest[i].ver = v
  <2>1. v \in from + 1 .. to
    BY <1>2, <1>6
  <2>2. PICK i \in 1 .. L : us[i].change # None /\ us[i].ver = v
    BY <1>a, <2>1
  <2>3. i # 1
    BY <1>2, <2>2
  <2>4. i - 1 \in 1 .. L - 1 /\ rest[i - 1] = us[i]
    BY <1>1, <2>3
  <2> QED
    BY <2>2, <2>4
<1> QED
  BY <1>1, <1>2, <1>6, <1>7, <1>8, <1>9, <1>10 DEF CarriesChanges, rest

(* Runs of acknowledgements compose. *)
LEMMA AcksConcat ==
    ASSUME NEW a \in Seq(Updates), NEW b \in Seq(Updates),
           NEW from \in Nat, NEW mid \in Nat, NEW to \in Nat,
           CarriesAcks(a, from, mid), CarriesAcks(b, mid, to)
    PROVE  CarriesAcks(a \o b, from, to)
<1> DEFINE c == a \o b
           A == Len(a)
           B == Len(b)
<1>1. /\ A \in Nat /\ B \in Nat /\ Len(c) = A + B
      /\ \A i \in 1 .. A : c[i] = a[i]
      /\ \A i \in 1 .. B : c[A + i] = b[i]
      /\ \A i \in 1 .. Len(c) : \/ i \in 1 .. A
                                \/ i - A \in 1 .. B /\ c[i] = b[i - A]
  BY ConcatElements
<1>2. /\ \A i \in 1 .. A : a[i].ack \in Nat
      /\ \A i \in 1 .. B : b[i].ack \in Nat
  BY UpdateFields
<1> HIDE DEF c, A, B
<1>a. /\ from <= mid
      /\ \A i \in 1 .. A :
            IF a[i].ack = 0 THEN a[i].change # None ELSE a[i].ack \in from + 1 .. mid
      /\ \A i, j \in 1 .. A :
            (i < j /\ a[i].ack # 0 /\ a[j].ack # 0) => a[i].ack < a[j].ack
      /\ \A s \in from + 1 .. mid : \E i \in 1 .. A : a[i].ack = s
  BY DEF CarriesAcks, A
<1>b. /\ mid <= to
      /\ \A i \in 1 .. B :
            IF b[i].ack = 0 THEN b[i].change # None ELSE b[i].ack \in mid + 1 .. to
      /\ \A i, j \in 1 .. B :
            (i < j /\ b[i].ack # 0 /\ b[j].ack # 0) => b[i].ack < b[j].ack
      /\ \A s \in mid + 1 .. to : \E i \in 1 .. B : b[i].ack = s
  BY DEF CarriesAcks, B
<1>3. from <= to
  BY <1>a, <1>b
<1>4. ASSUME NEW i \in 1 .. Len(c)
      PROVE  IF c[i].ack = 0 THEN c[i].change # None ELSE c[i].ack \in from + 1 .. to
  <2>1. CASE i \in 1 .. A
    <3>1. a[i].ack \in from + 1 .. mid => a[i].ack \in from + 1 .. to
      BY <1>a, <1>b
    <3> QED
      BY <1>1, <1>a, <2>1, <3>1
  <2>2. CASE i - A \in 1 .. B /\ c[i] = b[i - A]
    <3>1. b[i - A].ack \in mid + 1 .. to => b[i - A].ack \in from + 1 .. to
      BY <1>a, <1>b
    <3> QED
      BY <1>b, <2>2, <3>1
  <2> QED
    BY <1>1, <2>1, <2>2
<1>5. ASSUME NEW i \in 1 .. Len(c), NEW j \in 1 .. Len(c),
             i < j, c[i].ack # 0, c[j].ack # 0
      PROVE  c[i].ack < c[j].ack
  <2>1. CASE i \in 1 .. A /\ j \in 1 .. A
    BY <1>1, <1>a, <1>5, <2>1
  <2>2. CASE i \in 1 .. A /\ j - A \in 1 .. B /\ c[j] = b[j - A]
    <3>1. c[i].ack \in from + 1 .. mid
      BY <1>1, <1>a, <1>5, <2>2
    <3>2. c[j].ack \in mid + 1 .. to
      BY <1>b, <1>5, <2>2
    <3> QED
      BY <3>1, <3>2, SMTT(30)
  <2>3. CASE i \notin 1 .. A
    <3>1. i - A \in 1 .. B /\ c[i] = b[i - A]
      BY <1>1, <2>3
    <3>2. j - A \in 1 .. B /\ c[j] = b[j - A]
      BY <1>1, <1>5, <2>3
    <3>3. i - A < j - A
      BY <1>1, <1>5
    <3> QED
      BY <1>b, <1>5, <3>1, <3>2, <3>3
  <2> QED
    BY <1>1, <2>1, <2>2, <2>3
<1>6. ASSUME NEW s \in from + 1 .. to
      PROVE  \E i \in 1 .. Len(c) : c[i].ack = s
  <2>1. CASE s <= mid
    <3>1. s \in from + 1 .. mid
      BY <2>1
    <3>2. PICK i \in 1 .. A : a[i].ack = s
      BY <1>a, <3>1
    <3>3. i \in 1 .. Len(c) /\ c[i] = a[i]
      BY <1>1
    <3> QED
      BY <3>2, <3>3
  <2>2. CASE ~(s <= mid)
    <3>1. s \in mid + 1 .. to
      BY <2>2
    <3>2. PICK i \in 1 .. B : b[i].ack = s
      BY <1>b, <3>1
    <3>3. A + i \in 1 .. Len(c) /\ c[A + i] = b[i]
      BY <1>1
    <3> QED
      BY <3>2, <3>3
  <2> QED
    BY <2>1, <2>2
<1> QED
  BY <1>3, <1>4, <1>5, <1>6 DEF CarriesAcks, c

(* Nothing in flight acknowledges nothing. *)
LEMMA AcksEmpty ==
    ASSUME NEW from \in Nat
    PROVE  CarriesAcks(<<>>, from, from)
BY DEF CarriesAcks

(* No updates carry acknowledgements only from a number to itself. *)
LEMMA AcksOfEmpty ==
    ASSUME NEW from \in Nat, NEW to \in Nat, CarriesAcks(<<>>, from, to)
    PROVE  from = to
BY DEF CarriesAcks

(* A run of foreign changes acknowledges nothing. *)
LEMMA AcksOfForeign ==
    ASSUME NEW us \in Seq(Updates), NEW from \in Nat,
           \A i \in 1 .. Len(us) : us[i].ack = 0 /\ us[i].change # None
    PROVE  CarriesAcks(us, from, from)
BY DEF CarriesAcks

(* A run that acknowledges one write after the other. *)
LEMMA AcksOfRun ==
    ASSUME NEW us \in Seq(Updates), NEW from \in Nat,
           \A i \in 1 .. Len(us) : us[i].ack = from + i
    PROVE  CarriesAcks(us, from, from + Len(us))
<1> DEFINE L == Len(us)
<1>1. L \in Nat
  BY LenProperties
<1>2. ASSUME NEW s \in from + 1 .. from + L PROVE \E i \in 1 .. L : us[i].ack = s
  <2>1. s - from \in 1 .. L /\ from + (s - from) = s
    BY <1>1
  <2> QED
    BY <2>1
<1> HIDE DEF L
<1>3. ASSUME NEW i \in 1 .. L
      PROVE  us[i].ack = from + i /\ us[i].ack # 0 /\ us[i].ack \in from + 1 .. from + L
  <2>1. us[i].ack = from + i
    BY DEF L
  <2> QED
    BY <1>1, <2>1
<1>4. ASSUME NEW i \in 1 .. L, NEW j \in 1 .. L, i < j
      PROVE  us[i].ack < us[j].ack
  <2>1. us[i].ack = from + i /\ us[j].ack = from + j
    BY <1>3
  <2> QED
    BY <1>1, <1>4, <2>1
<1>5. from <= from + L
  BY <1>1
<1> DEFINE to == from + L
<1>6. CarriesAcks(us, from, to)
  <2>1. \A i \in 1 .. L : us[i].ack # 0 /\ us[i].ack \in from + 1 .. to
    BY <1>3
  <2> HIDE DEF to
  <2> QED
    BY <1>2, <1>4, <1>5, <2>1 DEF CarriesAcks, L, to
<1> QED
  BY <1>6 DEF L

(* The first acknowledgement of a run is the next one due. *)
LEMMA AcksHead ==
    ASSUME NEW us \in Seq(Updates), us # <<>>,
           NEW from \in Nat, NEW to \in Nat, CarriesAcks(us, from, to)
    PROVE  IF Head(us).ack = 0
           THEN Head(us).change # None /\ CarriesAcks(Tail(us), from, to)
           ELSE /\ Head(us).ack = from + 1 /\ from + 1 <= to
                /\ CarriesAcks(Tail(us), from + 1, to)
<1> DEFINE L == Len(us)
           rest == Tail(us)
           w == us[1].ack
<1>1. /\ L \in Nat \ {0} /\ Head(us) = us[1]
      /\ rest \in Seq(Updates) /\ Len(rest) = L - 1
      /\ \A i \in 1 .. L - 1 : rest[i] = us[i + 1]
  BY LenProperties, EmptySeq, HeadTailProperties
<1>2. /\ \A i \in 1 .. L : us[i].ack \in Nat
      /\ 1 \in 1 .. L /\ w \in Nat
  BY <1>1, UpdateFields
<1>a. /\ from <= to
      /\ \A i \in 1 .. L :
            IF us[i].ack = 0 THEN us[i].change # None ELSE us[i].ack \in from + 1 .. to
      /\ \A i, j \in 1 .. L :
            (i < j /\ us[i].ack # 0 /\ us[j].ack # 0) => us[i].ack < us[j].ack
      /\ \A s \in from + 1 .. to : \E i \in 1 .. L : us[i].ack = s
  BY DEF CarriesAcks
<1> HIDE DEF L, rest
<1>3. ASSUME NEW i \in 1 .. L - 1
      PROVE  i + 1 \in 1 .. L /\ 1 < i + 1 /\ rest[i] = us[i + 1]
  BY <1>1
<1>4. ASSUME NEW i \in 1 .. L - 1, NEW j \in 1 .. L - 1,
             i < j, rest[i].ack # 0, rest[j].ack # 0
      PROVE  rest[i].ack < rest[j].ack
  <2>1. i + 1 < j + 1
    BY <1>1, <1>4
  <2>2. i + 1 \in 1 .. L /\ rest[i] = us[i + 1]
    BY <1>3
  <2>3. j + 1 \in 1 .. L /\ rest[j] = us[j + 1]
    BY <1>3
  <2> QED
    BY <1>4, <1>a, <2>1, <2>2, <2>3
<1>5. ASSUME NEW i \in 1 .. L, i # 1
      PROVE  i - 1 \in 1 .. L - 1 /\ rest[i - 1] = us[i]
  BY <1>1, <1>5
<1>6. CASE w = 0
  <2>1. us[1].change # None
    BY <1>2, <1>a, <1>6
  <2>2. \A i \in 1 .. L - 1 :
          IF rest[i].ack = 0 THEN rest[i].change # None ELSE rest[i].ack \in from + 1 .. to
    BY <1>3, <1>a
  <2>3. ASSUME NEW s \in from + 1 .. to PROVE \E i \in 1 .. L - 1 : rest[i].ack = s
    <3>1. PICK i \in 1 .. L : us[i].ack = s
      BY <1>a
    <3>2. i # 1
      BY <1>6, <3>1
    <3> QED
      BY <1>5, <3>1, <3>2
  <2>4. CarriesAcks(rest, from, to)
    BY <1>1, <1>4, <1>a, <2>2, <2>3 DEF CarriesAcks
  <2> QED
    BY <1>1, <1>6, <2>1, <2>4 DEF rest
<1>7. CASE w # 0
  <2>1. w \in from + 1 .. to
    BY <1>2, <1>a, <1>7
  <2>2. w = from + 1
    <3>1. from + 1 \in from + 1 .. to
      BY <2>1
    <3>2. PICK i \in 1 .. L : us[i].ack = from + 1
      BY <1>a, <3>1
    <3>3. CASE i = 1
      BY <3>2, <3>3
    <3>4. CASE i # 1
      <4>1. 1 < i
        BY <1>1, <3>4
      <4>2. w < from + 1
        BY <1>2, <1>7, <1>a, <3>2, <4>1
      <4> QED
        BY <2>1, <4>2
    <3> QED
      BY <3>3, <3>4
  <2>3. ASSUME NEW i \in 1 .. L - 1
        PROVE  IF rest[i].ack = 0 THEN rest[i].change # None
               ELSE rest[i].ack \in from + 2 .. to
    <3>1. i + 1 \in 1 .. L /\ 1 < i + 1 /\ rest[i] = us[i + 1]
      BY <1>3
    <3>2. CASE rest[i].ack = 0
      BY <1>a, <3>1, <3>2
    <3>3. CASE rest[i].ack # 0
      <4>1. rest[i].ack \in from + 1 .. to
        BY <1>a, <3>1, <3>3
      <4>2. from + 1 < rest[i].ack
        BY <1>2, <1>7, <1>a, <2>2, <3>1, <3>3
      <4> QED
        BY <3>3, <4>1, <4>2
    <3> QED
      BY <3>2, <3>3
  <2>4. ASSUME NEW s \in from + 2 .. to PROVE \E i \in 1 .. L - 1 : rest[i].ack = s
    <3>1. s \in from + 1 .. to
      OBVIOUS
    <3>2. PICK i \in 1 .. L : us[i].ack = s
      BY <1>a, <3>1
    <3>3. i # 1
      BY <2>2, <3>2
    <3> QED
      BY <1>5, <3>2, <3>3
  <2>5. CarriesAcks(rest, from + 1, to)
    <3>1. from + 1 <= to /\ (from + 1) + 1 = from + 2
      BY <2>1
    <3> QED
      BY <1>1, <1>4, <2>3, <2>4, <3>1 DEF CarriesAcks
  <2> QED
    BY <1>1, <1>7, <2>1, <2>2, <2>5 DEF rest
<1> QED
  BY <1>6, <1>7

(***************************************************************************)
(* One document.  Doc collects what the four invariants about subscribed   *)
(* documents say of one of them: its projection p, the updates us on their *)
(* way to it, its untaken writes w, the endpoint's sequence s, and the     *)
(* authority's history h up to version v, less the l changes that the      *)
(* broker dropped before the document ran.                                 *)
(***************************************************************************)
Doc(p, us, w, s, h, v, l) ==
    /\ p.visible = Overlay(p.base, PendingOps(p))
    /\ p.ver \in 1 .. v /\ p.base = h[p.ver]
    /\ CarriesChanges(us, h, p.ver + l, v)
    /\ CarriesAcks(us, p.acked, s)
    /\ Len(p.pending) = p.last - p.acked
    /\ \A i \in 1 .. Len(p.pending) : p.pending[i].seq = p.acked + i
    /\ Len(w) = p.last - s
    /\ \A i \in 1 .. Len(w) : w[i] = p.pending[s - p.acked + i]

Docs == \A t \in live :
            Doc(proj[t], InFlight(t), wire[t], seqs[t], hist, version, lost[t])

(* The four invariants are exactly Docs. *)
LEMMA DocsIsInvariants ==
    Docs <=> /\ VisibleIsOverlay /\ ReplicaIsHistory
             /\ OnlyEarlyChangesMissed /\ EveryWriteAccounted
BY DEF Docs, Doc, VisibleIsOverlay, ReplicaIsHistory, OnlyEarlyChangesMissed, EveryWriteAccounted

(* The operations of a journal. *)
LEMMA PendingOpsType ==
    ASSUME NEW p \in Projections
    PROVE  /\ PendingOps(p) \in Seq(Operations)
           /\ Len(PendingOps(p)) = Len(p.pending)
           /\ Len(p.pending) \in Nat
           /\ \A i \in 1 .. Len(p.pending) :
                /\ p.pending[i] \in Writes
                /\ PendingOps(p)[i] = p.pending[i].op
                /\ p.pending[i].op \in Operations /\ p.pending[i].seq \in Nat
<1>1. p.pending \in Seq(Writes) /\ Len(p.pending) \in Nat
  BY LenProperties DEF Projections
<1>2. \A i \in 1 .. Len(p.pending) : p.pending[i] \in Writes
  BY <1>1, ElementOfSeq
<1>3. \A i \in 1 .. Len(p.pending) :
        p.pending[i].op \in Operations /\ p.pending[i].seq \in Nat
  BY <1>2 DEF Writes
<1>4. PendingOps(p) \in [1 .. Len(p.pending) -> Operations]
  BY <1>3 DEF PendingOps
<1>5. PendingOps(p) \in Seq(Operations) /\ Len(PendingOps(p)) = Len(p.pending)
  BY <1>1, <1>4, IsASeq, LenProperties
<1> QED
  BY <1>1, <1>2, <1>3, <1>5 DEF PendingOps

(* A document starts consistent. *)
LEMMA DocSubscribe ==
    ASSUME NEW h \in Seq(Maps), NEW v \in Nat \ {0}, Len(h) = v
    PROVE  /\ FromSnapshot(v, h[v]) \in Projections
           /\ Doc(FromSnapshot(v, h[v]), <<>>, <<>>, 0, h, v, 0)
<1> DEFINE p == FromSnapshot(v, h[v])
<1>1. h[v] \in Maps
  BY ElementOfSeq
<1>2. p \in Projections
  BY <1>1 DEF FromSnapshot, Projections
<1>3. PendingOps(p) = <<>>
  BY DEF PendingOps, FromSnapshot
<1>4. h[v] = Overlay(h[v], <<>>)
  BY <1>1, OverlayEmpty
<1>5. CarriesChanges(<<>>, h, v + 0, v) /\ CarriesAcks(<<>>, 0, 0)
  BY ChangesEmpty, AcksEmpty
<1> QED
  BY <1>2, <1>3, <1>4, <1>5 DEF Doc, FromSnapshot

(* The record StorageProjection::write leaves. *)
LEMMA WriteFields ==
    ASSUME NEW p \in Projections, NEW op \in Operations
    PROVE  LET write == [seq |-> p.last + 1, op |-> op]
               q == [p EXCEPT !.visible = ApplyMap(p.visible, op),
                              !.pending = Append(p.pending, write),
                              !.last = write.seq]
           IN  /\ write \in Writes /\ write.seq = p.last + 1 /\ write.op = op
               /\ q \in Projections
               /\ q.ver = p.ver /\ q.base = p.base /\ q.acked = p.acked
               /\ q.visible = ApplyMap(p.visible, op)
               /\ q.pending = Append(p.pending, write) /\ q.last = p.last + 1
<1> DEFINE write == [seq |-> p.last + 1, op |-> op]
<1>1. /\ p.visible \in Maps /\ p.pending \in Seq(Writes) /\ p.last \in Nat
  BY DEF Projections
<1>2. write \in Writes
  BY <1>1 DEF Writes
<1> DEFINE vis == ApplyMap(p.visible, op)
           pend == Append(p.pending, write)
<1>3. /\ pend \in Seq(Writes) /\ vis \in Maps
  BY <1>1, <1>2, AppendProperties, ApplyMapType
<1>4. write.seq = p.last + 1 /\ write.op = op /\ p.last + 1 \in Nat
  BY <1>1
<1> HIDE DEF vis, pend, write
<1> DEFINE q == [p EXCEPT !.visible = vis, !.pending = pend, !.last = write.seq]
<1>5. /\ q \in Projections
      /\ q.ver = p.ver /\ q.base = p.base /\ q.acked = p.acked
      /\ q.visible = vis /\ q.pending = pend /\ q.last = p.last + 1
  BY <1>3, <1>4 DEF Projections
<1> QED
  BY <1>2, <1>4, <1>5 DEF vis, pend, write

(* An accepted write keeps it consistent. *)
LEMMA DocWrite ==
    ASSUME NEW p \in Projections, NEW us \in Seq(Updates), NEW w \in Seq(Writes),
           NEW s \in Nat, NEW h \in Seq(Maps), NEW v \in Nat, NEW l \in Nat,
           NEW op \in Operations, Doc(p, us, w, s, h, v, l),
           NEW write \in Writes, write.seq = p.last + 1, write.op = op,
           NEW q \in Projections,
           q.ver = p.ver, q.base = p.base, q.acked = p.acked,
           q.visible = ApplyMap(p.visible, op),
           q.pending = Append(p.pending, write), q.last = p.last + 1
    PROVE  Doc(q, us, Append(w, write), s, h, v, l)
<1> DEFINE L == Len(p.pending)
           W == Len(w)
<1>1. /\ p.ver \in Nat /\ p.base \in Maps /\ p.visible \in Maps
      /\ p.pending \in Seq(Writes) /\ p.last \in Nat /\ p.acked \in Nat
  BY DEF Projections
<1>5. /\ L \in Nat /\ Len(q.pending) = L + 1
      /\ \A i \in 1 .. L : q.pending[i] = p.pending[i]
      /\ q.pending[L + 1] = write
  BY <1>1, AppendProperties, LenProperties
<1>6. /\ W \in Nat /\ Len(Append(w, write)) = W + 1
      /\ \A i \in 1 .. W : Append(w, write)[i] = w[i]
      /\ Append(w, write)[W + 1] = write
  BY AppendProperties, LenProperties
<1>7. PendingOps(q) = Append(PendingOps(p), op)
  <2>1. /\ PendingOps(p) \in Seq(Operations) /\ Len(PendingOps(p)) = L
        /\ PendingOps(q) \in Seq(Operations) /\ Len(PendingOps(q)) = L + 1
    BY <1>5, PendingOpsType
  <2>2. /\ Append(PendingOps(p), op) \in Seq(Operations)
        /\ Len(Append(PendingOps(p), op)) = L + 1
        /\ \A i \in 1 .. L : Append(PendingOps(p), op)[i] = PendingOps(p)[i]
        /\ Append(PendingOps(p), op)[L + 1] = op
    BY <2>1, AppendProperties
  <2>3. ASSUME NEW i \in 1 .. L + 1
        PROVE  PendingOps(q)[i] = Append(PendingOps(p), op)[i]
    <3>1. PendingOps(q)[i] = q.pending[i].op
      BY <1>5 DEF PendingOps
    <3>2. CASE i = L + 1
      BY <1>5, <2>2, <3>1, <3>2
    <3>3. CASE i # L + 1
      <4>1. i \in 1 .. L
        BY <1>5, <3>3
      <4>2. PendingOps(p)[i] = p.pending[i].op
        BY <4>1 DEF PendingOps
      <4> QED
        BY <1>5, <2>2, <3>1, <4>1, <4>2
    <3> QED
      BY <3>2, <3>3
  <2> DEFINE x == PendingOps(q)
             y == Append(PendingOps(p), op)
  <2>4. x \in Seq(Operations) /\ y \in Seq(Operations) /\ Len(x) = Len(y)
    BY <2>1, <2>2
  <2>5. \A i \in 1 .. Len(x) : x[i] = y[i]
    BY <2>1, <2>3
  <2> HIDE DEF x, y
  <2>6. x = y
    BY <2>4, <2>5, SeqEqual
  <2> QED
    BY <2>6 DEF x, y
<1>8. q.visible = Overlay(q.base, PendingOps(q))
  <2>1. p.visible = Overlay(p.base, PendingOps(p))
    BY DEF Doc
  <2> QED
    BY <1>1, <1>7, <2>1, OverlayAppend, PendingOpsType
<1>9. /\ \A i \in 1 .. L : p.pending[i].seq = p.acked + i
      /\ \A i \in 1 .. W : w[i] = p.pending[s - p.acked + i]
  BY DEF Doc
<1> DEFINE last == p.last
           acked == p.acked
<1>10. /\ L = last - acked /\ W = last - s /\ acked <= s
       /\ L \in Nat /\ W \in Nat /\ last \in Nat /\ acked \in Nat
  BY <1>1, <1>5, <1>6 DEF Doc, CarriesAcks
<1> HIDE DEF L, W, last, acked
<1>11. L + 1 = (last + 1) - acked /\ W + 1 = (last + 1) - s
       /\ acked + (L + 1) = last + 1 /\ (s - acked) + (W + 1) = L + 1
  BY <1>10
<1>12. /\ Len(q.pending) = q.last - q.acked
       /\ Len(Append(w, write)) = q.last - s
  BY <1>5, <1>6, <1>11 DEF last, acked
<1>13. ASSUME NEW i \in 1 .. L + 1 PROVE q.pending[i].seq = q.acked + i
  <2>1. CASE i = L + 1
    BY <1>5, <1>11, <2>1 DEF last, acked
  <2>2. CASE i # L + 1
    <3>1. i \in 1 .. L
      BY <1>10, <2>2
    <3> QED
      BY <1>5, <1>9, <3>1
  <2> QED
    BY <2>1, <2>2
<1>14. ASSUME NEW i \in 1 .. W + 1
       PROVE  Append(w, write)[i] = q.pending[s - q.acked + i]
  <2>1. CASE i = W + 1
    BY <1>5, <1>6, <1>11, <2>1 DEF acked
  <2>2. CASE i # W + 1
    <3>1. i \in 1 .. W
      BY <1>10, <2>2
    <3>2. (s - acked) + i \in 1 .. L
      BY <1>10, <3>1
    <3>3. q.pending[(s - acked) + i] = p.pending[(s - acked) + i]
      BY <1>5, <3>2
    <3>4. Append(w, write)[i] = w[i]
      BY <1>6, <3>1
    <3>5. w[i] = p.pending[(s - acked) + i]
      BY <1>9, <3>1 DEF acked
    <3> QED
      BY <3>3, <3>4, <3>5 DEF acked
  <2> QED
    BY <2>1, <2>2
<1>15. /\ q.ver \in 1 .. v /\ q.base = h[q.ver]
       /\ CarriesChanges(us, h, q.ver + l, v) /\ CarriesAcks(us, q.acked, s)
  BY DEF Doc
<1> QED
  BY <1>5, <1>6, <1>8, <1>12, <1>13, <1>14, <1>15 DEF Doc

(* The operations of a journal that lost its oldest write. *)
LEMMA PendingOpsTail ==
    ASSUME NEW p \in Projections, NEW r \in Projections,
           p.pending # <<>>, r.pending = Tail(p.pending)
    PROVE  /\ PendingOps(p) # <<>>
           /\ Head(PendingOps(p)) = Head(p.pending).op
           /\ Tail(PendingOps(p)) = PendingOps(r)
<1> DEFINE a == p.pending
           x == PendingOps(p)
           y == PendingOps(r)
           L == Len(a)
<1>1. /\ a \in Seq(Writes) /\ L \in Nat \ {0}
      /\ Head(a) = a[1] /\ Tail(a) \in Seq(Writes) /\ Len(Tail(a)) = L - 1
      /\ \A i \in 1 .. L - 1 : Tail(a)[i] = a[i + 1]
  BY EmptySeq, HeadTailProperties DEF Projections
<1>2. /\ x \in Seq(Operations) /\ Len(x) = L
      /\ \A i \in 1 .. L : x[i] = a[i].op
  BY PendingOpsType
<1>3. /\ y \in Seq(Operations) /\ Len(y) = L - 1
      /\ \A i \in 1 .. L - 1 : y[i] = Tail(a)[i].op
  BY <1>1, PendingOpsType
<1> HIDE DEF a, x, y, L
<1>4. x # <<>>
  BY <1>1, <1>2, EmptySeq
<1>5. /\ Head(x) = x[1] /\ Tail(x) \in Seq(Operations) /\ Len(Tail(x)) = L - 1
      /\ \A i \in 1 .. L - 1 : Tail(x)[i] = x[i + 1]
  BY <1>2, <1>4, HeadTailProperties
<1>6. Head(x) = Head(a).op
  <2>1. 1 \in 1 .. L
    BY <1>1
  <2> QED
    BY <1>1, <1>2, <1>5, <2>1
<1>7. ASSUME NEW i \in 1 .. L - 1 PROVE Tail(x)[i] = y[i]
  <2>1. i + 1 \in 1 .. L
    BY <1>1
  <2> QED
    BY <1>1, <1>2, <1>3, <1>5, <2>1
<1> DEFINE z == Tail(x)
<1>8. z \in Seq(Operations) /\ Len(z) = Len(y)
  BY <1>3, <1>5
<1>9. \A i \in 1 .. Len(z) : z[i] = y[i]
  BY <1>5, <1>7
<1>10. z = y
  <2> HIDE DEF z
  <2> QED
    BY <1>3, <1>8, <1>9, SeqEqual
<1> QED
  BY <1>4, <1>6, <1>10 DEF a, x, y

(* The record ApplyUpdate leaves. *)
LEMMA ApplyUpdateFields ==
    ASSUME NEW p \in Projections, NEW u \in Updates,
           u.ack # 0 => p.pending # <<>>,
           u.change # None => Operation(u.change) \in Operations
    PROVE  LET r == ApplyUpdate(p, u)
           IN  /\ r \in Projections
               /\ r.ver = u.ver /\ r.last = p.last
               /\ r.base = IF u.change = None THEN p.base
                           ELSE ApplyMap(p.base, Operation(u.change))
               /\ r.pending = IF u.ack = 0 THEN p.pending ELSE Tail(p.pending)
               /\ r.acked = IF u.ack = 0 THEN p.acked ELSE u.ack
               /\ r.visible = IF PreservesProjection(p, u) THEN p.visible
                              ELSE Overlay(r.base, PendingOps(r))
<1> DEFINE base == IF u.change = None THEN p.base
                   ELSE ApplyMap(p.base, Operation(u.change))
           kept == IF u.ack = 0 THEN p.pending ELSE Tail(p.pending)
           acked == IF u.ack = 0 THEN p.acked ELSE u.ack
           q == [p EXCEPT !.base = base, !.ver = u.ver, !.pending = kept,
                          !.acked = acked]
           r == [q EXCEPT !.visible = Overlay(base, PendingOps(q))]
<1>1. /\ p.base \in Maps /\ p.visible \in Maps /\ p.pending \in Seq(Writes)
      /\ p.last \in Nat /\ p.acked \in Nat /\ u.ack \in Nat /\ u.ver \in Nat
  BY DEF Projections, Updates
<1>2. base \in Maps
  BY <1>1, ApplyMapType
<1>3. kept \in Seq(Writes) /\ acked \in Nat
  BY <1>1, HeadTailProperties
<1>4. ApplyUpdate(p, u) = IF PreservesProjection(p, u) THEN q ELSE r
  BY DEF ApplyUpdate
<1> HIDE DEF base, kept, acked
<1>5. /\ q \in Projections /\ q.visible = p.visible /\ q.last = p.last
      /\ q.base = base /\ q.ver = u.ver /\ q.pending = kept /\ q.acked = acked
  BY <1>1, <1>2, <1>3 DEF Projections
<1>6. Overlay(base, PendingOps(q)) \in Maps
  BY <1>2, <1>5, OverlayType, PendingOpsType
<1> DEFINE vis == Overlay(base, PendingOps(q))
           rr == [q EXCEPT !.visible = vis]
<1>7. r = rr
  OBVIOUS
<1> HIDE DEF q, r, vis
<1>8. /\ rr \in Projections /\ rr.visible = vis /\ rr.last = q.last
      /\ rr.base = q.base /\ rr.ver = q.ver /\ rr.pending = q.pending
      /\ rr.acked = q.acked
  BY <1>5, <1>6 DEF Projections, vis
<1> HIDE DEF rr
<1>9. PendingOps(rr) = PendingOps(q)
  BY <1>8 DEF PendingOps
<1>10. CASE PreservesProjection(p, u)
  BY <1>4, <1>5, <1>10 DEF base, kept, acked
<1>11. CASE ~PreservesProjection(p, u)
  <2>1. ApplyUpdate(p, u) = rr
    BY <1>4, <1>7, <1>11
  <2>2. rr.visible = Overlay(rr.base, PendingOps(rr))
    BY <1>5, <1>8, <1>9 DEF vis
  <2> QED
    BY <1>5, <1>8, <1>11, <2>1, <2>2 DEF base, kept, acked
<1> QED
  BY <1>10, <1>11

(* While no change was dropped, the next update on its way is one the      *)
(* document can take, and taking it keeps the document consistent.         *)
LEMMA DocSynchronize ==
    ASSUME NEW p \in Projections, NEW us \in Seq(Updates), us # <<>>,
           NEW w \in Seq(Writes), NEW s \in Nat,
           NEW h \in Seq(Maps), NEW v \in Nat, Len(h) = v,
           Doc(p, us, w, s, h, v, 0)
    PROVE  /\ UpdateIsValid(p, Head(us))
           /\ ApplyUpdate(p, Head(us)) \in Projections
           /\ Doc(ApplyUpdate(p, Head(us)), Tail(us), w, s, h, v, 0)
<1> DEFINE u == Head(us)
           rest == Tail(us)
           L == Len(p.pending)
<1>1. u \in Updates /\ u.ack \in Nat /\ u.ver \in Nat /\ rest \in Seq(Updates)
  <2>1. u \in Updates /\ rest \in Seq(Updates)
    BY HeadTailProperties
  <2> HIDE DEF u, rest
  <2> QED
    BY <2>1 DEF Updates
<1>2. /\ p.ver \in Nat /\ p.base \in Maps /\ p.pending \in Seq(Writes)
      /\ p.last \in Nat /\ p.acked \in Nat /\ L \in Nat
  BY LenProperties DEF Projections
<1>3. /\ p.visible = Overlay(p.base, PendingOps(p))
      /\ p.ver \in 1 .. v /\ p.base = h[p.ver]
      /\ CarriesChanges(us, h, p.ver, v) /\ CarriesAcks(us, p.acked, s)
  BY <1>2 DEF Doc
<1>4. /\ L = p.last - p.acked /\ Len(w) = p.last - s
      /\ \A i \in 1 .. L : p.pending[i].seq = p.acked + i
      /\ \A i \in 1 .. Len(w) : w[i] = p.pending[s - p.acked + i]
  BY DEF Doc
<1>5. /\ IF u.change = None THEN u.ver = p.ver
         ELSE u.ver = p.ver + 1 /\ p.ver + 1 <= v
              /\ Records(h, p.ver + 1, u.change)
      /\ CarriesChanges(rest, h, u.ver, v)
  BY <1>2, <1>3, ChangesHead
<1>6. IF u.ack = 0 THEN u.change # None /\ CarriesAcks(rest, p.acked, s)
      ELSE u.ack = p.acked + 1 /\ p.acked + 1 <= s /\ CarriesAcks(rest, p.acked + 1, s)
  BY <1>2, <1>3, AcksHead
<1> HIDE DEF u, rest, L
<1>7. ASSUME u.change # None
      PROVE  /\ u.ver = p.ver + 1 /\ p.ver + 1 <= v
             /\ Operation(u.change) \in Operations
             /\ u.change = ChangeBefore(p.base, Operation(u.change))
             /\ OperationChanges(p.base, Operation(u.change))
             /\ WithinQuota(p.base, Operation(u.change))
             /\ h[u.ver] = ApplyMap(p.base, Operation(u.change))
  <2>1. (p.ver + 1) - 1 = p.ver
    BY <1>2
  <2> QED
    BY <1>3, <1>5, <1>7, <2>1 DEF Records
<1>8. ASSUME u.ack # 0
      PROVE  /\ u.ack = p.acked + 1 /\ L > 0 /\ p.pending # <<>>
             /\ Head(p.pending) = p.pending[1] /\ Head(p.pending).seq = u.ack
             /\ Head(p.pending).op \in Operations
  <2>1. u.ack = p.acked + 1 /\ p.acked + 1 <= s
    BY <1>6, <1>8
  <2>2. Len(w) \in Nat
    BY LenProperties
  <2>3. L > 0
    BY <1>2, <1>4, <2>1, <2>2
  <2>4. p.pending # <<>>
    BY <2>3, EmptySeq DEF L
  <2>5. Head(p.pending) = p.pending[1] /\ Head(p.pending) \in Writes
    BY <1>2, <2>4, HeadTailProperties
  <2>6. p.pending[1].seq = p.acked + 1
    <3>1. 1 \in 1 .. L
      BY <1>2, <2>3
    <3> QED
      BY <1>4, <3>1
  <2> QED
    BY <2>1, <2>3, <2>4, <2>5, <2>6 DEF Writes
<1>9. UpdateIsValid(p, u)
  <2>1. (u.change # None /\ u.change.key # None) =>
            p.base[u.change.key] = u.change.old
    <3> SUFFICES ASSUME u.change # None, u.change.key # None
                 PROVE  p.base[u.change.key] = u.change.old
      OBVIOUS
    <3>1. u.change = ChangeBefore(p.base, Operation(u.change))
      BY <1>7
    <3>2. Operation(u.change).key = u.change.key
      BY DEF Operation
    <3>3. ChangeBefore(p.base, Operation(u.change)).old = p.base[u.change.key]
      BY <3>2 DEF ChangeBefore
    <3> QED
      BY <3>1, <3>3
  <2> QED
    BY <1>5, <1>6, <1>7, <1>8, <2>1 DEF UpdateIsValid
<1> DEFINE r == ApplyUpdate(p, u)
<1>10. /\ r \in Projections
       /\ r.ver = u.ver /\ r.last = p.last
       /\ r.base = IF u.change = None THEN p.base
                   ELSE ApplyMap(p.base, Operation(u.change))
       /\ r.pending = IF u.ack = 0 THEN p.pending ELSE Tail(p.pending)
       /\ r.acked = IF u.ack = 0 THEN p.acked ELSE u.ack
       /\ r.visible = IF PreservesProjection(p, u) THEN p.visible
                      ELSE Overlay(r.base, PendingOps(r))
  BY <1>1, <1>7, <1>8, ApplyUpdateFields
<1> HIDE DEF r
<1>11. r.visible = Overlay(r.base, PendingOps(r))
  <2>1. CASE ~PreservesProjection(p, u)
    BY <1>10, <2>1
  <2>2. CASE PreservesProjection(p, u)
    <3>1. u.ack # 0
      BY <2>2 DEF PreservesProjection
    <3> DEFINE first == Head(p.pending).op
    <3>2. /\ PendingOps(p) # <<>> /\ PendingOps(p) \in Seq(Operations)
          /\ Head(PendingOps(p)) = first /\ Tail(PendingOps(p)) = PendingOps(r)
      BY <1>8, <1>10, <3>1, PendingOpsTail, PendingOpsType
    <3>3. first \in Operations
      BY <1>8, <3>1
    <3> HIDE DEF first
    <3>4. r.base = ApplyMap(p.base, first)
      <4>1. CASE u.change = None
        <5>1. ~OperationChanges(p.base, first)
          BY <2>2, <4>1 DEF PreservesProjection, first
        <5> QED
          BY <1>2, <1>10, <3>3, <4>1, <5>1, OperationChangesIsDifference
      <4>2. CASE u.change # None
        <5>1. Operation(u.change) = first
          BY <2>2, <4>2 DEF PreservesProjection, first
        <5> QED
          BY <1>10, <4>2, <5>1
      <4> QED
        BY <4>1, <4>2
    <3>5. Overlay(ApplyMap(p.base, first), PendingOps(r)) = Overlay(p.base, PendingOps(p))
      BY <1>2, <3>2, OverlayHead
    <3> QED
      BY <1>3, <1>10, <2>2, <3>4, <3>5
  <2> QED
    BY <2>1, <2>2
<1>12. r.ver \in 1 .. v /\ r.base = h[r.ver]
  <2>1. CASE u.change = None
    BY <1>3, <1>5, <1>10, <2>1
  <2>2. CASE u.change # None
    <3>1. p.ver + 1 \in 1 .. v
      BY <1>3, <1>7, <2>2
    <3> QED
      BY <1>7, <1>10, <2>2, <3>1
  <2> QED
    BY <2>1, <2>2
<1>13. CarriesChanges(rest, h, r.ver, v) /\ CarriesAcks(rest, r.acked, s)
  BY <1>5, <1>6, <1>10
<1>14. /\ Len(r.pending) = r.last - r.acked
       /\ \A i \in 1 .. Len(r.pending) : r.pending[i].seq = r.acked + i
       /\ Len(w) = r.last - s
       /\ \A i \in 1 .. Len(w) : w[i] = r.pending[s - r.acked + i]
  <2>1. CASE u.ack = 0
    BY <1>4, <1>10, <2>1 DEF L
  <2>2. CASE u.ack # 0
    <3>1. r.pending = Tail(p.pending) /\ r.acked = p.acked + 1
      BY <1>8, <1>10, <2>2
    <3>2. /\ Len(r.pending) = L - 1
          /\ \A i \in 1 .. L - 1 : r.pending[i] = p.pending[i + 1]
      BY <1>2, <1>8, <2>2, <3>1, HeadTailProperties DEF L
    <3>3. p.acked + 1 <= s /\ Len(w) \in Nat /\ L > 0
      BY <1>6, <1>8, <2>2, LenProperties
    <3> DEFINE pend == r.pending
               acked == p.acked
               last == p.last
    <3>4. /\ acked \in Nat /\ last \in Nat /\ L = last - acked /\ acked + 1 <= s
          /\ Len(w) = last - s /\ Len(w) \in Nat
      BY <1>2, <1>4, <3>3
    <3> HIDE DEF pend, acked, last
    <3>5. L - 1 = last - (acked + 1)
      BY <1>2, <3>4
    <3>6. ASSUME NEW i \in 1 .. L - 1 PROVE r.pending[i].seq = (acked + 1) + i
      <4>1. i + 1 \in 1 .. L /\ acked + (i + 1) = (acked + 1) + i
        BY <1>2, <3>4
      <4>2. p.pending[i + 1].seq = acked + (i + 1)
        BY <1>4, <4>1 DEF acked
      <4> QED
        BY <3>2, <4>1, <4>2
    <3>7. ASSUME NEW i \in 1 .. Len(w)
          PROVE  w[i] = r.pending[s - (acked + 1) + i]
      <4>1. /\ s - (acked + 1) + i \in 1 .. L - 1
            /\ (s - (acked + 1) + i) + 1 = s - acked + i
        BY <1>2, <3>4
      <4>2. r.pending[s - (acked + 1) + i] = p.pending[s - acked + i]
        BY <3>2, <4>1
      <4> QED
        BY <1>4, <4>2 DEF acked
    <3> QED
      BY <1>4, <1>10, <3>1, <3>2, <3>5, <3>6, <3>7 DEF acked, last
  <2> QED
    BY <2>1, <2>2
<1>15. Doc(r, rest, w, s, h, v, 0)
  <2>1. r.ver + 0 = r.ver
    BY <1>12
  <2> QED
    BY <1>11, <1>12, <1>13, <1>14, <2>1 DEF Doc
<1> QED
  BY <1>9, <1>10, <1>15 DEF u, rest, r

(* After a dropped change the next update never fits: its version is too   *)
(* far ahead.                                                              *)
LEMMA DocAfterLoss ==
    ASSUME NEW p \in Projections, NEW us \in Seq(Updates), us # <<>>,
           NEW w, NEW s, NEW h, NEW v \in Nat, NEW l \in Nat, l # 0,
           Doc(p, us, w, s, h, v, l)
    PROVE  ~UpdateIsValid(p, Head(us))
<1>1. p.ver \in Nat /\ p.ver + l \in Nat /\ CarriesChanges(us, h, p.ver + l, v)
  BY DEF Doc, Projections
<1>2. IF Head(us).change = None THEN Head(us).ver = p.ver + l
      ELSE Head(us).ver = p.ver + l + 1
  BY <1>1, ChangesHead
<1> QED
  BY <1>1, <1>2 DEF UpdateIsValid

(* A document that has written nothing may lose its next update, which is  *)
(* then a foreign change.                                                  *)
LEMMA DocDrop ==
    ASSUME NEW p \in Projections, p.last = 0, NEW us \in Seq(Updates), us # <<>>,
           NEW w \in Seq(Writes), NEW s \in Nat, NEW h, NEW v \in Nat, NEW l \in Nat,
           Doc(p, us, w, s, h, v, l)
    PROVE  Doc(p, Tail(us), w, s, h, v, l + 1)
<1>1. /\ p.ver \in Nat /\ p.ver + l \in Nat /\ p.acked \in Nat
      /\ CarriesChanges(us, h, p.ver + l, v) /\ CarriesAcks(us, p.acked, s)
      /\ Len(p.pending) = p.last - p.acked /\ Len(w) = p.last - s
  BY DEF Doc, Projections
<1>2. p.pending \in Seq(Writes) /\ Len(p.pending) \in Nat /\ Len(w) \in Nat
  BY LenProperties DEF Projections
<1>3. p.acked = 0 /\ s = 0
  BY <1>1, <1>2
<1>4. Head(us).ack = 0 /\ Head(us).change # None /\ CarriesAcks(Tail(us), p.acked, s)
  BY <1>1, <1>3, AcksHead
<1>5. Head(us).ver = p.ver + l + 1 /\ CarriesChanges(Tail(us), h, Head(us).ver, v)
  BY <1>1, <1>4, ChangesHead
<1>6. p.ver + l + 1 = p.ver + (l + 1)
  BY <1>1
<1> QED
  BY <1>4, <1>5, <1>6 DEF Doc

(* A version after a first one is not the initial one. *)
LEMMA PositiveSum ==
    ASSUME NEW a \in Nat \ {0}, NEW b \in Nat
    PROVE  a + b \in Nat \ {0}
OBVIOUS

(* A transaction that appends n acknowledgements and the changes up to     *)
(* version z keeps a document consistent; n = 0 for another's writes.      *)
LEMMA DocPublish ==
    ASSUME NEW p \in Projections, NEW us \in Seq(Updates), NEW w \in Seq(Writes),
           NEW s \in Nat, NEW h \in Seq(Maps), NEW v \in Nat, Len(h) = v,
           NEW l \in Nat, Doc(p, us, w, s, h, v, l),
           NEW g \in Seq(Maps), NEW z \in Nat, Len(g) = z, v <= z,
           \A i \in 1 .. v : g[i] = h[i],
           NEW more \in Seq(Updates), NEW n \in 0 .. Len(w),
           CarriesChanges(more, g, v, z), CarriesAcks(more, s, s + n)
    PROVE  Doc(p, us \o more, SubSeq(w, n + 1, Len(w)), s + n, g, z, l)
<1> DEFINE W == Len(w)
           rest == SubSeq(w, n + 1, W)
<1>1. /\ p.ver \in Nat /\ p.acked \in Nat /\ p.last \in Nat /\ W \in Nat
      /\ p.pending \in Seq(Writes)
  BY LenProperties DEF Projections
<1>2. /\ p.visible = Overlay(p.base, PendingOps(p))
      /\ p.ver \in 1 .. v /\ p.base = h[p.ver]
      /\ CarriesChanges(us, h, p.ver + l, v) /\ CarriesAcks(us, p.acked, s)
      /\ Len(p.pending) = p.last - p.acked
      /\ \A i \in 1 .. Len(p.pending) : p.pending[i].seq = p.acked + i
      /\ W = p.last - s
      /\ \A i \in 1 .. W : w[i] = p.pending[s - p.acked + i]
  BY DEF Doc
<1>3. p.ver \in 1 .. z /\ p.base = g[p.ver]
  BY <1>2
<1>4. CarriesChanges(us, g, p.ver + l, v) /\ p.ver + l \in Nat
  <2>1. \A i \in 1 .. v : h[i] = g[i]
    OBVIOUS
  <2>2. p.ver \in Nat \ {0}
    <3>1. p.ver # 0
      BY <1>2
    <3> QED
      BY <1>1, <3>1
  <2>3. p.ver + l \in Nat \ {0}
    BY <2>2, PositiveSum
  <2> QED
    BY <1>2, <2>1, <2>3, ChangesFrame
<1>5. CarriesChanges(us \o more, g, p.ver + l, z)
  BY <1>1, <1>4, ChangesConcat
<1>6. s + n \in Nat /\ n \in Nat /\ n <= W
  BY <1>1
<1>7. CarriesAcks(us \o more, p.acked, s + n)
  BY <1>1, <1>2, <1>6, AcksConcat
<1>8. /\ Len(rest) = W - n
      /\ \A i \in 1 .. W - n : rest[i] = w[n + i]
  <2>1. \A i \in n + 1 .. W : w[i] \in Writes
    <3> TAKE i \in n + 1 .. W
    <3>1. i \in 1 .. W
      BY <1>1, <1>6
    <3> QED
      BY <3>1, ElementOfSeq
  <2>2. /\ Len(rest) = IF n + 1 <= W THEN W - (n + 1) + 1 ELSE 0
        /\ \A i \in 1 .. W - (n + 1) + 1 : rest[i] = w[n + 1 + i - 1]
    <3>1. n + 1 \in Int /\ W \in Int
      BY <1>1, <1>6
    <3> QED
      BY <2>1, <3>1, SubSeqProperties
  <2> HIDE DEF rest, W
  <2>3. W - (n + 1) + 1 = W - n /\ (n + 1 > W => W - n = 0)
    BY <1>1, <1>6
  <2>4. Len(rest) = W - n
    BY <1>1, <1>6, <2>2, <2>3
  <2>5. ASSUME NEW i \in 1 .. W - n PROVE rest[i] = w[n + i]
    <3>1. i \in 1 .. W - (n + 1) + 1 /\ n + 1 + i - 1 = n + i
      BY <1>6, <2>3
    <3> QED
      BY <2>2, <3>1
  <2> QED
    BY <2>4, <2>5
<1> HIDE DEF rest, W
<1> DEFINE acked == p.acked
           last == p.last
<1>9. /\ acked \in Nat /\ last \in Nat /\ W = last - s
  BY <1>1, <1>2
<1> HIDE DEF acked, last
<1>10. W - n = last - (s + n)
  BY <1>1, <1>6, <1>9
<1>11. ASSUME NEW i \in 1 .. W - n
       PROVE  rest[i] = p.pending[(s + n) - acked + i]
  <2>1. n + i \in 1 .. W
    BY <1>1, <1>6
  <2>a. s - acked + (n + i) = (s + n) - acked + i
    <3>1. i \in Int /\ n \in Int /\ s \in Int /\ acked \in Int
      BY <1>6, <1>9
    <3> QED
      BY <3>1
  <2>2. w[n + i] = p.pending[s - acked + (n + i)]
    BY <1>2, <2>1 DEF acked
  <2> QED
    BY <1>8, <2>a, <2>2
<1> QED
  BY <1>2, <1>3, <1>5, <1>7, <1>8, <1>10, <1>11 DEF Doc, rest, W, acked, last

(* The writes the coordinator has not taken continue its sequence. *)
LEMMA WireSequence ==
    ASSUME NEW p \in Projections, NEW us, NEW w \in Seq(Writes),
           NEW s \in Nat, NEW h, NEW v, NEW l, Doc(p, us, w, s, h, v, l)
    PROVE  \A i \in 1 .. Len(w) : w[i].seq = s + i /\ w[i].op \in Operations
<1> DEFINE W == Len(w)
           L == Len(p.pending)
           acked == p.acked
           last == p.last
<1>1. /\ acked \in Nat /\ last \in Nat /\ W \in Nat /\ L \in Nat
      /\ L = last - acked /\ W = last - s /\ acked <= s
  BY LenProperties DEF Projections, Doc, CarriesAcks
<1>2. /\ \A i \in 1 .. L : p.pending[i].seq = acked + i
      /\ \A i \in 1 .. W : w[i] = p.pending[s - acked + i]
  BY DEF Doc
<1>3. \A i \in 1 .. W : w[i] \in Writes
  BY ElementOfSeq
<1> HIDE DEF W, L, acked, last
<1>4. ASSUME NEW i \in 1 .. W PROVE w[i].seq = s + i /\ w[i].op \in Operations
  <2>1. s - acked + i \in 1 .. L /\ acked + (s - acked + i) = s + i
    BY <1>1
  <2> QED
    BY <1>2, <1>3, <2>1 DEF Writes
<1> QED
  BY <1>4 DEF W

(* A sequence is its head and its tail. *)
LEMMA HeadTailConcat ==
    ASSUME NEW q \in Seq(Updates), q # <<>>
    PROVE  <<Head(q)>> \o Tail(q) = q
<1> DEFINE L == Len(q)
           a == <<Head(q)>>
           c == a \o Tail(q)
<1>1. /\ L \in Nat \ {0} /\ Head(q) = q[1] /\ Head(q) \in Updates
      /\ Tail(q) \in Seq(Updates) /\ Len(Tail(q)) = L - 1
      /\ \A i \in 1 .. L - 1 : Tail(q)[i] = q[i + 1]
  BY EmptySeq, HeadTailProperties
<1>2. a \in Seq(Updates) /\ Len(a) = 1 /\ a[1] = q[1]
  BY <1>1
<1> HIDE DEF a
<1>3. /\ c \in Seq(Updates) /\ Len(c) = 1 + (L - 1)
      /\ \A i \in 1 .. 1 : c[i] = a[i]
      /\ \A i \in 1 .. L - 1 : c[1 + i] = Tail(q)[i]
  <2> DEFINE b == Tail(q)
  <2>1. b \in Seq(Updates) /\ Len(b) = L - 1
    BY <1>1
  <2> HIDE DEF b, L
  <2>2. /\ a \o b \in Seq(Updates) /\ Len(a \o b) = Len(a) + Len(b)
        /\ \A i \in 1 .. Len(a) : (a \o b)[i] = a[i]
        /\ \A i \in 1 .. Len(b) : (a \o b)[Len(a) + i] = b[i]
    <3>1. a \in Seq(Updates) /\ b \in Seq(Updates)
      BY <1>2, <2>1
    <3> HIDE DEF c
    <3> QED
      BY <3>1, ConcatElements
  <2> QED
    BY <1>2, <2>1, <2>2 DEF b
<1> HIDE DEF c, L
<1>4. ASSUME NEW i \in 1 .. L PROVE c[i] = q[i]
  <2>1. CASE i = 1
    BY <1>2, <1>3, <2>1
  <2>2. CASE i # 1
    <3>1. i - 1 \in 1 .. L - 1 /\ 1 + (i - 1) = i /\ (i - 1) + 1 = i
      BY <1>1, <2>2
    <3>2. c[1 + (i - 1)] = Tail(q)[i - 1] /\ Tail(q)[i - 1] = q[(i - 1) + 1]
      BY <1>1, <1>3, <3>1
    <3> QED
      BY <3>1, <3>2
  <2> QED
    BY <2>1, <2>2
<1>5. Len(c) = Len(q) /\ \A i \in 1 .. Len(c) : c[i] = q[i]
  BY <1>1, <1>3, <1>4 DEF L
<1>6. c = q
  BY <1>3, <1>5, SeqEqual
<1> QED
  BY <1>6 DEF c, a

(* The head and the tail of a lane of one update in front of a queue. *)
LEMMA LaneHead ==
    ASSUME NEW l \in Seq(Updates), l # <<>>, Len(l) <= 1, NEW q \in Seq(Updates)
    PROVE  l \o q \in Seq(Updates) /\ l \o q # <<>> /\ Head(l \o q) = Head(l) /\ Tail(l \o q) = q
<1> DEFINE c == l \o q
<1>1. Len(l) = 1 /\ Head(l) = l[1]
  <2>1. Len(l) \in Nat \ {0}
    BY EmptySeq
  <2>2. Len(l) = 1
    <3> DEFINE n == Len(l)
    <3>1. n \in Nat /\ n # 0 /\ n <= 1
      BY <2>1
    <3> HIDE DEF n
    <3>2. n = 1
      BY <3>1
    <3> QED
      BY <3>2 DEF n
  <2>3. Head(l) = l[1]
    BY <2>2, HeadTailProperties
  <2> QED
    BY <2>2, <2>3
<1>2. /\ c \in Seq(Updates) /\ Len(c) = 1 + Len(q) /\ Len(q) \in Nat
      /\ c[1] = l[1] /\ \A i \in 1 .. Len(q) : c[1 + i] = q[i]
  BY <1>1, ConcatElements
<1> HIDE DEF c
<1>3. c # <<>>
  BY <1>2, EmptySeq
<1>4. /\ Head(c) = c[1] /\ Tail(c) \in Seq(Updates) /\ Len(Tail(c)) = Len(q)
      /\ \A i \in 1 .. Len(q) : Tail(c)[i] = c[i + 1]
  BY <1>2, <1>3, HeadTailProperties
<1> DEFINE r == Tail(c)
<1>5. \A i \in 1 .. Len(r) : r[i] = q[i]
  <2> TAKE i \in 1 .. Len(r)
  <2>1. i \in 1 .. Len(q) /\ 1 + i = i + 1
    BY <1>2, <1>4
  <2> QED
    BY <1>2, <1>4, <2>1
<1> HIDE DEF r
<1>6. r = q
  <2>1. r \in Seq(Updates) /\ Len(r) = Len(q)
    BY <1>4 DEF r
  <2> QED
    BY <2>1, <1>5, SeqEqual
<1> QED
  BY <1>1, <1>2, <1>3, <1>4, <1>6 DEF c, r

(***************************************************************************)
(* The inductive invariant.  None of the four document invariants is       *)
(* inductive alone: that the next update is valid needs the record of the  *)
(* versions in flight, which needs the transaction that produced them.     *)
(* What the broker drops are foreign changes, because a document that the  *)
(* child does not run has written nothing.                                 *)
(***************************************************************************)
Starting == \A t \in loading : proj[t].last = 0

Ind == /\ TypeOK /\ FaultsAreEarly /\ Starting /\ Docs
       /\ TransactionConsistent /\ RetiredIsEmpty

(* The initial state satisfies the inductive invariant. *)
LEMMA InitInd == Init => Ind
<1> SUFFICES ASSUME Init PROVE Ind
  OBVIOUS
<1>1. EmptyMap \in Maps
  BY DEF EmptyMap, Maps
<1>2. FromSnapshot(1, EmptyMap) \in Projections
  BY <1>1 DEF FromSnapshot, Projections
<1>3. NoTransaction \in Transactions
  BY DEF NoTransaction, Transactions
<1>4. <<EmptyMap>> \in Seq(Maps) /\ Len(<<EmptyMap>>) = 1
  BY <1>1
<1>5. TypeOK
  BY <1>2, <1>3, <1>4, SyncAssumption DEF Init, TypeOK
<1>6. TransactionConsistent
  BY DEF Init, TransactionConsistent, Idle, NoTransaction
<1> QED
  BY <1>5, <1>6 DEF Init, Ind, FaultsAreEarly, Starting, Docs, RetiredIsEmpty

(* The parts of the state of one tab. *)
LEMMA TabTypes ==
    ASSUME TypeOK, NEW t \in Tabs
    PROVE  /\ proj[t] \in Projections /\ wire[t] \in Seq(Writes) /\ seqs[t] \in Nat
           /\ lane[t] \in Seq(Updates) /\ queue[t] \in Seq(Updates)
           /\ InFlight(t) \in Seq(Updates) /\ Len(lane[t]) <= 1 /\ lost[t] \in Nat
           /\ hist \in Seq(Maps) /\ Len(hist) = version /\ version \in Nat \ {0}
<1>1. /\ proj[t] \in Projections /\ wire[t] \in Seq(Writes) /\ seqs[t] \in Nat
      /\ lane[t] \in Seq(Updates) /\ queue[t] \in Seq(Updates)
      /\ hist \in Seq(Maps) /\ Len(hist) = version /\ version \in Nat \ {0}
      /\ Len(lane[t]) <= 1 /\ lost[t] \in Nat
  BY DEF TypeOK
<1>2. InFlight(t) \in Seq(Updates)
  BY <1>1, ConcatElements DEF InFlight
<1> QED
  BY <1>1, <1>2

(* Subscribe starts the document from the current map, with nothing due. *)
LEMMA SubscribeInd ==
    ASSUME Ind, NEW t \in Tabs, Subscribe(t)
    PROVE  Ind'
<1> USE DEF Subscribe, authority
<1>1. local = hist[version] /\ FromSnapshot(version, local) \in Projections
      /\ Doc(FromSnapshot(version, local), <<>>, <<>>, 0, hist, version, 0)
  BY DocSubscribe, TabTypes DEF Ind, local
<1> DEFINE p == FromSnapshot(version, local)
<1> HIDE DEF p
<1>2. TypeOK'
  <2>1. queue' \in [Tabs -> Seq(Updates)] /\ proj' \in [Tabs -> Projections]
        /\ seqs' \in [Tabs -> Nat]
    BY <1>1, EmptySeq DEF Ind, TypeOK
  <2>2. loads' \in 0 .. MaxLoads
    BY SyncAssumption DEF Ind, TypeOK
  <2>3. live' \in SUBSET Tabs /\ loading' \in SUBSET live' /\ lost' \in [Tabs -> Nat]
    BY DEF Ind, TypeOK
  <2> QED
    BY <2>1, <2>2, <2>3 DEF Ind, TypeOK
<1>3. Docs'
  <2> SUFFICES ASSUME NEW x \in live'
               PROVE  Doc(proj'[x], InFlight(x)', wire'[x], seqs'[x], hist', version',
                          lost'[x])
    BY DEF Docs
  <2>1. x \in Tabs
    BY DEF Ind, TypeOK
  <2>2. CASE x = t
    <3>1. lane[t] = <<>> /\ wire[t] = <<>> /\ queue'[t] = <<>> /\ seqs'[t] = 0
          /\ proj'[t] = FromSnapshot(version, local) /\ lost'[t] = 0
      BY DEF Ind, RetiredIsEmpty, TypeOK
    <3>2. InFlight(t)' = <<>>
      BY <3>1, ConcatEmptySeq, EmptySeq DEF InFlight
    <3> QED
      BY <1>1, <2>2, <3>1, <3>2
  <2>3. CASE x # t
    <3>1. /\ x \in live /\ proj'[x] = proj[x] /\ queue'[x] = queue[x]
          /\ seqs'[x] = seqs[x] /\ lost'[x] = lost[x]
      BY <2>1, <2>3 DEF Ind, TypeOK
    <3>2. InFlight(x)' = InFlight(x)
      BY <3>1 DEF InFlight
    <3> QED
      BY <3>1, <3>2 DEF Ind, Docs
  <2> QED
    BY <2>2, <2>3
<1>4. TransactionConsistent'
  BY DEF Ind, TransactionConsistent, Idle
<1>5. RetiredIsEmpty'
  BY DEF Ind, RetiredIsEmpty, TypeOK
<1>6. FaultsAreEarly'
  BY DEF Ind, FaultsAreEarly, RetiredIsEmpty, TypeOK
<1>7. Starting'
  <2> SUFFICES ASSUME NEW x \in loading' PROVE proj'[x].last = 0
    BY DEF Starting
  <2>1. CASE x = t
    <3>1. proj'[t] = FromSnapshot(version, local)
      BY DEF Ind, TypeOK
    <3> QED
      BY <2>1, <3>1 DEF FromSnapshot
  <2>2. CASE x # t
    BY <2>2 DEF Ind, Starting, TypeOK
  <2> QED
    BY <2>1, <2>2
<1> QED
  BY <1>2, <1>3, <1>4, <1>5, <1>6, <1>7 DEF Ind

(* Retire leaves nothing of the document behind. *)
LEMMA RetireInd ==
    ASSUME Ind, NEW t \in Tabs, Retire(t)
    PROVE  Ind'
<1> USE DEF Retire, authority
<1>1. TypeOK'
  <2>1. queue' \in [Tabs -> Seq(Updates)] /\ lane' \in [Tabs -> Seq(Updates)]
        /\ wire' \in [Tabs -> Seq(Writes)]
    BY EmptySeq DEF Ind, TypeOK
  <2>2. \A x \in Tabs : Len(lane'[x]) <= 1
    BY DEF Ind, TypeOK
  <2>3. live' \in SUBSET Tabs /\ loading' \in SUBSET live' /\ lost' \in [Tabs -> Nat]
    BY DEF Ind, TypeOK
  <2> QED
    BY <2>1, <2>2, <2>3 DEF Ind, TypeOK
<1>2. Docs'
  <2> SUFFICES ASSUME NEW x \in live'
               PROVE  Doc(proj'[x], InFlight(x)', wire'[x], seqs'[x], hist', version',
                          lost'[x])
    BY DEF Docs
  <2>1. x \in Tabs /\ x \in live /\ x # t
    BY DEF Ind, TypeOK
  <2>2. /\ wire'[x] = wire[x] /\ queue'[x] = queue[x] /\ lane'[x] = lane[x]
        /\ lost'[x] = lost[x]
    BY <2>1 DEF Ind, TypeOK
  <2>3. InFlight(x)' = InFlight(x)
    BY <2>2 DEF InFlight
  <2> QED
    BY <2>1, <2>2, <2>3 DEF Ind, Docs
<1>3. TransactionConsistent'
  BY DEF Ind, TransactionConsistent, Idle
<1>4. RetiredIsEmpty'
  BY DEF Ind, RetiredIsEmpty, TypeOK
<1>5. FaultsAreEarly' /\ Starting'
  BY DEF Ind, FaultsAreEarly, Starting, TypeOK
<1> QED
  BY <1>1, <1>2, <1>3, <1>4, <1>5 DEF Ind

(* The child begins to run the document; only loading changes. *)
LEMMA ActivateInd ==
    ASSUME Ind, NEW t \in Tabs, Activate(t)
    PROVE  Ind'
<1>1. /\ t \in loading \ fault /\ loading' = loading \ {t}
      /\ UNCHANGED <<version, hist, live, seqs, queue, lost, lane, event, wire, proj,
                     txn, fault, loads>>
  BY DEF Activate, authority, endpoints, renderers
<1>2. TypeOK' /\ FaultsAreEarly' /\ Starting' /\ RetiredIsEmpty'
  BY <1>1 DEF Ind, TypeOK, FaultsAreEarly, Starting, RetiredIsEmpty
<1>3. Docs'
  BY <1>1 DEF Ind, Docs, InFlight
<1>4. TransactionConsistent'
  BY <1>1 DEF Ind, TransactionConsistent, Idle
<1> QED
  BY <1>2, <1>3, <1>4 DEF Ind

(* The broker drops the update in the lane of a document that has written  *)
(* nothing.                                                                *)
LEMMA DropInd ==
    ASSUME Ind, NEW t \in Tabs, Drop(t)
    PROVE  Ind'
<1> DEFINE us == InFlight(t)
           l == lost[t]
<1>1. /\ t \in loading /\ t \in live /\ t \notin fault /\ lane[t] # <<>>
      /\ lane' = [lane EXCEPT ![t] = <<>>] /\ lost' = [lost EXCEPT ![t] = l + 1]
      /\ UNCHANGED <<version, hist, live, seqs, queue, loading, event, wire, proj,
                     txn, fault, loads>>
  BY DEF Drop, authority, endpoints, Ind, TypeOK
<1>2. /\ proj[t] \in Projections /\ wire[t] \in Seq(Writes) /\ seqs[t] \in Nat
      /\ us \in Seq(Updates) /\ version \in Nat /\ l \in Nat /\ proj[t].last = 0
      /\ Doc(proj[t], us, wire[t], seqs[t], hist, version, l)
  BY <1>1, TabTypes DEF Ind, Docs, Starting
<1>3. us # <<>> /\ Tail(us) = queue[t] /\ queue[t] \in Seq(Updates)
  BY <1>1, TabTypes, LaneHead DEF Ind, InFlight
<1> HIDE DEF us, l
<1>4. Doc(proj[t], queue[t], wire[t], seqs[t], hist, version, l + 1)
  BY <1>2, <1>3, DocDrop
<1>5. TypeOK'
  <2>1. lane' \in [Tabs -> Seq(Updates)] /\ \A x \in Tabs : Len(lane'[x]) <= 1
    BY <1>1, EmptySeq DEF Ind, TypeOK
  <2>2. lost' \in [Tabs -> Nat]
    BY <1>1, <1>2 DEF Ind, TypeOK
  <2> QED
    BY <1>1, <2>1, <2>2 DEF Ind, TypeOK
<1>6. Docs'
  <2> SUFFICES ASSUME NEW x \in live'
               PROVE  Doc(proj'[x], InFlight(x)', wire'[x], seqs'[x], hist', version',
                          lost'[x])
    BY DEF Docs
  <2>1. x \in Tabs /\ x \in live
    BY <1>1 DEF Ind, TypeOK
  <2>2. CASE x = t
    <3>1. lane'[t] = <<>> /\ lost'[t] = l + 1
      BY <1>1 DEF Ind, TypeOK
    <3>2. InFlight(t)' = queue[t]
      BY <1>1, <1>3, <3>1, ConcatEmptySeq DEF InFlight
    <3> QED
      BY <1>1, <1>4, <2>2, <3>1, <3>2
  <2>3. CASE x # t
    <3>1. lane'[x] = lane[x] /\ lost'[x] = lost[x]
      BY <1>1, <2>1, <2>3 DEF Ind, TypeOK
    <3>2. InFlight(x)' = InFlight(x)
      BY <1>1, <3>1 DEF InFlight
    <3> QED
      BY <1>1, <2>1, <3>1, <3>2 DEF Ind, Docs
  <2> QED
    BY <2>2, <2>3
<1>7. FaultsAreEarly' /\ Starting'
  BY <1>1 DEF Ind, FaultsAreEarly, Starting, TypeOK
<1>8. TransactionConsistent' /\ RetiredIsEmpty'
  BY <1>1 DEF Ind, TransactionConsistent, Idle, RetiredIsEmpty, TypeOK
<1> QED
  BY <1>5, <1>6, <1>7, <1>8 DEF Ind

(* A refused update changes nothing but the set of refusing documents.     *)
LEMMA FaultInd ==
    ASSUME Ind, NEW t \in live, t \in loading \/ lost[t] > 0,
           fault' = fault \cup {t},
           UNCHANGED <<version, hist, live, seqs, queue, loading, lost, lane, event,
                       wire, proj, txn, loads>>
    PROVE  Ind'
<1>1. TypeOK' /\ FaultsAreEarly' /\ Starting' /\ RetiredIsEmpty'
  BY DEF Ind, TypeOK, FaultsAreEarly, Starting, RetiredIsEmpty
<1>2. Docs'
  BY DEF Ind, Docs, InFlight
<1>3. TransactionConsistent'
  BY DEF Ind, TransactionConsistent, Idle
<1> QED
  BY <1>1, <1>2, <1>3 DEF Ind

(* The child refuses an update that arrives before its document. *)
LEMMA RefuseEarlyInd ==
    ASSUME Ind, NEW t \in Tabs, RefuseEarly(t)
    PROVE  Ind'
<1>1. t \in live /\ t \in loading
  BY DEF RefuseEarly, Ind, TypeOK
<1> QED
  BY <1>1, FaultInd DEF RefuseEarly, authority, endpoints, startup, renderers

(* A storage event that has run only frees the lane. *)
LEMMA DispatchEventInd ==
    ASSUME Ind, NEW t \in Tabs, DispatchEvent(t)
    PROVE  Ind'
<1> USE DEF DispatchEvent, authority, endpoints, startup
<1>1. TypeOK' /\ FaultsAreEarly' /\ Starting' /\ RetiredIsEmpty'
  BY DEF Ind, TypeOK, FaultsAreEarly, Starting, RetiredIsEmpty
<1>2. Docs'
  BY DEF Ind, Docs, InFlight
<1>3. TransactionConsistent'
  BY DEF Ind, TransactionConsistent, Idle
<1> QED
  BY <1>1, <1>2, <1>3 DEF Ind

(* Pump moves the first update and keeps what is in flight. *)
LEMMA PumpInd ==
    ASSUME Ind, NEW t \in Tabs, Pump(t)
    PROVE  Ind'
<1> USE DEF Pump, authority, startup
<1> DEFINE q == queue[t]
<1>1. q \in Seq(Updates) /\ q # <<>> /\ lane[t] = <<>>
  BY TabTypes DEF Ind
<1>2. Head(q) \in Updates /\ Tail(q) \in Seq(Updates)
  BY <1>1, HeadTailProperties
<1>3. /\ <<Head(q)>> \in Seq(Updates) /\ Len(<<Head(q)>>) = 1
      /\ <<Head(q)>> \o Tail(q) = q /\ <<>> \o q = q
  BY <1>1, <1>2, HeadTailConcat, ConcatEmptySeq
<1>4. TypeOK'
  <2>1. queue' \in [Tabs -> Seq(Updates)] /\ lane' \in [Tabs -> Seq(Updates)]
    BY <1>2, <1>3 DEF Ind, TypeOK
  <2>2. \A x \in Tabs : Len(lane'[x]) <= 1
    BY <1>3 DEF Ind, TypeOK
  <2> QED
    BY <2>1, <2>2 DEF Ind, TypeOK
<1>5. Docs'
  <2> SUFFICES ASSUME NEW x \in live
               PROVE  InFlight(x)' = InFlight(x)
    BY DEF Ind, Docs
  <2>1. x \in Tabs
    BY DEF Ind, TypeOK
  <2>2. CASE x = t
    <3>1. lane'[t] = <<Head(q)>> /\ queue'[t] = Tail(q)
      BY DEF Ind, TypeOK
    <3> QED
      BY <1>1, <1>3, <2>2, <3>1 DEF InFlight
  <2>3. CASE x # t
    <3>1. lane'[x] = lane[x] /\ queue'[x] = queue[x]
      BY <2>1, <2>3 DEF Ind, TypeOK
    <3> QED
      BY <3>1 DEF InFlight
  <2> QED
    BY <2>2, <2>3
<1>6. TransactionConsistent'
  BY DEF Ind, TransactionConsistent, Idle
<1>7. RetiredIsEmpty'
  BY DEF Ind, RetiredIsEmpty, TypeOK
<1> QED
  BY <1>4, <1>5, <1>6, <1>7 DEF Ind, FaultsAreEarly, Starting

(* A write grows the journal, the wire and the visible map together. *)
LEMMA WriteInd ==
    ASSUME Ind, NEW t \in Tabs, NEW op \in Operations, Write(t, op)
    PROVE  Ind'
<1> DEFINE p == proj[t]
           write == [seq |-> p.last + 1, op |-> op]
           q == [p EXCEPT !.visible = ApplyMap(p.visible, op),
                          !.pending = Append(p.pending, write),
                          !.last = write.seq]
<1>1. /\ t \in live /\ t \notin loading
      /\ proj' = [proj EXCEPT ![t] = q]
      /\ wire' = [wire EXCEPT ![t] = Append(wire[t], write)]
      /\ UNCHANGED <<version, hist, live, seqs, queue, loading, lost, lane, event,
                     txn, fault, loads>>
  BY DEF Write, authority, endpoints, startup
<1>2. /\ p \in Projections /\ wire[t] \in Seq(Writes) /\ seqs[t] \in Nat
      /\ InFlight(t) \in Seq(Updates) /\ hist \in Seq(Maps) /\ version \in Nat /\ lost[t] \in Nat
      /\ Doc(p, InFlight(t), wire[t], seqs[t], hist, version, lost[t])
  BY <1>1, TabTypes DEF Ind, Docs
<1>3. /\ write \in Writes /\ write.seq = p.last + 1 /\ write.op = op
      /\ q \in Projections
      /\ q.ver = p.ver /\ q.base = p.base /\ q.acked = p.acked
      /\ q.visible = ApplyMap(p.visible, op)
      /\ q.pending = Append(p.pending, write) /\ q.last = p.last + 1
  BY <1>2, WriteFields
<1> HIDE DEF p, write, q
<1>4. Doc(q, InFlight(t), Append(wire[t], write), seqs[t], hist, version, lost[t])
  BY <1>2, <1>3, DocWrite
<1>5. /\ Append(wire[t], write) \in Seq(Writes)
      /\ Len(Append(wire[t], write)) = Len(wire[t]) + 1 /\ Len(wire[t]) \in Nat
  BY <1>2, <1>3, AppendProperties, LenProperties
<1>6. TypeOK'
  <2>1. wire' \in [Tabs -> Seq(Writes)] /\ proj' \in [Tabs -> Projections]
    BY <1>1, <1>3, <1>5 DEF Ind, TypeOK
  <2> QED
    BY <1>1, <2>1 DEF Ind, TypeOK
<1>7. Docs'
  <2> SUFFICES ASSUME NEW x \in live
               PROVE  Doc(proj'[x], InFlight(x)', wire'[x], seqs'[x], hist', version',
                          lost'[x])
    BY <1>1 DEF Docs
  <2>1. x \in Tabs /\ InFlight(x)' = InFlight(x)
    BY <1>1 DEF Ind, TypeOK, InFlight
  <2>2. CASE x = t
    <3>1. proj'[t] = q /\ wire'[t] = Append(wire[t], write)
      BY <1>1 DEF Ind, TypeOK
    <3> QED
      BY <1>1, <1>4, <2>1, <2>2, <3>1
  <2>3. CASE x # t
    <3>1. proj'[x] = proj[x] /\ wire'[x] = wire[x]
      BY <1>1, <2>1, <2>3 DEF Ind, TypeOK
    <3> QED
      BY <1>1, <2>1, <3>1 DEF Ind, Docs
  <2> QED
    BY <2>2, <2>3
<1>8. TransactionConsistent'
  <2>1. CASE Idle
    BY <1>1, <2>1 DEF Ind, TransactionConsistent, Idle
  <2>2. CASE ~Idle
    <3>1. txn.src \in live /\ txn.src \in Tabs /\ txn.n \in 1 .. Len(wire[txn.src])
      BY <2>2 DEF Ind, TransactionConsistent, TypeOK
    <3>2. wire'[txn.src] \in {wire[txn.src], Append(wire[t], write)}
          /\ (txn.src # t => wire'[txn.src] = wire[txn.src])
      BY <1>1, <3>1 DEF Ind, TypeOK
    <3>3. txn.n \in 1 .. Len(wire'[txn.src])
      <4>1. CASE txn.src = t
        <5>1. txn.n \in 1 .. Len(wire[t]) + 1
          BY <1>5, <3>1, <4>1
        <5> QED
          BY <1>5, <3>1, <3>2, <4>1, <5>1
      <4>2. CASE txn.src # t
        BY <3>1, <3>2, <4>2
      <4> QED
        BY <4>1, <4>2
    <3> QED
      BY <1>1, <2>2, <3>3 DEF Ind, TransactionConsistent, Idle
  <2> QED
    BY <2>1, <2>2
<1>9. RetiredIsEmpty'
  BY <1>1 DEF Ind, RetiredIsEmpty, TypeOK
<1>10. FaultsAreEarly' /\ Starting'
  BY <1>1 DEF Ind, FaultsAreEarly, Starting, TypeOK
<1> QED
  BY <1>6, <1>7, <1>8, <1>9, <1>10 DEF Ind

(* A document that lost nothing takes the update; any other refuses it.    *)
LEMMA SynchronizeCases ==
    ASSUME Ind, NEW t \in Tabs, Synchronize(t)
    PROVE  /\ t \in live /\ t \notin loading /\ lane[t] # <<>>
           /\ UNCHANGED <<version, hist, live, seqs, queue, loading, lost, wire, txn, loads>>
           /\ IF lost[t] = 0
              THEN /\ UpdateIsValid(proj[t], Head(lane[t]))
                   /\ lane' = [lane EXCEPT ![t] = <<>>]
                   /\ proj' = [proj EXCEPT ![t] = ApplyUpdate(proj[t], Head(lane[t]))]
                   /\ event' = IF Head(lane[t]).ack = 0 THEN event \cup {t} ELSE event
                   /\ fault' = fault
              ELSE fault' = fault \cup {t} /\ UNCHANGED <<lane, proj, event>>
<1> DEFINE us == InFlight(t)
           l == lost[t]
<1>1. /\ t \in live /\ t \notin loading /\ lane[t] # <<>>
      /\ UNCHANGED <<version, hist, live, seqs, queue, loading, lost, wire, txn, loads>>
  BY DEF Synchronize, authority, endpoints, startup
<1>2. /\ proj[t] \in Projections /\ wire[t] \in Seq(Writes) /\ seqs[t] \in Nat
      /\ us \in Seq(Updates) /\ hist \in Seq(Maps) /\ version \in Nat
      /\ Len(hist) = version /\ l \in Nat
      /\ Doc(proj[t], us, wire[t], seqs[t], hist, version, l)
  BY <1>1, TabTypes DEF Ind, Docs
<1>3. us # <<>> /\ Head(us) = Head(lane[t])
  BY <1>1, TabTypes, LaneHead DEF Ind, InFlight
<1> HIDE DEF us
<1>4. UpdateIsValid(proj[t], Head(lane[t])) <=> lost[t] = 0
  <2>1. CASE l = 0
    BY <1>2, <1>3, <2>1, DocSynchronize
  <2>2. CASE l # 0
    BY <1>2, <1>3, <2>2, DocAfterLoss
  <2> QED
    BY <2>1, <2>2
<1> QED
  BY <1>1, <1>4 DEF Synchronize

(* An update that the document takes brings the replica to its version. *)
LEMMA SynchronizeInd ==
    ASSUME Ind, NEW t \in Tabs, Synchronize(t)
    PROVE  Ind'
<1> DEFINE p == proj[t]
           us == InFlight(t)
           u == Head(lane[t])
           r == ApplyUpdate(p, u)
<1>20. CASE lost[t] # 0
  <2>1. lost[t] > 0
    BY <1>20, TabTypes DEF Ind
  <2> QED
    BY <1>20, <2>1, SynchronizeCases, FaultInd
<1>21. SUFFICES ASSUME lost[t] = 0 PROVE Ind'
  BY <1>20
<1>1. /\ t \in live /\ t \notin loading /\ lane[t] # <<>>
      /\ lane' = [lane EXCEPT ![t] = <<>>]
      /\ UNCHANGED <<version, hist, live, seqs, queue, loading, lost, wire, txn,
                     fault, loads>>
      /\ proj' = [proj EXCEPT ![t] = r]
      /\ event' = IF u.ack = 0 THEN event \cup {t} ELSE event
  BY <1>21, SynchronizeCases
<1>2. /\ p \in Projections /\ wire[t] \in Seq(Writes) /\ seqs[t] \in Nat
      /\ us \in Seq(Updates) /\ hist \in Seq(Maps) /\ version \in Nat
      /\ Len(hist) = version
      /\ Doc(p, us, wire[t], seqs[t], hist, version, 0)
  BY <1>1, <1>21, TabTypes DEF Ind, Docs
<1>3. us # <<>> /\ Head(us) = u /\ Tail(us) = queue[t] /\ queue[t] \in Seq(Updates)
  BY <1>1, TabTypes, LaneHead DEF Ind, InFlight
<1> HIDE DEF p, us
<1>4. /\ UpdateIsValid(p, Head(us)) /\ ApplyUpdate(p, Head(us)) \in Projections
      /\ Doc(ApplyUpdate(p, Head(us)), Tail(us), wire[t], seqs[t], hist, version, 0)
  BY <1>2, <1>3, DocSynchronize
<1>5. UpdateIsValid(p, u) /\ r \in Projections
      /\ Doc(r, queue[t], wire[t], seqs[t], hist, version, 0)
  BY <1>3, <1>4
<1> HIDE DEF r, u
<1>6. /\ proj' = [proj EXCEPT ![t] = r] /\ UNCHANGED fault
      /\ event' = IF u.ack = 0 THEN event \cup {t} ELSE event
  BY <1>1 DEF p, r, u
<1>7. TypeOK'
  <2>1. lane' \in [Tabs -> Seq(Updates)] /\ \A x \in Tabs : Len(lane'[x]) <= 1
    BY <1>1, EmptySeq DEF Ind, TypeOK
  <2>2. proj' \in [Tabs -> Projections] /\ event' \in SUBSET Tabs
    BY <1>5, <1>6 DEF Ind, TypeOK
  <2> QED
    BY <1>1, <1>6, <2>1, <2>2 DEF Ind, TypeOK
<1>8. Docs'
  <2> SUFFICES ASSUME NEW x \in live
               PROVE  Doc(proj'[x], InFlight(x)', wire'[x], seqs'[x], hist', version',
                          lost'[x])
    BY <1>1 DEF Docs
  <2>1. x \in Tabs
    BY DEF Ind, TypeOK
  <2>2. CASE x = t
    <3>1. proj'[t] = r /\ lane'[t] = <<>> /\ lost'[t] = 0
      BY <1>1, <1>6, <1>21 DEF Ind, TypeOK
    <3>2. InFlight(t)' = queue[t]
      BY <1>1, <1>3, <3>1, ConcatEmptySeq DEF InFlight
    <3> QED
      BY <1>1, <1>5, <2>2, <3>1, <3>2
  <2>3. CASE x # t
    <3>1. proj'[x] = proj[x] /\ lane'[x] = lane[x]
      BY <1>1, <1>6, <2>1, <2>3 DEF Ind, TypeOK
    <3>2. InFlight(x)' = InFlight(x)
      BY <1>1, <3>1 DEF InFlight
    <3> QED
      BY <1>1, <3>1, <3>2 DEF Ind, Docs
  <2> QED
    BY <2>2, <2>3
<1>9. TransactionConsistent'
  BY <1>1 DEF Ind, TransactionConsistent, Idle
<1>10. RetiredIsEmpty'
  BY <1>1 DEF Ind, RetiredIsEmpty, TypeOK
<1>11. FaultsAreEarly' /\ Starting'
  BY <1>1, <1>6 DEF Ind, FaultsAreEarly, Starting, TypeOK
<1> QED
  BY <1>7, <1>8, <1>9, <1>10, <1>11 DEF Ind

(* A transaction starts from the current map with writes of the wire. *)
LEMMA BeginTransactionInd ==
    ASSUME Ind, NEW t \in Tabs, NEW n \in 1 .. MaxBatch, BeginTransaction(t, n)
    PROVE  Ind'
<1>1. /\ t \in live /\ n <= Len(wire[t]) /\ n \in Nat \ {0}
      /\ UNCHANGED <<version, hist, live, seqs, queue, loading, lost, lane, event, wire,
                     proj, loads>>
  BY SyncAssumption DEF BeginTransaction, authority, endpoints, startup, renderers
<1>2. /\ proj[t] \in Projections /\ wire[t] \in Seq(Writes) /\ seqs[t] \in Nat
      /\ Len(wire[t]) \in Nat
      /\ Doc(proj[t], InFlight(t), wire[t], seqs[t], hist, version, lost[t])
  BY <1>1, TabTypes, LenProperties DEF Ind, Docs
<1>3. \A i \in 1 .. Len(wire[t]) : wire[t][i].seq = seqs[t] + i
  BY <1>2, WireSequence
<1>4. \A i \in 1 .. n : wire[t][i].seq = seqs[t] + i
  BY <1>1, <1>2, <1>3
<1> DEFINE x == [NoTransaction EXCEPT !.src = t, !.n = n, !.ver = version]
<1>5. txn' = x /\ UNCHANGED fault
  BY <1>4 DEF BeginTransaction
<1>6. /\ x \in Transactions
      /\ x.src = t /\ x.n = n /\ x.done = 0 /\ x.ver = version
      /\ x.maps = <<>> /\ x.mine = <<>> /\ x.others = <<>> /\ x.rejected = FALSE
  <2> DEFINE z == NoTransaction
  <2>1. /\ z \in Transactions /\ z.done = 0 /\ z.rejected = FALSE
        /\ z.maps = <<>> /\ z.mine = <<>> /\ z.others = <<>>
    BY DEF NoTransaction, Transactions
  <2> HIDE DEF z
  <2>2. x = [z EXCEPT !.src = t, !.n = n, !.ver = version]
    BY DEF z
  <2>3. version \in Nat
    BY DEF Ind, TypeOK
  <2> HIDE DEF x
  <2> QED
    BY <1>1, <2>1, <2>2, <2>3 DEF Transactions
<1> HIDE DEF x
<1>7. TypeOK'
  BY <1>1, <1>5, <1>6 DEF Ind, TypeOK
<1>8. Docs'
  BY <1>1 DEF Ind, Docs, InFlight
<1>9. TransactionConsistent'
  <2>1. version \in Nat /\ t # None
    BY SyncAssumption DEF Ind, TypeOK
  <2>2. CarriesChanges(<<>>, hist \o <<>>, version, version)
    BY <2>1, ChangesEmpty
  <2>3. txn'.src = t /\ txn'.n = n /\ txn'.done = 0 /\ txn'.ver = version
        /\ txn'.maps = <<>> /\ txn'.mine = <<>> /\ txn'.others = <<>>
        /\ txn'.rejected = FALSE
    BY <1>5, <1>6
  <2>4. n \in 1 .. Len(wire[t]) /\ 0 \in 0 .. n /\ version = version + 0
    BY <1>1, <1>2, <2>1
  <2>5. ~Idle'
    BY <2>1, <2>3 DEF Idle
  <2> QED
    BY <1>1, <2>2, <2>3, <2>4, <2>5 DEF TransactionConsistent
<1>10. RetiredIsEmpty'
  BY <1>1, <1>5 DEF Ind, RetiredIsEmpty
<1> QED
  BY <1>1, <1>5, <1>7, <1>8, <1>9, <1>10 DEF Ind, FaultsAreEarly, Starting

(* A deferred transaction leaves no trace. *)
LEMMA DeferInd ==
    ASSUME Ind, Defer
    PROVE  Ind'
<1> USE DEF Defer, authority, endpoints, startup, renderers
<1>1. NoTransaction \in Transactions
  BY DEF NoTransaction, Transactions
<1>2. TypeOK' /\ FaultsAreEarly' /\ Starting' /\ RetiredIsEmpty'
  BY <1>1 DEF Ind, TypeOK, FaultsAreEarly, Starting, RetiredIsEmpty
<1>3. Docs'
  BY DEF Ind, Docs, InFlight
<1>4. TransactionConsistent'
  BY DEF TransactionConsistent, Idle, NoTransaction
<1> QED
  BY <1>2, <1>3, <1>4 DEF Ind

(* Runs of a single update. *)
LEMMA OneChange ==
    ASSUME NEW m \in Updates, NEW g, NEW v \in Nat,
           m.ver = v + 1, m.change # None, Records(g, v + 1, m.change)
    PROVE  CarriesChanges(<<m>>, g, v, v + 1)
BY DEF CarriesChanges

(* An update without a change at version v leaves a document at v. *)
LEMMA OneAcknowledgement ==
    ASSUME NEW m \in Updates, NEW g, NEW v \in Nat, m.ver = v, m.change = None
    PROVE  CarriesChanges(<<m>>, g, v, v)
BY DEF CarriesChanges

(* Appending is concatenating one element. *)
LEMMA AppendConcat ==
    ASSUME NEW a \in Seq(Updates), NEW m \in Updates
    PROVE  <<m>> \in Seq(Updates) /\ Append(a, m) = a \o <<m>>
<1> DEFINE b == <<m>>
           c == Append(a, m)
           d == a \o b
<1>1. b \in Seq(Updates) /\ Len(b) = 1 /\ b[1] = m
  OBVIOUS
<1>2. /\ c \in Seq(Updates) /\ Len(c) = Len(a) + 1 /\ Len(a) \in Nat
      /\ \A i \in 1 .. Len(a) : c[i] = a[i]
      /\ c[Len(a) + 1] = m
  BY AppendProperties, LenProperties
<1> HIDE DEF b, c
<1>3. /\ d \in Seq(Updates) /\ Len(d) = Len(a) + Len(b)
      /\ \A i \in 1 .. Len(a) : d[i] = a[i]
      /\ \A i \in 1 .. Len(b) : d[Len(a) + i] = b[i]
  BY <1>1, ConcatElements
<1> HIDE DEF d
<1>4. ASSUME NEW i \in 1 .. Len(c) PROVE c[i] = d[i]
  <2>1. CASE i \in 1 .. Len(a)
    BY <1>2, <1>3, <2>1
  <2>2. CASE i = Len(a) + 1
    BY <1>1, <1>2, <1>3, <2>2
  <2> QED
    BY <1>2, <2>1, <2>2
<1>5. Len(c) = Len(d)
  BY <1>1, <1>2, <1>3
<1>6. c = d
  BY <1>2, <1>3, <1>4, <1>5, SeqEqual
<1> QED
  BY <1>1, <1>6 DEF b, c, d

(* The history as the transaction would leave it. *)
LEMMA TransactionHistory ==
    ASSUME TypeOK, TransactionConsistent, ~Idle
    PROVE  /\ hist \o txn.maps \in Seq(Maps) /\ Len(hist \o txn.maps) = txn.ver
           /\ txn.ver \in Nat \ {0} /\ version <= txn.ver
           /\ txn.maps \in Seq(Maps)
           /\ Working = (hist \o txn.maps)[txn.ver] /\ Working \in Maps
           /\ \A i \in 1 .. version : (hist \o txn.maps)[i] = hist[i]
<1> DEFINE maps == txn.maps
           h == hist \o maps
           M == Len(maps)
<1>1. /\ hist \in Seq(Maps) /\ Len(hist) = version /\ version \in Nat \ {0}
      /\ maps \in Seq(Maps) /\ M \in Nat
  BY LenProperties DEF TypeOK, Transactions
<1>2. txn.ver = version + M
  BY DEF TransactionConsistent
<1> HIDE DEF M, maps
<1>3. /\ h \in Seq(Maps) /\ Len(h) = version + M
      /\ \A i \in 1 .. version : h[i] = hist[i]
      /\ \A i \in 1 .. M : h[version + i] = maps[i]
  <2>1. /\ h \in Seq(Maps) /\ Len(h) = Len(hist) + Len(maps)
        /\ \A i \in 1 .. Len(hist) : h[i] = hist[i]
        /\ \A i \in 1 .. Len(maps) : h[Len(hist) + i] = maps[i]
    <3>1. hist \in Seq(Maps) /\ maps \in Seq(Maps)
      BY <1>1
    <3> QED
      BY <3>1, ConcatElements
  <2> HIDE DEF h
  <2> QED
    BY <1>1, <2>1 DEF M
<1> HIDE DEF h
<1>4. Working = h[version + M]
  <2>1. CASE maps = <<>>
    <3>1. M = 0
      BY <2>1, EmptySeq DEF M
    <3>2. version + M = version /\ version \in 1 .. version
      BY <1>1, <3>1
    <3> QED
      BY <1>3, <2>1, <3>2 DEF Working, local, maps
  <2>2. CASE maps # <<>>
    <3>1. M \in 1 .. M
      BY <1>1, <2>2, EmptySeq DEF M
    <3> QED
      BY <1>3, <2>2, <3>1 DEF Working, M, maps
  <2> QED
    BY <2>1, <2>2
<1>5. h[version + M] \in Maps
  <2>1. version + M \in 1 .. Len(h)
    BY <1>1, <1>3
  <2> QED
    BY <1>3, <2>1, ElementOfSeq
<1> QED
  BY <1>1, <1>2, <1>3, <1>4, <1>5 DEF h, maps

(* The write the preflight loop looks at next. *)
LEMMA NextWrite ==
    ASSUME Ind, ~Idle, txn.done < txn.n
    PROVE  LET write == wire[txn.src][txn.done + 1]
           IN  /\ write.op \in Operations
               /\ write.seq = seqs[txn.src] + (txn.done + 1)
               /\ txn.src \in Tabs /\ seqs[txn.src] \in Nat
               /\ txn.done \in Nat /\ txn.n \in Nat
<1> DEFINE t == txn.src
<1>1. t \in live /\ t \in Tabs /\ txn.n \in 1 .. Len(wire[t]) /\ txn.done \in 0 .. txn.n
  BY DEF Ind, TransactionConsistent, TypeOK
<1>2. /\ proj[t] \in Projections /\ wire[t] \in Seq(Writes) /\ seqs[t] \in Nat
      /\ Len(wire[t]) \in Nat
      /\ Doc(proj[t], InFlight(t), wire[t], seqs[t], hist, version, lost[t])
  BY <1>1, TabTypes, LenProperties DEF Ind, Docs
<1>3. \A i \in 1 .. Len(wire[t]) :
        wire[t][i].seq = seqs[t] + i /\ wire[t][i].op \in Operations
  BY <1>2, WireSequence
<1>4. txn.done + 1 \in 1 .. Len(wire[t]) /\ txn.done \in Nat /\ txn.n \in Nat
  BY <1>1, <1>2
<1> QED
  BY <1>1, <1>2, <1>3, <1>4

(* A change made on the latest map of a history extends it by a record. *)
LEMMA ChangeRecorded ==
    ASSUME NEW h \in Seq(Maps), NEW v \in Nat \ {0}, NEW g,
           g[v] = h[v], h[v] \in Maps, NEW op \in Operations,
           g[v + 1] = ApplyMap(h[v], op),
           OperationChanges(h[v], op), WithinQuota(h[v], op)
    PROVE  Records(g, v + 1, ChangeBefore(h[v], op))
<1> DEFINE m == h[v]
           c == ChangeBefore(m, op)
<1>1. Operation(c) = op
  BY DEF Operation, ChangeBefore, Operations
<1>2. (v + 1) - 1 = v
  OBVIOUS
<1> HIDE DEF c
<1>3. /\ Operation(c) \in Operations
      /\ c = ChangeBefore(g[v], Operation(c))
      /\ OperationChanges(g[v], Operation(c))
      /\ WithinQuota(g[v], Operation(c))
      /\ g[v + 1] = ApplyMap(g[v], Operation(c))
  BY <1>1 DEF c
<1> QED
  BY <1>2, <1>3 DEF Records, c

(* ChangeBefore yields a change. *)
LEMMA ChangeBeforeType ==
    ASSUME NEW m \in Maps, NEW op \in Operations
    PROVE  ChangeBefore(m, op) \in Changes
BY DEF ChangeBefore, Changes, Maps, Operations

(* None is not a change. *)
LEMMA ChangeIsSome ==
    ASSUME NEW m \in Maps, NEW op \in Operations
    PROVE  ChangeBefore(m, op) # None
BY ChangeBeforeType, ChangeAssumption

(* One more acknowledgement continues the run. *)
LEMMA AppendAck ==
    ASSUME NEW a \in Seq(Updates), NEW d \in Nat, NEW s \in Nat, Len(a) = d,
           \A i \in 1 .. d : a[i].ack = s + i,
           NEW m \in Updates, m.ack = s + (d + 1)
    PROVE  /\ Append(a, m) \in Seq(Updates) /\ Len(Append(a, m)) = d + 1
           /\ \A i \in 1 .. d + 1 : Append(a, m)[i].ack = s + i
<1> DEFINE c == Append(a, m)
<1>1. /\ c \in Seq(Updates) /\ Len(c) = d + 1
      /\ \A i \in 1 .. d : c[i] = a[i]
      /\ c[d + 1] = m
  BY AppendProperties
<1> HIDE DEF c
<1>2. ASSUME NEW i \in 1 .. d + 1 PROVE c[i].ack = s + i
  <2>1. CASE i = d + 1
    BY <1>1, <2>1
  <2>2. CASE i # d + 1
    <3>1. i \in 1 .. d
      BY <2>2
    <3> QED
      BY <1>1, <3>1
  <2> QED
    BY <2>1, <2>2
<1> QED
  BY <1>1, <1>2 DEF c

(* Preflighting one more write extends the transaction consistently. *)
LEMMA PreflightInd ==
    ASSUME Ind, Preflight
    PROVE  Ind'
<1> DEFINE h == hist \o txn.maps
           t == txn.src
           write == wire[t][txn.done + 1]
           op == write.op
           v == txn.ver
           change == ChangeBefore(Working, op)
           after == ApplyMap(Working, op)
           told == [ver |-> v + 1, ack |-> write.seq, change |-> change]
           heard == [ver |-> v + 1, ack |-> 0, change |-> change]
           noted == [ver |-> v, ack |-> write.seq, change |-> None]
<1>1. /\ ~Idle /\ ~txn.rejected /\ txn.done < txn.n
      /\ UNCHANGED <<version, hist, live, seqs, queue, loading, lost, lane, event, wire,
                     proj, fault, loads>>
      /\ txn' = IF ~WithinQuota(Working, op) THEN [txn EXCEPT !.rejected = TRUE]
                ELSE IF OperationChanges(Working, op)
                THEN [txn EXCEPT
                        !.done = txn.done + 1, !.ver = v + 1,
                        !.maps = Append(txn.maps, after),
                        !.mine = Append(txn.mine, told),
                        !.others = Append(txn.others, heard)]
                ELSE [txn EXCEPT !.done = txn.done + 1,
                                 !.mine = Append(txn.mine, noted)]
  BY DEF Preflight, authority, endpoints, startup, renderers
<1>2. /\ h \in Seq(Maps) /\ Len(h) = v /\ v \in Nat \ {0} /\ version <= v
      /\ txn.maps \in Seq(Maps) /\ Working = h[v] /\ Working \in Maps
  BY <1>1, TransactionHistory DEF Ind
<1>3. /\ op \in Operations /\ write.seq = seqs[t] + (txn.done + 1)
      /\ t \in Tabs /\ seqs[t] \in Nat /\ txn.done \in Nat /\ txn.n \in Nat
  BY <1>1, NextWrite
<1>4. /\ t \in live /\ txn.n \in 1 .. Len(wire[t]) /\ txn.done \in 0 .. txn.n
      /\ v = version + Len(txn.maps) /\ Len(txn.mine) = txn.done
      /\ \A i \in 1 .. txn.done : txn.mine[i].ack = seqs[t] + i
      /\ \A i \in 1 .. Len(txn.others) : txn.others[i].ack = 0
                                          /\ txn.others[i].change # None
      /\ CarriesChanges(txn.mine, h, version, v)
      /\ CarriesChanges(txn.others, h, version, v)
  BY <1>1 DEF Ind, TransactionConsistent
<1>5. /\ txn \in Transactions /\ txn.mine \in Seq(Updates) /\ txn.others \in Seq(Updates)
      /\ txn.maps \in Seq(Maps) /\ txn.src \in Tabs \cup {None}
      /\ version \in Nat \ {0} /\ Len(txn.maps) \in Nat
  BY LenProperties DEF Ind, TypeOK, Transactions
<1>6. change \in Changes /\ change # None /\ after \in Maps
  BY <1>2, <1>3, ChangeBeforeType, ChangeIsSome, ApplyMapType
<1> HIDE DEF h, t, write, op, v, change, after
<1>7. told \in Updates /\ heard \in Updates /\ noted \in Updates
  <2>1. write.seq \in Nat /\ v \in Nat /\ v + 1 \in Nat
    BY <1>2, <1>3
  <2> QED
    BY <1>6, <2>1 DEF Updates
<1>8. /\ told.ver = v + 1 /\ told.ack = write.seq /\ told.change = change
      /\ heard.ver = v + 1 /\ heard.ack = 0 /\ heard.change = change
      /\ noted.ver = v /\ noted.ack = write.seq /\ noted.change = None
  OBVIOUS
<1>9. t # None
  BY <1>3, SyncAssumption DEF t
<1>10. Docs' /\ FaultsAreEarly' /\ Starting' /\ RetiredIsEmpty'
  BY <1>1 DEF Ind, Docs, InFlight, FaultsAreEarly, Starting, RetiredIsEmpty
<1>11. ASSUME txn' \in Transactions PROVE TypeOK'
  BY <1>1, <1>11 DEF Ind, TypeOK
<1> HIDE DEF told, heard, noted
<1>12. CASE ~WithinQuota(Working, op)
  <2>1. txn' = [txn EXCEPT !.rejected = TRUE]
    BY <1>1, <1>12
  <2>2. /\ txn' \in Transactions /\ txn'.src = txn.src /\ txn'.n = txn.n
        /\ txn'.done = txn.done /\ txn'.ver = txn.ver /\ txn'.maps = txn.maps
        /\ txn'.mine = txn.mine /\ txn'.others = txn.others
    BY <1>5, <2>1 DEF Transactions
  <2>3. TransactionConsistent'
    BY <1>1, <2>2 DEF Ind, TransactionConsistent, Idle
  <2> QED
    BY <1>10, <1>11, <2>2, <2>3 DEF Ind
<1>13. CASE WithinQuota(Working, op) /\ OperationChanges(Working, op)
  <2> DEFINE mine == Append(txn.mine, told)
             others == Append(txn.others, heard)
             maps == Append(txn.maps, after)
             g == hist \o maps
  <2>1. /\ mine \in Seq(Updates) /\ Len(mine) = txn.done + 1
        /\ \A i \in 1 .. txn.done + 1 : mine[i].ack = seqs[t] + i
    <3> DEFINE a == txn.mine
               d == txn.done
               q == seqs[t]
    <3>1. /\ a \in Seq(Updates) /\ d \in Nat /\ q \in Nat /\ Len(a) = d
          /\ \A i \in 1 .. d : a[i].ack = q + i
          /\ told \in Updates /\ told.ack = q + (d + 1)
      BY <1>3, <1>4, <1>5, <1>7, <1>8
    <3> HIDE DEF a, d, q
    <3>2. /\ Append(a, told) \in Seq(Updates) /\ Len(Append(a, told)) = d + 1
          /\ \A i \in 1 .. d + 1 : Append(a, told)[i].ack = q + i
      BY <3>1, AppendAck
    <3> QED
      BY <3>2 DEF a, d, q
  <2>2. /\ others \in Seq(Updates) /\ Len(others) = Len(txn.others) + 1
        /\ Len(txn.others) \in Nat
        /\ \A i \in 1 .. Len(txn.others) : others[i] = txn.others[i]
        /\ others[Len(txn.others) + 1] = heard
    BY <1>5, <1>7, AppendProperties, LenProperties
  <2>3. /\ maps \in Seq(Maps) /\ Len(maps) = Len(txn.maps) + 1
        /\ \A i \in 1 .. Len(txn.maps) : maps[i] = txn.maps[i]
        /\ maps[Len(txn.maps) + 1] = after
    BY <1>5, <1>6, AppendProperties
  <2>4. txn' = [txn EXCEPT !.done = txn.done + 1, !.ver = v + 1,
                  !.maps = maps, !.mine = mine, !.others = others]
    BY <1>1, <1>13
  <2> HIDE DEF mine, others, maps
  <2>5. /\ txn' \in Transactions /\ txn'.src = txn.src /\ txn'.n = txn.n
        /\ txn'.done = txn.done + 1 /\ txn'.ver = v + 1 /\ txn'.maps = maps
        /\ txn'.mine = mine /\ txn'.others = others
        /\ txn'.rejected = txn.rejected
    <3> DEFINE d == txn.done + 1
               z == v + 1
    <3>1. /\ d \in Nat /\ z \in Nat /\ txn \in Transactions
          /\ mine \in Seq(Updates) /\ others \in Seq(Updates) /\ maps \in Seq(Maps)
      BY <1>2, <1>3, <1>5, <2>1, <2>2, <2>3
    <3>2. txn' = [txn EXCEPT !.done = d, !.ver = z, !.maps = maps, !.mine = mine,
                             !.others = others]
      BY <2>4
    <3> HIDE DEF d, z
    <3>3. /\ txn' \in Transactions /\ txn'.src = txn.src /\ txn'.n = txn.n
          /\ txn'.done = d /\ txn'.ver = z /\ txn'.maps = maps
          /\ txn'.mine = mine /\ txn'.others = others
          /\ txn'.rejected = txn.rejected
      BY <3>1, <3>2 DEF Transactions
    <3> QED
      BY <3>3 DEF d, z
  <2>6. /\ \A i \in 1 .. v : h[i] = g[i]
        /\ g[v + 1] = after
    <3> DEFINE V == version
               M == Len(txn.maps)
    <3>1. /\ hist \in Seq(Maps) /\ Len(hist) = V /\ V \in Nat \ {0} /\ M \in Nat
          /\ v = V + M /\ Len(maps) = M + 1
      BY <1>4, <1>5, <2>3 DEF Ind, TypeOK
    <3>2. /\ Len(h) = Len(hist) + Len(txn.maps)
          /\ \A i \in 1 .. Len(hist) : h[i] = hist[i]
          /\ \A i \in 1 .. Len(txn.maps) : h[Len(hist) + i] = txn.maps[i]
      <4>1. hist \in Seq(Maps) /\ txn.maps \in Seq(Maps)
        BY <1>5, <3>1
      <4> QED
        BY <4>1, ConcatElements DEF h
    <3>3. /\ \A i \in 1 .. Len(hist) : g[i] = hist[i]
          /\ \A i \in 1 .. Len(maps) : g[Len(hist) + i] = maps[i]
      <4>1. hist \in Seq(Maps) /\ maps \in Seq(Maps)
        BY <2>3, <3>1
      <4> QED
        BY <4>1, ConcatElements
    <3> HIDE DEF g, V, M
    <3>4. /\ \A i \in 1 .. V : h[i] = hist[i] /\ g[i] = hist[i]
          /\ \A i \in 1 .. M : h[V + i] = txn.maps[i]
          /\ \A i \in 1 .. M + 1 : g[V + i] = maps[i]
          /\ \A i \in 1 .. M : maps[i] = txn.maps[i]
          /\ maps[M + 1] = after
      <4>1. \A i \in 1 .. M : maps[i] = txn.maps[i]
        BY <2>3 DEF M
      <4>2. maps[M + 1] = after
        BY <2>3 DEF M
      <4>3. \A i \in 1 .. M : h[Len(hist) + i] = txn.maps[i]
        BY <3>2 DEF M
      <4> QED
        BY <3>1, <3>2, <3>3, <4>1, <4>2, <4>3
    <3>5. ASSUME NEW i \in 1 .. v PROVE h[i] = g[i]
      <4>1. CASE i \in 1 .. V
        BY <3>4, <4>1
      <4>2. CASE i \notin 1 .. V
        <5>1. i - V \in 1 .. M /\ i - V \in 1 .. M + 1 /\ V + (i - V) = i
          BY <3>1, <4>2
        <5>2. h[V + (i - V)] = txn.maps[i - V] /\ g[V + (i - V)] = maps[i - V]
              /\ maps[i - V] = txn.maps[i - V]
          BY <3>4, <5>1
        <5> QED
          BY <5>1, <5>2
      <4> QED
        BY <4>1, <4>2
    <3>6. g[v + 1] = after
      <4>1. M + 1 \in 1 .. M + 1 /\ v + 1 = V + (M + 1)
        BY <3>1
      <4> QED
        BY <3>4, <4>1
    <3> QED
      BY <3>5, <3>6
  <2> HIDE DEF g
  <2>7. Records(g, v + 1, change)
    <3>1. v \in 1 .. v
      BY <1>2
    <3>2. g[v] = h[v] /\ g[v + 1] = ApplyMap(h[v], op) /\ h[v] \in Maps
      BY <1>2, <2>6, <3>1 DEF after
    <3>3. OperationChanges(h[v], op) /\ WithinQuota(h[v], op)
      BY <1>2, <1>13
    <3> QED
      BY <1>2, <1>3, <3>2, <3>3, ChangeRecorded DEF change
  <2>8. /\ CarriesChanges(txn.mine, g, version, v)
        /\ CarriesChanges(txn.others, g, version, v)
    BY <1>2, <1>4, <1>5, <2>6, ChangesFrame
  <2>9. /\ CarriesChanges(<<told>>, g, v, v + 1)
        /\ CarriesChanges(<<heard>>, g, v, v + 1)
    BY <1>2, <1>6, <1>7, <1>8, <2>7, OneChange
  <2>10. v + 1 \in Nat /\ v \in Nat /\ version \in Nat
    BY <1>2, <1>5
  <2>11. CarriesChanges(mine, g, version, v + 1)
    <3>1. mine = txn.mine \o <<told>> /\ <<told>> \in Seq(Updates)
      BY <1>5, <1>7, AppendConcat DEF mine
    <3> QED
      BY <1>5, <2>8, <2>9, <2>10, <3>1, ChangesConcat
  <2>12. CarriesChanges(others, g, version, v + 1)
    <3>1. others = txn.others \o <<heard>> /\ <<heard>> \in Seq(Updates)
      BY <1>5, <1>7, AppendConcat DEF others
    <3> QED
      BY <1>5, <2>8, <2>9, <2>10, <3>1, ChangesConcat
  <2>14. \A i \in 1 .. Len(others) : others[i].ack = 0 /\ others[i].change # None
    BY <1>4, <1>6, <1>8, <2>2, SMTT(30)
  <2>15. txn.done + 1 \in 0 .. txn.n /\ v + 1 = version + Len(maps)
    <3>1. txn.done + 1 \in 0 .. txn.n
      BY <1>1, <1>3
    <3> DEFINE M == Len(txn.maps)
    <3>2. v = version + M /\ M \in Nat /\ Len(maps) = M + 1 /\ version \in Nat
      BY <1>4, <1>5, <2>3
    <3> HIDE DEF M
    <3>3. v + 1 = version + (M + 1)
      BY <3>2
    <3> QED
      BY <3>1, <3>2, <3>3
  <2>16. TransactionConsistent'
    <3>1. ~Idle' /\ txn'.rejected = FALSE
      BY <1>1, <2>5 DEF Idle, Transactions
    <3>2. /\ txn'.src \in live' /\ txn'.n \in 1 .. Len(wire'[txn'.src])
          /\ txn'.done \in 0 .. txn'.n
          /\ txn'.ver = version' + Len(txn'.maps)
          /\ Len(txn'.mine) = txn'.done
      BY <1>1, <1>4, <2>1, <2>5, <2>15 DEF t
    <3>3. \A i \in 1 .. txn'.done : txn'.mine[i].ack = seqs'[txn'.src] + i
      BY <1>1, <2>1, <2>5 DEF t
    <3>4. \A i \in 1 .. Len(txn'.others) : txn'.others[i].ack = 0
                                           /\ txn'.others[i].change # None
      BY <2>5, <2>14
    <3>5. /\ CarriesChanges(txn'.mine, hist' \o txn'.maps, version', txn'.ver)
          /\ CarriesChanges(txn'.others, hist' \o txn'.maps, version', txn'.ver)
      BY <1>1, <2>5, <2>11, <2>12 DEF g
    <3> QED
      BY <3>1, <3>2, <3>3, <3>4, <3>5 DEF TransactionConsistent
  <2> QED
    BY <1>10, <1>11, <2>5, <2>16 DEF Ind
<1>14. CASE WithinQuota(Working, op) /\ ~OperationChanges(Working, op)
  <2> DEFINE mine == Append(txn.mine, noted)
  <2>1. /\ mine \in Seq(Updates) /\ Len(mine) = txn.done + 1
        /\ \A i \in 1 .. txn.done + 1 : mine[i].ack = seqs[t] + i
    <3> DEFINE a == txn.mine
               d == txn.done
               q == seqs[t]
    <3>1. /\ a \in Seq(Updates) /\ d \in Nat /\ q \in Nat /\ Len(a) = d
          /\ \A i \in 1 .. d : a[i].ack = q + i
          /\ noted \in Updates /\ noted.ack = q + (d + 1)
      BY <1>3, <1>4, <1>5, <1>7, <1>8
    <3> HIDE DEF a, d, q
    <3>2. /\ Append(a, noted) \in Seq(Updates) /\ Len(Append(a, noted)) = d + 1
          /\ \A i \in 1 .. d + 1 : Append(a, noted)[i].ack = q + i
      BY <3>1, AppendAck
    <3> QED
      BY <3>2 DEF a, d, q
  <2>2. txn' = [txn EXCEPT !.done = txn.done + 1, !.mine = mine]
    BY <1>1, <1>14
  <2> HIDE DEF mine
  <2>3. /\ txn' \in Transactions /\ txn'.src = txn.src /\ txn'.n = txn.n
        /\ txn'.done = txn.done + 1 /\ txn'.ver = txn.ver /\ txn'.maps = txn.maps
        /\ txn'.mine = mine /\ txn'.others = txn.others
        /\ txn'.rejected = txn.rejected
    <3> DEFINE d == txn.done + 1
    <3>1. d \in Nat /\ txn \in Transactions /\ mine \in Seq(Updates)
      BY <1>3, <1>5, <2>1
    <3>2. txn' = [txn EXCEPT !.done = d, !.mine = mine]
      BY <2>2
    <3> HIDE DEF d
    <3>3. /\ txn' \in Transactions /\ txn'.src = txn.src /\ txn'.n = txn.n
          /\ txn'.done = d /\ txn'.ver = txn.ver /\ txn'.maps = txn.maps
          /\ txn'.mine = mine /\ txn'.others = txn.others
          /\ txn'.rejected = txn.rejected
      BY <3>1, <3>2 DEF Transactions
    <3> QED
      BY <3>3 DEF d
  <2>4. CarriesChanges(<<noted>>, h, v, v)
    BY <1>2, <1>7, <1>8, OneAcknowledgement
  <2>5. CarriesChanges(mine, h, version, v)
    <3>1. mine = txn.mine \o <<noted>> /\ <<noted>> \in Seq(Updates)
      BY <1>5, <1>7, AppendConcat DEF mine
    <3>2. v \in Nat /\ version \in Nat
      BY <1>2, <1>5
    <3> QED
      BY <1>4, <1>5, <2>4, <3>1, <3>2, ChangesConcat
  <2>7. txn.done + 1 \in 0 .. txn.n
    BY <1>1, <1>3
  <2>8. TransactionConsistent'
    <3>1. ~Idle' /\ txn'.rejected = FALSE
      BY <1>1, <2>3 DEF Idle, Transactions
    <3>2. /\ txn'.src \in live' /\ txn'.n \in 1 .. Len(wire'[txn'.src])
          /\ txn'.done \in 0 .. txn'.n
          /\ txn'.ver = version' + Len(txn'.maps)
          /\ Len(txn'.mine) = txn'.done
      <4>1. txn'.done \in 0 .. txn'.n /\ Len(txn'.mine) = txn'.done
        BY <2>1, <2>3, <2>7
      <4>2. txn'.src \in live' /\ txn'.n \in 1 .. Len(wire'[txn'.src])
        BY <1>1, <1>4, <2>3 DEF t
      <4>3. txn'.ver = version' + Len(txn'.maps)
        BY <1>1, <1>4, <2>3 DEF v
      <4> QED
        BY <4>1, <4>2, <4>3
    <3>3. \A i \in 1 .. txn'.done : txn'.mine[i].ack = seqs'[txn'.src] + i
      BY <1>1, <2>1, <2>3 DEF t
    <3>4. \A i \in 1 .. Len(txn'.others) : txn'.others[i].ack = 0
                                           /\ txn'.others[i].change # None
      BY <1>4, <2>3
    <3>5. /\ CarriesChanges(txn'.mine, hist' \o txn'.maps, version', txn'.ver)
          /\ CarriesChanges(txn'.others, hist' \o txn'.maps, version', txn'.ver)
      BY <1>1, <1>4, <2>3, <2>5 DEF h, v
    <3> QED
      BY <3>1, <3>2, <3>3, <3>4, <3>5 DEF TransactionConsistent
  <2> QED
    BY <1>10, <1>11, <2>3, <2>8 DEF Ind
<1> QED
  BY <1>12, <1>13, <1>14

(* Publishing the outcome of a transaction, whatever the outcome is. *)
LEMMA PublishInd ==
    ASSUME Ind, ~Idle, NEW mine \in Seq(Updates), NEW others \in Seq(Updates),
           Publish(mine, others),
           version' \in Nat \ {0}, hist' \in Seq(Maps), Len(hist') = version',
           version <= version', \A i \in 1 .. version : hist'[i] = hist[i],
           CarriesChanges(mine, hist', version, version'),
           CarriesChanges(others, hist', version, version'),
           CarriesAcks(mine, seqs[txn.src], seqs[txn.src] + txn.n),
           \A i \in 1 .. Len(others) : others[i].ack = 0 /\ others[i].change # None
    PROVE  Ind'
<1> DEFINE src == txn.src
           n == txn.n
           rest == SubSeq(wire[src], n + 1, Len(wire[src]))
<1>1. /\ queue' = [t \in Tabs |-> IF t \notin live THEN queue[t]
                                  ELSE IF t = src THEN queue[t] \o mine
                                  ELSE queue[t] \o others]
      /\ seqs' = [seqs EXCEPT ![src] = seqs[src] + n]
      /\ wire' = [wire EXCEPT ![src] = rest]
      /\ txn' = NoTransaction
      /\ UNCHANGED <<live, loading, lost, lane, event, proj, fault, loads>>
  BY DEF Publish, startup
<1>2. src \in live /\ src \in Tabs /\ n \in 1 .. Len(wire[src])
  BY DEF Ind, TransactionConsistent, TypeOK
<1>3. wire[src] \in Seq(Writes) /\ Len(wire[src]) \in Nat /\ seqs[src] \in Nat
  BY <1>2, TabTypes, LenProperties DEF Ind
<1>4. n \in Nat /\ n \in 0 .. Len(wire[src]) /\ seqs[src] + n \in Nat
  BY <1>2, <1>3
<1>5. rest \in Seq(Writes)
  <2>1. \A i \in n + 1 .. Len(wire[src]) : wire[src][i] \in Writes
    <3> TAKE i \in n + 1 .. Len(wire[src])
    <3>1. i \in 1 .. Len(wire[src])
      BY <1>3, <1>4
    <3> QED
      BY <1>3, <3>1, ElementOfSeq
  <2>2. n + 1 \in Int /\ Len(wire[src]) \in Int
    BY <1>3, <1>4
  <2> QED
    BY <2>1, <2>2, SubSeqProperties
<1> HIDE DEF src, n, rest
<1>6. ASSUME NEW t \in Tabs
      PROVE  /\ queue[t] \o mine \in Seq(Updates) /\ queue[t] \o others \in Seq(Updates)
             /\ queue[t] \in Seq(Updates) /\ lane[t] \in Seq(Updates)
  <2>1. queue[t] \in Seq(Updates) /\ lane[t] \in Seq(Updates)
    BY TabTypes DEF Ind
  <2> QED
    BY <2>1, ConcatElements
<1>7. TypeOK'
  <2>1. queue' \in [Tabs -> Seq(Updates)]
    BY <1>1, <1>6
  <2>2. seqs' \in [Tabs -> Nat] /\ wire' \in [Tabs -> Seq(Writes)]
    BY <1>1, <1>4, <1>5 DEF Ind, TypeOK
  <2>3. txn' \in Transactions
    BY <1>1 DEF NoTransaction, Transactions
  <2> QED
    BY <1>1, <2>1, <2>2, <2>3 DEF Ind, TypeOK
<1>8. Docs'
  <2> SUFFICES ASSUME NEW x \in live
               PROVE  Doc(proj[x], InFlight(x)', wire'[x], seqs'[x], hist', version',
                          lost[x])
    BY <1>1 DEF Docs
  <2>1. x \in Tabs
    BY DEF Ind, TypeOK
  <2>2. /\ proj[x] \in Projections /\ wire[x] \in Seq(Writes) /\ seqs[x] \in Nat
        /\ InFlight(x) \in Seq(Updates) /\ hist \in Seq(Maps) /\ version \in Nat
        /\ Len(hist) = version /\ Len(wire[x]) \in Nat /\ lost[x] \in Nat
        /\ Doc(proj[x], InFlight(x), wire[x], seqs[x], hist, version, lost[x])
    BY <2>1, TabTypes, LenProperties DEF Ind, Docs
  <2>3. CASE x = src
    <3>1. queue'[x] = queue[x] \o mine /\ seqs'[x] = seqs[x] + n /\ wire'[x] = rest
      BY <1>1, <1>2, <2>1, <2>3 DEF Ind, TypeOK
    <3>2. InFlight(x)' = InFlight(x) \o mine
      <4>1. InFlight(x)' = lane[x] \o (queue[x] \o mine)
        BY <1>1, <3>1 DEF InFlight
      <4>2. lane[x] \in Seq(Updates) /\ queue[x] \in Seq(Updates)
        BY <1>6, <2>1
      <4>3. (lane[x] \o queue[x]) \o mine = lane[x] \o (queue[x] \o mine)
        <5> DEFINE l == lane[x]
                   q == queue[x]
        <5>1. l \in Seq(Updates) /\ q \in Seq(Updates) /\ mine \in Seq(Updates)
          BY <4>2
        <5> HIDE DEF l, q
        <5>2. (l \o q) \o mine = l \o (q \o mine)
          BY <5>1, ConcatAssociative, SMTT(30)
        <5> QED
          BY <5>2 DEF l, q
      <4> QED
        BY <4>1, <4>3 DEF InFlight
    <3>3. CarriesAcks(mine, seqs[x], seqs[x] + n) /\ n \in 0 .. Len(wire[x])
      BY <1>4, <2>3 DEF src, n
    <3>4. rest = SubSeq(wire[x], n + 1, Len(wire[x]))
      BY <2>3 DEF rest
    <3>5. version' \in Nat
      OBVIOUS
    <3>6. Doc(proj[x], InFlight(x) \o mine, SubSeq(wire[x], n + 1, Len(wire[x])),
              seqs[x] + n, hist', version', lost[x])
      BY <2>2, <3>3, <3>5, DocPublish
    <3> QED
      BY <3>1, <3>2, <3>4, <3>6
  <2>4. CASE x # src
    <3>1. queue'[x] = queue[x] \o others /\ seqs'[x] = seqs[x] /\ wire'[x] = wire[x]
      BY <1>1, <1>2, <2>1, <2>4 DEF Ind, TypeOK
    <3>2. InFlight(x)' = InFlight(x) \o others
      <4>1. InFlight(x)' = lane[x] \o (queue[x] \o others)
        BY <1>1, <3>1 DEF InFlight
      <4>2. lane[x] \in Seq(Updates) /\ queue[x] \in Seq(Updates)
        BY <1>6, <2>1
      <4>3. (lane[x] \o queue[x]) \o others = lane[x] \o (queue[x] \o others)
        <5> DEFINE l == lane[x]
                   q == queue[x]
        <5>1. l \in Seq(Updates) /\ q \in Seq(Updates) /\ others \in Seq(Updates)
          BY <4>2
        <5> HIDE DEF l, q
        <5>2. (l \o q) \o others = l \o (q \o others)
          BY <5>1, ConcatAssociative, SMTT(30)
        <5> QED
          BY <5>2 DEF l, q
      <4> QED
        BY <4>1, <4>3 DEF InFlight
    <3>3. CarriesAcks(others, seqs[x], seqs[x])
      BY <2>2, AcksOfForeign
    <3>4. seqs[x] + 0 = seqs[x] /\ 0 \in 0 .. Len(wire[x]) /\ 0 + 1 = 1 /\ version' \in Nat
      BY <2>2
    <3>5. SubSeq(wire[x], 1, Len(wire[x])) = wire[x]
      BY <2>2, SubSeqFull
    <3>6. CarriesAcks(others, seqs[x], seqs[x] + 0)
      BY <3>3, <3>4
    <3>7. Doc(proj[x], InFlight(x) \o others, SubSeq(wire[x], 0 + 1, Len(wire[x])),
              seqs[x] + 0, hist', version', lost[x])
      BY <2>2, <3>4, <3>6, DocPublish
    <3> QED
      BY <3>1, <3>2, <3>4, <3>5, <3>7
  <2> QED
    BY <2>3, <2>4
<1>9. TransactionConsistent'
  BY <1>1 DEF TransactionConsistent, Idle, NoTransaction
<1>10. RetiredIsEmpty'
  BY <1>1, <1>2 DEF Ind, RetiredIsEmpty, TypeOK
<1> QED
  BY <1>1, <1>7, <1>8, <1>9, <1>10 DEF Ind, FaultsAreEarly, Starting

(* Commit extends the history and tells every document of each version. *)
LEMMA CommitInd ==
    ASSUME Ind, Commit
    PROVE  Ind'
<1>1. /\ ~Idle /\ txn.done = txn.n /\ version' = txn.ver /\ hist' = hist \o txn.maps
      /\ Publish(txn.mine, txn.others)
  BY DEF Commit, Preflighted
<1>2. /\ hist' \in Seq(Maps) /\ Len(hist') = version' /\ version' \in Nat \ {0}
      /\ version <= version' /\ \A i \in 1 .. version : hist'[i] = hist[i]
  BY <1>1, TransactionHistory DEF Ind
<1>3. /\ CarriesChanges(txn.mine, hist', version, version')
      /\ CarriesChanges(txn.others, hist', version, version')
      /\ Len(txn.mine) = txn.n
      /\ \A i \in 1 .. txn.n : txn.mine[i].ack = seqs[txn.src] + i
      /\ \A i \in 1 .. Len(txn.others) : txn.others[i].ack = 0
                                          /\ txn.others[i].change # None
      /\ txn.src \in Tabs
  BY <1>1 DEF Ind, TransactionConsistent, TypeOK
<1>4. txn.mine \in Seq(Updates) /\ txn.others \in Seq(Updates) /\ seqs[txn.src] \in Nat
  BY <1>3 DEF Ind, TypeOK, Transactions
<1>5. CarriesAcks(txn.mine, seqs[txn.src], seqs[txn.src] + txn.n)
  <2>1. CarriesAcks(txn.mine, seqs[txn.src], seqs[txn.src] + Len(txn.mine))
    BY <1>3, <1>4, AcksOfRun
  <2> QED
    BY <1>3, <2>1
<1> DEFINE mine == txn.mine
           others == txn.others
<1>6. /\ mine \in Seq(Updates) /\ others \in Seq(Updates) /\ Publish(mine, others)
      /\ CarriesChanges(mine, hist', version, version')
      /\ CarriesChanges(others, hist', version, version')
      /\ CarriesAcks(mine, seqs[txn.src], seqs[txn.src] + txn.n)
      /\ \A i \in 1 .. Len(others) : others[i].ack = 0 /\ others[i].change # None
  BY <1>1, <1>3, <1>4, <1>5
<1> HIDE DEF mine, others
<1> QED
  BY <1>1, <1>2, <1>6, PublishInd

(* The acknowledgements of a refused batch. *)
LEMMA RejectionsRun ==
    ASSUME TypeOK, txn.src \in Tabs, txn.n \in Nat
    PROVE  /\ Rejections \in Seq(Updates) /\ Len(Rejections) = txn.n
           /\ CarriesChanges(Rejections, hist, version, version)
           /\ CarriesAcks(Rejections, seqs[txn.src], seqs[txn.src] + txn.n)
<1> DEFINE q == seqs[txn.src]
           n == txn.n
           told(i) == [ver |-> version, ack |-> q + i, change |-> None]
           us == [i \in 1 .. n |-> told(i)]
<1>1. q \in Nat /\ n \in Nat /\ version \in Nat
  BY DEF TypeOK
<1>2. Rejections = us
  BY DEF Rejections
<1> HIDE DEF q, n
<1>3. ASSUME NEW i \in 1 .. n PROVE told(i) \in Updates
  <2>1. q + i \in Nat
    BY <1>1
  <2> QED
    BY <1>1, <2>1 DEF Updates
<1>4. us \in Seq(Updates) /\ Len(us) = n
  <2>1. us \in [1 .. n -> Updates]
    BY <1>3
  <2>2. DOMAIN us = 1 .. n
    OBVIOUS
  <2> HIDE DEF us
  <2>3. us \in Seq(Updates)
    BY <1>1, <2>1, SeqDef
  <2> QED
    BY <1>1, <2>2, <2>3
<1>5. \A i \in 1 .. n : us[i].ver = version /\ us[i].ack = q + i /\ us[i].change = None
  OBVIOUS
<1> HIDE DEF us
<1>6. CarriesChanges(us, hist, version, version)
  BY <1>1, <1>4, <1>5 DEF CarriesChanges
<1>7. CarriesAcks(us, q, q + Len(us))
  BY <1>1, <1>4, <1>5, AcksOfRun
<1> QED
  BY <1>2, <1>4, <1>6, <1>7 DEF q, n

(* A rejected transaction acknowledges its writes and changes no map. *)
LEMMA RejectInd ==
    ASSUME Ind, Reject
    PROVE  Ind'
<1>1. /\ ~Idle /\ version' = version /\ hist' = hist /\ Publish(Rejections, <<>>)
  BY DEF Reject, Preflighted, authority
<1>2. txn.src \in Tabs /\ txn.n \in Nat
  <2>1. txn.src \in live /\ txn.n \in 1 .. Len(wire[txn.src])
    BY <1>1 DEF Ind, TransactionConsistent
  <2> QED
    BY <2>1 DEF Ind, TypeOK, Transactions
<1>3. /\ Rejections \in Seq(Updates)
      /\ CarriesChanges(Rejections, hist, version, version)
      /\ CarriesAcks(Rejections, seqs[txn.src], seqs[txn.src] + txn.n)
  BY <1>2, RejectionsRun DEF Ind
<1>4. /\ version \in Nat \ {0} /\ hist \in Seq(Maps) /\ Len(hist) = version
  BY DEF Ind, TypeOK
<1> DEFINE mine == Rejections
           others == <<>>
<1>5. /\ mine \in Seq(Updates) /\ others \in Seq(Updates) /\ Publish(mine, others)
      /\ CarriesChanges(mine, hist', version, version')
      /\ CarriesChanges(others, hist', version, version')
      /\ CarriesAcks(mine, seqs[txn.src], seqs[txn.src] + txn.n)
      /\ \A i \in 1 .. Len(others) : others[i].ack = 0 /\ others[i].change # None
  BY <1>1, <1>3, <1>4, ChangesEmpty, EmptySeq
<1>6. /\ version' \in Nat \ {0} /\ hist' \in Seq(Maps) /\ Len(hist') = version'
      /\ version <= version' /\ \A i \in 1 .. version : hist'[i] = hist[i]
  BY <1>1, <1>4
<1> HIDE DEF mine, others
<1> QED
  BY <1>1, <1>5, <1>6, PublishInd

(***************************************************************************)
(* The theorems.                                                           *)
(***************************************************************************)

(* Every step of the system keeps the inductive invariant. *)
LEMMA NextInd ==
    ASSUME Ind, [Next]_vars
    PROVE  Ind'
<1>1. CASE UNCHANGED vars
  <2>1. UNCHANGED <<version, hist, live, seqs, queue, loading, lost, lane, event, wire,
                    proj, txn, fault, loads>>
    BY <1>1 DEF vars, authority, endpoints, startup, renderers
  <2>2. TypeOK' /\ FaultsAreEarly' /\ Starting' /\ RetiredIsEmpty'
    BY <2>1 DEF Ind, TypeOK, FaultsAreEarly, Starting, RetiredIsEmpty
  <2>3. Docs' /\ TransactionConsistent'
    BY <2>1 DEF Ind, Docs, InFlight, TransactionConsistent, Idle
  <2> QED
    BY <2>2, <2>3 DEF Ind
<1>2. ASSUME NEW t \in Tabs, Subscribe(t) PROVE Ind'
  BY <1>2, SubscribeInd
<1>3. ASSUME NEW t \in Tabs, Retire(t) PROVE Ind'
  BY <1>3, RetireInd
<1>4. ASSUME NEW t \in Tabs, NEW op \in Operations, Write(t, op) PROVE Ind'
  BY <1>4, WriteInd
<1>5. ASSUME NEW t \in Tabs, Synchronize(t) PROVE Ind'
  BY <1>5, SynchronizeInd
<1>6. ASSUME NEW t \in Tabs, DispatchEvent(t) PROVE Ind'
  BY <1>6, DispatchEventInd
<1>7. ASSUME NEW t \in Tabs, Pump(t) PROVE Ind'
  BY <1>7, PumpInd
<1>8. ASSUME NEW t \in Tabs, NEW n \in 1 .. MaxBatch, BeginTransaction(t, n) PROVE Ind'
  BY <1>8, BeginTransactionInd
<1>9. CASE Preflight
  BY <1>9, PreflightInd
<1>10. CASE Defer
  BY <1>10, DeferInd
<1>11. CASE Commit
  BY <1>11, CommitInd
<1>12. CASE Reject
  BY <1>12, RejectInd
<1>13. ASSUME NEW t \in Tabs, Activate(t) \/ Drop(t) \/ RefuseEarly(t) PROVE Ind'
  BY <1>13, ActivateInd, DropInd, RefuseEarlyInd
<1> QED
  BY <1>1, <1>2, <1>3, <1>4, <1>5, <1>6, <1>7, <1>8, <1>9, <1>10, <1>11, <1>12, <1>13
     DEF Next

(* Ind is an invariant of the specification. *)
LEMMA SpecInd == Spec => []Ind
BY InitInd, NextInd, PTL DEF Spec

(* The state always has its type: in particular every projection's base    *)
(* and visible map stay well-formed maps.                                  *)
THEOREM TypeCorrect == Spec => []TypeOK
<1>1. Ind => TypeOK
  BY DEF Ind
<1> QED
  BY <1>1, SpecInd, PTL

(* A coordinator or projection check fails only for a document that lost a *)
(* change, or that a change met, before the child ran it: for any number   *)
(* of tabs, any quota and any queue length.                                *)
THEOREM FaultsOnlyEarly == Spec => []FaultsAreEarly
<1>1. Ind => FaultsAreEarly
  BY DEF Ind
<1> QED
  BY <1>1, SpecInd, PTL

(* What scripts see is always the known authoritative map under the        *)
(* document's own unacknowledged writes.                                   *)
THEOREM VisibleCorrect == Spec => []VisibleIsOverlay
<1>1. Ind => VisibleIsOverlay
  BY DocsIsInvariants DEF Ind
<1> QED
  BY <1>1, SpecInd, PTL

(* Every document's base is a map the authority really had. *)
THEOREM ReplicaCorrect == Spec => []ReplicaIsHistory
<1>1. Ind => ReplicaIsHistory
  BY DocsIsInvariants DEF Ind
<1> QED
  BY <1>1, SpecInd, PTL

(* No committed change is lost, duplicated or reordered on its way but for *)
(* those that the broker drops before the load: beyond these, the updates  *)
(* in flight are all that a subscribed document's base lacks.              *)
THEOREM ChangesDelivered == Spec => []OnlyEarlyChangesMissed
<1>1. Ind => OnlyEarlyChangesMissed
  BY DocsIsInvariants DEF Ind
<1> QED
  BY <1>1, SpecInd, PTL

(* Every write has exactly one acknowledgement on its way once taken. *)
THEOREM WritesAccounted == Spec => []EveryWriteAccounted
<1>1. Ind => EveryWriteAccounted
  BY DocsIsInvariants DEF Ind
<1> QED
  BY <1>1, SpecInd, PTL

(* A transaction in progress is consistent with the history it extends. *)
THEOREM TransactionCorrect == Spec => []TransactionConsistent
<1>1. Ind => TransactionConsistent
  BY DEF Ind
<1> QED
  BY <1>1, SpecInd, PTL

(* Nothing of a retired document survives in its tab. *)
THEOREM RetirementClean == Spec => []RetiredIsEmpty
<1>1. Ind => RetiredIsEmpty
  BY DEF Ind
<1> QED
  BY <1>1, SpecInd, PTL

(* A document with nothing on its way shows the authoritative map, or the  *)
(* map as many versions ago as changes were dropped before it ran.         *)
THEOREM QuiescentAgreement == Spec => []QuiescentReplicaAgrees
<1>1. Ind => QuiescentReplicaAgrees
  <2> SUFFICES ASSUME Ind, NEW t \in live, wire[t] = <<>>, InFlight(t) = <<>>
               PROVE  proj[t].visible = hist[version - lost[t]]
    BY DEF QuiescentReplicaAgrees
  <2> DEFINE p == proj[t]
  <2>1. /\ t \in Tabs /\ p \in Projections /\ seqs[t] \in Nat
        /\ version \in Nat \ {0} /\ hist \in Seq(Maps) /\ Len(hist) = version
        /\ lost[t] \in Nat
        /\ Doc(p, <<>>, <<>>, seqs[t], hist, version, lost[t])
    BY DEF Ind, TypeOK, Docs
  <2>2. /\ p.ver \in Nat /\ p.acked \in Nat /\ p.last \in Nat
        /\ p.pending \in Seq(Writes)
    BY <2>1 DEF Projections
  <2>3. /\ CarriesChanges(<<>>, hist, p.ver + lost[t], version)
        /\ CarriesAcks(<<>>, p.acked, seqs[t])
        /\ p.visible = Overlay(p.base, PendingOps(p)) /\ p.base = hist[p.ver]
        /\ Len(p.pending) = p.last - p.acked /\ 0 = p.last - seqs[t]
    BY <2>1 DEF Doc
  <2>4. p.ver + lost[t] = version /\ p.acked = seqs[t]
    BY <2>1, <2>2, <2>3, ChangesOfEmpty, AcksOfEmpty
  <2>8. version - lost[t] = p.ver
    BY <2>1, <2>2, <2>4
  <2>5. p.pending = <<>>
    <3>1. Len(p.pending) = 0
      BY <2>1, <2>2, <2>3, <2>4
    <3> QED
      BY <2>2, <3>1, EmptySeq
  <2>6. PendingOps(p) = <<>>
    BY <2>5 DEF PendingOps
  <2>7. p.base \in Maps
    BY <2>1 DEF Projections
  <2> QED
    BY <2>3, <2>6, <2>7, <2>8, OverlayEmpty
<1> QED
  BY <1>1, SpecInd, PTL

(* A publication fits the room that was reserved for it. *)
LEMMA PublishFits ==
    ASSUME Ind, Preflighted, HasCapacity, QueueIsBounded,
           NEW mine \in Seq(Updates), NEW others \in Seq(Updates),
           Publish(mine, others), Len(mine) <= Len(Reserved(txn.src)),
           \A t \in live : t # txn.src => Len(others) <= Len(Reserved(t)),
           Len(Reserved(txn.src)) \in Nat, \A t \in live : Len(Reserved(t)) \in Nat
    PROVE  QueueIsBounded'
<1> SUFFICES ASSUME NEW t \in Tabs PROVE Len(queue'[t]) <= MaxQueue
  BY DEF QueueIsBounded
<1>1. queue[t] \in Seq(Updates) /\ Len(queue[t]) \in Nat /\ MaxQueue \in Nat
  BY TabTypes, LenProperties, SyncAssumption DEF Ind
<1>2. queue'[t] = IF t \notin live THEN queue[t]
                  ELSE IF t = txn.src THEN queue[t] \o mine ELSE queue[t] \o others
  BY DEF Publish
<1>3. CASE t \notin live
  BY <1>2, <1>3 DEF QueueIsBounded
<1>4. CASE t \in live
  <2>1. Len(queue[t]) + Len(Reserved(t)) <= MaxQueue
    BY <1>4 DEF HasCapacity
  <2>2. /\ Len(queue[t] \o mine) = Len(queue[t]) + Len(mine) /\ Len(mine) \in Nat
        /\ Len(queue[t] \o others) = Len(queue[t]) + Len(others) /\ Len(others) \in Nat
    BY <1>1, ConcatElements
  <2>3. CASE t = txn.src
    <3>1. Len(mine) <= Len(Reserved(t)) /\ Len(Reserved(t)) \in Nat
      BY <2>3
    <3>2. queue'[t] = queue[t] \o mine
      BY <1>2, <1>4, <2>3
    <3> QED
      BY <1>1, <2>1, <2>2, <3>1, <3>2
  <2>4. CASE t # txn.src
    <3>1. Len(others) <= Len(Reserved(t)) /\ Len(Reserved(t)) \in Nat
      BY <1>4, <2>4
    <3> QED
      BY <1>1, <1>2, <1>4, <2>1, <2>2, <2>4, <3>1
  <2> QED
    BY <2>3, <2>4
<1> QED
  BY <1>3, <1>4

(* The lengths of the updates a transaction reserves room for. *)
LEMMA ReservedLengths ==
    ASSUME Ind, Preflighted
    PROVE  /\ Len(Reserved(txn.src)) = txn.n /\ txn.n \in Nat
           /\ \A t \in live : Len(Reserved(t)) \in Nat
           /\ txn.src \in Tabs /\ txn.src \in live
           /\ txn.mine \in Seq(Updates) /\ txn.others \in Seq(Updates)
           /\ Rejections \in Seq(Updates) /\ Len(Rejections) = txn.n
           /\ Len(<<>>) = 0
           /\ ~txn.rejected => Len(txn.mine) = txn.n
<1>1. /\ txn.src \in live /\ txn.src \in Tabs /\ Len(txn.mine) = txn.done
      /\ txn.rejected \/ txn.done = txn.n
  BY DEF Preflighted, Ind, TransactionConsistent, TypeOK
<1>2. txn.n \in Nat /\ txn.mine \in Seq(Updates) /\ txn.others \in Seq(Updates)
  BY DEF Ind, TypeOK, Transactions
<1>3. Rejections \in Seq(Updates) /\ Len(Rejections) = txn.n
  BY <1>1, <1>2, RejectionsRun DEF Ind
<1>4. Len(txn.others) \in Nat /\ Len(txn.mine) \in Nat /\ Len(<<>>) = 0
  BY <1>2, LenProperties
<1>5. Len(Reserved(txn.src)) = txn.n
  BY <1>1, <1>3 DEF Reserved
<1>6. \A t \in live : Len(Reserved(t)) \in Nat
  BY <1>2, <1>3, <1>4 DEF Reserved
<1> QED
  BY <1>1, <1>2, <1>3, <1>4, <1>5, <1>6

(* The recipient queue never outgrows its capacity. *)
THEOREM QueueBounded == Spec => []QueueIsBounded
<1>1. Init => QueueIsBounded
  BY SyncAssumption DEF Init, QueueIsBounded
<1>2. ASSUME Ind, QueueIsBounded, [Next]_vars PROVE QueueIsBounded'
  <2>1. CASE queue' = queue
    BY <1>2, <2>1 DEF QueueIsBounded
  <2>2. ASSUME NEW t \in Tabs, queue' = [queue EXCEPT ![t] = <<>>]
        PROVE  QueueIsBounded'
    <3>1. \A x \in Tabs : queue'[x] = <<>> \/ queue'[x] = queue[x]
      BY <1>2, <2>2 DEF Ind, TypeOK
    <3> QED
      BY <1>2, <3>1, SyncAssumption DEF QueueIsBounded
  <2>3. ASSUME NEW t \in Tabs, Pump(t) PROVE QueueIsBounded'
    <3> SUFFICES ASSUME NEW x \in Tabs PROVE Len(queue'[x]) <= MaxQueue
      BY DEF QueueIsBounded
    <3>1. CASE x = t
      <4>1. queue[t] \in Seq(Updates) /\ queue[t] # <<>> /\ queue'[t] = Tail(queue[t])
        BY <1>2, <2>3 DEF Pump, Ind, TypeOK
      <4>2. Len(queue'[t]) = Len(queue[t]) - 1 /\ Len(queue[t]) \in Nat
        BY <4>1, HeadTailProperties, LenProperties
      <4>3. Len(queue[t]) <= MaxQueue
        BY <1>2 DEF QueueIsBounded
      <4> QED
        BY <3>1, <4>2, <4>3, SyncAssumption
    <3>2. CASE x # t
      BY <1>2, <2>3, <3>2 DEF Pump, Ind, TypeOK, QueueIsBounded
    <3> QED
      BY <3>1, <3>2
  <2>4. CASE Commit
    <3>1. Preflighted /\ HasCapacity /\ ~txn.rejected /\ Publish(txn.mine, txn.others)
      BY <2>4 DEF Commit
    <3>2. /\ txn.mine \in Seq(Updates) /\ txn.others \in Seq(Updates)
          /\ Len(txn.mine) = txn.n /\ Len(Reserved(txn.src)) = txn.n /\ txn.n \in Nat
          /\ \A t \in live : Len(Reserved(t)) \in Nat
      BY <1>2, <3>1, ReservedLengths
    <3>3. \A t \in live : t # txn.src => Reserved(t) = txn.others
      BY <3>1 DEF Reserved
    <3> DEFINE mine == txn.mine
               others == txn.others
    <3>4. /\ mine \in Seq(Updates) /\ others \in Seq(Updates) /\ Publish(mine, others)
          /\ Len(mine) <= Len(Reserved(txn.src)) /\ Len(Reserved(txn.src)) \in Nat
          /\ \A t \in live : t # txn.src => Len(others) <= Len(Reserved(t))
      <4>1. Len(others) \in Nat
        BY <3>2, LenProperties
      <4> QED
        BY <3>1, <3>2, <3>3, <4>1
    <3> HIDE DEF mine, others
    <3> QED
      BY <1>2, <3>1, <3>2, <3>4, PublishFits
  <2>5. CASE Reject
    <3>1. Preflighted /\ HasCapacity /\ Publish(Rejections, <<>>)
      BY <2>5 DEF Reject
    <3>2. /\ Rejections \in Seq(Updates) /\ Len(Rejections) = txn.n
          /\ Len(Reserved(txn.src)) = txn.n /\ txn.n \in Nat
          /\ \A t \in live : Len(Reserved(t)) \in Nat
      BY <1>2, <3>1, ReservedLengths
    <3> DEFINE mine == Rejections
               others == <<>>
    <3>3. /\ mine \in Seq(Updates) /\ others \in Seq(Updates) /\ Publish(mine, others)
          /\ Len(mine) <= Len(Reserved(txn.src)) /\ Len(Reserved(txn.src)) \in Nat
          /\ \A t \in live : t # txn.src => Len(others) <= Len(Reserved(t))
      BY <3>1, <3>2, EmptySeq
    <3> HIDE DEF mine, others
    <3> QED
      BY <1>2, <3>1, <3>2, <3>3, PublishFits
  <2>6. CASE UNCHANGED vars
    BY <2>1, <2>6 DEF vars, endpoints
  <2>7. ASSUME NEW t \in Tabs, Subscribe(t) \/ Retire(t) PROVE QueueIsBounded'
    <3>1. queue' = [queue EXCEPT ![t] = <<>>]
      BY <2>7 DEF Subscribe, Retire
    <3> QED
      BY <2>2, <3>1
  <2>8. ASSUME NEW t \in Tabs,
               \/ \E op \in Operations : Write(t, op)
               \/ Synchronize(t) \/ DispatchEvent(t)
               \/ Activate(t) \/ Drop(t) \/ RefuseEarly(t)
               \/ \E n \in 1 .. MaxBatch : BeginTransaction(t, n)
        PROVE  QueueIsBounded'
    <3>1. queue' = queue
      BY <2>8 DEF Activate, Drop, RefuseEarly, Write, Synchronize, DispatchEvent, BeginTransaction, endpoints
    <3> QED
      BY <2>1, <3>1
  <2>9. CASE Preflight \/ Defer
    BY <2>1, <2>9 DEF Preflight, Defer, endpoints
  <2> QED
    BY <1>2, <2>3, <2>4, <2>5, <2>6, <2>7, <2>8, <2>9 DEF Next
<1> QED
  BY <1>1, <1>2, SpecInd, PTL DEF Spec

(* The named parts of StorageInvariant hold together in every reachable    *)
(* state.                                                                  *)
THEOREM StorageSound == Spec => []StorageInvariant
<1>1. (TypeOK /\ VisibleIsOverlay /\ TransactionConsistent /\ QueueIsBounded
        /\ RetiredIsEmpty) => StorageInvariant
  BY DEF StorageInvariant
<1>. QED
  BY <1>1, TypeCorrect, VisibleCorrect, TransactionCorrect, QueueBounded,
     RetirementClean, PTL

(* While a document lives its base and its acknowledgements only move      *)
(* forward, and never past what the coordinator has taken.                 *)
THEOREM ForwardOnly == Spec => ProjectionMovesForward
<1> DEFINE Forward(t) == /\ proj[t].ver <= proj'[t].ver
                         /\ proj[t].acked <= proj'[t].acked
                         /\ proj'[t].acked <= seqs'[t]
<1>1. ASSUME Ind, Ind', [Next]_vars
      PROVE  [\A t \in live \cap live' : Forward(t)]_vars
  <2> SUFFICES ASSUME Next, NEW t \in live \cap live' PROVE Forward(t)
    BY <1>1
  <2>1. t \in Tabs /\ proj[t] \in Projections /\ proj'[t] \in Projections
    BY <1>1 DEF Ind, TypeOK
  <2>2. /\ proj[t].ver \in Nat /\ proj[t].acked \in Nat
        /\ proj'[t].ver \in Nat /\ proj'[t].acked \in Nat
    BY <2>1 DEF Projections
  <2>3. proj'[t].acked <= seqs'[t]
    BY <1>1 DEF Ind, Docs, Doc, CarriesAcks
  <2>4. CASE proj'[t].ver = proj[t].ver /\ proj'[t].acked = proj[t].acked
    BY <2>2, <2>3, <2>4
  <2>5. CASE proj'[t] = proj[t]
    BY <2>2, <2>3, <2>5
  <2>6. ASSUME NEW x \in Tabs, Subscribe(x) PROVE Forward(t)
    <3>1. t # x
      BY <2>6 DEF Subscribe
    <3>2. proj'[t] = proj[t]
      BY <1>1, <2>1, <2>6, <3>1 DEF Subscribe, Ind, TypeOK
    <3> QED
      BY <2>5, <3>2
  <2>7. ASSUME NEW x \in Tabs, NEW op \in Operations, Write(x, op) PROVE Forward(t)
    <3>1. CASE t # x
      <4>1. proj'[t] = proj[t]
        BY <1>1, <2>1, <2>7, <3>1 DEF Write, Ind, TypeOK
      <4> QED
        BY <2>5, <4>1
    <3>2. CASE t = x
      <4> DEFINE p == proj[t]
                 write == [seq |-> p.last + 1, op |-> op]
                 q == [p EXCEPT !.visible = ApplyMap(p.visible, op),
                                !.pending = Append(p.pending, write),
                                !.last = write.seq]
      <4>1. proj' = [proj EXCEPT ![t] = q]
        BY <2>7, <3>2 DEF Write
      <4>2. q.ver = p.ver /\ q.acked = p.acked
        BY <2>1, WriteFields
      <4> HIDE DEF q
      <4>3. proj'[t] = q
        BY <1>1, <2>1, <4>1 DEF Ind, TypeOK
      <4> QED
        BY <2>4, <4>2, <4>3
    <3> QED
      BY <3>1, <3>2
  <2>8. ASSUME NEW x \in Tabs, Synchronize(x) PROVE Forward(t)
    <3>1. CASE t # x
      <4>1. proj'[t] = proj[t]
        BY <1>1, <2>1, <2>8, <3>1 DEF Synchronize, Ind, TypeOK
      <4> QED
        BY <2>5, <4>1
    <3>2. CASE t = x
      <4> DEFINE p == proj[t]
                 u == Head(lane[t])
      <4>1. CASE ~UpdateIsValid(p, u)
        <5>1. proj'[t] = proj[t]
          BY <2>8, <3>2, <4>1 DEF Synchronize
        <5> QED
          BY <2>5, <5>1
      <4>2. CASE UpdateIsValid(p, u)
        <5>1. proj' = [proj EXCEPT ![t] = ApplyUpdate(p, u)]
          BY <2>8, <3>2, <4>2 DEF Synchronize
        <5>2. proj'[t] = ApplyUpdate(p, u)
          BY <1>1, <2>1, <5>1 DEF Ind, TypeOK
        <5>3. u.ver = p.ver \/ u.ver = p.ver + 1
          BY <4>2 DEF UpdateIsValid
        <5>4. u.ack # 0 => u.ack = p.acked + 1
          BY <4>2 DEF UpdateIsValid
        <5> HIDE DEF u
        <5>5. /\ ApplyUpdate(p, u).ver = u.ver
              /\ ApplyUpdate(p, u).acked = IF u.ack = 0 THEN p.acked ELSE u.ack
          BY <2>1 DEF ApplyUpdate, Projections
        <5> QED
          BY <2>2, <2>3, <5>2, <5>3, <5>4, <5>5
      <4> QED
        BY <4>1, <4>2
    <3> QED
      BY <3>1, <3>2
  <2>9. ASSUME NEW x \in Tabs,
               \/ Retire(x) \/ DispatchEvent(x) \/ Pump(x)
               \/ Activate(x) \/ Drop(x) \/ RefuseEarly(x)
               \/ \E n \in 1 .. MaxBatch : BeginTransaction(x, n)
        PROVE  Forward(t)
    <3>1. proj' = proj
      BY <2>9 DEF Retire, DispatchEvent, Pump, Activate, Drop, RefuseEarly,
                  BeginTransaction, renderers
    <3> QED
      BY <2>5, <3>1
  <2>10. CASE Preflight \/ Defer \/ Commit \/ Reject
    <3>1. proj' = proj
      BY <2>10 DEF Preflight, Defer, Commit, Reject, Publish, renderers
    <3> QED
      BY <2>5, <3>1
  <2> QED
    BY <2>6, <2>7, <2>8, <2>9, <2>10 DEF Next
<1> QED
  BY <1>1, SpecInd, PTL DEF Spec, ProjectionMovesForward

(***************************************************************************)
(* StorageSync implements SharedMap, for every number of tabs, keys and    *)
(* values and every bound.                                                 *)
(***************************************************************************)

(* Both modules build on StorageArea and mean the same by its operators. *)
LEMMA SameArea ==
    ASSUME NEW m, NEW op, NEW os
    PROVE  /\ Shared!ApplyMap(m, op) = ApplyMap(m, op)
           /\ Shared!OperationChanges(m, op) = OperationChanges(m, op)
           /\ Shared!WithinQuota(m, op) = WithinQuota(m, op)
           /\ Shared!Overlay(m, os) = Overlay(m, os)
           /\ Shared!EmptyMap = EmptyMap /\ Shared!Operations = Operations
<1>1. Shared!EmptyMap = EmptyMap
  BY DEF EmptyMap, Shared!EmptyMap
<1>2. Shared!Operations = Operations
  BY DEF Operations, Shared!Operations
<1>3. ASSUME NEW n PROVE Shared!OperationChanges(n, op) = OperationChanges(n, op)
  BY DEF OperationChanges, Shared!OperationChanges
<1>4. ASSUME NEW n PROVE Shared!ApplyMap(n, op) = ApplyMap(n, op)
  BY <1>1 DEF ApplyMap, Shared!ApplyMap
<1>5. Shared!Overlay(m, os) = Overlay(m, os)
  BY Zenon DEF Overlay, Shared!Overlay, TouchedIn, Shared!TouchedIn, Touches, Shared!Touches
<1>6. ASSUME NEW n PROVE Shared!EntryCount(n) = EntryCount(n)
  BY Zenon DEF EntryCount, Shared!EntryCount, Cardinality, Shared!Cardinality
<1>7. ASSUME NEW n PROVE Shared!ByteLen(n) = ByteLen(n)
  BY Zenon DEF ByteLen, Shared!ByteLen, MapThenSumSet, Shared!MapThenSumSet, MapThenFoldSet, Shared!MapThenFoldSet
<1>8. Shared!WithinQuota(m, op) = WithinQuota(m, op)
  BY <1>3, <1>4, <1>6, <1>7 DEF WithinQuota, Shared!WithinQuota
<1> QED
  BY <1>1, <1>2, <1>3, <1>4, <1>5, <1>8

(***************************************************************************)
(* Why the writes of a transaction had the effect that its updates tell.   *)
(***************************************************************************)

(* The version reached when the first i of the writes have been looked at. *)
Reached(mine, from, i) == IF i = 0 THEN from ELSE mine[i].ver

(* Each of the writes w that the updates mine answer was within the quota, *)
(* and the history h and its answer tell whether it changed the map.       *)
Explains(mine, w, h, from) ==
    \A i \in 1 .. Len(mine) :
        LET before == h[Reached(mine, from, i - 1)]
        IN  /\ WithinQuota(before, w[i].op)
            /\ IF OperationChanges(before, w[i].op)
               THEN /\ mine[i].change # None
                    /\ mine[i].ver = Reached(mine, from, i - 1) + 1
                    /\ h[mine[i].ver] = ApplyMap(before, w[i].op)
               ELSE /\ mine[i].change = None
                    /\ mine[i].ver = Reached(mine, from, i - 1)

Explained ==
    ~Idle =>
        /\ Explains(txn.mine, wire[txn.src], hist \o txn.maps, version)
        /\ Reached(txn.mine, version, txn.done) = txn.ver

(* A new transaction has answered nothing, and one more write is answered  *)
(* from the map that the writes before it left.                            *)
LEMMA ExplainedStep ==
    ASSUME Ind, Ind', Explained, Preflight
    PROVE  Explained'
<1> DEFINE t == txn.src
           w == wire[t]
           mine == txn.mine
           d == txn.done
           h == hist \o txn.maps
           v == txn.ver
           write == w[d + 1]
           op == write.op
           change == ChangeBefore(Working, op)
           after == ApplyMap(Working, op)
           told == [ver |-> v + 1, ack |-> write.seq, change |-> change]
           heard == [ver |-> v + 1, ack |-> 0, change |-> change]
           noted == [ver |-> v, ack |-> write.seq, change |-> None]
<1>1. /\ ~Idle /\ ~txn.rejected /\ d < txn.n
      /\ UNCHANGED <<version, hist, live, seqs, queue, loading, lost, lane, event, wire,
                     proj, fault, loads>>
      /\ txn' = IF ~WithinQuota(Working, op) THEN [txn EXCEPT !.rejected = TRUE]
                ELSE IF OperationChanges(Working, op)
                THEN [txn EXCEPT
                        !.done = d + 1, !.ver = v + 1,
                        !.maps = Append(txn.maps, after),
                        !.mine = Append(mine, told),
                        !.others = Append(txn.others, heard)]
                ELSE [txn EXCEPT !.done = d + 1, !.mine = Append(mine, noted)]
  BY DEF Preflight, authority, endpoints, startup, renderers
<1>2. /\ h \in Seq(Maps) /\ Len(h) = v /\ v \in Nat \ {0} /\ version <= v
      /\ txn.maps \in Seq(Maps) /\ Working = h[v] /\ Working \in Maps
  BY <1>1, TransactionHistory DEF Ind
<1>3. /\ op \in Operations /\ t \in Tabs /\ d \in Nat /\ seqs[t] \in Nat
      /\ write.seq = seqs[t] + (d + 1)
  BY <1>1, NextWrite
<1>4. /\ Len(mine) = d /\ mine \in Seq(Updates) /\ hist \in Seq(Maps)
      /\ version \in Nat \ {0} /\ CarriesChanges(mine, h, version, v)
      /\ txn \in Transactions
  BY <1>1 DEF Ind, TypeOK, TransactionConsistent, Transactions
<1>5. Explains(mine, w, h, version) /\ Reached(mine, version, d) = v
  BY <1>1 DEF Explained
<1>6. \A i \in 1 .. d : mine[i].ver \in 1 .. v
  <2> SUFFICES ASSUME NEW i \in 1 .. d PROVE mine[i].ver \in 1 .. v
    OBVIOUS
  <2>1. mine[i].ver \in version .. v \/ mine[i].ver \in version + 1 .. v
    BY <1>4 DEF CarriesChanges
  <2> QED
    BY <1>4, <2>1
<1>7. ASSUME NEW m, NEW g, NEW a \in Seq(Updates), a = Append(mine, m), m \in Updates,
             \A i \in 1 .. v : g[i] = h[i],
             WithinQuota(h[v], op),
             IF OperationChanges(h[v], op)
             THEN m.change # None /\ m.ver = v + 1 /\ g[v + 1] = ApplyMap(h[v], op)
             ELSE m.change = None /\ m.ver = v
      PROVE  Explains(a, w, g, version) /\ Reached(a, version, d + 1) = m.ver
  <2>1. /\ Len(a) = d + 1 /\ \A i \in 1 .. d : a[i] = mine[i]
        /\ a[d + 1] = m
    BY <1>4, <1>7, AppendProperties
  <2>2. \A i \in 0 .. d : Reached(a, version, i) = Reached(mine, version, i)
    BY <2>1 DEF Reached
  <2>3. \A i \in 0 .. d : Reached(mine, version, i) \in 1 .. v
    BY <1>2, <1>4, <1>6 DEF Reached
  <2>4. Reached(a, version, d + 1) = m.ver
    BY <1>3, <2>1 DEF Reached
  <2>5. ASSUME NEW i \in 1 .. d + 1
        PROVE  LET before == g[Reached(a, version, i - 1)]
               IN  /\ WithinQuota(before, w[i].op)
                   /\ IF OperationChanges(before, w[i].op)
                      THEN /\ a[i].change # None
                           /\ a[i].ver = Reached(a, version, i - 1) + 1
                           /\ g[a[i].ver] = ApplyMap(before, w[i].op)
                      ELSE /\ a[i].change = None
                           /\ a[i].ver = Reached(a, version, i - 1)
    <3>1. CASE i = d + 1
      <4>1. i - 1 = d /\ d \in 0 .. d
        BY <1>3, <3>1
      <4>2. Reached(a, version, i - 1) = v /\ a[i] = m /\ w[i].op = op
        BY <1>5, <2>1, <2>2, <3>1, <4>1
      <4>3. g[v] = h[v]
        BY <1>2, <1>7, SMTT(30)
      <4> QED
        BY <1>7, <4>2, <4>3
    <3>2. CASE i \in 1 .. d
      <4>1. i - 1 \in 0 .. d /\ a[i] = mine[i]
        BY <1>3, <2>1, <3>2
      <4>2. Reached(a, version, i - 1) = Reached(mine, version, i - 1)
        BY <2>2, <4>1
      <4>3. g[Reached(mine, version, i - 1)] = h[Reached(mine, version, i - 1)]
        BY <1>7, <2>3, <4>1
      <4>4. g[mine[i].ver] = h[mine[i].ver]
        BY <1>6, <1>7, <3>2
      <4>5. i \in 1 .. Len(mine)
        BY <1>4, <3>2
      <4> QED
        BY <1>5, <4>1, <4>2, <4>3, <4>4, <4>5 DEF Explains
    <3> QED
      BY <1>3, <3>1, <3>2
  <2> QED
    BY <2>1, <2>4, <2>5 DEF Explains
<1> HIDE DEF told, noted, heard, after, h
<1>8. CASE ~WithinQuota(Working, op)
  <2>1. /\ txn'.src = t /\ txn'.maps = txn.maps /\ txn'.mine = mine
        /\ txn'.done = d /\ txn'.ver = v
    BY <1>1, <1>4, <1>8 DEF Transactions
  <2> QED
    BY <1>1, <1>5, <2>1 DEF Explained, h
<1>9. CASE WithinQuota(Working, op) /\ OperationChanges(Working, op)
  <2>1. /\ txn'.src = t /\ txn'.maps = Append(txn.maps, after)
        /\ txn'.mine = Append(mine, told) /\ txn'.done = d + 1 /\ txn'.ver = v + 1
    BY <1>1, <1>4, <1>9 DEF Transactions
  <2>2. change \in Changes /\ change # None /\ after \in Maps
    BY <1>2, <1>3, ChangeBeforeType, ChangeIsSome, ApplyMapType DEF after
  <2>3. told \in Updates /\ told.change = change /\ told.ver = v + 1
    BY <1>2, <1>3, <2>2 DEF told, Updates
  <2>4. Append(mine, told) \in Seq(Updates)
    BY <1>4, <2>3, AppendProperties
  <2> DEFINE g == hist \o Append(txn.maps, after)
  <2>5. /\ \A i \in 1 .. v : g[i] = h[i]
        /\ g[v + 1] = after
    <3>1. g = Append(h, after)
      BY <1>2, <1>4, <2>2 DEF h
    <3> QED
      BY <1>2, <2>2, <3>1, AppendProperties
  <2> HIDE DEF g
  <2>6. g[v + 1] = ApplyMap(h[v], op)
    BY <1>2, <2>5 DEF after
  <2>7. /\ WithinQuota(h[v], op) /\ OperationChanges(h[v], op)
    BY <1>2, <1>9
  <2>8. /\ Explains(Append(mine, told), w, g, version)
        /\ Reached(Append(mine, told), version, d + 1) = told.ver
    BY <1>7, <2>2, <2>3, <2>4, <2>5, <2>6, <2>7
  <2> QED
    BY <1>1, <2>1, <2>3, <2>8 DEF Explained, g
<1>10. CASE WithinQuota(Working, op) /\ ~OperationChanges(Working, op)
  <2>1. /\ txn'.src = t /\ txn'.maps = txn.maps
        /\ txn'.mine = Append(mine, noted) /\ txn'.done = d + 1 /\ txn'.ver = v
    BY <1>1, <1>4, <1>10 DEF Transactions
  <2>2. noted \in Updates /\ noted.change = None /\ noted.ver = v
    BY <1>2, <1>3 DEF noted, Updates
  <2>3. Append(mine, noted) \in Seq(Updates)
    BY <1>4, <2>2, AppendProperties
  <2>4. /\ WithinQuota(h[v], op) /\ ~OperationChanges(h[v], op)
    BY <1>2, <1>10
  <2>5. /\ Explains(Append(mine, noted), w, h, version)
        /\ Reached(Append(mine, noted), version, d + 1) = noted.ver
    BY <1>7, <2>2, <2>3, <2>4
  <2> QED
    BY <1>1, <2>1, <2>2, <2>5 DEF Explained, h
<1> QED
  BY <1>8, <1>9, <1>10

(* The step of another action keeps the writes that have been answered. *)
LEMMA ExplainedNext ==
    ASSUME Ind, Ind', Explained, [Next]_vars
    PROVE  Explained'
<1>1. CASE UNCHANGED <<txn, hist, version, wire>>
  BY <1>1 DEF Explained, Idle
<1>2. CASE Idle /\ UNCHANGED txn
  BY <1>2 DEF Explained, Idle
<1>3. CASE txn' = NoTransaction
  BY <1>3 DEF Explained, Idle, NoTransaction
<1>4. ASSUME NEW t \in Tabs, NEW op \in Operations, Write(t, op)
      PROVE  Explained'
  <2> SUFFICES ASSUME ~Idle PROVE Explained'
    BY <1>4 DEF Explained, Idle, Write
  <2> DEFINE s == txn.src
             write == [seq |-> proj[t].last + 1, op |-> op]
  <2>1. /\ UNCHANGED <<txn, hist, version>>
        /\ wire' = [wire EXCEPT ![t] = Append(wire[t], write)]
    BY <1>4 DEF Write, authority
  <2>2. /\ s \in Tabs /\ wire[s] \in Seq(Writes) /\ Len(txn.mine) = txn.done
        /\ txn.done \in Nat /\ txn.n \in Nat /\ Len(wire[s]) \in Nat
        /\ txn.done <= Len(wire[s]) /\ wire \in [Tabs -> Seq(Writes)]
    <3>1. /\ s \in live /\ txn.n \in 1 .. Len(wire[s]) /\ txn.done \in 0 .. txn.n
          /\ Len(txn.mine) = txn.done
      BY DEF Ind, TransactionConsistent
    <3>2. s \in Tabs /\ wire[s] \in Seq(Writes) /\ wire \in [Tabs -> Seq(Writes)]
      BY <3>1 DEF Ind, TypeOK
    <3>3. Len(wire[s]) \in Nat
      BY <3>2, LenProperties
    <3> QED
      BY <3>1, <3>2, <3>3
  <2>3. write \in Writes
    BY TabTypes DEF Ind, Writes, Projections
  <2> HIDE DEF write
  <2>4. \A i \in 1 .. Len(txn.mine) : wire'[s][i] = wire[s][i]
    <3>1. CASE s = t
      <4>1. wire'[s] = Append(wire[s], write)
        BY <2>1, <2>2, <3>1
      <4>2. \A i \in 1 .. Len(wire[s]) : Append(wire[s], write)[i] = wire[s][i]
        BY <2>2, <2>3, AppendProperties
      <4> QED
        BY <2>2, <4>1, <4>2
    <3>2. CASE s # t
      BY <2>1, <2>2, <3>2
    <3> QED
      BY <3>1, <3>2
  <2>5. Explains(txn.mine, wire[s], hist \o txn.maps, version)
    BY DEF Explained
  <2>6. Explains(txn.mine, wire'[s], hist \o txn.maps, version)
    BY <2>4, <2>5 DEF Explains
  <2> QED
    BY <2>1, <2>6 DEF Explained
<1>5. ASSUME NEW t \in Tabs, NEW n \in 1 .. MaxBatch, BeginTransaction(t, n)
      PROVE  Explained'
  <2>1. CASE UNCHANGED txn
    BY <1>2, <1>5, <2>1 DEF BeginTransaction
  <2>2. CASE txn' = [NoTransaction EXCEPT !.src = t, !.n = n, !.ver = version]
    <3>1. /\ txn'.mine = <<>> /\ txn'.done = 0 /\ txn'.ver = version
          /\ UNCHANGED version
      BY <1>5, <2>2 DEF NoTransaction, BeginTransaction, authority
    <3>2. Len(<<>>) = 0
      OBVIOUS
    <3> QED
      BY <3>1, <3>2 DEF Explained, Explains, Reached
  <2> QED
    BY <1>5, <2>1, <2>2 DEF BeginTransaction
<1>6. ASSUME NEW t \in Tabs, Subscribe(t) \/ Retire(t) \/ Pump(t)
      PROVE  Explained'
  BY <1>2, <1>6 DEF Subscribe, Retire, Pump
<1>7. ASSUME NEW t \in Tabs,
             \/ Synchronize(t) \/ DispatchEvent(t)
             \/ Activate(t) \/ Drop(t) \/ RefuseEarly(t)
      PROVE  Explained'
  BY <1>1, <1>7 DEF Synchronize, DispatchEvent, Activate, Drop, RefuseEarly,
                    authority, renderers
<1>8. CASE Preflight
  BY <1>8, ExplainedStep
<1>9. CASE Defer \/ Commit \/ Reject
  BY <1>3, <1>9 DEF Defer, Commit, Reject, Publish
<1>10. CASE UNCHANGED vars
  BY <1>1, <1>10 DEF vars, authority, renderers
<1> QED
  BY <1>4, <1>5, <1>6, <1>7, <1>8, <1>9, <1>10 DEF Next

(***************************************************************************)
(* What became of a write.                                                 *)
(***************************************************************************)

(* What an answer says of the write. *)
Says(u) == IF u.change = None THEN 0 ELSE u.ver

(* Outcome, of the updates us in flight and the last sequence q taken. *)
Fate(us, q, s) ==
    IF s > q THEN -1 ELSE Says(us[CHOOSE i \in 1 .. Len(us) : us[i].ack = s])

Own(p, us, q) ==
    [i \in 1 .. Len(p.pending) |->
        [op |-> p.pending[i].op, made |-> Fate(us, q, p.pending[i].seq)]]

(* The mapping is written with Outcome. *)
LEMMA OwnWritesIsOwn ==
    ASSUME NEW t
    PROVE  OwnWrites(t) = IF t \notin live THEN <<>> ELSE Own(proj[t], InFlight(t), seqs[t])
  BY DEF OwnWrites, Own, Outcome, Fate, Says

(* A write is answered once, so any answer to it is the one chosen. *)
LEMMA FateIs ==
    ASSUME NEW us \in Seq(Updates), NEW from \in Nat, NEW q \in Nat,
           CarriesAcks(us, from, q), NEW i \in 1 .. Len(us), NEW s, s = us[i].ack, s # 0
    PROVE  Fate(us, q, s) = Says(us[i])
<1> DEFINE c == CHOOSE j \in 1 .. Len(us) : us[j].ack = s
<1>1. c \in 1 .. Len(us) /\ us[c].ack = s
  OBVIOUS
<1>2. s \in from + 1 .. q
  BY DEF CarriesAcks
<1>3. c = i
  <2>1. c \in Nat /\ i \in Nat
    BY <1>1
  <2>2. s \in Nat /\ ~(s < s)
    BY <1>2
  <2>3. ~(c < i) /\ ~(i < c)
    BY <1>1, <2>2 DEF CarriesAcks
  <2> QED
    BY <2>1, <2>3
<1>4. ~(s > q)
  BY <1>2
<1>5. Fate(us, q, s) = Says(us[c])
  BY <1>4 DEF Fate
<1> QED
  BY <1>3, <1>5

(* A write that has been taken is answered. *)
LEMMA Answered ==
    ASSUME NEW us \in Seq(Updates), NEW from \in Nat, NEW q \in Nat,
           CarriesAcks(us, from, q), NEW s \in from + 1 .. q
    PROVE  \E i \in 1 .. Len(us) : us[i].ack = s /\ s # 0
<1>1. \E i \in 1 .. Len(us) : us[i].ack = s
  BY DEF CarriesAcks
<1>2. s # 0
  OBVIOUS
<1> QED
  BY <1>1, <1>2

(* What became of a write that both sequences answer alike. *)
LEMMA FateStays ==
    ASSUME NEW us \in Seq(Updates), NEW from \in Nat, NEW q \in Nat, CarriesAcks(us, from, q),
           NEW vs \in Seq(Updates), NEW at \in Nat, NEW r \in Nat, CarriesAcks(vs, at, r),
           NEW i \in 1 .. Len(us), NEW j \in 1 .. Len(vs), us[i] = vs[j],
           NEW s, s = us[i].ack, s # 0
    PROVE  Fate(us, q, s) = Fate(vs, r, s)
<1>1. Fate(us, q, s) = Says(us[i])
  BY FateIs, SMTT(30)
<1>2. Fate(vs, r, s) = Says(vs[j])
  BY FateIs
<1> QED
  BY <1>1, <1>2

(* More updates do not change what became of a write that was answered. *)
LEMMA FateAppended ==
    ASSUME NEW us \in Seq(Updates), NEW vs \in Seq(Updates), NEW from \in Nat, NEW q \in Nat,
           CarriesAcks(us, from, q), NEW r \in Nat, CarriesAcks(us \o vs, from, r),
           NEW s \in from + 1 .. q
    PROVE  Fate(us \o vs, r, s) = Fate(us, q, s)
<1> DEFINE c == us \o vs
<1>1. /\ c \in Seq(Updates) /\ Len(c) = Len(us) + Len(vs) /\ Len(us) \in Nat /\ Len(vs) \in Nat
      /\ \A i \in 1 .. Len(us) : c[i] = us[i]
  BY ConcatElements
<1>2. PICK i \in 1 .. Len(us) : us[i].ack = s /\ s # 0
  BY Answered
<1>3. CarriesAcks(c, from, r)
  OBVIOUS
<1> HIDE DEF c
<1>4. i \in 1 .. Len(c) /\ us[i] = c[i]
  BY <1>1
<1>5. Fate(us, q, s) = Fate(c, r, s)
  <2>1. Fate(us, q, s) = Says(us[i])
    BY <1>2, FateIs
  <2>2. c \in Seq(Updates) /\ i \in 1 .. Len(c) /\ c[i].ack = s /\ s # 0
    BY <1>1, <1>2, <1>4
  <2>3. Fate(c, r, s) = Says(c[i])
    BY <1>3, <2>2, FateIs
  <2> QED
    BY <1>4, <2>1, <2>3
<1> QED
  BY <1>5 DEF c

(* What the appended updates answer. *)
LEMMA FateOfAppended ==
    ASSUME NEW us \in Seq(Updates), NEW vs \in Seq(Updates), NEW from \in Nat, NEW r \in Nat,
           CarriesAcks(us \o vs, from, r), NEW k \in 1 .. Len(vs), vs[k].ack # 0
    PROVE  Fate(us \o vs, r, vs[k].ack) = Says(vs[k])
<1> DEFINE c == us \o vs
           i == Len(us) + k
<1>1. /\ c \in Seq(Updates) /\ Len(c) = Len(us) + Len(vs) /\ Len(us) \in Nat /\ Len(vs) \in Nat
      /\ c[i] = vs[k]
  BY ConcatElements
<1>2. i \in 1 .. Len(c)
  BY <1>1
<1>3. CarriesAcks(c, from, r)
  OBVIOUS
<1> DEFINE s == vs[k].ack
<1>5. s # 0
  OBVIOUS
<1> HIDE DEF c, i
<1>4. Fate(c, r, s) = Says(c[i])
  <2>1. c \in Seq(Updates) /\ i \in 1 .. Len(c) /\ c[i].ack = s /\ s # 0
    BY <1>1, <1>2
  <2> HIDE DEF s
  <2> QED
    BY <1>3, <2>1, FateIs
<1> QED
  BY <1>1, <1>4 DEF c

(* An update that leaves takes no other answer with it. *)
LEMMA FateOfTail ==
    ASSUME NEW us \in Seq(Updates), us # <<>>, NEW from \in Nat, NEW q \in Nat,
           CarriesAcks(us, from, q), NEW at \in Nat, CarriesAcks(Tail(us), at, q),
           NEW s \in at + 1 .. q
    PROVE  Fate(Tail(us), q, s) = Fate(us, q, s)
<1> DEFINE c == Tail(us)
<1>1. /\ c \in Seq(Updates) /\ Len(c) = Len(us) - 1 /\ Len(us) \in Nat \ {0}
      /\ \A i \in 1 .. Len(us) - 1 : c[i] = us[i + 1]
  BY EmptySeq, HeadTailProperties
<1>2. CarriesAcks(c, at, q)
  OBVIOUS
<1> HIDE DEF c
<1>3. PICK i \in 1 .. Len(c) : c[i].ack = s /\ s # 0
  BY <1>1, <1>2, Answered
<1> DEFINE j == i + 1
<1>4. j \in 1 .. Len(us) /\ us[j] = c[i]
  BY <1>1
<1> HIDE DEF j
<1>5. s = us[j].ack
  BY <1>3, <1>4
<1>6. Fate(us, q, s) = Fate(c, q, s)
  BY <1>1, <1>2, <1>3, <1>4, <1>5, FateStays, SMTT(30)
<1> QED
  BY <1>6 DEF c

(* What Own holds. *)
LEMMA OwnShape ==
    ASSUME NEW p \in Projections, NEW us, NEW q
    PROVE  /\ Len(Own(p, us, q)) = Len(p.pending) /\ Len(p.pending) \in Nat
           /\ \E S : Own(p, us, q) \in Seq(S)
           /\ \A i \in 1 .. Len(p.pending) :
                 /\ Own(p, us, q)[i].op = p.pending[i].op
                 /\ Own(p, us, q)[i].made = Fate(us, q, p.pending[i].seq)
                 /\ Own(p, us, q)[i]
                      = [op |-> p.pending[i].op, made |-> Fate(us, q, p.pending[i].seq)]
           /\ Shared!Ops(Own(p, us, q)) = PendingOps(p)
<1> DEFINE n == Len(p.pending)
           o == Own(p, us, q)
           S == {[op |-> p.pending[i].op, made |-> Fate(us, q, p.pending[i].seq)] : i \in 1 .. n}
<1>1. n \in Nat
  BY PendingOpsType
<1>2. o \in [1 .. n -> S] /\ DOMAIN o = 1 .. n
  BY DEF Own
<1>3. \A i \in 1 .. n :
         o[i] = [op |-> p.pending[i].op, made |-> Fate(us, q, p.pending[i].seq)]
  BY DEF Own
<1> HIDE DEF S, o, n
<1>4. o \in Seq(S) /\ Len(o) = n
  <2>1. o \in Seq(S)
    BY <1>1, <1>2, SeqDef
  <2> QED
    BY <1>1, <1>2, <2>1, LenProperties
<1>5. \A i \in 1 .. n : o[i].op = p.pending[i].op /\ o[i].made = Fate(us, q, p.pending[i].seq)
  <2> TAKE i \in 1 .. n
  <2> DEFINE f == Fate(us, q, p.pending[i].seq)
  <2>1. o[i] = [op |-> p.pending[i].op, made |-> f]
    BY <1>3
  <2> HIDE DEF f
  <2>2. o[i].op = p.pending[i].op /\ o[i].made = f
    BY <2>1
  <2> QED
    BY <2>2 DEF f
<1>6. Shared!Ops(o) = PendingOps(p)
  <2>1. Shared!Ops(o) = [i \in 1 .. n |-> o[i].op]
    BY <1>4 DEF Shared!Ops
  <2>2. PendingOps(p) = [i \in 1 .. n |-> p.pending[i].op]
    BY DEF PendingOps, n
  <2> QED
    BY <1>5, <2>1, <2>2
<1>7. \E T : o \in Seq(T)
  BY <1>4
<1> QED
  BY <1>1, <1>3, <1>4, <1>5, <1>6, <1>7 DEF o, n

(* The operations a document has not seen decided are those of its journal. *)
LEMMA OwnOps ==
    ASSUME NEW p \in Projections, NEW us, NEW q
    PROVE  Shared!Ops(Own(p, us, q)) = PendingOps(p)
  BY OwnShape

(* And each is as decided as its write. *)
LEMMA OwnMade ==
    ASSUME NEW p \in Projections, NEW us, NEW q, NEW i \in 1 .. Len(p.pending)
    PROVE  Own(p, us, q)[i].made = Fate(us, q, p.pending[i].seq)
  BY OwnShape

(* A document's journal is numbered from its last acknowledgement. *)
Journal(p) == \A i \in 1 .. Len(p.pending) : p.pending[i].seq = p.acked + i

(* A new write awaits its decision. *)
LEMMA OwnWrite ==
    ASSUME NEW p \in Projections, NEW r \in Projections, NEW us, NEW s \in Nat,
           NEW write \in Writes, r.pending = Append(p.pending, write), write.seq > s
    PROVE  Own(r, us, s) = Append(Own(p, us, s), [op |-> write.op, made |-> -1])
<1> DEFINE o == Own(p, us, s)
           e == [op |-> write.op, made |-> -1]
           n == Len(p.pending)
<1>1. p.pending \in Seq(Writes) /\ n \in Nat
  BY PendingOpsType DEF Projections
<1>2. /\ Len(r.pending) = n + 1 /\ r.pending[n + 1] = write
      /\ \A i \in 1 .. n : r.pending[i] = p.pending[i]
  BY <1>1, AppendProperties
<1>3. Len(o) = n /\ \A i \in 1 .. n : o[i] = [op |-> p.pending[i].op, made |-> Fate(us, s, p.pending[i].seq)]
  BY OwnShape
<1>4. PICK S : o \in Seq(S)
  BY OwnShape
<1> HIDE DEF n
<1>5. Fate(us, s, write.seq) = -1
  BY DEF Fate
<1>6. Own(r, us, s) = [i \in 1 .. n + 1 |->
                         [op |-> r.pending[i].op, made |-> Fate(us, s, r.pending[i].seq)]]
  BY <1>2 DEF Own
<1> DEFINE T == S \cup {e}
           a == Append(o, e)
<1>7. o \in Seq(T) /\ e \in T
  <2>1. o \in [1 .. n -> T]
    BY <1>3, <1>4, LenProperties
  <2> QED
    BY <1>1, <2>1, SeqDef
<1> HIDE DEF T, o, e
<1>8. /\ DOMAIN a = 1 .. n + 1 /\ a = [i \in 1 .. n + 1 |-> a[i]]
      /\ a[n + 1] = e /\ \A i \in 1 .. n : a[i] = o[i]
  <2>1. a \in Seq(T) /\ Len(a) = n + 1 /\ a[n + 1] = e /\ \A i \in 1 .. n : a[i] = o[i]
    BY <1>3, <1>7, AppendProperties
  <2> HIDE DEF a
  <2> QED
    BY <2>1, LenProperties
<1> HIDE DEF a
<1>9. ASSUME NEW i \in 1 .. n + 1
      PROVE  a[i] = [op |-> r.pending[i].op, made |-> Fate(us, s, r.pending[i].seq)]
  <2> DEFINE x == [op |-> r.pending[i].op, made |-> Fate(us, s, r.pending[i].seq)]
  <2>1. ASSUME i = n + 1 PROVE a[i] = x
    BY <1>2, <1>5, <1>8, <2>1 DEF e
  <2>2. ASSUME i \in 1 .. n PROVE a[i] = x
    BY <1>2, <1>3, <1>8, <2>2
  <2>3. i = n + 1 \/ i \in 1 .. n
    BY <1>1 DEF n
  <2> HIDE DEF x
  <2>4. a[i] = x
    BY <2>1, <2>2, <2>3
  <2> QED
    BY <2>4 DEF x
<1> QED
  BY <1>6, <1>8, <1>9 DEF a, e, o

(* Another document's change leaves the answers to one's own writes. *)
LEMMA OwnLearn ==
    ASSUME NEW p \in Projections, NEW r \in Projections,
           r.pending = p.pending, r.acked = p.acked, Journal(p),
           NEW us \in Seq(Updates), us # <<>>, NEW s \in Nat,
           CarriesAcks(us, p.acked, s), CarriesAcks(Tail(us), p.acked, s)
    PROVE  Own(r, Tail(us), s) = Own(p, us, s)
<1> DEFINE n == Len(p.pending)
<1>1. n \in Nat /\ p.acked \in Nat
  BY PendingOpsType DEF Projections
<1>2. ASSUME NEW i \in 1 .. n
      PROVE  Fate(Tail(us), s, p.pending[i].seq) = Fate(us, s, p.pending[i].seq)
  <2> DEFINE q == p.pending[i].seq
  <2>1. q = p.acked + i
    BY DEF Journal
  <2> HIDE DEF q
  <2>2. Fate(Tail(us), s, q) = Fate(us, s, q)
    <3>1. CASE q > s
      BY <3>1 DEF Fate
    <3>2. CASE ~(q > s)
      <4>1. q \in p.acked + 1 .. s
        BY <1>1, <2>1, <3>2
      <4> QED
        BY <1>1, <4>1, FateOfTail
    <3> QED
      BY <3>1, <3>2
  <2> QED
    BY <2>2 DEF q
<1> QED
  BY <1>2 DEF Own

(* An acknowledgement takes the oldest write out of the journal. *)
LEMMA OwnConfirm ==
    ASSUME NEW p \in Projections, NEW r \in Projections, p.pending # <<>>,
           r.pending = Tail(p.pending), r.acked = p.acked + 1, Journal(p),
           NEW us \in Seq(Updates), us # <<>>, NEW s \in Nat,
           CarriesAcks(us, p.acked, s), CarriesAcks(Tail(us), p.acked + 1, s)
    PROVE  Own(r, Tail(us), s) = Tail(Own(p, us, s))
<1> DEFINE n == Len(p.pending)
           o == Own(p, us, s)
           a == Tail(o)
<1>1. n \in Nat /\ p.acked \in Nat /\ p.pending \in Seq(Writes)
  BY PendingOpsType DEF Projections
<1>2. /\ n \in Nat \ {0} /\ Len(r.pending) = n - 1
      /\ \A i \in 1 .. n - 1 : r.pending[i] = p.pending[i + 1]
  BY <1>1, EmptySeq, HeadTailProperties
<1>3. Len(o) = n /\ \A i \in 1 .. n : o[i] = [op |-> p.pending[i].op, made |-> Fate(us, s, p.pending[i].seq)]
  BY OwnShape
<1>4. PICK S : o \in Seq(S)
  BY OwnShape
<1>5. \A i \in 1 .. n : p.pending[i].seq = p.acked + i
  BY DEF Journal
<1> HIDE DEF n, o
<1>6. a = [i \in 1 .. n - 1 |-> a[i]] /\ \A i \in 1 .. n - 1 : a[i] = o[i + 1]
  <2>1. o # <<>>
    BY <1>2, <1>3, <1>4, EmptySeq
  <2>2. a \in Seq(S) /\ Len(a) = n - 1 /\ \A i \in 1 .. n - 1 : a[i] = o[i + 1]
    BY <1>3, <1>4, <2>1, HeadTailProperties
  <2> HIDE DEF a
  <2> QED
    BY <2>2, LenProperties
<1> HIDE DEF a
<1>7. ASSUME NEW i \in 1 .. n - 1
      PROVE  a[i] = [op |-> r.pending[i].op, made |-> Fate(Tail(us), s, r.pending[i].seq)]
  <2> DEFINE q == p.pending[i + 1].seq
  <2>1. i + 1 \in 1 .. n
    BY <1>2
  <2>2. q = (p.acked + 1) + i
    <3>1. q = p.acked + (i + 1)
      BY <1>5, <2>1
    <3> HIDE DEF q
    <3> QED
      BY <1>1, <3>1
  <2>3. a[i] = [op |-> p.pending[i + 1].op, made |-> Fate(us, s, q)]
    BY <1>3, <1>6, <2>1
  <2>4. r.pending[i] = p.pending[i + 1]
    BY <1>2
  <2> HIDE DEF q
  <2>5. Fate(Tail(us), s, q) = Fate(us, s, q)
    <3>1. CASE q > s
      BY <3>1 DEF Fate
    <3>2. CASE ~(q > s)
      <4>1. q \in (p.acked + 1) + 1 .. s /\ p.acked + 1 \in Nat
        BY <1>1, <2>2, <3>2
      <4> QED
        BY <1>1, <4>1, FateOfTail
    <3> QED
      BY <3>1, <3>2
  <2> QED
    BY <2>3, <2>4, <2>5 DEF q
<1> QED
  BY <1>2, <1>6, <1>7 DEF Own, a, o

(* Updates that answer nothing leave a document's own writes as they are. *)
LEMMA OwnForeign ==
    ASSUME NEW p \in Projections, Journal(p),
           NEW us \in Seq(Updates), NEW vs \in Seq(Updates), NEW s \in Nat,
           CarriesAcks(us, p.acked, s), CarriesAcks(us \o vs, p.acked, s)
    PROVE  Own(p, us \o vs, s) = Own(p, us, s)
<1> DEFINE n == Len(p.pending)
<1>1. n \in Nat /\ p.acked \in Nat
  BY PendingOpsType DEF Projections
<1>2. ASSUME NEW i \in 1 .. n
      PROVE  Fate(us \o vs, s, p.pending[i].seq) = Fate(us, s, p.pending[i].seq)
  <2> DEFINE q == p.pending[i].seq
  <2>1. q = p.acked + i
    BY DEF Journal
  <2> HIDE DEF q
  <2>2. Fate(us \o vs, s, q) = Fate(us, s, q)
    <3>1. CASE q > s
      BY <3>1 DEF Fate
    <3>2. CASE ~(q > s)
      <4>1. q \in p.acked + 1 .. s
        BY <1>1, <2>1, <3>2
      <4> QED
        BY <1>1, <4>1, FateAppended
    <3> QED
      BY <3>1, <3>2
  <2> QED
    BY <2>2 DEF q
<1> QED
  BY <1>2 DEF Own

(* The n operations of os after the first d, answered by the updates vs. *)
Decided(os, d, n, vs) ==
    [i \in 1 .. Len(os) |-> IF i - d \in 1 .. n
                            THEN [op |-> os[i].op, made |-> Says(vs[i - d])]
                            ELSE os[i]]

(* The answers to a batch decide the operations that follow those taken. *)
LEMMA OwnDecided ==
    ASSUME NEW p \in Projections, Journal(p),
           NEW us \in Seq(Updates), NEW vs \in Seq(Updates), NEW s \in Nat, NEW n \in Nat,
           CarriesAcks(us, p.acked, s), CarriesAcks(us \o vs, p.acked, s + n),
           Len(vs) = n, \A k \in 1 .. n : vs[k].ack = s + k
    PROVE  Own(p, us \o vs, s + n) = Decided(Own(p, us, s), s - p.acked, n, vs)
<1> DEFINE l == Len(p.pending)
           o == Own(p, us, s)
           d == s - p.acked
           c == us \o vs
<1>1. /\ Len(o) = l
      /\ \A i \in 1 .. l : o[i] = [op |-> p.pending[i].op, made |-> Fate(us, s, p.pending[i].seq)]
  <2>1. Len(o) = l
    BY OwnShape
  <2>2. \A i \in 1 .. l :
           o[i] = [op |-> p.pending[i].op, made |-> Fate(us, s, p.pending[i].seq)]
    BY DEF Own
  <2> QED
    BY <2>1, <2>2
<1>2. l \in Nat /\ p.acked \in Nat /\ p.acked <= s
  BY PendingOpsType DEF Projections, CarriesAcks
<1>3. \A i \in 1 .. l : o[i].op = p.pending[i].op
  <2> TAKE i \in 1 .. l
  <2> DEFINE f == Fate(us, s, p.pending[i].seq)
  <2>1. o[i] = [op |-> p.pending[i].op, made |-> f]
    BY <1>1
  <2> HIDE DEF f, o
  <2> QED
    BY <2>1
<1>4. CarriesAcks(c, p.acked, s + n)
  OBVIOUS
<1>5. ASSUME NEW i \in 1 .. l
      PROVE  [op |-> p.pending[i].op, made |-> Fate(c, s + n, p.pending[i].seq)]
               = IF i - d \in 1 .. n THEN [op |-> o[i].op, made |-> Says(vs[i - d])] ELSE o[i]
  <2> DEFINE q == p.pending[i].seq
             k == i - d
             b == p.acked
  <2>1. q = b + i
    BY DEF Journal
  <2>2. o[i] = [op |-> p.pending[i].op, made |-> Fate(us, s, q)] /\ o[i].op = p.pending[i].op
    BY <1>1, <1>3
  <2>3. k = i - (s - b) /\ b \in Nat /\ b <= s /\ i \in Nat \ {0}
    BY <1>2
  <2> HIDE DEF q, k, o, d, c, b
  <2>4. CASE k \in 1 .. n
    <3>1. q = s + k /\ q # 0
      BY <2>1, <2>3, <2>4
    <3>2. q = vs[k].ack /\ k \in 1 .. Len(vs) /\ q # 0
      BY <2>4, <3>1
    <3>3. Fate(us \o vs, s + n, q) = Says(vs[k])
      <4>1. s + n \in Nat
        OBVIOUS
      <4> DEFINE r == s + n
      <4>2. r \in Nat /\ CarriesAcks(us \o vs, p.acked, r)
        BY <4>1
      <4> HIDE DEF r
      <4>3. Fate(us \o vs, r, q) = Says(vs[k])
        <5>1. /\ us \in Seq(Updates) /\ vs \in Seq(Updates) /\ r \in Nat
              /\ b \in Nat /\ CarriesAcks(us \o vs, b, r)
              /\ k \in 1 .. Len(vs) /\ vs[k].ack # 0
          BY <2>3, <3>2, <4>2 DEF b
        <5>2. Fate(us \o vs, r, vs[k].ack) = Says(vs[k])
          BY <5>1, FateOfAppended, ZenonT(30)
        <5> QED
          BY <3>2, <5>2
      <4> QED
        BY <4>3 DEF r
    <3> QED
      BY <2>2, <2>4, <3>3 DEF c, k, q
  <2>5. CASE ~(k \in 1 .. n)
    <3>1. Fate(c, s + n, q) = Fate(us, s, q)
      <4> DEFINE r == s + n
      <4>1. r \in Nat /\ CarriesAcks(us \o vs, p.acked, r)
        OBVIOUS
      <4>2. (q > s /\ q > r) \/ q \in b + 1 .. s
        BY <2>1, <2>3, <2>5
      <4> HIDE DEF r
      <4>3. ASSUME q > s, q > r PROVE Fate(c, r, q) = Fate(us, s, q)
        BY <4>3 DEF Fate
      <4>4. ASSUME q \in b + 1 .. s PROVE Fate(c, r, q) = Fate(us, s, q)
        BY <1>2, <4>1, <4>4, FateAppended DEF b, c
      <4> QED
        BY <4>2, <4>3, <4>4 DEF r
    <3> QED
      BY <2>2, <2>5, <3>1 DEF k, q
  <2> QED
    BY <2>4, <2>5
<1>6. Own(p, c, s + n) = [i \in 1 .. l |->
         [op |-> p.pending[i].op, made |-> Fate(c, s + n, p.pending[i].seq)]]
  BY DEF Own
<1> HIDE DEF o, d, c, l
<1>7. Decided(o, d, n, vs) = [i \in 1 .. l |->
         IF i - d \in 1 .. n THEN [op |-> o[i].op, made |-> Says(vs[i - d])] ELSE o[i]]
  BY <1>1 DEF Decided
<1>8. Own(p, c, s + n) = Decided(o, d, n, vs)
  BY <1>5, <1>6, <1>7, ZenonT(30)
<1> QED
  BY <1>8 DEF c, o, d

(***************************************************************************)
(* The state of the shared map that a state of the system stands for.      *)
(***************************************************************************)
At == [t \in Tabs |-> proj[t].ver]
Owns == [t \in Tabs |-> OwnWrites(t)]
View == [t \in Tabs |-> proj[t].visible]

(* The operations of a document, before and after a step. *)
LEMMA OwnsOf ==
    ASSUME NEW t
    PROVE  /\ t \in live => OwnWrites(t) = Own(proj[t], InFlight(t), seqs[t])
           /\ t \in live' => OwnWrites(t)' = Own(proj'[t], InFlight(t)', seqs'[t])
           /\ t \notin live => OwnWrites(t) = <<>>
           /\ t \notin live' => OwnWrites(t)' = <<>>
  BY DEF OwnWrites, Own, Outcome, Fate, Says

(* A step that a document takes no part in leaves its operations. *)
LEMMA OwnsFrame ==
    ASSUME NEW t, t \in live <=> t \in live', proj'[t] = proj[t],
           InFlight(t)' = InFlight(t), seqs'[t] = seqs[t]
    PROVE  OwnWrites(t)' = OwnWrites(t)
  BY OwnsOf

(* A step of one document. *)
LEMMA MapsOne ==
    ASSUME NEW t \in Tabs, \A u \in Tabs \ {t} : proj'[u] = proj[u]
    PROVE  /\ At' = [At EXCEPT ![t] = proj'[t].ver]
           /\ View' = [View EXCEPT ![t] = proj'[t].visible]
  BY DEF At, View

(* A step of one document changes its own writes only. *)
LEMMA OwnsOne ==
    ASSUME NEW t \in Tabs, \A u \in Tabs \ {t} : OwnWrites(u)' = OwnWrites(u)
    PROVE  Owns' = [Owns EXCEPT ![t] = OwnWrites(t)']
  BY DEF Owns

(* A step in which no document changes. *)
LEMMA Stutters ==
    ASSUME UNCHANGED <<hist, live, proj>>, \A u \in Tabs : OwnWrites(u)' = OwnWrites(u)
    PROVE  UNCHANGED Shared!vars
<1>1. At' = At /\ View' = View
  BY DEF At, View
<1>2. Owns' = Owns
  BY DEF Owns
<1> QED
  BY <1>1, <1>2 DEF Shared!vars, At, View, Owns

(* A document that subscribes opens the map at its newest version. *)
LEMMA SubscribeOpens ==
    ASSUME Ind, NEW t \in Tabs, Subscribe(t)
    PROVE  Shared!Open(t)
<1>1. /\ t \notin live /\ live' = live \cup {t}
      /\ proj' = [proj EXCEPT ![t] = FromSnapshot(version, local)]
      /\ seqs' = [seqs EXCEPT ![t] = 0]
      /\ UNCHANGED <<version, hist, lane>>
      /\ queue' = [queue EXCEPT ![t] = <<>>]
  BY DEF Subscribe, authority
<1>2. /\ proj \in [Tabs -> Projections] /\ seqs \in [Tabs -> Nat]
      /\ queue \in [Tabs -> Seq(Updates)] /\ Len(hist) = version
  BY DEF Ind, TypeOK
<1>3. /\ proj'[t] = FromSnapshot(version, local)
      /\ \A u \in Tabs \ {t} : proj'[u] = proj[u]
  BY <1>1, <1>2
<1>4. ASSUME NEW u \in Tabs \ {t} PROVE OwnWrites(u)' = OwnWrites(u)
  <2>1. seqs'[u] = seqs[u] /\ InFlight(u)' = InFlight(u)
    BY <1>1, <1>2 DEF InFlight
  <2>2. u \in live <=> u \in live'
    BY <1>1
  <2> QED
    BY <1>3, <2>1, <2>2, OwnsFrame
<1>5. OwnWrites(t)' = <<>> /\ OwnWrites(t) = <<>>
  <2>1. OwnWrites(t)' = Own(proj'[t], InFlight(t)', seqs'[t]) /\ OwnWrites(t) = <<>>
    BY <1>1, OwnsOf
  <2>2. proj'[t].pending = <<>>
    BY <1>3 DEF FromSnapshot
  <2> QED
    BY <2>1, <2>2 DEF Own
<1>6. Owns' = Owns
  BY <1>4, <1>5 DEF Owns
<1>7. At' = [At EXCEPT ![t] = Len(hist)]
  BY <1>2, <1>3, MapsOne DEF FromSnapshot
<1>8. View' = [View EXCEPT ![t] = hist[Len(hist)]]
  BY <1>2, <1>3, MapsOne DEF FromSnapshot, local
<1> QED
  BY <1>1, <1>6, <1>7, <1>8 DEF Shared!Open, At, View, Owns

(* A retired document closes, whatever was on its way to or from it. *)
LEMMA RetireCloses ==
    ASSUME Ind, NEW t \in Tabs, Retire(t)
    PROVE  Shared!Close(t)
<1>1. /\ t \in live /\ live' = live \ {t}
      /\ UNCHANGED <<version, hist, seqs, proj>>
      /\ queue' = [queue EXCEPT ![t] = <<>>]
      /\ lane' = [lane EXCEPT ![t] = <<>>]
  BY DEF Retire, authority
<1>2. /\ lane \in [Tabs -> Seq(Updates)] /\ queue \in [Tabs -> Seq(Updates)]
  BY DEF Ind, TypeOK
<1>3. ASSUME NEW u \in Tabs \ {t} PROVE OwnWrites(u)' = OwnWrites(u)
  <2>1. seqs'[u] = seqs[u] /\ proj'[u] = proj[u] /\ InFlight(u)' = InFlight(u)
    BY <1>1, <1>2 DEF InFlight
  <2>2. u \in live <=> u \in live'
    BY <1>1
  <2> QED
    BY <2>1, <2>2, OwnsFrame
<1>4. OwnWrites(t)' = <<>>
  BY <1>1, OwnsOf
<1>5. Owns' = [Owns EXCEPT ![t] = <<>>]
  BY <1>3, <1>4, OwnsOne
<1>6. At' = At /\ View' = View
  BY <1>1 DEF At, View
<1> QED
  BY <1>1, <1>5, <1>6 DEF Shared!Close, At, View, Owns

(* A write that a document accepts is an operation it issues. *)
LEMMA WriteIssues ==
    ASSUME Ind, NEW t \in Tabs, NEW op \in Operations, Write(t, op)
    PROVE  Shared!Issue(t, op)
<1> DEFINE p == proj[t]
           write == [seq |-> p.last + 1, op |-> op]
           q == [p EXCEPT !.visible = ApplyMap(p.visible, op),
                          !.pending = Append(p.pending, write),
                          !.last = write.seq]
<1>1. /\ t \in live
      /\ proj' = [proj EXCEPT ![t] = q]
      /\ UNCHANGED <<version, hist, live, seqs, queue, lane>>
  BY DEF Write, authority, endpoints
<1>2. /\ p \in Projections /\ wire[t] \in Seq(Writes) /\ seqs[t] \in Nat
      /\ Doc(p, InFlight(t), wire[t], seqs[t], hist, version, lost[t])
  BY <1>1, TabTypes DEF Ind, Docs
<1>3. /\ write \in Writes /\ write.seq = p.last + 1 /\ write.op = op
      /\ q \in Projections
      /\ q.ver = p.ver /\ q.visible = ApplyMap(p.visible, op)
      /\ q.pending = Append(p.pending, write)
  BY <1>2, WriteFields
<1>4. write.seq > seqs[t]
  <2> DEFINE n == Len(wire[t])
             l == p.last
             s == seqs[t]
  <2>1. n = l - s /\ n \in Nat /\ l \in Nat /\ s \in Nat
    BY <1>2, LenProperties DEF Doc, Projections
  <2>2. write.seq = l + 1
    BY <1>3
  <2> HIDE DEF n, l, s, write
  <2>3. write.seq > s
    BY <2>1, <2>2
  <2> QED
    BY <2>3 DEF s
<1>5. /\ proj'[t] = q /\ \A u \in Tabs \ {t} : proj'[u] = proj[u]
  BY <1>1 DEF Ind, TypeOK
<1>6. InFlight(t)' = InFlight(t) /\ seqs'[t] = seqs[t] /\ t \in live'
  BY <1>1 DEF InFlight
<1> HIDE DEF write, q
<1>7. OwnWrites(t)' = Append(OwnWrites(t), [op |-> op, made |-> -1])
  <2>1. /\ OwnWrites(t) = Own(p, InFlight(t), seqs[t])
        /\ OwnWrites(t)' = Own(q, InFlight(t), seqs[t])
    BY <1>1, <1>5, <1>6, OwnsOf DEF p
  <2> DEFINE us == InFlight(t)
             s == seqs[t]
  <2>2. s \in Nat /\ write.seq > s /\ p \in Projections
    BY <1>2, <1>4
  <2> HIDE DEF us, s, p
  <2>3. Own(q, us, s) = Append(Own(p, us, s), [op |-> write.op, made |-> -1])
    BY <1>3, <2>2, OwnWrite
  <2> QED
    BY <1>3, <2>1, <2>3 DEF us, s
<1>8. ASSUME NEW u \in Tabs \ {t} PROVE OwnWrites(u)' = OwnWrites(u)
  <2>1. seqs'[u] = seqs[u] /\ InFlight(u)' = InFlight(u) /\ (u \in live <=> u \in live')
    BY <1>1 DEF InFlight
  <2> QED
    BY <1>5, <2>1, OwnsFrame
<1>9. Owns' = [Owns EXCEPT ![t] = Append(Owns[t], [op |-> op, made |-> -1])]
  <2>1. Owns' = [Owns EXCEPT ![t] = OwnWrites(t)']
    BY <1>8, OwnsOne
  <2>2. Owns[t] = OwnWrites(t)
    BY DEF Owns
  <2> QED
    BY <1>7, <2>1, <2>2
<1>10. At' = At
  <2>1. \A u \in Tabs : proj'[u].ver = proj[u].ver
    BY <1>3, <1>5 DEF p
  <2> QED
    BY <2>1 DEF At
<1>11. View' = [View EXCEPT ![t] = Shared!ApplyMap(View[t], op)]
  <2>1. View' = [View EXCEPT ![t] = proj'[t].visible]
    BY <1>5, MapsOne
  <2>2. Shared!ApplyMap(View[t], op) = ApplyMap(p.visible, op)
    BY SameArea DEF View, p
  <2> QED
    BY <1>3, <1>5, <2>1, <2>2
<1> QED
  BY <1>1, <1>9, <1>10, <1>11 DEF Shared!Issue, Shared!Undecided, At, View, Owns

(* What a document has issued was not decided by the next version, when    *)
(* another document made that one.                                         *)
LEMMA ForeignVersion ==
    ASSUME NEW p \in Projections, Journal(p), NEW us \in Seq(Updates), us # <<>>,
           Head(us).ack = 0, Head(us).ver = p.ver + 1, NEW s \in Nat,
           CarriesAcks(us, p.acked, s), NEW h, NEW v, CarriesChanges(us, h, p.ver, v),
           NEW i \in 1 .. Len(p.pending)
    PROVE  Fate(us, s, p.pending[i].seq) # p.ver + 1
<1> DEFINE q == p.pending[i].seq
           w == p.ver
           b == p.acked
<1>1. q = b + i /\ b \in Nat /\ w \in Nat /\ i \in Nat \ {0}
  BY PendingOpsType DEF Journal, Projections
<1>2. CarriesAcks(us, b, s) /\ CarriesChanges(us, h, w, v)
  OBVIOUS
<1>3. us[1].ack = 0 /\ us[1].ver = w + 1 /\ Len(us) \in Nat /\ 1 \in 1 .. Len(us)
  BY EmptySeq, HeadTailProperties
<1> HIDE DEF q, w, b
<1>4. CASE q > s
  <2>1. Fate(us, s, q) = -1
    BY <1>4 DEF Fate
  <2>2. Fate(us, s, q) # w + 1
    BY <1>1, <2>1
  <2> QED
    BY <2>2 DEF q, w
<1>5. CASE ~(q > s)
  <2>1. q \in b + 1 .. s
    BY <1>1, <1>5
  <2>2. PICK j \in 1 .. Len(us) : us[j].ack = q /\ q # 0
    <3>1. /\ us \in Seq(Updates) /\ b \in Nat /\ s \in Nat /\ CarriesAcks(us, b, s)
          /\ q \in b + 1 .. s
      BY <1>1, <1>2, <2>1
    <3> QED
      BY <3>1, Answered, SMTT(60)
  <2>3. Fate(us, s, q) = Says(us[j])
    BY <1>1, <1>2, <2>2, FateIs
  <2>4. 1 < j
    BY <1>3, <2>2
  <2>5. us[j].change # None => us[1].ver < us[j].ver
    BY <1>2, <1>3, <2>4 DEF CarriesChanges
  <2>6. us[j].ver \in Nat
    BY UpdateFields
  <2>7. Says(us[j]) # w + 1
    BY <1>1, <1>3, <2>5, <2>6 DEF Says
  <2> QED
    BY <2>3, <2>7 DEF q, w
<1> QED
  BY <1>4, <1>5

(* The oldest write is decided by its acknowledgement. *)
LEMMA OldestAnswered ==
    ASSUME NEW p \in Projections, Journal(p), p.pending # <<>>,
           NEW us \in Seq(Updates), us # <<>>, Head(us).ack = p.acked + 1, NEW s \in Nat,
           CarriesAcks(us, p.acked, s)
    PROVE  Fate(us, s, p.pending[1].seq) = Says(Head(us))
<1> DEFINE q == p.pending[1].seq
           b == p.acked
<1>1. b \in Nat /\ Len(p.pending) \in Nat \ {0}
  BY EmptySeq, LenProperties DEF Projections
<1>2. q = b + 1
  BY <1>1 DEF Journal
<1>3. us[1].ack = b + 1 /\ us[1] = Head(us) /\ Len(us) \in Nat /\ 1 \in 1 .. Len(us)
  BY EmptySeq, HeadTailProperties
<1>4. CarriesAcks(us, b, s)
  OBVIOUS
<1> HIDE DEF q, b
<1>5. us[1].ack = q /\ q # 0
  BY <1>1, <1>2, <1>3
<1>6. Fate(us, s, q) = Says(us[1])
  BY <1>1, <1>3, <1>4, <1>5, FateIs
<1> QED
  BY <1>3, <1>6 DEF q

(* A document that takes the update in its lane learns of a version or     *)
(* sees its oldest operation decided.                                      *)
LEMMA SynchronizeMoves ==
    ASSUME Ind, NEW t \in Tabs, Synchronize(t), lost[t] = 0
    PROVE  Shared!Learn(t) \/ Shared!Confirm(t)
<1> DEFINE p == proj[t]
           us == InFlight(t)
           rest == queue[t]
           s == seqs[t]
           u == Head(lane[t])
           r == ApplyUpdate(p, u)
<1>1. /\ t \in live /\ lane[t] # <<>>
      /\ lane' = [lane EXCEPT ![t] = <<>>]
      /\ UNCHANGED <<version, hist, live, seqs, queue>>
      /\ proj' = [proj EXCEPT ![t] = r]
  BY SynchronizeCases
<1>2. /\ p \in Projections /\ wire[t] \in Seq(Writes) /\ s \in Nat
      /\ us \in Seq(Updates) /\ hist \in Seq(Maps) /\ version \in Nat
      /\ Len(hist) = version
      /\ Doc(p, us, wire[t], s, hist, version, 0)
  BY <1>1, TabTypes DEF Ind, Docs
<1>3. us # <<>> /\ Head(us) = u /\ Tail(us) = rest /\ rest \in Seq(Updates)
  BY <1>1, TabTypes, LaneHead DEF Ind, InFlight
<1>4. Owns[t] = Own(p, us, s) /\ At[t] = p.ver
  BY <1>1, OwnsOf DEF Owns, At
<1>5. InFlight(t)' = rest
  <2>1. lane'[t] = <<>> /\ queue'[t] = rest
    BY <1>1 DEF Ind, TypeOK
  <2> QED
    BY <1>3, <2>1, ConcatEmptySeq DEF InFlight
<1>6. OwnWrites(t)' = Own(proj'[t], rest, s)
  BY <1>1, <1>5, OwnsOf
<1>7. /\ UpdateIsValid(p, u) /\ r \in Projections
      /\ Doc(r, rest, wire[t], s, hist, version, 0)
  <2> HIDE DEF p, us, s
  <2>1. /\ UpdateIsValid(p, Head(us)) /\ ApplyUpdate(p, Head(us)) \in Projections
        /\ Doc(ApplyUpdate(p, Head(us)), Tail(us), wire[t], s, hist, version, 0)
    BY <1>2, <1>3, DocSynchronize
  <2> QED
    BY <1>3, <2>1
<1>8. /\ proj'[t] = r /\ \A x \in Tabs \ {t} : proj'[x] = proj[x]
  <2>1. proj' = [proj EXCEPT ![t] = r]
    BY <1>1, <1>7
  <2> HIDE DEF r
  <2> QED
    BY <2>1 DEF Ind, TypeOK
<1>9. ASSUME NEW x \in Tabs \ {t} PROVE OwnWrites(x)' = OwnWrites(x)
  <2>1. seqs'[x] = seqs[x] /\ InFlight(x)' = InFlight(x) /\ (x \in live <=> x \in live')
    BY <1>1 DEF InFlight, Ind, TypeOK
  <2> QED
    BY <1>8, <2>1, OwnsFrame
<1>10. /\ Owns' = [Owns EXCEPT ![t] = Own(r, rest, s)]
       /\ At' = [At EXCEPT ![t] = r.ver] /\ View' = [View EXCEPT ![t] = r.visible]
  <2>1. Owns' = [Owns EXCEPT ![t] = OwnWrites(t)']
    BY <1>9, OwnsOne
  <2>2. At' = [At EXCEPT ![t] = proj'[t].ver] /\ View' = [View EXCEPT ![t] = proj'[t].visible]
    BY <1>8, MapsOne
  <2> QED
    BY <1>6, <1>8, <2>1, <2>2
<1>11. t \in live /\ UNCHANGED <<hist, live>>
  BY <1>1
<1> HIDE DEF p, us, rest, s, u
<1>12. /\ u \in Updates /\ u.ver \in Nat /\ u.ack \in Nat
       /\ (u.change # None => Operation(u.change) \in Operations)
       /\ (u.change = None => u.ver = p.ver)
       /\ (u.change # None => u.ver = p.ver + 1 /\ p.ver + 1 <= version)
  <2>1. u \in Updates
    BY <1>2, <1>3, HeadTailProperties
  <2>2. /\ CarriesChanges(us, hist, p.ver, version) /\ p.ver \in Nat /\ version \in Nat
    BY <1>2 DEF Doc, Projections
  <2>3. IF u.change = None THEN u.ver = p.ver
        ELSE u.ver = p.ver + 1 /\ p.ver + 1 <= version /\ Records(hist, p.ver + 1, u.change)
    BY <1>2, <1>3, <2>2, ChangesHead
  <2>4. u.change # None => Operation(u.change) \in Operations
    BY <2>3 DEF Records
  <2> QED
    BY <2>1, <2>3, <2>4 DEF Updates
<1>13. /\ (u.ack = 0 => u.change # None)
       /\ (u.ack # 0 => u.ack = p.acked + 1 /\ p.pending # <<>>)
  BY <1>7 DEF UpdateIsValid
<1>14. /\ r.ver = u.ver
       /\ r.pending = IF u.ack = 0 THEN p.pending ELSE Tail(p.pending)
       /\ r.acked = IF u.ack = 0 THEN p.acked ELSE u.ack
  BY <1>2, <1>12, <1>13, ApplyUpdateFields
<1> HIDE DEF r
<1>15. /\ r.visible = Overlay(hist[r.ver], PendingOps(r))
       /\ Journal(p) /\ p.acked \in Nat /\ p.ver \in Nat /\ p.ver >= 1
       /\ CarriesAcks(us, p.acked, s) /\ CarriesChanges(us, hist, p.ver, version)
       /\ CarriesAcks(rest, r.acked, s)
  BY <1>2, <1>7 DEF Doc, Journal, Projections
<1>16. ASSUME u.ack = 0
       PROVE  Shared!Learn(t)
  <2>1. u.change # None /\ r.ver = p.ver + 1 /\ p.ver < Len(hist)
    BY <1>2, <1>12, <1>13, <1>14, <1>15, <1>16
  <2>2. r.pending = p.pending /\ r.acked = p.acked
    BY <1>14, <1>16
  <2>3. Own(r, rest, s) = Own(p, us, s)
    BY <1>2, <1>3, <1>7, <1>15, <2>2, OwnLearn
  <2>4. \A i \in 1 .. Len(Owns[t]) : Owns[t][i].made # At[t] + 1
    <3>1. Len(Owns[t]) = Len(p.pending)
      BY <1>2, <1>4, OwnShape
    <3> SUFFICES ASSUME NEW i \in 1 .. Len(p.pending) PROVE Owns[t][i].made # At[t] + 1
      BY <3>1
    <3>2. Owns[t][i].made = Fate(us, s, p.pending[i].seq)
      BY <1>2, <1>4, OwnMade
    <3>3. Fate(us, s, p.pending[i].seq) # p.ver + 1
      BY <1>2, <1>3, <1>12, <1>14, <1>15, <1>16, <2>1, ForeignVersion
    <3> QED
      BY <1>4, <3>2, <3>3
  <2>5. View' = [View EXCEPT ![t] = Shared!Overlay(hist[At[t] + 1], Shared!Ops(Owns[t]))]
    <3>1. PendingOps(r) = PendingOps(p) /\ Shared!Ops(Owns[t]) = PendingOps(p)
      <4>1. PendingOps(r) = PendingOps(p)
        BY <2>2 DEF PendingOps
      <4>2. Shared!Ops(Owns[t]) = PendingOps(p)
        BY <1>2, <1>4, OwnOps
      <4> QED
        BY <4>1, <4>2
    <3>2. r.visible = Overlay(hist[At[t] + 1], Shared!Ops(Owns[t]))
      BY <1>4, <1>15, <2>1, <3>1
    <3> QED
      BY <1>10, <3>2, SameArea
  <2>6. At' = [At EXCEPT ![t] = At[t] + 1] /\ At[t] < Len(hist)
    BY <1>4, <1>10, <2>1
  <2>7. Owns' = Owns
    <3>1. Owns' = [Owns EXCEPT ![t] = Owns[t]]
      BY <1>4, <1>10, <2>3
    <3> QED
      BY <3>1 DEF Owns
  <2> QED
    BY <1>11, <2>4, <2>5, <2>6, <2>7 DEF Shared!Learn, At, View, Owns
<1>17. ASSUME u.ack # 0
       PROVE  Shared!Confirm(t)
  <2>1. p.pending # <<>> /\ r.pending = Tail(p.pending) /\ r.acked = p.acked + 1
    BY <1>13, <1>14, <1>17
  <2>2. Own(r, rest, s) = Tail(Own(p, us, s))
    BY <1>2, <1>3, <1>7, <1>15, <2>1, OwnConfirm, ZenonT(30)
  <2>3. Owns[t] # <<>> /\ Head(Owns[t]).made = Says(u)
    <3>1. Fate(us, s, p.pending[1].seq) = Says(u)
      BY <1>2, <1>3, <1>13, <1>15, <1>17, <2>1, OldestAnswered
    <3>2. Len(p.pending) \in Nat \ {0}
      BY <1>2, <2>1, EmptySeq, LenProperties DEF Projections
    <3> DEFINE o == Own(p, us, s)
    <3>3. Len(o) = Len(p.pending) /\ o[1].made = Fate(us, s, p.pending[1].seq)
      <4>1. Len(o) = Len(p.pending)
        BY <1>2, OwnShape
      <4>2. 1 \in 1 .. Len(p.pending)
        BY <3>2
      <4>3. o[1].made = Fate(us, s, p.pending[1].seq)
        BY <1>2, <4>2, OwnMade
      <4> QED
        BY <4>1, <4>3
    <3>4. PICK S : o \in Seq(S)
      BY <1>2, OwnShape
    <3> HIDE DEF o
    <3>5. o # <<>> /\ Head(o) = o[1]
      BY <3>2, <3>3, <3>4, EmptySeq, HeadTailProperties
    <3> QED
      BY <1>4, <3>1, <3>3, <3>5 DEF o
  <2>4. /\ Says(u) \in {0, At[t] + 1}
        /\ r.ver = IF Says(u) = 0 THEN At[t] ELSE Says(u)
    BY <1>4, <1>12, <1>14, <1>15 DEF Says
  <2>5. Shared!Ops(Tail(Owns[t])) = PendingOps(r)
    BY <1>4, <1>7, <2>2, OwnOps
  <2>6. View' = [View EXCEPT ![t] = Shared!Overlay(hist[r.ver], Shared!Ops(Tail(Owns[t])))]
    BY <1>10, <1>15, <2>5, SameArea
  <2>7. Owns' = [Owns EXCEPT ![t] = Tail(Owns[t])]
    BY <1>4, <1>10, <2>2
  <2> DEFINE made == Head(Owns[t]).made
             here == IF made = 0 THEN At[t] ELSE made
  <2>8. /\ Owns[t] # <<>> /\ made \in {0, At[t] + 1}
        /\ At' = [At EXCEPT ![t] = here]
        /\ View' = [View EXCEPT ![t] = Shared!Overlay(hist[here], Shared!Ops(Tail(Owns[t])))]
    BY <1>10, <2>3, <2>4, <2>6
  <2> QED
    BY <1>11, <2>7, <2>8 DEF Shared!Confirm, Shared!NoEffect, At, View, Owns
<1> QED
  BY <1>16, <1>17

(* The document takes the update in its lane. *)
Taken(t) == Synchronize(t) /\ lost[t] = 0

(* Steps inside a transaction, on a lane or of a storage event change      *)
(* nothing that the shared map tells.                                      *)
LEMMA InternalSteps ==
    ASSUME Ind, Next, ~(Commit \/ Reject),
           \A t \in Tabs : ~Subscribe(t) /\ ~Retire(t) /\ ~Taken(t),
           \A t \in Tabs : \A op \in Operations : ~Write(t, op)
    PROVE  UNCHANGED Shared!vars
<1>1. \/ \E t \in Tabs : Pump(t)
      \/ \E t \in Tabs : Drop(t)
      \/ \E t \in Tabs : Activate(t) \/ RefuseEarly(t)
      \/ \E t \in Tabs : Synchronize(t) /\ lost[t] # 0
      \/ \E t \in Tabs : DispatchEvent(t)
      \/ \E t \in Tabs : \E n \in 1 .. MaxBatch : BeginTransaction(t, n)
      \/ Preflight \/ Defer
  BY DEF Next, Taken
<1>2. ASSUME UNCHANGED <<hist, live, proj, seqs>>, \A u \in Tabs : InFlight(u)' = InFlight(u)
      PROVE  UNCHANGED Shared!vars
  <2>1. ASSUME NEW u \in Tabs PROVE OwnWrites(u)' = OwnWrites(u)
    BY <1>2, OwnsFrame
  <2> QED
    BY <1>2, <2>1, Stutters
<1>3. ASSUME UNCHANGED <<hist, live, proj, seqs, lane, queue>> PROVE UNCHANGED Shared!vars
  <2>1. \A u \in Tabs : InFlight(u)' = InFlight(u)
    BY <1>3 DEF InFlight
  <2> QED
    BY <1>2, <1>3, <2>1
<1>4. ASSUME NEW t \in Tabs, Pump(t) PROVE UNCHANGED Shared!vars
  <2>1. /\ queue[t] # <<>> /\ lane[t] = <<>>
        /\ lane' = [lane EXCEPT ![t] = <<Head(queue[t])>>]
        /\ queue' = [queue EXCEPT ![t] = Tail(queue[t])]
        /\ UNCHANGED <<hist, live, proj, seqs>>
    BY <1>4 DEF Pump, authority
  <2>2. /\ queue[t] \in Seq(Updates) /\ lane \in [Tabs -> Seq(Updates)]
        /\ queue \in [Tabs -> Seq(Updates)]
    BY DEF Ind, TypeOK
  <2>3. <<Head(queue[t])>> \o Tail(queue[t]) = queue[t] /\ <<>> \o queue[t] = queue[t]
    BY <2>1, <2>2, HeadTailConcat, ConcatEmptySeq
  <2>4. ASSUME NEW u \in Tabs PROVE InFlight(u)' = InFlight(u)
    <3>1. CASE u = t
      BY <2>1, <2>2, <2>3, <3>1 DEF InFlight
    <3>2. CASE u # t
      BY <2>1, <2>2, <3>2 DEF InFlight
    <3> QED
      BY <3>1, <3>2
  <2> QED
    BY <1>2, <2>1, <2>4
<1>5. ASSUME NEW t \in Tabs, DispatchEvent(t) PROVE UNCHANGED Shared!vars
  BY <1>3, <1>5 DEF DispatchEvent, authority, endpoints
<1>6. ASSUME NEW t \in Tabs, NEW n \in 1 .. MaxBatch, BeginTransaction(t, n)
      PROVE  UNCHANGED Shared!vars
  BY <1>3, <1>6 DEF BeginTransaction, authority, endpoints, renderers
<1>7. ASSUME Preflight PROVE UNCHANGED Shared!vars
  BY <1>3, <1>7 DEF Preflight, authority, endpoints, renderers
<1>8. ASSUME Defer PROVE UNCHANGED Shared!vars
  BY <1>3, <1>8 DEF Defer, authority, endpoints, renderers
<1>9. ASSUME NEW t \in Tabs, Drop(t) PROVE UNCHANGED Shared!vars
  <2>1. /\ t \in loading /\ t \in live /\ lane' = [lane EXCEPT ![t] = <<>>]
        /\ UNCHANGED <<hist, live, proj, seqs, queue>>
    BY <1>9 DEF Drop, authority, endpoints, Ind, TypeOK
  <2>2. OwnWrites(t)' = OwnWrites(t)
    <3> DEFINE q == proj[t]
    <3>1. /\ q \in Projections /\ q.last = 0 /\ Len(q.pending) = q.last - q.acked
      BY <2>1, TabTypes DEF Ind, Starting, Docs, Doc
    <3>2. Len(q.pending) \in Nat /\ q.acked \in Nat
      BY <3>1, LenProperties DEF Projections
    <3>3. 1 .. Len(q.pending) = {} /\ proj'[t] = q
      BY <2>1, <3>1, <3>2
    <3> HIDE DEF q
    <3>4. OwnWrites(t) = [i \in {} |-> [op |-> q.pending[i].op,
                                       made |-> Outcome(t, q.pending[i].seq)]]
      BY <2>1, <3>3 DEF OwnWrites, q
    <3>5. OwnWrites(t)' = [i \in {} |-> [op |-> q.pending[i].op,
                                        made |-> Outcome(t, q.pending[i].seq)']]
      BY <2>1, <3>3 DEF OwnWrites
    <3> QED
      BY <3>4, <3>5
  <2>3. ASSUME NEW u \in Tabs PROVE OwnWrites(u)' = OwnWrites(u)
    <3>1. CASE u = t
      BY <2>2, <3>1
    <3>2. CASE u # t
      <4>1. InFlight(u)' = InFlight(u)
        BY <2>1, <3>2 DEF InFlight, Ind, TypeOK
      <4> QED
        BY <2>1, <4>1, OwnsFrame
    <3> QED
      BY <3>1, <3>2
  <2> QED
    BY <2>1, <2>3, Stutters
<1>10. ASSUME NEW t \in Tabs, Activate(t) \/ RefuseEarly(t) PROVE UNCHANGED Shared!vars
  BY <1>3, <1>10 DEF Activate, RefuseEarly, authority, endpoints, renderers
<1>11. ASSUME NEW t \in Tabs, Synchronize(t), lost[t] # 0 PROVE UNCHANGED Shared!vars
  BY <1>3, <1>11, SynchronizeCases
<1> QED
  BY <1>1, <1>4, <1>5, <1>6, <1>7, <1>8, <1>9, <1>10, <1>11

(* Updates queue up behind those already in flight. *)
LEMMA UpdatesAssociate ==
    ASSUME NEW a \in Seq(Updates), NEW b \in Seq(Updates), NEW c \in Seq(Updates)
    PROVE  (a \o b) \o c = a \o (b \o c)
  BY ConcatAssociative

(* Publishing decides the batch of the source and no other operation.      *)
LEMMA PublishDecides ==
    ASSUME Ind, Ind', ~Idle, NEW mine \in Seq(Updates), NEW others \in Seq(Updates),
           Publish(mine, others), Len(mine) = txn.n,
           \A k \in 1 .. txn.n : mine[k].ack = seqs[txn.src] + k
    PROVE  /\ At' = At /\ View' = View
           /\ Owns' = [Owns EXCEPT ![txn.src] =
                         Decided(Owns[txn.src], seqs[txn.src] - proj[txn.src].acked,
                                 txn.n, mine)]
<1>1. txn.src \in Tabs /\ txn.src \in live /\ txn.n \in Nat
  BY DEF Ind, TransactionConsistent, TypeOK, Transactions
<1>2. PICK src \in Tabs, n \in Nat : src = txn.src /\ n = txn.n
  BY <1>1
<1>3. /\ queue' = [t \in Tabs |-> IF t \notin live THEN queue[t]
                                  ELSE IF t = src THEN queue[t] \o mine
                                  ELSE queue[t] \o others]
      /\ seqs' = [seqs EXCEPT ![src] = seqs[src] + n]
      /\ UNCHANGED <<live, lane, proj>>
  BY <1>2 DEF Publish
<1>4. src \in live /\ src \in Tabs /\ n \in Nat
  BY <1>1, <1>2
<1>5. At' = At /\ View' = View
  BY <1>3 DEF At, View
<1>6. ASSUME NEW t \in live
      PROVE  /\ t \in Tabs /\ proj[t] \in Projections /\ Journal(proj[t])
             /\ InFlight(t) \in Seq(Updates) /\ seqs[t] \in Nat
             /\ lane[t] \in Seq(Updates) /\ queue[t] \in Seq(Updates)
             /\ CarriesAcks(InFlight(t), proj[t].acked, seqs[t])
  <2>1. t \in Tabs
    BY DEF Ind, TypeOK
  <2>2. Doc(proj[t], InFlight(t), wire[t], seqs[t], hist, version, lost[t])
    BY DEF Ind, Docs
  <2>3. /\ proj[t] \in Projections /\ InFlight(t) \in Seq(Updates) /\ seqs[t] \in Nat
        /\ lane[t] \in Seq(Updates) /\ queue[t] \in Seq(Updates)
    BY <2>1, TabTypes DEF Ind
  <2> QED
    BY <2>1, <2>2, <2>3 DEF Doc, Journal
<1>7. ASSUME NEW t \in live
      PROVE  CarriesAcks(InFlight(t)', proj[t].acked, seqs'[t])
  <2>1. Doc(proj'[t], InFlight(t)', wire'[t], seqs'[t], hist', version', lost'[t])
    BY <1>3 DEF Ind, Docs
  <2> QED
    BY <1>3, <2>1 DEF Doc
<1>8. ASSUME NEW t \in live, NEW vs \in Seq(Updates), queue'[t] = queue[t] \o vs
      PROVE  InFlight(t)' = InFlight(t) \o vs
  <2> DEFINE l == lane[t]
             q == queue[t]
  <2>1. l \in Seq(Updates) /\ q \in Seq(Updates) /\ vs \in Seq(Updates)
    BY <1>6
  <2>2. lane'[t] = l /\ queue'[t] = q \o vs
    BY <1>3, <1>8
  <2> HIDE DEF l, q
  <2>3. (l \o q) \o vs = l \o (q \o vs)
    BY <2>1, UpdatesAssociate, SMTT(30)
  <2> QED
    BY <2>2, <2>3 DEF InFlight, l, q
<1>9. ASSUME NEW t \in Tabs \ {src} PROVE OwnWrites(t)' = OwnWrites(t)
  <2>1. CASE t \notin live
    BY <1>3, <2>1, OwnsOf
  <2>2. CASE t \in live
    <3> DEFINE us == InFlight(t)
               s == seqs[t]
               p == proj[t]
    <3>1. queue'[t] = queue[t] \o others /\ seqs'[t] = s
      BY <1>3, <1>4, <2>2 DEF Ind, TypeOK
    <3>2. InFlight(t)' = us \o others
      BY <1>8, <2>2, <3>1
    <3>3. /\ p \in Projections /\ Journal(p) /\ us \in Seq(Updates) /\ s \in Nat
          /\ CarriesAcks(us, p.acked, s)
      BY <1>6, <2>2
    <3>4. CarriesAcks(us \o others, p.acked, s)
      BY <1>7, <2>2, <3>1, <3>2
    <3>5. OwnWrites(t) = Own(p, us, s) /\ OwnWrites(t)' = Own(p, us \o others, s)
      BY <1>3, <2>2, <3>1, <3>2, OwnsOf
    <3> HIDE DEF us, s, p
    <3>6. Own(p, us \o others, s) = Own(p, us, s)
      BY <3>3, <3>4, OwnForeign
    <3> QED
      BY <3>5, <3>6
  <2> QED
    BY <2>1, <2>2
<1>10. OwnWrites(src)' = Decided(Owns[src], seqs[src] - proj[src].acked, n, mine)
  <2> DEFINE us == InFlight(src)
             s == seqs[src]
             p == proj[src]
  <2>1. queue'[src] = queue[src] \o mine /\ seqs'[src] = s + n
    BY <1>3, <1>4 DEF Ind, TypeOK
  <2>2. InFlight(src)' = us \o mine
    BY <1>4, <1>8, <2>1
  <2>3. /\ p \in Projections /\ Journal(p) /\ us \in Seq(Updates) /\ s \in Nat
        /\ CarriesAcks(us, p.acked, s)
    BY <1>4, <1>6
  <2>4. CarriesAcks(us \o mine, p.acked, s + n)
    BY <1>4, <1>7, <2>1, <2>2
  <2>5. OwnWrites(src) = Own(p, us, s) /\ OwnWrites(src)' = Own(p, us \o mine, s + n)
    BY <1>3, <1>4, <2>1, <2>2, OwnsOf
  <2>6. Len(mine) = n /\ \A k \in 1 .. n : mine[k].ack = s + k
    BY <1>2
  <2>7. Owns[src] = OwnWrites(src)
    BY <1>4 DEF Owns
  <2> HIDE DEF us, s, p
  <2>8. Own(p, us \o mine, s + n) = Decided(Own(p, us, s), s - p.acked, n, mine)
    BY <1>4, <2>3, <2>4, <2>6, OwnDecided
  <2> QED
    BY <2>5, <2>7, <2>8 DEF s, p
<1>11. Owns' = [Owns EXCEPT ![src] = OwnWrites(src)']
  BY <1>4, <1>9, OwnsOne
<1> QED
  BY <1>5, <1>10, <1>11, <1>2

(* A batch is no longer than the coordinator lets it be. *)
BatchFits == ~Idle => txn.n \in 1 .. MaxBatch

(* A batch stays within the length the coordinator allows. *)
LEMMA BatchFitsNext ==
    ASSUME BatchFits, [Next]_vars
    PROVE  BatchFits'
<1> USE DEF BatchFits, Idle
<1>1. ASSUME UNCHANGED txn PROVE BatchFits'
  BY <1>1
<1>2. ASSUME txn' = NoTransaction PROVE BatchFits'
  BY <1>2 DEF NoTransaction
<1>3. ASSUME NEW t \in Tabs, NEW op \in Operations, Write(t, op) PROVE UNCHANGED txn
  BY <1>3 DEF Write
<1>4. ASSUME NEW t \in Tabs,
             \/ Subscribe(t) \/ Retire(t) \/ Synchronize(t) \/ DispatchEvent(t) \/ Pump(t)
             \/ Activate(t) \/ Drop(t) \/ RefuseEarly(t)
      PROVE  UNCHANGED txn
  BY <1>4 DEF Subscribe, Retire, Synchronize, DispatchEvent, Pump, Activate, Drop,
              RefuseEarly
<1>5. ASSUME NEW t \in Tabs, NEW n \in 1 .. MaxBatch, BeginTransaction(t, n)
      PROVE  BatchFits'
  <2>1. UNCHANGED txn \/ txn' = [NoTransaction EXCEPT !.src = t, !.n = n, !.ver = version]
    BY <1>5 DEF BeginTransaction
  <2>2. ASSUME txn' = [NoTransaction EXCEPT !.src = t, !.n = n, !.ver = version]
        PROVE  BatchFits'
    BY <2>2 DEF NoTransaction
  <2> QED
    BY <1>1, <2>1, <2>2
<1>6. ASSUME Preflight PROVE BatchFits'
  <2>1. txn'.n = txn.n /\ ~Idle
    BY <1>6 DEF Preflight
  <2> QED
    BY <2>1
<1>7. ASSUME Defer \/ Commit \/ Reject PROVE txn' = NoTransaction
  BY <1>7 DEF Defer, Commit, Reject, Publish
<1>8. ASSUME UNCHANGED vars PROVE UNCHANGED txn
  BY <1>8 DEF vars
<1> QED
  BY <1>1, <1>2, <1>3, <1>4, <1>5, <1>6, <1>7, <1>8 DEF Next

(* A write is undecided as long as the coordinator has not taken it. *)
LEMMA TakenIsDecided ==
    ASSUME NEW p \in Projections, Journal(p), NEW us \in Seq(Updates), NEW s \in Nat,
           CarriesAcks(us, p.acked, s), NEW i \in 1 .. Len(p.pending)
    PROVE  i <= s - p.acked <=> Fate(us, s, p.pending[i].seq) # -1
<1> DEFINE q == p.pending[i].seq
           b == p.acked
           d == s - b
<1>1. q = b + i /\ b \in Nat /\ i \in Nat \ {0} /\ CarriesAcks(us, b, s)
  BY PendingOpsType DEF Journal, Projections
<1>2. d = s - b
  OBVIOUS
<1> HIDE DEF q, b, d
<1>3. CASE q > s
  <2>1. Fate(us, s, q) = -1
    BY <1>3 DEF Fate
  <2>2. ~(i <= d)
    BY <1>1, <1>2, <1>3
  <2> QED
    BY <2>1, <2>2 DEF q, d, b
<1>4. CASE ~(q > s)
  <2>1. q \in b + 1 .. s /\ i <= d
    BY <1>1, <1>2, <1>4
  <2>2. PICK j \in 1 .. Len(us) : us[j].ack = q /\ q # 0
    BY <1>1, <2>1, Answered
  <2>3. Fate(us, s, q) = Says(us[j])
    BY <1>1, <2>2, FateIs
  <2>4. Says(us[j]) \in Nat
    BY UpdateFields DEF Says
  <2>5. Fate(us, s, q) # -1
    BY <2>3, <2>4
  <2> QED
    BY <2>1, <2>5 DEF q, d, b
<1> QED
  BY <1>3, <1>4

(* The versions that a transaction reaches are between the map it starts   *)
(* from and the one it commits.                                            *)
LEMMA ReachedRange ==
    ASSUME NEW mine \in Seq(Updates), NEW h, NEW from \in Nat, NEW to \in Nat,
           CarriesChanges(mine, h, from, to), NEW i \in 0 .. Len(mine)
    PROVE  Reached(mine, from, i) \in from .. to
<1>1. CASE i = 0
  BY <1>1 DEF Reached, CarriesChanges
<1>2. CASE i # 0
  <2>1. i \in 1 .. Len(mine)
    BY <1>2, LenProperties
  <2>2. mine[i].ver \in from .. to \/ mine[i].ver \in from + 1 .. to
    BY <2>1 DEF CarriesChanges
  <2> QED
    BY <1>2, <2>2 DEF Reached
<1> QED
  BY <1>1, <1>2

(* The n operations of os after the first d are those of the writes w. *)
AreWrites(os, d, n, w) == \A k \in 1 .. n : os[d + k].op = w[k].op

(* The transaction's batch is the source's oldest undecided operations.    *)
LEMMA BatchIsOldest ==
    ASSUME Ind, BatchFits, ~Idle, NEW t \in Tabs, t = txn.src,
           NEW d, d = seqs[t] - proj[t].acked, NEW n, n = txn.n
    PROVE  /\ t \in live /\ n \in 1 .. MaxBatch /\ d \in Nat /\ d + n <= Len(Owns[t])
           /\ Len(Owns[t]) \in Nat
           /\ \A i \in 1 .. Len(Owns[t]) : i <= d <=> Owns[t][i].made # -1
           /\ AreWrites(Owns[t], d, n, wire[t])
           /\ \A i \in 1 .. Len(Owns[t]) :
                 Owns[t][i] = [op |-> Owns[t][i].op, made |-> Owns[t][i].made]
<1> DEFINE p == proj[t]
           us == InFlight(t)
           s == seqs[t]
           w == wire[t]
           o == Owns[t]
           l == Len(p.pending)
<1>1. t \in live /\ n \in 1 .. MaxBatch /\ n \in 1 .. Len(w) /\ n \in Nat
  BY DEF Ind, TransactionConsistent, BatchFits
<1>2. /\ p \in Projections /\ us \in Seq(Updates) /\ s \in Nat /\ w \in Seq(Writes)
      /\ Doc(p, us, w, s, hist, version, lost[t])
  BY <1>1, TabTypes DEF Ind, Docs
<1>3. o = Own(p, us, s)
  BY <1>1, OwnsOf DEF Owns
<1>4. /\ Journal(p) /\ CarriesAcks(us, p.acked, s) /\ p.acked \in Nat /\ p.acked <= s
      /\ p.last \in Nat /\ l = p.last - p.acked /\ Len(w) = p.last - s
      /\ \A k \in 1 .. Len(w) : w[k] = p.pending[s - p.acked + k]
  BY <1>2 DEF Doc, Journal, CarriesAcks, Projections
<1>5. l \in Nat
  BY <1>2, PendingOpsType
<1>6. d = s - p.acked
  OBVIOUS
<1> HIDE DEF p, us, s, w, o
<1>7. Len(o) = l
  BY <1>2, <1>3, OwnShape
<1>8. d \in Nat /\ d + n <= l
  <2> DEFINE b == p.acked
             e == p.last
             m == Len(w)
  <2>1. /\ b \in Nat /\ s \in Nat /\ b <= s /\ e \in Nat /\ l = e - b /\ m = e - s
        /\ n \in 1 .. m /\ d = s - b
    BY <1>1, <1>2, <1>4, <1>6
  <2> HIDE DEF b, e, m, l
  <2>2. d \in Nat /\ d + n <= l
    BY <2>1
  <2> QED
    BY <2>2
<1>9. \A i \in 1 .. l : i <= d <=> o[i].made # -1
  <2> TAKE i \in 1 .. l
  <2>1. o[i].made = Fate(us, s, p.pending[i].seq)
    BY <1>2, <1>3, OwnMade
  <2>2. i <= s - p.acked <=> Fate(us, s, p.pending[i].seq) # -1
    BY <1>2, <1>4, TakenIsDecided
  <2> QED
    BY <1>6, <2>1, <2>2
<1>10. \A i \in 1 .. l : o[i] = [op |-> p.pending[i].op, made |-> o[i].made]
                         /\ o[i].op = p.pending[i].op
  <2> TAKE i \in 1 .. l
  <2> DEFINE f == Fate(us, s, p.pending[i].seq)
             e == p.pending[i].op
  <2>1. o[i] = [op |-> e, made |-> f]
    BY <1>3 DEF Own
  <2> HIDE DEF f, e
  <2>2. o[i].op = e /\ o[i].made = f
    BY <2>1
  <2> QED
    BY <2>1, <2>2 DEF e
<1>11. \A k \in 1 .. n : o[d + k].op = w[k].op
  <2> TAKE k \in 1 .. n
  <2>1. k \in 1 .. Len(w) /\ d + k \in 1 .. l
    <3> DEFINE m == Len(w)
    <3>1. n \in 1 .. m /\ m \in Nat
      BY <1>1, <1>2, LenProperties
    <3> HIDE DEF m, l
    <3>2. k \in 1 .. m /\ d + k \in 1 .. l
      BY <1>1, <1>5, <1>8, <3>1
    <3> QED
      BY <3>2 DEF m
  <2>2. w[k] = p.pending[d + k]
    BY <1>4, <1>6, <2>1
  <2>3. o[d + k].op = p.pending[d + k].op
    BY <1>10, <2>1
  <2> QED
    BY <2>2, <2>3
<1> QED
  BY <1>1, <1>5, <1>7, <1>8, <1>9, <1>10, <1>11 DEF o, w, AreWrites

(* A refused batch is decided without an effect. *)
LEMMA RejectRefuses ==
    ASSUME Ind, Ind', BatchFits, Reject
    PROVE  Shared!Next
<1>1. ~Idle /\ UNCHANGED hist /\ Publish(Rejections, <<>>)
  BY DEF Reject, Preflighted, authority
<1>2. txn.src \in Tabs /\ txn.n \in Nat
  BY <1>1 DEF Ind, TransactionConsistent, TypeOK, Transactions
<1>3. PICK t, n, d : t = txn.src /\ n = txn.n /\ d = seqs[t] - proj[t].acked
  OBVIOUS
<1>4. /\ t \in live /\ n \in 1 .. MaxBatch /\ d \in Nat /\ d + n <= Len(Owns[t])
      /\ Len(Owns[t]) \in Nat
      /\ \A i \in 1 .. Len(Owns[t]) : i <= d <=> Owns[t][i].made # -1
      /\ \A i \in 1 .. Len(Owns[t]) :
            Owns[t][i] = [op |-> Owns[t][i].op, made |-> Owns[t][i].made]
  <2>1. t \in Tabs
    BY <1>2, <1>3
  <2> QED
    BY <1>1, <1>3, <2>1, BatchIsOldest
<1>5. /\ Rejections \in Seq(Updates) /\ Len(Rejections) = n
      /\ \A k \in 1 .. n : Rejections[k].ack = seqs[t] + k /\ Says(Rejections[k]) = 0
  <2>1. Rejections \in Seq(Updates) /\ Len(Rejections) = n
    BY <1>2, <1>3, RejectionsRun DEF Ind
  <2>2. \A k \in 1 .. n : Rejections[k].ack = seqs[t] + k /\ Rejections[k].change = None
    BY <1>3 DEF Rejections
  <2> QED
    BY <2>1, <2>2 DEF Says
<1>6. /\ At' = At /\ View' = View
      /\ Owns' = [Owns EXCEPT ![t] = Decided(Owns[t], d, n, Rejections)]
  <2> DEFINE mine == Rejections
             others == <<>>
  <2>1. /\ mine \in Seq(Updates) /\ others \in Seq(Updates) /\ Publish(mine, others)
        /\ Len(mine) = txn.n /\ \A k \in 1 .. txn.n : mine[k].ack = seqs[txn.src] + k
    BY <1>1, <1>3, <1>5
  <2> HIDE DEF mine, others
  <2>2. /\ At' = At /\ View' = View
        /\ Owns' = [Owns EXCEPT ![txn.src] =
                      Decided(Owns[txn.src], seqs[txn.src] - proj[txn.src].acked, txn.n, mine)]
    BY <1>1, <2>1, PublishDecides
  <2> QED
    BY <1>3, <2>2 DEF mine
<1>7. Decided(Owns[t], d, n, Rejections)
        = [i \in 1 .. Len(Owns[t]) |-> IF i - d \in 1 .. n
                                       THEN [Owns[t][i] EXCEPT !.made = 0]
                                       ELSE Owns[t][i]]
  <2> DEFINE o == Owns[t]
  <2>1. \A i \in 1 .. Len(o) : [op |-> o[i].op, made |-> 0] = [o[i] EXCEPT !.made = 0]
    <3> TAKE i \in 1 .. Len(o)
    <3> DEFINE a == o[i].op
               b == o[i].made
    <3>1. o[i] = [op |-> a, made |-> b]
      BY <1>4
    <3> HIDE DEF a, b
    <3>2. [op |-> a, made |-> 0] = [o[i] EXCEPT !.made = 0]
      BY <3>1
    <3> QED
      BY <3>2 DEF a
  <2> HIDE DEF o
  <2>2. Decided(o, d, n, Rejections)
          = [i \in 1 .. Len(o) |-> IF i - d \in 1 .. n
                                   THEN [o[i] EXCEPT !.made = 0] ELSE o[i]]
    BY <1>5, <2>1 DEF Decided
  <2> QED
    BY <2>2 DEF o
<1>8. live' = live
  BY <1>1 DEF Publish
<1>9. Shared!Refuse(t, d, n)
  BY <1>1, <1>4, <1>6, <1>7, <1>8
     DEF Shared!Refuse, Shared!Oldest, Shared!Undecided, Shared!NoEffect, At, View, Owns
<1>10. d \in 0 .. Len(Owns[t]) /\ t \in Tabs
  BY <1>2, <1>3, <1>4
<1> QED
  BY <1>4, <1>9, <1>10 DEF Shared!Next, Owns

(* A committed batch is accepted: the versions its writes made are told by *)
(* their updates.                                                          *)
LEMMA CommitAccepts ==
    ASSUME Ind, Ind', Explained, BatchFits, Commit
    PROVE  Shared!Next
<1> DEFINE mine == txn.mine
           others == txn.others
           h == hist \o txn.maps
           top == txn.ver
           old == version
<1>1. /\ ~Idle /\ txn.done = txn.n /\ version' = top /\ hist' = h
      /\ Publish(mine, others)
  BY DEF Commit, Preflighted
<1>2. PICK t, n, d : t = txn.src /\ n = txn.n /\ d = seqs[t] - proj[t].acked
  OBVIOUS
<1>3. /\ t \in Tabs /\ n \in Nat /\ mine \in Seq(Updates) /\ others \in Seq(Updates)
      /\ Len(mine) = n /\ \A k \in 1 .. n : mine[k].ack = seqs[t] + k
      /\ CarriesChanges(mine, h, old, top)
  BY <1>1, <1>2 DEF Ind, TransactionConsistent, TypeOK, Transactions
<1>4. /\ h \in Seq(Maps) /\ Len(h) = top /\ top \in Nat /\ old \in Nat \ {0} /\ old <= top
      /\ \A i \in 1 .. old : h[i] = hist[i]
      /\ hist \in Seq(Maps) /\ Len(hist) = old
  <2>1. /\ h \in Seq(Maps) /\ Len(h) = top /\ top \in Nat \ {0} /\ old <= top
        /\ \A i \in 1 .. old : h[i] = hist[i]
    BY <1>1, TransactionHistory DEF Ind
  <2> QED
    BY <2>1 DEF Ind, TypeOK
<1>5. /\ t \in live /\ n \in 1 .. MaxBatch /\ d \in Nat /\ d + n <= Len(Owns[t])
      /\ Len(Owns[t]) \in Nat
      /\ \A i \in 1 .. Len(Owns[t]) : i <= d <=> Owns[t][i].made # -1
      /\ AreWrites(Owns[t], d, n, wire[t])
  <2>1. Ind /\ BatchFits /\ ~Idle /\ t \in Tabs
    BY <1>1, <1>3
  <2> HIDE DEF mine, others, h, top, old
  <2>2. /\ t \in live /\ n \in 1 .. MaxBatch /\ d \in Nat /\ d + n <= Len(Owns[t])
        /\ Len(Owns[t]) \in Nat
        /\ \A i \in 1 .. Len(Owns[t]) : i <= d <=> Owns[t][i].made # -1
    BY <1>2, <2>1, BatchIsOldest
  <2>3. AreWrites(Owns[t], d, n, wire[t])
    BY <1>2, <2>1, BatchIsOldest
  <2> QED
    BY <2>2, <2>3
<1>6. /\ At' = At /\ View' = View
      /\ Owns' = [Owns EXCEPT ![t] = Decided(Owns[t], d, n, mine)]
  <2>1. /\ mine \in Seq(Updates) /\ others \in Seq(Updates) /\ Publish(mine, others)
        /\ Len(mine) = txn.n /\ \A k \in 1 .. txn.n : mine[k].ack = seqs[txn.src] + k
    BY <1>1, <1>2, <1>3
  <2> HIDE DEF mine, others
  <2>2. /\ At' = At /\ View' = View
        /\ Owns' = [Owns EXCEPT ![txn.src] =
                      Decided(Owns[txn.src], seqs[txn.src] - proj[txn.src].acked, txn.n, mine)]
    BY <1>1, <2>1, PublishDecides
  <2> QED
    BY <1>2, <2>2
<1>7. Explains(mine, wire[t], h, old) /\ Reached(mine, old, n) = top
  BY <1>1, <1>2 DEF Explained
<1>8. live' = live
  BY <1>1 DEF Publish
<1> DEFINE reached == [i \in 0 .. n |-> Reached(mine, old, i)]
           o == Owns[t]
<1> HIDE DEF mine, others, h, top, old
<1>9. \A i \in 0 .. n : reached[i] = Reached(mine, old, i) /\ Reached(mine, old, i) \in old .. top
  <2> TAKE i \in 0 .. n
  <2>1. Reached(mine, old, i) \in old .. top
    BY <1>3, <1>4, ReachedRange
  <2> QED
    BY <2>1
<1>10. /\ reached \in [0 .. n -> Len(hist) .. Len(hist')]
       /\ reached[0] = Len(hist) /\ reached[n] = Len(hist')
  <2>1. Len(hist) = old /\ Len(hist') = top
    BY <1>1, <1>4
  <2>2. reached[0] = old /\ reached[n] = top
    BY <1>3, <1>7, <1>9 DEF Reached
  <2> QED
    BY <1>9, <2>1, <2>2
<1> HIDE DEF reached, o
<1>11. SubSeq(hist', 1, Len(hist)) = hist
  <2> DEFINE a == SubSeq(h, 1, old)
  <2>1. a \in Seq(Maps) /\ Len(a) = old /\ \A i \in 1 .. old : a[i] = h[i]
    <3>1. \A i \in 1 .. old : h[i] \in Maps
      BY <1>4, ElementOfSeq
    <3> QED
      BY <1>4, <3>1, SubSeqProperties
  <2> HIDE DEF a
  <2>2. a = hist
    BY <1>4, <2>1, SeqEqual
  <2> QED
    BY <1>1, <1>4, <2>2 DEF a
<1>12. ASSUME NEW i \in 1 .. n
       PROVE  LET before == hist'[reached[i - 1]]
                  op == o[d + i].op
              IN  /\ WithinQuota(before, op)
                  /\ IF OperationChanges(before, op)
                     THEN /\ reached[i] = reached[i - 1] + 1
                          /\ hist'[reached[i]] = ApplyMap(before, op)
                     ELSE reached[i] = reached[i - 1]
  <2>1. /\ i - 1 \in 0 .. n /\ i \in 0 .. n /\ i \in 1 .. Len(mine) /\ i # 0
    BY <1>3
  <2>2. /\ reached[i] = mine[i].ver /\ reached[i - 1] = Reached(mine, old, i - 1)
    BY <1>9, <2>1 DEF Reached
  <2>3. o[d + i].op = wire[t][i].op
    BY <1>5 DEF o, AreWrites
  <2>4. LET before == h[Reached(mine, old, i - 1)]
            op == wire[t][i].op
        IN  /\ WithinQuota(before, op)
            /\ IF OperationChanges(before, op)
               THEN /\ mine[i].ver = Reached(mine, old, i - 1) + 1
                    /\ h[mine[i].ver] = ApplyMap(before, op)
               ELSE mine[i].ver = Reached(mine, old, i - 1)
    BY <1>7, <2>1 DEF Explains
  <2> QED
    BY <1>1, <2>2, <2>3, <2>4
<1>13. ASSUME NEW i \in 1 .. n
       PROVE  Says(mine[i]) = IF reached[i] = reached[i - 1] THEN 0 ELSE reached[i]
  <2>1. /\ i - 1 \in 0 .. n /\ i \in 0 .. n /\ i \in 1 .. Len(mine) /\ i # 0
    BY <1>3
  <2>2. /\ reached[i] = mine[i].ver /\ reached[i - 1] = Reached(mine, old, i - 1)
        /\ reached[i - 1] \in Nat
    BY <1>4, <1>9, <2>1 DEF Reached
  <2>3. \/ mine[i].change # None /\ mine[i].ver = Reached(mine, old, i - 1) + 1
        \/ mine[i].change = None /\ mine[i].ver = Reached(mine, old, i - 1)
    BY <1>7, <2>1 DEF Explains
  <2> QED
    BY <2>2, <2>3 DEF Says
<1>14. Decided(o, d, n, mine)
         = [i \in 1 .. Len(o) |->
              IF i - d \notin 1 .. n THEN o[i]
              ELSE [op |-> o[i].op,
                    made |-> IF reached[i - d] = reached[i - d - 1] THEN 0
                             ELSE reached[i - d]]]
  <2>1. ASSUME NEW i \in 1 .. Len(o), i - d \in 1 .. n
        PROVE  Says(mine[i - d]) = IF reached[i - d] = reached[i - d - 1] THEN 0
                                   ELSE reached[i - d]
    BY <1>13, <2>1
  <2> QED
    BY <2>1 DEF Decided
<1>15. ASSUME NEW m, NEW op
       PROVE  /\ Shared!WithinQuota(m, op) = WithinQuota(m, op)
              /\ Shared!OperationChanges(m, op) = OperationChanges(m, op)
              /\ Shared!ApplyMap(m, op) = ApplyMap(m, op)
  BY SameArea
<1>16. Shared!Accept(t, d, n)
  <2>1. \A i \in 1 .. n :
           LET before == hist'[reached[i - 1]]
               op == Owns[t][d + i].op
           IN  /\ Shared!WithinQuota(before, op)
               /\ IF Shared!OperationChanges(before, op)
                  THEN /\ reached[i] = reached[i - 1] + 1
                       /\ hist'[reached[i]] = Shared!ApplyMap(before, op)
                  ELSE reached[i] = reached[i - 1]
    BY <1>12, <1>15 DEF o
  <2>2. Owns' = [Owns EXCEPT ![t] = [i \in 1 .. Len(Owns[t]) |->
              IF i - d \notin 1 .. n THEN Owns[t][i]
              ELSE [op |-> Owns[t][i].op,
                    made |-> IF reached[i - d] = reached[i - d - 1] THEN 0
                             ELSE reached[i - d]]]]
    BY <1>6, <1>14 DEF o
  <2>3. Shared!Oldest(t, d, n)
    BY <1>5 DEF Shared!Oldest, Shared!Undecided, Owns
  <2> QED
    BY <1>6, <1>8, <1>10, <1>11, <2>1, <2>2, <2>3
       DEF Shared!Accept, Shared!NoEffect, At, View, Owns
<1>17. d \in 0 .. Len(Owns[t])
  BY <1>5
<1> QED
  BY <1>3, <1>5, <1>16, <1>17 DEF Shared!Next, Owns

(***************************************************************************)
(* The refinement.                                                         *)
(***************************************************************************)

(* The invariant that every step's counterpart rests on.  Ind alone does   *)
(* not say why a batch had the effects that its updates tell.              *)
RefInd == Ind /\ Explained /\ BatchFits

(* An origin nobody has loaded is the empty shared map. *)
LEMMA InitMaps == Init => RefInd /\ Shared!Init
<1> SUFFICES ASSUME Init PROVE RefInd /\ Shared!Init
  OBVIOUS
<1>1. Ind
  BY InitInd
<1>2. Idle
  BY DEF Init, Idle, NoTransaction
<1>3. At = [t \in Tabs |-> 1] /\ View = [t \in Tabs |-> EmptyMap]
  BY DEF Init, At, View, FromSnapshot
<1>4. Owns = [t \in Tabs |-> <<>>]
  BY OwnsOf DEF Init, Owns
<1>5. Shared!EmptyMap = EmptyMap
  BY DEF EmptyMap, Shared!EmptyMap
<1>6. Shared!Init
  BY <1>3, <1>4, <1>5 DEF Init, Shared!Init, At, View, Owns
<1> QED
  BY <1>1, <1>2, <1>6 DEF RefInd, Explained, BatchFits

(* Every step keeps the invariant of the refinement. *)
LEMMA RefIndNext ==
    ASSUME RefInd, [Next]_vars
    PROVE  RefInd'
  BY NextInd, ExplainedNext, BatchFitsNext DEF RefInd

(* Every step is a step of the shared map or changes nothing of it. *)
LEMMA StepSimulates ==
    ASSUME RefInd, RefInd', [Next]_vars
    PROVE  [Shared!Next]_(Shared!vars)
<1> USE DEF RefInd
<1>1. ASSUME NEW t \in Tabs, Subscribe(t) PROVE Shared!Next
  BY <1>1, SubscribeOpens DEF Shared!Next
<1>2. ASSUME NEW t \in Tabs, Retire(t) PROVE Shared!Next
  BY <1>2, RetireCloses DEF Shared!Next
<1>3. ASSUME NEW t \in Tabs, NEW op \in Operations, Write(t, op) PROVE Shared!Next
  <2>1. Shared!Issue(t, op) /\ op \in Shared!Operations
    BY <1>3, WriteIssues, SameArea
  <2> QED
    BY <2>1 DEF Shared!Next
<1>4. ASSUME NEW t \in Tabs, Taken(t) PROVE Shared!Next
  BY <1>4, SynchronizeMoves DEF Shared!Next, Taken
<1>5. ASSUME Commit PROVE Shared!Next
  BY <1>5, CommitAccepts
<1>6. ASSUME Reject PROVE Shared!Next
  BY <1>6, RejectRefuses
<1>7. ASSUME UNCHANGED vars PROVE UNCHANGED Shared!vars
  <2>1. UNCHANGED <<hist, live, proj, seqs, lane, queue>>
    BY <1>7 DEF vars, authority, endpoints, renderers
  <2>2. ASSUME NEW u \in Tabs PROVE OwnWrites(u)' = OwnWrites(u)
    BY <2>1, OwnsFrame DEF InFlight
  <2> QED
    BY <2>1, <2>2, Stutters
<1>8. ASSUME Next, ~(Commit \/ Reject),
             \A t \in Tabs : ~Subscribe(t) /\ ~Retire(t) /\ ~Taken(t),
             \A t \in Tabs : \A op \in Operations : ~Write(t, op)
      PROVE  UNCHANGED Shared!vars
  BY <1>8, InternalSteps
<1> QED
  BY <1>1, <1>2, <1>3, <1>4, <1>5, <1>6, <1>7, <1>8

(* The coordinator's transactions, the recipient queues, the lanes and the *)
(* journals keep the promise of one shared map with one history, in every  *)
(* interleaving of writers, reloads, refused batches and full queues       *)
(* (StorageCoordinator::apply, StorageProjection::apply).                  *)
THEOREM SharedMapImplemented == Spec => ImplementsSharedMap
<1>1. Init => RefInd /\ Shared!Init
  BY InitMaps
<1>2. RefInd /\ [Next]_vars => RefInd'
  BY RefIndNext
<1>3. RefInd /\ RefInd' /\ [Next]_vars => [Shared!Next]_(Shared!vars)
  BY StepSimulates
<1> QED
  BY <1>1, <1>2, <1>3, PTL DEF Spec, ImplementsSharedMap, Shared!Spec
=============================================================================
