--------------------------- MODULE SequenceProofs ---------------------------
(***************************************************************************)
(* What Total and Selection are of the sequences that a queue goes         *)
(* through.  Induction over the length is by the least number for which a  *)
(* claim fails.                                                            *)
(***************************************************************************)
EXTENDS SequenceSums, SequenceFilters, Integers, SequenceTheorems, WellFoundedInduction, TLAPS

(* Every set of numbers that is not empty has a least element. *)
LEMMA LeastNumber ==
    ASSUME NEW T \in SUBSET Nat, T # {}
    PROVE  \E m \in T : \A n \in T : m <= n
PROOF
<1> DEFINE Less == {ss \in Nat \X Nat : ss[1] < ss[2]}
<1>1. IsWellFoundedOn(Less, Nat)
  BY NatLessThanWellFounded DEF OpToRel
<1> HIDE DEF Less
<1>2. PICK m \in T : \A n \in T : ~ (<<n, m>> \in Less)
  BY <1>1, WFMin
<1>3. ASSUME NEW n \in T PROVE m <= n
  <2>1. ~ (<<n, m>> \in Less) /\ n \in Nat /\ m \in Nat
    BY <1>2
  <2> QED
    BY <2>1 DEF Less
<1> QED
  BY <1>3

(* The recursion of PartialSums has a solution. *)
LEMMA SumsExist ==
    ASSUME NEW s \in Seq(Nat), NEW m \in 0 .. Len(s)
    PROVE  \E f : f = [n \in 0 .. m |-> IF n = 0 THEN 0 ELSE f[n - 1] + s[n]]
PROOF
<1> DEFINE Solves(f, k) ==
              f = [n \in 0 .. k |-> IF n = 0 THEN 0 ELSE f[n - 1] + s[n]]
           T == {k \in 0 .. Len(s) : ~ \E f : Solves(f, k)}
<1> SUFFICES T = {}
  OBVIOUS
<1> SUFFICES ASSUME T # {} PROVE FALSE
  OBVIOUS
<1>1. PICK k \in T : \A n \in T : k <= n
  <2>1. T \in SUBSET Nat
    OBVIOUS
  <2> HIDE DEF T
  <2> QED
    BY <2>1, LeastNumber
<1>2. Solves([n \in 0 .. 0 |-> 0], 0)
  OBVIOUS
<1>3. k # 0 /\ k \in 1 .. Len(s) /\ k - 1 \in 0 .. Len(s) /\ k - 1 \notin T
  <2>1. k \in 0 .. Len(s) /\ ~ \E f : Solves(f, k)
    BY <1>1
  <2>2. k # 0
    BY <2>1, <1>2
  <2>3. ~(k <= k - 1)
    BY <2>1
  <2>4. k - 1 \notin T
    <3> HIDE DEF T
    <3> QED
      BY <2>3, <1>1
  <2>5. k \in 1 .. Len(s) /\ k - 1 \in 0 .. Len(s)
    <3> HIDE DEF T
    <3>1. Len(s) \in Nat
      OBVIOUS
    <3> QED
      BY <3>1, <2>1, <2>2
  <2> QED
    BY <2>1, <2>2, <2>4, <2>5
<1>4. PICK f : Solves(f, k - 1)
  BY <1>3
<1> DEFINE g == [n \in 0 .. k |-> IF n = k THEN f[k - 1] + s[k] ELSE f[n]]
<1>5. ASSUME NEW n \in 0 .. k
      PROVE  g[n] = IF n = 0 THEN 0 ELSE g[n - 1] + s[n]
  <2>1. CASE n = 0
    BY <2>1, <1>3, <1>4
  <2>2. CASE n = k
    BY <2>2, <1>3
  <2>3. CASE n # 0 /\ n # k
    <3>1. n \in 0 .. k - 1 /\ n - 1 \in 0 .. k - 1 /\ n - 1 # k
      BY <2>3, <1>3
    <3>2. f[n] = f[n - 1] + s[n]
      BY <3>1, <2>3, <1>4
    <3> QED
      BY <3>1, <3>2, <2>3
  <2> QED
    BY <2>1, <2>2, <2>3
<1>6. Solves(g, k)
  BY <1>5
<1> QED
  BY <1>1, <1>6

(* The equations of PartialSums. *)
LEMMA SumsUnfold ==
    ASSUME NEW s \in Seq(Nat)
    PROVE  /\ PartialSums(s)[0] = 0
           /\ \A n \in 1 .. Len(s) : PartialSums(s)[n] = PartialSums(s)[n - 1] + s[n]
PROOF
<1> DEFINE f == PartialSums(s)
<1>1. Len(s) \in Nat
  OBVIOUS
<1>2. f = [n \in 0 .. Len(s) |-> IF n = 0 THEN 0 ELSE f[n - 1] + s[n]]
  <2>1. PICK g : g = [n \in 0 .. Len(s) |-> IF n = 0 THEN 0 ELSE g[n - 1] + s[n]]
    <3>1. Len(s) \in 0 .. Len(s)
      BY <1>1
    <3> QED
      BY <3>1, SumsExist
  <2> QED
    BY <2>1 DEF PartialSums
<1> HIDE DEF f
<1>3. \A n \in 0 .. Len(s) : f[n] = IF n = 0 THEN 0 ELSE f[n - 1] + s[n]
  BY <1>2
<1> QED
  BY <1>1, <1>3 DEF f

(* Sums of numbers are numbers. *)
LEMMA SumsNat ==
    ASSUME NEW s \in Seq(Nat), NEW m \in 0 .. Len(s)
    PROVE  PartialSums(s)[m] \in Nat
PROOF
<1> DEFINE T == {k \in 0 .. Len(s) : PartialSums(s)[k] \notin Nat}
<1> SUFFICES ASSUME T # {} PROVE FALSE
  OBVIOUS
<1>1. PICK k \in T : \A n \in T : k <= n
  <2>1. T \in SUBSET Nat
    OBVIOUS
  <2> HIDE DEF T
  <2> QED
    BY <2>1, LeastNumber
<1>2. k # 0 /\ k \in 1 .. Len(s) /\ k - 1 \in 0 .. Len(s) /\ k - 1 \notin T
  BY <1>1, SumsUnfold
<1>3. PartialSums(s)[k - 1] \in Nat /\ s[k] \in Nat
  BY <1>2
<1> QED
  BY <1>1, <1>2, <1>3, SumsUnfold

(* A total of numbers is a number. *)
LEMMA TotalNat ==
    ASSUME NEW s \in Seq(Nat)
    PROVE  Total(s) \in Nat
PROOF
  BY SumsNat DEF Total

(* Sums that start from the same number over the same numbers agree. *)
LEMMA SumsShift ==
    ASSUME NEW s \in Seq(Nat), NEW t \in Seq(Nat), NEW d \in 0 .. Len(t),
           d + Len(s) <= Len(t),
           \A n \in 1 .. Len(s) : t[d + n] = s[n],
           NEW m \in 0 .. Len(s)
    PROVE  PartialSums(t)[d + m] = PartialSums(t)[d] + PartialSums(s)[m]
PROOF
<1> DEFINE T == {k \in 0 .. Len(s) :
                    PartialSums(t)[d + k] # PartialSums(t)[d] + PartialSums(s)[k]}
<1> SUFFICES ASSUME T # {} PROVE FALSE
  OBVIOUS
<1>1. PICK k \in T : \A n \in T : k <= n
  <2>1. T \in SUBSET Nat
    OBVIOUS
  <2> HIDE DEF T
  <2> QED
    BY <2>1, LeastNumber
<1>2. PartialSums(t)[d] \in Nat
  BY SumsNat
<1>3. PartialSums(t)[d + 0] = PartialSums(t)[d] + PartialSums(s)[0]
  BY <1>2, SumsUnfold
<1>4. k # 0 /\ k \in 1 .. Len(s) /\ k - 1 \in 0 .. Len(s) /\ k - 1 \notin T
  <2>1. k # 0 /\ k \in 0 .. Len(s)
    BY <1>3
  <2>2. ~(k <= k - 1)
    BY <2>1
  <2>4. k - 1 \notin T
    <3> HIDE DEF T
    <3> QED
      BY <2>2, <1>1
  <2>5. k \in 1 .. Len(s) /\ k - 1 \in 0 .. Len(s)
    <3> HIDE DEF T
    <3>1. Len(s) \in Nat
      OBVIOUS
    <3> QED
      BY <3>1, <2>1
  <2> QED
    BY <2>1, <2>4, <2>5
<1>5. PartialSums(t)[d + (k - 1)] = PartialSums(t)[d] + PartialSums(s)[k - 1]
  BY <1>4
<1>6. d + k \in 1 .. Len(t) /\ (d + k) - 1 = d + (k - 1)
  BY <1>4
<1>7. PartialSums(t)[d + k] = PartialSums(t)[d + (k - 1)] + t[d + k]
  BY <1>6, SumsUnfold
<1>8. PartialSums(s)[k] = PartialSums(s)[k - 1] + s[k]
  BY <1>4, SumsUnfold
<1>9. PartialSums(s)[k - 1] \in Nat
  BY <1>4, SumsNat
<1>10. s[k] \in Nat /\ t[d + k] = s[k]
  <2>1. k \in 1 .. Len(s)
    BY <1>4
  <2> HIDE DEF T
  <2>2. s[k] \in Nat
    BY <2>1, ElementOfSeq
  <2> QED
    BY <2>1, <2>2
<1>11. PartialSums(t)[d + k] = PartialSums(t)[d] + PartialSums(s)[k]
  <2> DEFINE a == PartialSums(t)[d]
             b == PartialSums(s)[k - 1]
             c == s[k]
  <2>1. a \in Nat /\ b \in Nat /\ c \in Nat
    BY <1>2, <1>9, <1>10
  <2>2. PartialSums(t)[d + k] = (a + b) + c /\ PartialSums(s)[k] = b + c
    BY <1>5, <1>7, <1>8, <1>10
  <2> HIDE DEF a, b, c
  <2>3. PartialSums(t)[d + k] = a + PartialSums(s)[k]
    BY <2>1, <2>2
  <2> QED
    BY <2>3 DEF a
<1> QED
  BY <1>11

(* The total of a concatenation. *)
LEMMA TotalConcat ==
    ASSUME NEW s \in Seq(Nat), NEW t \in Seq(Nat)
    PROVE  Total(s \o t) = Total(s) + Total(t)
PROOF
<1> DEFINE u == s \o t
<1>1. /\ u \in Seq(Nat) /\ Len(u) = Len(s) + Len(t)
      /\ Len(s) \in 0 .. Len(s) /\ Len(t) \in 0 .. Len(t)
      /\ 0 \in 0 .. Len(u) /\ Len(s) \in 0 .. Len(u)
  OBVIOUS
<1>2. \A n \in 1 .. Len(s) : u[0 + n] = s[n]
  OBVIOUS
<1>3. \A n \in 1 .. Len(t) : u[Len(s) + n] = t[n]
  OBVIOUS
<1> HIDE DEF u
<1>4. PartialSums(u)[0 + Len(s)] = PartialSums(u)[0] + PartialSums(s)[Len(s)]
  <2>1. 0 + Len(s) <= Len(u)
    BY <1>1
  <2> QED
    BY <2>1, <1>1, <1>2, SumsShift
<1>5. PartialSums(u)[Len(s) + Len(t)] = PartialSums(u)[Len(s)] + PartialSums(t)[Len(t)]
  <2>1. Len(s) + Len(t) <= Len(u)
    BY <1>1
  <2> QED
    BY <2>1, <1>1, <1>3, SumsShift
<1>6. PartialSums(u)[0] = 0 /\ PartialSums(s)[Len(s)] \in Nat
  BY <1>1, SumsUnfold, SumsNat
<1>7. Total(u) = Total(s) + Total(t)
  BY <1>1, <1>4, <1>5, <1>6 DEF Total
<1> QED
  BY <1>7 DEF u

(* The total of no numbers is zero. *)
LEMMA TotalEmpty == Total(<<>>) = 0
PROOF
<1>1. <<>> \in Seq(Nat) /\ Len(<<>>) = 0
  OBVIOUS
<1> QED
  BY <1>1, SumsUnfold DEF Total

(* The total of one number is that number. *)
LEMMA TotalSingle ==
    ASSUME NEW x \in Nat
    PROVE  Total(<<x>>) = x
PROOF
<1> DEFINE s == <<x>>
<1>1. s \in Seq(Nat) /\ Len(s) = 1 /\ s[1] = x
  OBVIOUS
<1> HIDE DEF s
<1>2. PartialSums(s)[1] = PartialSums(s)[1 - 1] + x /\ PartialSums(s)[0] = 0
  <2>1. 1 \in 1 .. Len(s)
    BY <1>1
  <2> QED
    BY <2>1, <1>1, SumsUnfold
<1> QED
  BY <1>1, <1>2 DEF s, Total

(* The total of a queue that grows at its end. *)
LEMMA TotalAppend ==
    ASSUME NEW s \in Seq(Nat), NEW x \in Nat
    PROVE  Total(Append(s, x)) = Total(s) + x
PROOF
<1>1. Append(s, x) = s \o <<x>> /\ <<x>> \in Seq(Nat)
  BY AppendIsConcat
<1> QED
  BY <1>1, TotalConcat, TotalSingle

(* The total of a queue that loses its head. *)
LEMMA TotalTail ==
    ASSUME NEW s \in Seq(Nat), s # <<>>
    PROVE  Total(s) = Head(s) + Total(Tail(s))
PROOF
<1>1. s = <<Head(s)>> \o Tail(s) /\ Tail(s) \in Seq(Nat) /\ Head(s) \in Nat
  BY HeadTailProperties, HeadTailAppend
<1>2. <<Head(s)>> \in Seq(Nat)
  BY <1>1
<1> QED
  BY <1>1, <1>2, TotalConcat, TotalSingle

(* Induction up to a number, with a set for the claim. *)
LEMMA RangeInduction ==
    ASSUME NEW G, NEW m \in Nat, 0 \in G,
           \A k \in 0 .. m : k # 0 /\ k - 1 \in G => k \in G
    PROVE  \A k \in 0 .. m : k \in G
PROOF
<1> DEFINE T == {k \in 0 .. m : k \notin G}
<1> SUFFICES ASSUME T # {} PROVE FALSE
  OBVIOUS
<1>1. PICK k \in T : \A n \in T : k <= n
  <2>1. T \in SUBSET Nat
    OBVIOUS
  <2> HIDE DEF T
  <2> QED
    BY <2>1, LeastNumber
<1>2. k # 0 /\ k \in 0 .. m /\ k \notin G
  BY <1>1
<1>3. k - 1 \in 0 .. m /\ ~(k <= k - 1)
  BY <1>2
<1>4. k - 1 \notin T
  <2> HIDE DEF T
  <2> QED
    BY <1>1, <1>3
<1> QED
  BY <1>2, <1>3, <1>4

(* The recursion of PartialSelections has a solution, and so its equations *)
(* hold.                                                                   *)
LEMMA SelectionsUnfold ==
    ASSUME NEW A, NEW s \in Seq(A), NEW S
    PROVE  /\ PartialSelections(s, S)[0] = <<>>
           /\ \A n \in 1 .. Len(s) :
                PartialSelections(s, S)[n] =
                   IF s[n] \in S THEN Append(PartialSelections(s, S)[n - 1], s[n])
                   ELSE PartialSelections(s, S)[n - 1]
PROOF
<1> DEFINE Step(f, n) == IF n = 0 THEN <<>>
                         ELSE IF s[n] \in S THEN Append(f[n - 1], s[n]) ELSE f[n - 1]
           Solves(f, k) == f = [n \in 0 .. k |-> Step(f, n)]
           G == {k \in 0 .. Len(s) : \E f : Solves(f, k)}
<1>1. Len(s) \in Nat
  OBVIOUS
<1>2. 0 \in G
  <2>1. Solves([n \in 0 .. 0 |-> <<>>], 0)
    OBVIOUS
  <2> HIDE DEF Solves
  <2> QED
    BY <2>1, <1>1
<1>3. ASSUME NEW k \in 0 .. Len(s), k # 0, k - 1 \in G PROVE k \in G
  <2>1. PICK f : Solves(f, k - 1)
    BY <1>3
  <2> DEFINE g == [n \in 0 .. k |-> IF n = k
                                    THEN IF s[k] \in S THEN Append(f[k - 1], s[k]) ELSE f[k - 1]
                                    ELSE f[n]]
  <2>2. k \in Nat /\ k - 1 \in 0 .. k /\ k - 1 \in Nat /\ k - 1 # k
    BY <1>1, <1>3
  <2>3. ASSUME NEW n \in 0 .. k PROVE g[n] = Step(g, n)
    <3>1. CASE n = k
      BY <3>1, <2>2
    <3>2. CASE n # k
      <4>1. n \in 0 .. k - 1 /\ n \in 0 .. k
        BY <3>2, <2>2
      <4>2. f[n] = Step(f, n)
        <5> HIDE DEF Step
        <5> QED
          BY <2>1, <4>1
      <4>3. n # 0 => n - 1 \in 0 .. k /\ n - 1 # k
        BY <4>1, <2>2
      <4>4. n # 0 => g[n - 1] = f[n - 1]
        BY <4>3
      <4>5. g[n] = f[n]
        BY <4>1, <3>2
      <4> HIDE DEF g
      <4> QED
        BY <4>2, <4>4, <4>5
    <3> QED
      BY <3>1, <3>2
  <2>4. g = [n \in 0 .. k |-> g[n]]
    OBVIOUS
  <2> HIDE DEF g
  <2>5. Solves(g, k)
    <3> HIDE DEF Step
    <3> QED
      BY <2>3, <2>4
  <2> QED
    BY <2>5
<1>4. Len(s) \in G
  <2> HIDE DEF G
  <2> QED
    BY <1>1, <1>2, <1>3, RangeInduction, SMTT(30)
<1> DEFINE h == PartialSelections(s, S)
<1>5. Solves(h, Len(s))
  BY <1>4 DEF PartialSelections
<1> HIDE DEF h, G
<1>6. \A n \in 0 .. Len(s) : h[n] = Step(h, n)
  <2> HIDE DEF Step
  <2> QED
    BY <1>5
<1> QED
  BY <1>1, <1>6 DEF h

(* A selection is a sequence of members of s that are in S. *)
LEMMA SelectionsType ==
    ASSUME NEW A, NEW s \in Seq(A), NEW S, NEW m \in 0 .. Len(s)
    PROVE  PartialSelections(s, S)[m] \in Seq(A \cap S)
PROOF
<1> DEFINE f == PartialSelections(s, S)
           G == {k \in 0 .. Len(s) : f[k] \in Seq(A \cap S)}
<1>1. Len(s) \in Nat
  OBVIOUS
<1>2. 0 \in G
  <2>1. f[0] = <<>> /\ <<>> \in Seq(A \cap S)
    BY SelectionsUnfold
  <2> HIDE DEF f
  <2>2. 0 \in 0 .. Len(s)
    BY <1>1
  <2> QED
    BY <2>1, <2>2
<1>3. ASSUME NEW k \in 0 .. Len(s), k # 0, k - 1 \in G PROVE k \in G
  <2>1. k \in 1 .. Len(s) /\ f[k - 1] \in Seq(A \cap S)
    BY <1>1, <1>3
  <2>2. s[k] \in A
    BY <2>1, ElementOfSeq
  <2>3. f[k] = IF s[k] \in S THEN Append(f[k - 1], s[k]) ELSE f[k - 1]
    BY <2>1, SelectionsUnfold
  <2> HIDE DEF f
  <2>4. f[k] \in Seq(A \cap S)
    <3>1. CASE s[k] \in S
      <4>1. s[k] \in A \cap S
        BY <2>2, <3>1
      <4> DEFINE AS == A \cap S
      <4> HIDE DEF AS
      <4> QED
        BY <2>1, <2>3, <3>1, <4>1, AppendProperties DEF AS
    <3> QED
      BY <3>1, <2>1, <2>3
  <2> QED
    BY <2>4
<1> HIDE DEF G
<1>4. m \in G
  BY <1>1, <1>2, <1>3, RangeInduction
<1> QED
  BY <1>4 DEF G

(* A selection is a sequence of members of the set. *)
LEMMA SelectionType ==
    ASSUME NEW A, NEW s \in Seq(A), NEW S
    PROVE  Selection(s, S) \in Seq(A \cap S)
PROOF
<1>1. Len(s) \in 0 .. Len(s)
  OBVIOUS
<1> QED
  BY <1>1, SelectionsType DEF Selection

(* The selection from a concatenation. *)
LEMMA SelectionConcat ==
    ASSUME NEW A, NEW s \in Seq(A), NEW t \in Seq(A), NEW S
    PROVE  Selection(s \o t, S) = Selection(s, S) \o Selection(t, S)
PROOF
<1> DEFINE u == s \o t
           f == PartialSelections(s, S)
           g == PartialSelections(t, S)
           h == PartialSelections(u, S)
           n == Len(s)
<1>1. /\ u \in Seq(A) /\ Len(u) = n + Len(t)
      /\ n \in Nat /\ Len(t) \in Nat
      /\ \A k \in 1 .. n : u[k] = s[k]
      /\ \A k \in 1 .. Len(t) : u[n + k] = t[k]
  OBVIOUS
<1> HIDE DEF u
<1>2. /\ f[0] = <<>> /\ g[0] = <<>> /\ h[0] = <<>>
      /\ \A k \in 1 .. n : f[k] = IF s[k] \in S THEN Append(f[k - 1], s[k]) ELSE f[k - 1]
      /\ \A k \in 1 .. Len(t) : g[k] = IF t[k] \in S THEN Append(g[k - 1], t[k]) ELSE g[k - 1]
      /\ \A k \in 1 .. Len(u) : h[k] = IF u[k] \in S THEN Append(h[k - 1], u[k]) ELSE h[k - 1]
  <2>1. /\ f[0] = <<>>
        /\ \A k \in 1 .. n : f[k] = IF s[k] \in S THEN Append(f[k - 1], s[k]) ELSE f[k - 1]
    BY SelectionsUnfold
  <2>2. /\ g[0] = <<>>
        /\ \A k \in 1 .. Len(t) : g[k] = IF t[k] \in S THEN Append(g[k - 1], t[k]) ELSE g[k - 1]
    BY SelectionsUnfold
  <2>3. u \in Seq(A)
    BY <1>1
  <2>4. /\ h[0] = <<>>
        /\ \A k \in 1 .. Len(u) : h[k] = IF u[k] \in S THEN Append(h[k - 1], u[k]) ELSE h[k - 1]
    BY <2>3, SelectionsUnfold
  <2> QED
    BY <2>1, <2>2, <2>4
<1>3. /\ n \in 0 .. n /\ f[n] \in Seq(A)
      /\ \A k \in 0 .. Len(t) : g[k] \in Seq(A)
  <2>1. \A x \in Seq(A \cap S) : x \in Seq(A)
    OBVIOUS
  <2>2. n \in 0 .. n
    OBVIOUS
  <2>3. f[n] \in Seq(A \cap S)
    BY <2>2, SelectionsType
  <2>4. \A k \in 0 .. Len(t) : g[k] \in Seq(A \cap S)
    BY SelectionsType
  <2> HIDE DEF f, g, n
  <2> QED
    BY <2>1, <2>2, <2>3, <2>4
<1>4. \A k \in 1 .. Len(t) : t[k] \in A
  BY ElementOfSeq
<1> HIDE DEF f, g, h, n
<1>5. h[n] = f[n]
  <2> DEFINE G == {k \in 0 .. n : h[k] = f[k]}
  <2>1. 0 \in G
    BY <1>1, <1>2
  <2>2. ASSUME NEW k \in 0 .. n, k # 0, k - 1 \in G PROVE k \in G
    <3>1. k \in 1 .. n /\ k \in 1 .. Len(u) /\ h[k - 1] = f[k - 1]
      BY <1>1, <2>2
    <3>2. h[k] = f[k]
      BY <3>1, <1>1, <1>2
    <3> QED
      BY <3>2
  <2> HIDE DEF G
  <2>3. n \in G
    BY <2>1, <2>2, <1>1, <1>3, RangeInduction
  <2> QED
    BY <2>3 DEF G
<1>6. h[n + Len(t)] = f[n] \o g[Len(t)]
  <2> DEFINE c(k) == f[n] \o g[k]
             G == {k \in 0 .. Len(t) : h[n + k] = c(k)}
  <2>1. 0 \in G
    <3>1. f[n] \o <<>> = f[n]
      BY <1>3, ConcatEmptySeq
    <3>2. n + 0 = n /\ 0 \in 0 .. Len(t)
      BY <1>1
    <3>3. h[n + 0] = c(0)
      BY <3>1, <3>2, <1>2, <1>5
    <3> HIDE DEF c
    <3> QED
      BY <3>2, <3>3
  <2>2. ASSUME NEW k \in 0 .. Len(t), k # 0, k - 1 \in G PROVE k \in G
    <3>1. /\ k \in 1 .. Len(t) /\ k - 1 \in 0 .. Len(t)
          /\ h[n + (k - 1)] = c(k - 1)
      <4> HIDE DEF c
      <4> QED
        BY <1>1, <2>2
    <3>2. n + k \in 1 .. Len(u) /\ (n + k) - 1 = n + (k - 1)
      BY <3>1, <1>1
    <3>3. h[n + k] = IF u[n + k] \in S THEN Append(h[(n + k) - 1], u[n + k]) ELSE h[(n + k) - 1]
      BY <3>2, <1>2
    <3>4. h[n + k] = IF t[k] \in S THEN Append(f[n] \o g[k - 1], t[k]) ELSE f[n] \o g[k - 1]
      BY <3>1, <3>2, <3>3, <1>1
    <3>5. g[k] = IF t[k] \in S THEN Append(g[k - 1], t[k]) ELSE g[k - 1]
      BY <3>1, <1>2
    <3>6. f[n] \o Append(g[k - 1], t[k]) = Append(f[n] \o g[k - 1], t[k])
      <4> DEFINE a == f[n]
                 b == g[k - 1]
                 x == t[k]
      <4>1. a \in Seq(A) /\ b \in Seq(A) /\ x \in A
        BY <1>3, <1>4, <3>1
      <4> HIDE DEF a, b, x
      <4>2. a \o Append(b, x) = Append(a \o b, x)
        BY <4>1
      <4> QED
        BY <4>2 DEF a, b, x
    <3>7. h[n + k] = c(k)
      BY <3>4, <3>5, <3>6
    <3> HIDE DEF c
    <3> QED
      BY <3>7
  <2> HIDE DEF G
  <2>3. Len(t) \in G
    <3>1. Len(t) \in 0 .. Len(t)
      BY <1>1
    <3> QED
      BY <3>1, <2>1, <2>2, <1>1, RangeInduction
  <2> QED
    BY <2>3 DEF G
<1>7. Selection(u, S) = Selection(s, S) \o Selection(t, S)
  BY <1>1, <1>6 DEF Selection, f, g, h, n
<1> QED
  BY <1>7 DEF u

(* The selection from no members, and from one. *)
LEMMA SelectionEmpty ==
    ASSUME NEW S
    PROVE  Selection(<<>>, S) = <<>>
PROOF
<1>1. <<>> \in Seq({}) /\ Len(<<>>) = 0
  OBVIOUS
<1>2. PartialSelections(<<>>, S)[0] = <<>>
  BY <1>1, SelectionsUnfold, ZenonT(30)
<1> QED
  BY <1>1, <1>2 DEF Selection

(* What is selected from one entry. *)
LEMMA SelectionSingle ==
    ASSUME NEW x, NEW S
    PROVE  Selection(<<x>>, S) = IF x \in S THEN <<x>> ELSE <<>>
PROOF
<1> DEFINE s == <<x>>
<1>1. s \in Seq({x}) /\ Len(s) = 1 /\ s[1] = x /\ 1 \in 1 .. Len(s) /\ 1 - 1 = 0
  OBVIOUS
<1> HIDE DEF s
<1>2. /\ PartialSelections(s, S)[0] = <<>>
      /\ PartialSelections(s, S)[1] =
           IF s[1] \in S THEN Append(PartialSelections(s, S)[1 - 1], s[1])
           ELSE PartialSelections(s, S)[1 - 1]
  BY <1>1, SelectionsUnfold
<1>3. Append(<<>>, x) = <<x>>
  OBVIOUS
<1> QED
  BY <1>1, <1>2, <1>3 DEF s, Selection

(* The selection from a queue that grows at its end. *)
LEMMA SelectionAppend ==
    ASSUME NEW A, NEW s \in Seq(A), NEW x \in A, NEW S
    PROVE  Selection(Append(s, x), S)
              = IF x \in S THEN Append(Selection(s, S), x) ELSE Selection(s, S)
PROOF
<1>1. Append(s, x) = s \o <<x>> /\ <<x>> \in Seq(A)
  BY AppendIsConcat
<1>2. Selection(Append(s, x), S) = Selection(s, S) \o Selection(<<x>>, S)
  <2> DEFINE t == <<x>>
  <2>1. t \in Seq(A) /\ Append(s, x) = s \o t
    BY <1>1
  <2> HIDE DEF t
  <2>2. Selection(s \o t, S) = Selection(s, S) \o Selection(t, S)
    BY <2>1, SelectionConcat
  <2> QED
    BY <2>1, <2>2 DEF t
<1>3. Selection(s, S) \in Seq(A \cap S)
  BY SelectionType
<1>4. CASE x \in S
  <2>1. x \in A \cap S
    BY <1>4
  <2>2. Append(Selection(s, S), x) = Selection(s, S) \o <<x>>
    BY <1>3, <2>1, AppendIsConcat
  <2> QED
    BY <1>2, <1>4, <2>2, SelectionSingle
<1>5. CASE x \notin S
  <2>1. Selection(s, S) \o <<>> = Selection(s, S)
    BY <1>3, ConcatEmptySeq
  <2> QED
    BY <1>2, <1>5, <2>1, SelectionSingle
<1> QED
  BY <1>4, <1>5

(* The selection from a queue that loses its head. *)
LEMMA SelectionTail ==
    ASSUME NEW A, NEW s \in Seq(A), s # <<>>, NEW S
    PROVE  Selection(s, S) = IF Head(s) \in S THEN <<Head(s)>> \o Selection(Tail(s), S)
                             ELSE Selection(Tail(s), S)
PROOF
<1>1. s = <<Head(s)>> \o Tail(s) /\ Tail(s) \in Seq(A) /\ Head(s) \in A
  BY HeadTailProperties, HeadTailAppend
<1>2. <<Head(s)>> \in Seq(A)
  BY <1>1
<1>3. Selection(s, S) = Selection(<<Head(s)>>, S) \o Selection(Tail(s), S)
  <2> DEFINE h == <<Head(s)>>
             r == Tail(s)
  <2>1. h \in Seq(A) /\ s = h \o r /\ r \in Seq(A)
    BY <1>1, <1>2
  <2> HIDE DEF h, r
  <2>2. Selection(h \o r, S) = Selection(h, S) \o Selection(r, S)
    BY <2>1, SelectionConcat
  <2> QED
    BY <2>1, <2>2 DEF h, r
<1>4. Selection(Tail(s), S) \in Seq(A \cap S)
  BY <1>1, SelectionType
<1>5. <<>> \o Selection(Tail(s), S) = Selection(Tail(s), S)
  BY <1>4, ConcatEmptySeq
<1> QED
  BY <1>3, <1>5, SelectionSingle

(* A selection has its members at increasing places of s, and every member *)
(* of s that is in S is one of them.                                       *)
LEMMA SelectionsEmbed ==
    ASSUME NEW A, NEW s \in Seq(A), NEW S, NEW m \in 0 .. Len(s)
    PROVE  \E h \in [1 .. Len(PartialSelections(s, S)[m]) -> 1 .. m] :
             /\ \A i \in 1 .. Len(PartialSelections(s, S)[m]) :
                   s[h[i]] \in S /\ s[h[i]] = PartialSelections(s, S)[m][i]
             /\ \A i, j \in 1 .. Len(PartialSelections(s, S)[m]) : i < j => h[i] < h[j]
             /\ \A n \in 1 .. m : s[n] \in S =>
                   \E i \in 1 .. Len(PartialSelections(s, S)[m]) : h[i] = n
PROOF
<1> DEFINE f == PartialSelections(s, S)
           Embeds(h, k) ==
             /\ h \in [1 .. Len(f[k]) -> 1 .. k]
             /\ \A i \in 1 .. Len(f[k]) : s[h[i]] \in S /\ s[h[i]] = f[k][i]
             /\ \A i, j \in 1 .. Len(f[k]) : i < j => h[i] < h[j]
             /\ \A n \in 1 .. k : s[n] \in S => \E i \in 1 .. Len(f[k]) : h[i] = n
           G == {k \in 0 .. Len(s) : \E h : Embeds(h, k)}
<1>1. Len(s) \in Nat /\ 0 \in 0 .. Len(s)
  OBVIOUS
<1>2. 0 \in G
  <2>1. f[0] = <<>>
    BY SelectionsUnfold
  <2> HIDE DEF f
  <2>2. Len(f[0]) = 0
    BY <2>1
  <2>3. Embeds([i \in {} |-> 1], 0)
    BY <2>2
  <2> HIDE DEF Embeds
  <2> QED
    BY <2>3, <1>1
<1>3. ASSUME NEW k \in 0 .. Len(s), k # 0, k - 1 \in G PROVE k \in G
  <2>1. PICK h : Embeds(h, k - 1)
    BY <1>3
  <2>2. k \in 1 .. Len(s) /\ k - 1 \in 0 .. Len(s) /\ k \in Nat
    BY <1>1, <1>3
  <2>3. f[k] = IF s[k] \in S THEN Append(f[k - 1], s[k]) ELSE f[k - 1]
    BY <2>2, SelectionsUnfold
  <2>4. f[k - 1] \in Seq(A \cap S) /\ s[k] \in A
    BY <2>2, SelectionsType, ElementOfSeq
  <2> DEFINE n == Len(f[k - 1])
  <2> HIDE DEF f
  <2>5. n \in Nat
    BY <2>4
  <2>6. \E g : Embeds(g, k)
    <3>1. CASE s[k] \notin S
      <4>1. f[k] = f[k - 1]
        BY <3>1, <2>3
      <4>2. Embeds(h, k)
        BY <2>1, <2>2, <4>1, <3>1
      <4> HIDE DEF Embeds
      <4> QED
        BY <4>2
    <3>2. CASE s[k] \in S
      <4>1. f[k] = Append(f[k - 1], s[k]) /\ s[k] \in A \cap S
        BY <2>3, <2>4, <3>2
      <4>2. /\ Len(f[k]) = n + 1
            /\ f[k][n + 1] = s[k]
            /\ \A i \in 1 .. n : f[k][i] = f[k - 1][i]
        BY <4>1, <2>4
      <4> DEFINE g == [i \in 1 .. n + 1 |-> IF i = n + 1 THEN k ELSE h[i]]
      <4>9. h \in [1 .. n -> 1 .. k - 1]
        BY <2>1
      <4> HIDE DEF n
      <4>3. /\ \A i \in 1 .. n : g[i] = h[i] /\ h[i] \in 1 .. k - 1
            /\ g[n + 1] = k
            /\ \A i \in 1 .. n + 1 : i = n + 1 \/ i \in 1 .. n
        BY <4>9, <2>5
      <4>4. g \in [1 .. Len(f[k]) -> 1 .. k]
        <5>1. \A i \in 1 .. n + 1 : g[i] \in 1 .. k
          <6> SUFFICES ASSUME NEW i \in 1 .. n + 1 PROVE g[i] \in 1 .. k
            OBVIOUS
          <6> HIDE DEF g
          <6> QED
            BY <4>3, <2>2
        <5> QED
          BY <5>1, <4>2
      <4> HIDE DEF g
      <4>5. \A i \in 1 .. Len(f[k]) : s[g[i]] \in S /\ s[g[i]] = f[k][i]
        <5> SUFFICES ASSUME NEW i \in 1 .. n + 1
                     PROVE  s[g[i]] \in S /\ s[g[i]] = f[k][i]
          BY <4>2
        <5>1. CASE i = n + 1
          BY <5>1, <3>2, <4>2, <4>3
        <5>2. CASE i \in 1 .. n
          <6>1. s[h[i]] \in S /\ s[h[i]] = f[k - 1][i]
            BY <5>2, <2>1 DEF n
          <6> QED
            BY <6>1, <5>2, <4>2, <4>3
        <5> QED
          BY <5>1, <5>2, <4>3
      <4>6. \A i, j \in 1 .. Len(f[k]) : i < j => g[i] < g[j]
        <5> SUFFICES ASSUME NEW i \in 1 .. n + 1, NEW j \in 1 .. n + 1, i < j
                     PROVE  g[i] < g[j]
          BY <4>2
        <5>1. i \in 1 .. n
          BY <2>5
        <5>2. CASE j = n + 1
          BY <5>1, <5>2, <4>3, <2>2
        <5>3. CASE j \in 1 .. n
          <6>1. h[i] < h[j]
            BY <5>1, <5>3, <2>1 DEF n
          <6> QED
            BY <6>1, <5>1, <5>3, <4>3
        <5> QED
          BY <5>2, <5>3, <4>3
      <4>7. \A l \in 1 .. k : s[l] \in S => \E i \in 1 .. Len(f[k]) : g[i] = l
        <5> SUFFICES ASSUME NEW l \in 1 .. k, s[l] \in S
                     PROVE  \E i \in 1 .. n + 1 : g[i] = l
          BY <4>2
        <5>1. CASE l = k
          <6>1. n + 1 \in 1 .. n + 1
            BY <2>5
          <6> QED
            BY <5>1, <6>1, <4>3
        <5>2. CASE l # k
          <6>1. l \in 1 .. k - 1
            BY <5>2, <2>2
          <6>2. PICK i \in 1 .. n : h[i] = l
            BY <2>1, <6>1 DEF n
          <6>3. i \in 1 .. n + 1
            BY <2>5
          <6> QED
            BY <6>2, <6>3, <4>3
        <5> QED
          BY <5>1, <5>2
      <4>8. Embeds(g, k)
        BY <4>4, <4>5, <4>6, <4>7
      <4> HIDE DEF Embeds
      <4> QED
        BY <4>8
    <3> QED
      BY <3>1, <3>2
  <2> HIDE DEF Embeds
  <2> QED
    BY <2>6
<1>4. m \in G
  <2> HIDE DEF G
  <2> QED
    BY <1>1, <1>2, <1>3, RangeInduction
<1>5. PICK h : Embeds(h, m)
  BY <1>4
<1> QED
  BY <1>5

(* A selection keeps the order: its positions map, increasing, onto the    *)
(* positions whose entries are in the set.                                 *)
LEMMA SelectionEmbeds ==
    ASSUME NEW A, NEW s \in Seq(A), NEW S
    PROVE  \E h \in [1 .. Len(Selection(s, S)) -> 1 .. Len(s)] :
             /\ \A i \in 1 .. Len(Selection(s, S)) :
                   s[h[i]] \in S /\ s[h[i]] = Selection(s, S)[i]
             /\ \A i, j \in 1 .. Len(Selection(s, S)) : i < j => h[i] < h[j]
             /\ \A n \in 1 .. Len(s) : s[n] \in S =>
                   \E i \in 1 .. Len(Selection(s, S)) : h[i] = n
PROOF
<1>1. Len(s) \in 0 .. Len(s)
  OBVIOUS
<1> QED
  BY <1>1, SelectionsEmbed, SMTT(30) DEF Selection

(* Nothing is selected when no member is in S, *)
LEMMA SelectionNone ==
    ASSUME NEW A, NEW s \in Seq(A), NEW S, \A n \in 1 .. Len(s) : s[n] \notin S
    PROVE  Selection(s, S) = <<>>
PROOF
<1>1. Selection(s, S) \in Seq(A \cap S)
  BY SelectionType
<1>2. PICK h \in [1 .. Len(Selection(s, S)) -> 1 .. Len(s)] :
         \A i \in 1 .. Len(Selection(s, S)) : s[h[i]] \in S
  BY SelectionEmbeds
<1> DEFINE r == Selection(s, S)
<1> HIDE DEF r
<1>3. Len(r) = 0
  <2>1. Len(r) \in Nat
    BY <1>1 DEF r
  <2>2. 1 \notin 1 .. Len(r)
    BY <1>2 DEF r
  <2> QED
    BY <2>1, <2>2
<1>4. r = <<>>
  BY <1>1, <1>3 DEF r
<1> QED
  BY <1>4 DEF r

(* and all of s when each is. *)
LEMMA SelectionAll ==
    ASSUME NEW A, NEW s \in Seq(A), NEW S, \A n \in 1 .. Len(s) : s[n] \in S
    PROVE  Selection(s, S) = s
PROOF
<1> DEFINE f == PartialSelections(s, S)
           Same(k) == /\ f[k] \in Seq(A) /\ Len(f[k]) = k
                      /\ \A i \in 1 .. k : f[k][i] = s[i]
           G == {k \in 0 .. Len(s) : Same(k)}
<1>1. Len(s) \in Nat /\ Len(s) \in 0 .. Len(s) /\ 0 \in 0 .. Len(s)
  OBVIOUS
<1>2. 0 \in G
  <2>1. f[0] = <<>>
    BY SelectionsUnfold
  <2>2. Same(0)
    BY <2>1
  <2> HIDE DEF Same
  <2> QED
    BY <1>1, <2>2
<1>3. ASSUME NEW k \in 0 .. Len(s), k # 0, k - 1 \in G PROVE k \in G
  <2>1. k \in 1 .. Len(s) /\ k \in Nat
    BY <1>1, <1>3
  <2>2. Same(k - 1)
    BY <1>3
  <2>3. f[k] = Append(f[k - 1], s[k])
    BY <2>1, SelectionsUnfold
  <2>4. s[k] \in A
    BY <2>1, ElementOfSeq
  <2>5. Same(k)
    <3> HIDE DEF f
    <3>1. /\ f[k] \in Seq(A) /\ Len(f[k]) = (k - 1) + 1
          /\ f[k][k] = s[k] /\ \A i \in 1 .. k - 1 : f[k][i] = f[k - 1][i]
      BY <2>1, <2>2, <2>3, <2>4
    <3> QED
      BY <2>1, <2>2, <3>1
  <2> HIDE DEF Same
  <2> QED
    BY <2>5
<1> HIDE DEF G
<1>4. Len(s) \in G
  BY <1>1, <1>2, <1>3, RangeInduction
<1>5. Same(Len(s))
  BY <1>4 DEF G
<1> HIDE DEF f
<1>6. f[Len(s)] = s
  BY <1>5, <1>1
<1> QED
  BY <1>6 DEF f, Selection

(* To select twice is to select what is in both sets. *)
LEMMA SelectionWithin ==
    ASSUME NEW A, NEW s \in Seq(A), NEW S, NEW R
    PROVE  Selection(Selection(s, S), R) = Selection(s, S \cap R)
PROOF
<1> DEFINE f == PartialSelections(s, S)
           SR == S \cap R
           g == PartialSelections(s, SR)
           G == {k \in 0 .. Len(s) : Selection(f[k], R) = g[k]}
<1>1. Len(s) \in Nat /\ Len(s) \in 0 .. Len(s) /\ 0 \in 0 .. Len(s)
  OBVIOUS
<1>2. 0 \in G
  <2>1. f[0] = <<>> /\ g[0] = <<>>
    BY SelectionsUnfold
  <2>2. Selection(f[0], R) = g[0]
    BY <2>1, SelectionEmpty
  <2> HIDE DEF f, g
  <2> QED
    BY <1>1, <2>2
<1>3. ASSUME NEW k \in 0 .. Len(s), k # 0, k - 1 \in G PROVE k \in G
  <2>1. k \in 1 .. Len(s) /\ k - 1 \in 0 .. Len(s)
    BY <1>1, <1>3
  <2>2. Selection(f[k - 1], R) = g[k - 1]
    BY <1>3
  <2>3. f[k] = IF s[k] \in S THEN Append(f[k - 1], s[k]) ELSE f[k - 1]
    BY <2>1, SelectionsUnfold
  <2>4. g[k] = IF s[k] \in SR THEN Append(g[k - 1], s[k]) ELSE g[k - 1]
    BY <2>1, SelectionsUnfold
  <2>5. f[k - 1] \in Seq(A \cap S) /\ s[k] \in A
    BY <2>1, SelectionsType, ElementOfSeq
  <2> DEFINE AS == A \cap S
             b == f[k - 1]
             x == s[k]
  <2>6. s[k] \in S => Selection(Append(b, x), R)
                        = IF x \in R THEN Append(Selection(b, R), x) ELSE Selection(b, R)
    <3>1. CASE s[k] \in S
      <4>1. b \in Seq(AS) /\ x \in AS
        BY <2>5, <3>1
      <4> HIDE DEF AS, b, x
      <4> QED
        BY <4>1, SelectionAppend
    <3> QED
      BY <3>1
  <2>7. Selection(f[k], R) = g[k]
    <3> HIDE DEF f, g
    <3> QED
      BY <2>2, <2>3, <2>4, <2>6
  <2> HIDE DEF f, g
  <2> QED
    BY <2>7
<1> HIDE DEF G
<1>4. Len(s) \in G
  BY <1>1, <1>2, <1>3, RangeInduction
<1> HIDE DEF f, g
<1>5. Selection(f[Len(s)], R) = g[Len(s)]
  BY <1>4 DEF G
<1> QED
  BY <1>5 DEF f, g, Selection

(* The total of what the members of a queue weigh. *)
Weights(s, w) == [i \in 1 .. Len(s) |-> w[s[i]]]

Weighed(s, w) == Total(Weights(s, w))

(* The weights of a sequence's entries are as many natural numbers. *)
LEMMA WeightsType ==
    ASSUME NEW A, NEW s \in Seq(A), NEW w \in [A -> Nat]
    PROVE  /\ Weights(s, w) \in Seq(Nat) /\ Len(Weights(s, w)) = Len(s)
           /\ \A i \in 1 .. Len(s) : Weights(s, w)[i] = w[s[i]]
  BY DEF Weights

(* A weight is a natural number. *)
LEMMA WeighedNat ==
    ASSUME NEW A, NEW s \in Seq(A), NEW w \in [A -> Nat]
    PROVE  Weighed(s, w) \in Nat
  BY WeightsType, TotalNat DEF Weighed

(* The empty sequence weighs nothing. *)
LEMMA WeighedEmpty ==
    ASSUME NEW w
    PROVE  Weighed(<<>>, w) = 0
<1>1. Weights(<<>>, w) = <<>>
  BY DEF Weights
<1> QED
  BY <1>1, TotalEmpty DEF Weighed

(* The weight of two queues, one after the other. *)
LEMMA WeighedConcat ==
    ASSUME NEW A, NEW s \in Seq(A), NEW t \in Seq(A), NEW w \in [A -> Nat]
    PROVE  Weighed(s \o t, w) = Weighed(s, w) + Weighed(t, w)
<1> DEFINE u == s \o t
           x == Weights(s, w)
           y == Weights(t, w)
           z == Weights(u, w)
<1>1. /\ u \in Seq(A) /\ Len(u) = Len(s) + Len(t)
      /\ \A i \in 1 .. Len(u) : u[i] = IF i <= Len(s) THEN s[i] ELSE t[i - Len(s)]
  BY ConcatProperties
<1>2. /\ x \in Seq(Nat) /\ Len(x) = Len(s) /\ \A i \in 1 .. Len(s) : x[i] = w[s[i]]
      /\ y \in Seq(Nat) /\ Len(y) = Len(t) /\ \A i \in 1 .. Len(t) : y[i] = w[t[i]]
  BY WeightsType
<1> HIDE DEF u, x, y
<1>3. z \in Seq(Nat) /\ Len(z) = Len(u) /\ \A i \in 1 .. Len(u) : z[i] = w[u[i]]
  BY <1>1, WeightsType
<1> HIDE DEF z
<1>4. /\ x \o y \in Seq(Nat) /\ Len(x \o y) = Len(x) + Len(y)
      /\ \A i \in 1 .. Len(x) + Len(y) :
            (x \o y)[i] = IF i <= Len(x) THEN x[i] ELSE y[i - Len(x)]
  BY <1>2, ConcatProperties, ZenonT(30)
<1>5. \A i \in 1 .. Len(z) : z[i] = (x \o y)[i]
  <2> TAKE i \in 1 .. Len(z)
  <2>1. Len(s) \in Nat /\ Len(t) \in Nat
    BY LenProperties
  <2>2. CASE i <= Len(s)
    BY <1>1, <1>2, <1>3, <1>4, <2>1, <2>2, SMTT(30)
  <2>3. CASE ~(i <= Len(s))
    <3>1. i - Len(s) \in 1 .. Len(t)
      BY <1>1, <1>3, <2>1, <2>3
    <3> DEFINE j == i - Len(s)
    <3>2. u[i] = t[j] /\ z[i] = w[u[i]]
      BY <1>1, <1>3, <2>3
    <3>3. (x \o y)[i] = y[j]
      BY <1>1, <1>2, <1>3, <1>4, <2>1, <2>3
    <3>4. y[j] = w[t[j]]
      BY <1>2, <3>1
    <3> QED
      BY <3>2, <3>3, <3>4
  <2> QED
    BY <2>2, <2>3
<1>6. Len(z) = Len(x \o y)
  BY <1>1, <1>2, <1>3, <1>4
<1>7. z = x \o y
  BY <1>3, <1>4, <1>5, <1>6, SeqEqual
<1>8. Total(x \o y) = Total(x) + Total(y)
  BY <1>2, TotalConcat
<1> QED
  BY <1>7, <1>8 DEF Weighed, u, x, y, z

(* One entry weighs its weight. *)
LEMMA WeighedSingle ==
    ASSUME NEW A, NEW a \in A, NEW w \in [A -> Nat]
    PROVE  Weighed(<<a>>, w) = w[a]
<1>1. Weights(<<a>>, w) = <<w[a]>>
  BY DEF Weights
<1>2. w[a] \in Nat
  OBVIOUS
<1> QED
  BY <1>1, <1>2, TotalSingle DEF Weighed

(* An appended entry adds its weight. *)
LEMMA WeighedAppend ==
    ASSUME NEW A, NEW s \in Seq(A), NEW a \in A, NEW w \in [A -> Nat]
    PROVE  Weighed(Append(s, a), w) = Weighed(s, w) + w[a]
<1> DEFINE t == <<a>>
<1>1. t \in Seq(A) /\ Append(s, a) = s \o t
  BY AppendIsConcat
<1>2. Weighed(t, w) = w[a]
  BY WeighedSingle
<1> HIDE DEF t
<1>3. Weighed(s \o t, w) = Weighed(s, w) + Weighed(t, w)
  BY <1>1, WeighedConcat
<1> QED
  BY <1>1, <1>2, <1>3

(* A sequence weighs as much as its head and its tail. *)
LEMMA WeighedTail ==
    ASSUME NEW A, NEW s \in Seq(A), s # <<>>, NEW w \in [A -> Nat]
    PROVE  Weighed(s, w) = w[Head(s)] + Weighed(Tail(s), w)
<1> DEFINE t == <<Head(s)>>
           r == Tail(s)
           h == Head(s)
<1>1. t \in Seq(A) /\ r \in Seq(A) /\ s = t \o r /\ h \in A
  BY HeadTailProperties, HeadTailAppend
<1>2. t = <<h>>
  OBVIOUS
<1> HIDE DEF r, h
<1>3. Weighed(<<h>>, w) = w[h]
  BY <1>1, WeighedSingle
<1> HIDE DEF t
<1>4. Weighed(t \o r, w) = Weighed(t, w) + Weighed(r, w)
  BY <1>1, WeighedConcat
<1> QED
  BY <1>1, <1>2, <1>3, <1>4 DEF r, h

(* Nothing grows heavier by losing members. *)
LEMMA WeighedSelection ==
    ASSUME NEW A, NEW s \in Seq(A), NEW S, NEW w \in [A -> Nat]
    PROVE  Weighed(Selection(s, S), w) <= Weighed(s, w)
<1> DEFINE f == PartialSelections(s, S)
           x == Weights(s, w)
           g == PartialSums(x)
           G == {k \in 0 .. Len(s) : Weighed(f[k], w) <= g[k]}
<1>1. Len(s) \in Nat /\ x \in Seq(Nat) /\ Len(x) = Len(s)
      /\ \A i \in 1 .. Len(s) : x[i] = w[s[i]]
  BY WeightsType
<1>2. /\ f[0] = <<>>
      /\ \A n \in 1 .. Len(s) :
           f[n] = IF s[n] \in S THEN Append(f[n - 1], s[n]) ELSE f[n - 1]
  BY SelectionsUnfold
<1>3. \A n \in 0 .. Len(s) : f[n] \in Seq(A \cap S)
  BY SelectionsType
<1>4. \A n \in 0 .. Len(s) : f[n] \in Seq(A)
  BY <1>3, SeqMonotonic
<1> HIDE DEF f, x
<1>5. /\ g[0] = 0 /\ \A n \in 1 .. Len(s) : g[n] = g[n - 1] + x[n]
  BY <1>1, SumsUnfold
<1>6. \A n \in 0 .. Len(s) : g[n] \in Nat
  BY <1>1, SumsNat
<1> HIDE DEF g
<1>7. 0 \in G
  BY <1>1, <1>2, <1>5, WeighedEmpty
<1>8. \A k \in 0 .. Len(s) : k # 0 /\ k - 1 \in G => k \in G
  <2> TAKE k \in 0 .. Len(s)
  <2> HAVE k # 0 /\ k - 1 \in G
  <2>1. k \in 1 .. Len(s) /\ k - 1 \in 0 .. Len(s) /\ s[k] \in A
    BY <1>1
  <2>2. Weighed(f[k - 1], w) <= g[k - 1] /\ Weighed(f[k - 1], w) \in Nat
    BY <1>4, <2>1, WeighedNat
  <2>3. g[k] = g[k - 1] + w[s[k]] /\ w[s[k]] \in Nat /\ g[k - 1] \in Nat
    BY <1>1, <1>5, <1>6, <2>1
  <2>4. Weighed(Append(f[k - 1], s[k]), w) = Weighed(f[k - 1], w) + w[s[k]]
    BY <1>4, <2>1, WeighedAppend
  <2>5. Weighed(f[k], w) <= g[k]
    BY <1>2, <2>1, <2>2, <2>3, <2>4, SMTT(30)
  <2> QED
    BY <2>5
<1> HIDE DEF G
<1>9. \A k \in 0 .. Len(s) : k \in G
  BY <1>1, <1>7, <1>8, RangeInduction
<1>10. Len(s) \in G
  BY <1>1, <1>9
<1>11. Weighed(f[Len(s)], w) <= g[Len(s)]
  BY <1>10 DEF G
<1>12. g[Len(x)] = g[Len(s)]
  BY <1>1
<1> QED
  BY <1>11, <1>12 DEF Weighed, Selection, Total, f, g, x

(* A selection is no longer than what it is taken from. *)
LEMMA SelectionLength ==
    ASSUME NEW A, NEW s \in Seq(A), NEW S
    PROVE  Len(Selection(s, S)) <= Len(s)
<1> DEFINE f == PartialSelections(s, S)
           G == {k \in 0 .. Len(s) : Len(f[k]) <= k}
<1>1. Len(s) \in Nat
  OBVIOUS
<1>2. /\ f[0] = <<>>
      /\ \A n \in 1 .. Len(s) :
           f[n] = IF s[n] \in S THEN Append(f[n - 1], s[n]) ELSE f[n - 1]
  BY SelectionsUnfold
<1>3. \A n \in 0 .. Len(s) : f[n] \in Seq(A \cap S)
  BY SelectionsType
<1>4. \A n \in 0 .. Len(s) : f[n] \in Seq(A)
  BY <1>3, SeqMonotonic
<1> HIDE DEF f
<1>5. 0 \in G
  BY <1>1, <1>2
<1>6. \A k \in 0 .. Len(s) : k # 0 /\ k - 1 \in G => k \in G
  <2> TAKE k \in 0 .. Len(s)
  <2> HAVE k # 0 /\ k - 1 \in G
  <2>1. k \in 1 .. Len(s) /\ k - 1 \in 0 .. Len(s) /\ s[k] \in A /\ Len(f[k - 1]) <= k - 1
    BY <1>1
  <2>2. Len(Append(f[k - 1], s[k])) = Len(f[k - 1]) + 1 /\ Len(f[k - 1]) \in Nat
    BY <1>4, <2>1, AppendProperties, LenProperties
  <2>3. f[k] = Append(f[k - 1], s[k]) \/ f[k] = f[k - 1]
    BY <1>2, <2>1
  <2>4. Len(f[k]) = Len(f[k - 1]) + 1 \/ Len(f[k]) = Len(f[k - 1])
    BY <2>2, <2>3
  <2>5. Len(f[k]) <= k
    <3> HIDE DEF G
    <3> QED
      BY <2>1, <2>2, <2>4
  <2> QED
    BY <2>5
<1> HIDE DEF G
<1>7. \A k \in 0 .. Len(s) : k \in G
  BY <1>1, <1>5, <1>6, RangeInduction
<1>8. Len(s) \in G
  BY <1>1, <1>7
<1> QED
  BY <1>8 DEF Selection, f, G

(* A queue is what comes before its last member, and that member. *)
LEMMA LastSplit ==
    ASSUME NEW A, NEW s \in Seq(A), s # <<>>
    PROVE  /\ SubSeq(s, 1, Len(s) - 1) \in Seq(A)
           /\ s = Append(SubSeq(s, 1, Len(s) - 1), s[Len(s)])
<1> DEFINE n == Len(s)
           r == SubSeq(s, 1, n - 1)
<1>1. n \in Nat \ {0} /\ n \in 1 .. Len(s) /\ 1 \in 1 .. Len(s) /\ n \in 1 .. n
  BY EmptySeq
<1>2. r \in Seq(A)
  <2>1. \A i \in 1 .. n - 1 : s[i] \in A
    BY <1>1
  <2> DEFINE m == n - 1
  <2>2. m \in Int /\ 1 \in Int
    BY <1>1
  <2> HIDE DEF m
  <2>3. \A i \in 1 .. m : s[i] \in A
    BY <2>1 DEF m
  <2>4. SubSeq(s, 1, m) \in Seq(A)
    BY <2>2, <2>3, SubSeqProperties
  <2> QED
    BY <2>4 DEF m
<1>3. SubSeq(s, 1, n) = r \o <<s[n]>>
  BY <1>1, SubSeqRecursiveSecond
<1>4. SubSeq(s, 1, n) = s
  BY SubSeqFull
<1>5. s[n] \in A
  BY <1>1
<1> HIDE DEF r
<1>6. Append(r, s[n]) = r \o <<s[n]>>
  BY <1>2, <1>5, AppendIsConcat
<1>7. s = Append(r, s[n])
  BY <1>3, <1>4, <1>6
<1> QED
  BY <1>2, <1>7 DEF r
=============================================================================
