----------------------------- MODULE SharedMap -----------------------------
(***************************************************************************)
(* What localStorage promises the documents of one origin, without         *)
(* queues, journals, lanes or transactions in progress.                    *)
(*                                                                         *)
(* There is one history of maps.  A document stands at a version of it and *)
(* has operations of its own that it has not seen decided.  Its scripts    *)
(* see the map at that version under those operations (view).  A group of  *)
(* a document's oldest undecided operations is either applied to the       *)
(* newest map as a whole, in order and within the quota, or refused as a   *)
(* whole.  A document learns of the versions one by one, and of its own    *)
(* operations exactly when it reaches the version they made.               *)
(***************************************************************************)
EXTENDS StorageArea

CONSTANTS Tabs, MaxBatch

VARIABLES hist,  \* every map the origin has had, oldest first
          open,  \* tabs whose document uses the map
          at,    \* version at which the tab's document stands
          own,   \* operations the document has not seen decided, with outcomes
          view   \* the map its scripts see

vars == <<hist, open, at, own, view>>

Undecided == -1
NoEffect == 0

(* made is Undecided, NoEffect, or the version the operation made. *)
OwnOperations == [op : Operations, made : Int]

Ops(os) == [i \in 1 .. Len(os) |-> os[i].op]

Init ==
    /\ hist = <<EmptyMap>>
    /\ open = {}
    /\ at = [t \in Tabs |-> 1]
    /\ own = [t \in Tabs |-> <<>>]
    /\ view = [t \in Tabs |-> EmptyMap]

(* A document starts at the newest version. *)
Open(t) ==
    /\ t \notin open
    /\ open' = open \cup {t}
    /\ at' = [at EXCEPT ![t] = Len(hist)]
    /\ view' = [view EXCEPT ![t] = hist[Len(hist)]]
    /\ UNCHANGED <<hist, own>>

(* A document goes, and its undecided operations with it. *)
Close(t) ==
    /\ t \in open
    /\ open' = open \ {t}
    /\ own' = [own EXCEPT ![t] = <<>>]
    /\ UNCHANGED <<hist, at, view>>

(* A script's operation is visible to it at once. *)
Issue(t, op) ==
    /\ t \in open
    /\ own' = [own EXCEPT ![t] = Append(@, [op |-> op, made |-> Undecided])]
    /\ view' = [view EXCEPT ![t] = ApplyMap(@, op)]
    /\ UNCHANGED <<hist, open, at>>

(* The next n operations of t that await a decision follow the first d. *)
Oldest(t, d, n) ==
    /\ t \in open /\ d + n <= Len(own[t])
    /\ \A i \in 1 .. Len(own[t]) : i <= d <=> own[t][i].made # Undecided

(* reached[i] is the version after i of the operations: an operation     *)
(* that changes the map makes the next version, another one makes none.    *)
Accept(t, d, n) ==
    /\ Oldest(t, d, n)
    /\ \E reached \in [0 .. n -> Len(hist) .. Len(hist')] :
          /\ reached[0] = Len(hist) /\ reached[n] = Len(hist')
          /\ SubSeq(hist', 1, Len(hist)) = hist
          /\ \A i \in 1 .. n :
                LET before == hist'[reached[i - 1]]
                    op == own[t][d + i].op
                IN  /\ WithinQuota(before, op)
                    /\ IF OperationChanges(before, op)
                       THEN /\ reached[i] = reached[i - 1] + 1
                            /\ hist'[reached[i]] = ApplyMap(before, op)
                       ELSE reached[i] = reached[i - 1]
          /\ own' = [own EXCEPT ![t] = [i \in 1 .. Len(own[t]) |->
                IF i - d \notin 1 .. n THEN own[t][i]
                ELSE [op |-> own[t][i].op,
                      made |-> IF reached[i - d] = reached[i - d - 1] THEN NoEffect
                               ELSE reached[i - d]]]]
    /\ UNCHANGED <<open, at, view>>

Refuse(t, d, n) ==
    /\ Oldest(t, d, n)
    /\ own' = [own EXCEPT ![t] = [i \in 1 .. Len(own[t]) |->
                 IF i - d \in 1 .. n THEN [own[t][i] EXCEPT !.made = NoEffect]
                 ELSE own[t][i]]]
    /\ UNCHANGED <<hist, open, at, view>>

(* The document reaches the next version, which another document made. *)
Learn(t) ==
    /\ t \in open /\ at[t] < Len(hist)
    /\ \A i \in 1 .. Len(own[t]) : own[t][i].made # at[t] + 1
    /\ at' = [at EXCEPT ![t] = @ + 1]
    /\ view' = [view EXCEPT ![t] = Overlay(hist[at[t] + 1], Ops(own[t]))]
    /\ UNCHANGED <<hist, open, own>>

(* The document sees its oldest operation decided. *)
Confirm(t) ==
    /\ t \in open /\ own[t] # <<>>
    /\ LET made == Head(own[t]).made
           here == IF made = NoEffect THEN at[t] ELSE made
       IN  /\ made \in {NoEffect, at[t] + 1}
           /\ at' = [at EXCEPT ![t] = here]
           /\ view' = [view EXCEPT ![t] = Overlay(hist[here], Ops(Tail(own[t])))]
    /\ own' = [own EXCEPT ![t] = Tail(@)]
    /\ UNCHANGED <<hist, open>>

Next ==
    \E t \in Tabs :
        \/ Open(t) \/ Close(t) \/ Learn(t) \/ Confirm(t)
        \/ \E op \in Operations : Issue(t, op)
        \/ \E n \in 1 .. MaxBatch, d \in 0 .. Len(own[t]) :
              Accept(t, d, n) \/ Refuse(t, d, n)

Spec == Init /\ [][Next]_vars
=============================================================================
