-------------------------- MODULE StorageRefinement --------------------------
(***************************************************************************)
(* StorageSync implements SharedMap: the coordinator's transactions, the   *)
(* recipient queues, the state lanes and the projections' journals keep    *)
(* the promise of one shared history per origin.                           *)
(***************************************************************************)
EXTENDS StorageSync

(* What became of the write of t with sequence number s: it awaits the     *)
(* coordinator, or its acknowledgement in flight says.                     *)
Outcome(t, s) ==
    IF s > seqs[t] THEN -1
    ELSE LET us == InFlight(t)
             u == us[CHOOSE i \in 1 .. Len(us) : us[i].ack = s]
         IN  IF u.change = None THEN 0 ELSE u.ver

OwnWrites(t) ==
    IF t \notin live THEN <<>>
    ELSE [i \in 1 .. Len(proj[t].pending) |->
            [op |-> proj[t].pending[i].op,
             made |-> Outcome(t, proj[t].pending[i].seq)]]

Shared == INSTANCE SharedMap
            WITH open <- live,
                 at   <- [t \in Tabs |-> proj[t].ver],
                 own  <- [t \in Tabs |-> OwnWrites(t)],
                 view <- [t \in Tabs |-> proj[t].visible]

(* Scripts of every document behave as if all of them shared one map with  *)
(* one history: committed batches apply as a whole or not at all, in the   *)
(* order issued; no document misses, repeats or reorders a version; each   *)
(* sees its own writes at once and keeps them until they are decided; and  *)
(* what it sees never mixes two versions (StorageCoordinator::apply and    *)
(* StorageProjection::apply, over the recipient queues and lanes).         *)
ImplementsSharedMap == Shared!Spec
=============================================================================
