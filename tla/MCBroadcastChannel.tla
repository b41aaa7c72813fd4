------------------------ MODULE MCBroadcastChannel ------------------------
(* Small instances of BroadcastChannel. *)
EXTENDS BroadcastChannel, TLC

CONSTANTS t1, t2, o1, n1

(* The page of t1 posts to two channels of t2, which may fail or navigate  *)
(* to a document that begins again in a second realm.                       *)
MCIds == (t1 :> 1) @@ (t2 :> 2)
MCDocs == (t1 :> 1) @@ (t2 :> 2)
MCFaults == (t1 :> {}) @@ (t2 :> {<<1, "crash">>, <<1, "terminate">>, <<2, "restart">>})

(* One tab with three channels in its page. *)
Three    == t1 :> 3
OneDoc   == t1 :> 1
NoFaults == t1 :> {}
=============================================================================
