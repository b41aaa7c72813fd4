--------------------------- MODULE MCIndexedDb ---------------------------
(* Small instances of IndexedDb. *)
EXTENDS IndexedDb, TLC

CONSTANTS d1, d2, p1, p2, w1, k1

(* p1 is the page of d1 and w1 a worker of it; p2 is the page of d2. *)
PageAndWorker == (p1 :> d1) @@ (w1 :> d1)
TwoPages      == (p1 :> d1) @@ (p2 :> d2)

(* A transaction of the page has two steps, one of the worker a single one. *)
PageTwoSteps == (p1 :> 2) @@ (w1 :> 1)
OneStep      == (p1 :> 1) @@ (p2 :> 1)
=============================================================================
