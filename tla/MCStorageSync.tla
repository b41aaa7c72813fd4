---------------------------- MODULE MCStorageSync ----------------------------
(* Model values for StorageSync. *)
EXTENDS StorageRefinement

CONSTANTS t1, t2, k1, k2

MCTabs == {t1, t2}
MCKeys == {k1, k2}
MCValues == {1}
MCWrites == [t \in MCTabs |-> IF t = t1 THEN 2 ELSE 1]
=============================================================================
