---------------------------- MODULE MCNavigation ----------------------------
(* Navigation for TLC; every bound is given in the configurations. *)
EXTENDS Navigation
=============================================================================
