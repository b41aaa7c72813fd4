----------------------------- MODULE MCStateLane -----------------------------
(* StateLane for TLC; every bound is given in the configurations. *)
EXTENDS StateLane
=============================================================================
