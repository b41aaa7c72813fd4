---------------------------- MODULE MCEventQueue ----------------------------
(* Inputs for EventQueue: what each run lets the renderer emit. *)
EXTENDS EventQueue

CONSTANTS d1, d2, n1, n2

Input(k, d, b, q) == [kind |-> k, doc |-> d, target |-> None, size |-> b, seq |-> q]
Select(n, q) == [Input("selection", d1, 0, q) EXCEPT !.target = n]

(* Backpressure and barriers, merging, and the kinds of which only the     *)
(* newest is kept, over two documents and two nodes of one of them.        *)
MCInputs == {Input("storage", d1, 1, 0), Input("presentation", d1, 1, 0),
             Input("fetch", d2, 0, 0), Input("cursor", d1, 0, 1),
             Select(n1, 1), Select(n1, 2), Select(n2, 1)}
=============================================================================
