---------------------------- MODULE SequenceSums ----------------------------
(***************************************************************************)
(* The sum of a sequence of numbers, as a recursive function.              *)
(***************************************************************************)
EXTENDS Naturals, Sequences

(* The sums of the first n numbers of s, for every n. *)
PartialSums(s) ==
    LET sum[n \in 0 .. Len(s)] == IF n = 0 THEN 0 ELSE sum[n - 1] + s[n]
    IN  sum

Total(s) == PartialSums(s)[Len(s)]
=============================================================================
