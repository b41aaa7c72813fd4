--------------------------- MODULE SequenceFilters ---------------------------
(***************************************************************************)
(* The members of a sequence that belong to a set, as a recursive          *)
(* function: what retain and filter do to a queue.                         *)
(***************************************************************************)
EXTENDS Naturals, Sequences

(* The selections from the first n members of s, for every n. *)
PartialSelections(s, S) ==
    LET kept[n \in 0 .. Len(s)] ==
          IF n = 0 THEN <<>>
          ELSE IF s[n] \in S THEN Append(kept[n - 1], s[n]) ELSE kept[n - 1]
    IN  kept

Selection(s, S) == PartialSelections(s, S)[Len(s)]
=============================================================================
