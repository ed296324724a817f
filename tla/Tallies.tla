------------------------------ MODULE Tallies ------------------------------
(***************************************************************************)
(* Two folds over sequences that the other modules share: the sum of       *)
(* integers, and the elements that belong to a set, in order.              *)
(***************************************************************************)
EXTENDS Integers, SequencesExt

SumSeq(s) == FoldLeft(+, 0, s)

SelectIn(s, T) ==
  FoldLeft(LAMBDA kept, x : IF x \in T THEN Append(kept, x) ELSE kept, <<>>, s)
=============================================================================
