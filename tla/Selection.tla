------------------------------- MODULE Selection -------------------------------
(***************************************************************************)
(* Parts of a sequence, in its order: what the filter of an array leaves.  *)
(* SelectSeq does the same; these are folds, which can be reasoned about.  *)
(***************************************************************************)
EXTENDS Integers, Sequences, SequencesExt

(* The tokens of text whose positions are in keep.                           *)
Kept(text, keep) ==
    FoldLeft(LAMBDA out, i : IF i \in keep THEN Append(out, text[i]) ELSE out,
             <<>>, [i \in 1..Len(text) |-> i])

(* The elements of a sequence that P holds of.                               *)
Those(s, P(_)) == Kept(s, {n \in DOMAIN s : P(s[n])})
===============================================================================
