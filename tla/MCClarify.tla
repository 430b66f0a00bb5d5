------------------------------ MODULE MCClarify ------------------------------
(* Clarify for TLC: no text is special, so texts are interchangeable.        *)
EXTENDS Clarify, TLC

Symmetry == Permutations(Texts)
=============================================================================
