----------------------------- MODULE MCAttachment -----------------------------
(* Attachment for TLC: tabs and origins are interchangeable.                 *)
EXTENDS Attachment, TLC

Symmetry == Permutations(Tabs) \cup Permutations(Origins)
=============================================================================
