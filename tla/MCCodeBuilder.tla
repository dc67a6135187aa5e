--------------------------- MODULE MCCodeBuilder ---------------------------
(* Constants of CodeBuilder for model checking.                            *)
EXTENDS CodeBuilder, TLC

MCSymmetry == Permutations(Labels) \cup Permutations(Frames)
=============================================================================
