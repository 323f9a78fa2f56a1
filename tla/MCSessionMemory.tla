--------------------------- MODULE MCSessionMemory ---------------------------
(***************************************************************************)
(* Small instances of SessionMemory; requests are interchangeable.         *)
(***************************************************************************)
EXTENDS SessionMemory, TLC

MCSymmetry == Permutations(Request)

=============================================================================
