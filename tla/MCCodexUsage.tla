---------------------------- MODULE MCCodexUsage ----------------------------
(***************************************************************************)
(* Small instances of CodexUsage; requests are interchangeable.            *)
(***************************************************************************)
EXTENDS CodexUsage, TLC

MCTotal == {1, 2}

MCSymmetry == Permutations(Request)

=============================================================================
