--------------------------- MODULE MCSkillService ---------------------------
(***************************************************************************)
(* Small instances of SkillService: bodies of packages, one the validator  *)
(* accepts and, where requests overlap, one it rejects.  Skills, requests  *)
(* and release keys are interchangeable.                                   *)
(***************************************************************************)
EXTENDS SkillService, TLC

\* The package each builtin was loaded from.
MCBuiltinPackage == [b \in Builtin |-> [version |-> InitialVersion, body |-> StarterBody]]

MCSymmetry == Permutations(Request) \cup Permutations(ReleaseId) \cup Permutations(Skill)

=============================================================================
