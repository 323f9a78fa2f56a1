--------------------------- MODULE ReleaseCatalog ---------------------------
(***************************************************************************)
(* What skill management promises about published versions, whatever       *)
(* requests overlap and wherever the process dies: a catalog that only     *)
(* grows, one immutable entry per skill and version, each entry a package  *)
(* the validator accepted, and per skill a pointer that is either unset or *)
(* at one of the skill's own entries.                                      *)
(***************************************************************************)
CONSTANTS
    Skill,        \* ids of managed skills
    Version,      \* release versions
    Package,      \* skill packages
    Acceptable,   \* the packages the validator accepts
    None          \* "no entry"

VARIABLES
    catalog,      \* the set of published entries
    current       \* current[s]: the entry skill s is pointed at, or None

vars == <<catalog, current>>

Entry == [skill : Skill, version : Version, content : Package]

Init ==
    /\ catalog = {}
    /\ current = [s \in Skill |-> None]

\* A version is published once; the pointer may move to it in the same step.
Publish(e) ==
    /\ e.content \in Acceptable
    /\ \A f \in catalog : f.skill = e.skill => f.version # e.version
    /\ catalog' = catalog \cup {e}
    /\ current' \in {current, [current EXCEPT ![e.skill] = e]}

\* Activation and rollback: the pointer moves, no entry changes.
Activate(e) ==
    /\ e \in catalog
    /\ current' = [current EXCEPT ![e.skill] = e]
    /\ UNCHANGED catalog

Next == \E e \in Entry : Publish(e) \/ Activate(e)

Spec == Init /\ [][Next]_vars

=============================================================================
