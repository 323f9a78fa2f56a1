-------------------------- MODULE MemoryGovernance --------------------------
(***************************************************************************)
(* What long-term memory promises about the memories a chat turn is told,  *)
(* whatever requests overlap: they were recalled at one moment at which    *)
(* all of them were visible; what was forgotten is never visible again;    *)
(* and what a model proposed is not visible before someone approved it.    *)
(***************************************************************************)
CONSTANTS
    Id,           \* memories
    Turn          \* chat turns

VARIABLES
    visible,      \* the memories a turn may recall
    proposed,     \* the memories a model proposed and nobody approved
    forgotten,    \* the deleted memories
    recalled      \* recalled[t]: the memories turn t may still be told

vars == <<visible, proposed, forgotten, recalled>>

Init ==
    /\ visible = {} /\ proposed = {} /\ forgotten = {}
    /\ recalled = [t \in Turn |-> {}]

\* Memories are added, proposed, approved, deleted, edited or expire.
Govern ==
    /\ proposed' \subseteq Id
    /\ forgotten \subseteq forgotten' /\ forgotten' \subseteq Id
    /\ visible' \subseteq Id \ (proposed' \cup forgotten')
    /\ UNCHANGED recalled

\* A turn recalls some of what is visible now.
Recall(t) ==
    /\ \E told \in SUBSET visible : recalled' = [recalled EXCEPT ![t] = told]
    /\ UNCHANGED <<visible, proposed, forgotten>>

\* A turn drops some of what it recalled, or ends.
Drop(t) ==
    /\ \E told \in SUBSET recalled[t] : recalled' = [recalled EXCEPT ![t] = told]
    /\ UNCHANGED <<visible, proposed, forgotten>>

\* The process restarts.
DropAll ==
    /\ recalled' = [t \in Turn |-> {}]
    /\ UNCHANGED <<visible, proposed, forgotten>>

Next == Govern \/ DropAll \/ \E t \in Turn : Recall(t) \/ Drop(t)

Spec == Init /\ [][Next]_vars

=============================================================================
