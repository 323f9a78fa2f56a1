--------------------------- MODULE ContextBuilder ---------------------------
(***************************************************************************)
(* The prompt of a chat turn: memory/context_builder.py and                *)
(* memory/token_counter.py.                                                *)
(*                                                                         *)
(* A text is its length in bytes, 0 being the empty text; what a text says *)
(* is left out, so a message is [role, size] and a memory the length of    *)
(* its line.  The numbers below are the lengths of the literals around     *)
(* them.  A cut text is taken to be cut between two characters; inside     *)
(* one, up to three bytes less remain on each side.                        *)
(***************************************************************************)
EXTENDS Integers, Sequences

CONSTANTS
    Budget,         \* memory_context_token_budget
    WindowLimit,    \* memory_recent_message_limit
    SummaryTarget   \* memory_summary_target_tokens

\* The ranges core/config.py accepts.
ASSUME ContextAssumption ==
    /\ Budget \in Nat /\ Budget >= 1000
    /\ WindowLimit \in Nat /\ WindowLimit >= 4
    /\ SummaryTarget \in Nat /\ SummaryTarget >= 128

LesserOf(m, n) == IF m < n THEN m ELSE n
GreaterOf(m, n) == IF m > n THEN m ELSE n

-----------------------------------------------------------------------------
(* ConservativeTokenCounter *)

\* count_text: a third of the bytes, rounded up.
Tokens(size) == (size + 2) \div 3

RoleSize(role) == IF role = "user" THEN 4 ELSE 9

MessageTokens(m) == 6 + Tokens(RoleSize(m.role)) + Tokens(m.size)

Marker == 43

\* Mutant: the marker comes on top of what is kept.
CutBesideMarker(size, max) ==
    IF max <= 0 THEN 0
    ELSE IF Tokens(size) <= max THEN size
    ELSE 3 * max + Marker

\* truncate_text: head and tail around a marker, which is kept even where it
\* does not fit.
Truncated(size, max) ==
    IF max <= 0 THEN 0
    ELSE IF Tokens(size) <= max THEN size
    ELSE GreaterOf(Marker, 3 * max)

-----------------------------------------------------------------------------
(* ContextBuilder.build *)

\* The candidates: the newest messages.
Window(messages) ==
    SubSeq(messages, GreaterOf(0, Len(messages) - WindowLimit) + 1, Len(messages))

\* The newest message, cut to the budget when it exceeds it.
CurrentMessage(messages) ==
    LET newest == messages[Len(messages)] IN
    IF MessageTokens(newest) <= Budget THEN newest
    ELSE [newest EXCEPT !.size = Truncated(@, GreaterOf(1, Budget - 8))]

CurrentTokens(messages) ==
    IF messages = <<>> THEN 0 ELSE MessageTokens(CurrentMessage(messages))

\* What the newest message leaves for summary and memories.
AuxiliaryBudget(messages) == GreaterOf(0, Budget - CurrentTokens(messages))

SummaryWrapper == 133

\* The length of the summary's section, 0 when there is none.
SummarySection(summary, room) ==
    LET kept == Truncated(summary, LesserOf(SummaryTarget, room - Tokens(SummaryWrapper))) IN
    IF summary = 0 \/ room = 0 \/ kept = 0 \/ Tokens(SummaryWrapper + kept) > room THEN 0
    ELSE SummaryWrapper + kept

\* The room the first j of some things take, considered in turn: those that
\* still fit.
Used(sizes, room) ==
    LET used[j \in 0..Len(sizes)] ==
          IF j = 0 THEN 0
          ELSE IF used[j - 1] + sizes[j] <= room THEN used[j - 1] + sizes[j]
          ELSE used[j - 1]
    IN  used

\* Mutant: what would fill the room exactly is not taken.
TakenBelow(sizes, room) ==
    LET used == Used(sizes, room - 1) IN {j \in DOMAIN sizes : used[j] # used[j - 1]}

\* Which of them are taken.
Taken(sizes, room) ==
    LET used == Used(sizes, room) IN {j \in DOMAIN sizes : used[j] # used[j - 1]}

\* The sum of those of the first j sizes that are in S.
Sums(S, sizes) ==
    LET sum[j \in 0..Len(sizes)] ==
          IF j = 0 THEN 0 ELSE sum[j - 1] + IF j \in S THEN sizes[j] ELSE 0
    IN  sum

SumOver(S, sizes) == Sums(S, sizes)[Len(sizes)]

MemoryWrapper == 105

\* The lines of the memories, each ended by a newline but the last; a blank
\* line parts them from the summary.
MemorySection(lines, told) ==
    IF told = {} THEN 0
    ELSE MemoryWrapper - 1 + SumOver(told, [j \in DOMAIN lines |-> lines[j] + 1])

Parted(section) == IF section = 0 THEN 0 ELSE section + 2

\* The memories that are told: text of 3 * room bytes takes room tokens.
MemoriesTold(lines, section, room) ==
    Taken([j \in DOMAIN lines |-> lines[j] + 1],
          3 * room - Parted(section) - MemoryWrapper + 1)

\* The length of system_memory.
SystemMemory(lines, told, section) ==
    IF told = {} THEN section ELSE Parted(section) + MemorySection(lines, told)

\* The messages before the newest one, newest first, by their tokens.
Earlier(messages) ==
    LET window == Window(messages) IN
    [j \in 1..(Len(window) - 1) |-> MessageTokens(window[Len(window) - j])]

\* The bundle: the memories told, the length of the summary section and of
\* system_memory, and how far back from the newest message (0) the messages
\* sent are.
Build(messages, summary, lines) ==
    LET room    == AuxiliaryBudget(messages)
        section == SummarySection(summary, room)
        told    == MemoriesTold(lines, section, room)
        memory  == SystemMemory(lines, told, section)
        earlier == Taken(Earlier(messages),
                         GreaterOf(0, Budget - Tokens(memory)) - CurrentTokens(messages))
    IN  [told |-> told, section |-> section, memory |-> memory,
         sent |-> earlier \cup IF messages = <<>> THEN {} ELSE {0}]

\* estimated_tokens of the bundle.
EstimatedTokens(messages, bundle) ==
    Tokens(bundle.memory) + CurrentTokens(messages)
      + SumOver(bundle.sent, Earlier(messages))

-----------------------------------------------------------------------------
(* What a bundle promises. *)

\* The prompt stays within the budget, whatever sizes the texts have, and
\* always holds the newest message and no more messages than the window.
WithinBudget(messages, bundle) ==
    /\ EstimatedTokens(messages, bundle) <= Budget
    /\ 0 \in bundle.sent
    /\ bundle.sent \subseteq 0..(WindowLimit - 1)

\* Nothing that fits is left out: each message of the window, and each memory,
\* that is not in the prompt would exceed the budget, as build goes on past one
\* that does not fit to those that do.
NothingThatFitsIsLeftOut(messages, lines, bundle) ==
    /\ \A j \in DOMAIN Earlier(messages) \ bundle.sent :
          EstimatedTokens(messages, bundle) + Earlier(messages)[j] > Budget
    /\ \A j \in DOMAIN lines \ bundle.told :
          Tokens(SystemMemory(lines, bundle.told \cup {j}, bundle.section))
            > AuxiliaryBudget(messages)

\* Nothing is left out needlessly, whether what does not fit is skipped, as in
\* build, or ends the selection, as in its design document: the newest of the
\* messages left out, and each memory left out, would exceed the budget beside
\* all that the prompt holds.
LeftOutForWantOfRoom(messages, lines, bundle) ==
    LET left == DOMAIN Earlier(messages) \ bundle.sent
        Telling(j) == SystemMemory(lines, bundle.told \cup {j}, bundle.section) IN
    /\ \A j \in left : (\A k \in left : j <= k) =>
          EstimatedTokens(messages, bundle) + Earlier(messages)[j] > Budget
    /\ \A j \in DOMAIN lines \ bundle.told :
          EstimatedTokens(messages, [bundle EXCEPT !.memory = Telling(j)]) > Budget

=============================================================================
