---------------------------- MODULE SessionMemory ----------------------------
(***************************************************************************)
(* The rolling summary of one chat session: memory/service.py over         *)
(* persistence/repository.py, driven by the message and compaction         *)
(* endpoints of api/router.py.                                             *)
(*                                                                         *)
(* A message is its rank in the order of (created_at, id).  created_at is  *)
(* read from a clock that only goes forward when the INSERT is prepared,   *)
(* the row is visible once it has been committed, and another request may  *)
(* commit in between.                                                      *)
(*                                                                         *)
(* What a summary says is the provider's affair and left out.  A summary   *)
(* is kept by what the program accounts for: folded is the set of messages *)
(* handed to _summarize for it and for the summaries it was made from.     *)
(* _summarize cuts a long transcript before the provider sees it, so a     *)
(* folded message need not be told of.                                     *)
(***************************************************************************)
EXTENDS Integers, Sequences, FiniteSetsExt

CONSTANTS
    Request,        \* coroutines that may serve this session at once
    Threshold,      \* memory_compact_threshold
    RecentLimit,    \* memory_recent_message_limit
    MaxMessage,     \* bound: no message beyond this one is created
    MaxOverlapping, \* bound: ... nor beyond this one when requests overlap
    MaxSummaries,   \* bound: the provider fails once there are this many summaries
    None

\* The ranges core/config.py accepts.
ASSUME MemoryAssumption ==
    /\ Threshold \in Nat /\ Threshold >= 8
    /\ RecentLimit \in Nat /\ RecentLimit >= 4
    /\ MaxMessage \in Nat \ {0} /\ MaxOverlapping \in 1..MaxMessage
    /\ MaxSummaries \in Nat

VARIABLES
    messages,   \* chat_messages of the session
    summaries,  \* session_summaries of the session, in the order of insertion
    reqs,       \* the coroutines in flight
    waits       \* whether the clients of the session wait for each other's requests

vars == <<messages, summaries, reqs, waits>>

Message == 1..MaxMessage
SummaryRow == [version : Nat \ {0}, folded : SUBSET Message, until : Message,
               covered : Nat, current : BOOLEAN]

\* "No summary" is not a row.
ASSUME NullAssumption == None \notin SummaryRow

\* Mutant: the boundary message is listed again.
FromBoundary(summary) ==
    IF summary = None THEN messages ELSE {m \in messages : m >= summary.until}

\* list_messages_after: the committed messages later than a summary's boundary.
After(summary) ==
    IF summary = None THEN messages ELSE {m \in messages : m > summary.until}

Current == {i \in DOMAIN summaries : summaries[i].current}

\* get_current_summary: some current row, as the query states no order.
CurrentRows == IF Current = {} THEN {None} ELSE {summaries[i] : i \in Current}

\* Mutant: the version in use is taken again.
LastVersion == Max({0} \cup {summaries[i].version : i \in DOMAIN summaries})

NextVersion == 1 + Max({0} \cup {summaries[i].version : i \in DOMAIN summaries})

-----------------------------------------------------------------------------
Idle == [pc |-> "idle"]

\* A coroutine by the await it is suspended at.  turn: it serves a chat
\* message and goes on to prepare_context; own: that message; degraded: the
\* compaction of the turn gave a reason for not compacting; window: the
\* messages ContextBuilder selects the prompt from; folded: those of the
\* summary it is given.
RequestState ==
       {Idle}
  \cup [pc : {"insert"}, stamp : Message, role : {"user", "assistant"}]
  \cup [pc : {"current"}, force : BOOLEAN, turn : BOOLEAN, own : Message \cup {None}]
  \cup [pc : {"pending"}, force : BOOLEAN, turn : BOOLEAN, own : Message \cup {None},
        summary : SummaryRow \cup {None}]
  \cup [pc : {"summarize"}, turn : BOOLEAN, own : Message \cup {None},
        summary : SummaryRow \cup {None}, batch : SUBSET Message]
  \cup [pc : {"replace"}, turn : BOOLEAN, own : Message \cup {None}, row : SummaryRow]
  \cup [pc : {"commit"}, turn : BOOLEAN, own : Message \cup {None}, row : SummaryRow,
        old : Nat]
  \cup [pc : {"prepare"}, own : Message, degraded : BOOLEAN]
  \cup [pc : {"list"}, own : Message, degraded : BOOLEAN, summary : SummaryRow \cup {None}]
  \cup [pc : {"stream"}, own : Message, degraded : BOOLEAN,
        window : SUBSET Message, folded : SUBSET Message]

TypeOK ==
    /\ messages \subseteq Message
    /\ summaries \in Seq(SummaryRow)
    /\ reqs \in [Request -> RequestState]
    /\ waits \in BOOLEAN

Init ==
    /\ messages = {}
    /\ summaries = <<>>
    /\ reqs = [r \in Request |-> Idle]
    /\ waits \in BOOLEAN

Suspend(r, q) == reqs' = [reqs EXCEPT ![r] = q] /\ UNCHANGED waits
Resumes(r, pc) == reqs[r].pc = pc

\* A request arrives at an idle coroutine.
Arrives(r) ==
    /\ reqs[r] = Idle
    /\ waits => \A o \in Request : reqs[o] = Idle

\* A compaction is over: the chat turn goes on whatever became of it.
Compacted(r, q, degraded) ==
    Suspend(r, IF q.turn THEN [pc |-> "prepare", own |-> q.own, degraded |-> degraded]
               ELSE Idle)

-----------------------------------------------------------------------------
Stamps == messages \cup {reqs[r].stamp : r \in {q \in Request : reqs[q].pc = "insert"}}

\* add_message stamps its row later than every stamp in use.
Insert(r, role) ==
    /\ Stamps \subseteq 1..((IF waits THEN MaxMessage ELSE MaxOverlapping) - 1)
    /\ Suspend(r, [pc |-> "insert", stamp |-> 1 + Max({0} \cup Stamps), role |-> role])

\* stream_message stores the user's message.
Post(r) ==
    /\ Arrives(r)
    /\ Insert(r, "user")
    /\ UNCHANGED <<messages, summaries>>

\* add_message commits; a chat turn goes on to compact its session.
CommitMessage(r) ==
    LET q == reqs[r] IN
    /\ Resumes(r, "insert")
    /\ messages' = messages \cup {q.stamp}
    /\ Suspend(r, IF q.role = "user"
                  THEN [pc |-> "current", force |-> FALSE, turn |-> TRUE, own |-> q.stamp]
                  ELSE Idle)
    /\ UNCHANGED summaries

\* The compaction endpoint.
Compact(r, force) ==
    /\ Arrives(r)
    /\ Suspend(r, [pc |-> "current", force |-> force, turn |-> FALSE, own |-> None])
    /\ UNCHANGED <<messages, summaries>>

\* MemoryService.compact: the current summary, then the messages after it.
ReadCurrent(r) ==
    LET q == reqs[r] IN
    /\ Resumes(r, "current")
    /\ \E summary \in CurrentRows :
          Suspend(r, [pc |-> "pending", force |-> q.force, turn |-> q.turn, own |-> q.own,
                      summary |-> summary])
    /\ UNCHANGED <<messages, summaries>>

Retain == Max({4, RecentLimit \div 2})

\* How many of n pending messages a compaction folds into the summary; none
\* when it is not due or there are not enough of them.
CompactCount(n, force) ==
    IF ~force /\ n <= Threshold THEN 0
    ELSE IF n > Retain THEN n - Retain
    ELSE IF force /\ n > 1 THEN n - 1
    ELSE 0

\* The newest n of S, as the window takes them; mutant: a compaction takes them too.
Newest(S, n) == {m \in S : Cardinality({k \in S : k > m}) < n}

Oldest(S, n) == {m \in S : Cardinality({k \in S : k < m}) < n}

ReadPending(r) ==
    LET q == reqs[r]
        pending == After(q.summary)
        batch == Oldest(pending, CompactCount(Cardinality(pending), q.force)) IN
    /\ Resumes(r, "pending")
    /\ IF batch = {}
       THEN Compacted(r, q, Cardinality(pending) > Threshold)
       ELSE Suspend(r, [pc |-> "summarize", turn |-> q.turn, own |-> q.own,
                        summary |-> q.summary, batch |-> batch])
    /\ UNCHANGED <<messages, summaries>>

\* Mutant: the previous summary is not passed on.
SummaryOfBatch(previous, batch) ==
    [version |-> 1, folded |-> batch, until |-> Max(batch),
     covered |-> Cardinality(batch), current |-> TRUE]

\* The row create_summary is asked to insert: its boundary and its count take
\* in all of the batch, whatever the cut leaves of the transcript.
SummaryOf(previous, batch) ==
    [version |-> 1,
     folded |-> batch \cup IF previous = None THEN {} ELSE previous.folded,
     until   |-> Max(batch),
     covered |-> Cardinality(batch) + IF previous = None THEN 0 ELSE previous.covered,
     current |-> TRUE]

\* The provider answers with a summary.
Summarized(r) ==
    LET q == reqs[r] IN
    /\ Resumes(r, "summarize")
    /\ Len(summaries) < MaxSummaries
    /\ Suspend(r, [pc |-> "replace", turn |-> q.turn, own |-> q.own,
                   row |-> SummaryOf(q.summary, q.batch)])
    /\ UNCHANGED <<messages, summaries>>

\* It fails, what it answers is blank or the store is busy: the compaction
\* gives up.
SummaryFails(r) ==
    /\ reqs[r].pc \in {"summarize", "replace", "commit"}
    /\ Compacted(r, reqs[r], TRUE)
    /\ UNCHANGED <<messages, summaries>>

\* create_summary with no current row: the version is read before the session
\* has written anything.
ReadNoCurrent(r) ==
    LET q == reqs[r] IN
    /\ Resumes(r, "replace")
    /\ Current = {}
    /\ Suspend(r, [pc |-> "commit", turn |-> q.turn, own |-> q.own,
                   row |-> [q.row EXCEPT !.version = NextVersion], old |-> 0])
    /\ UNCHANGED <<messages, summaries>>

\* Mutant: the old summary stays current.
NotRetired(i) == summaries

Retired(i) == [summaries EXCEPT ![i].current = FALSE]

\* Mutant: the old row is retired in a transaction of its own.
RetireFirst(r) ==
    LET q == reqs[r] IN
    /\ Resumes(r, "replace")
    /\ \E i \in Current :
          /\ summaries' = Retired(i)
          /\ Suspend(r, [pc |-> "commit", turn |-> q.turn, own |-> q.own, row |-> q.row,
                         old |-> i])
    /\ UNCHANGED messages

\* ... with one: retiring it is flushed, which takes the write lock, before
\* the version is read.
ReadOldCurrent(r) ==
    LET q == reqs[r] IN
    /\ Resumes(r, "replace")
    /\ \E i \in Current :
          Suspend(r, [pc |-> "commit", turn |-> q.turn, own |-> q.own, row |-> q.row,
                      old |-> i])
    /\ UNCHANGED <<messages, summaries>>

\* Mutant: no constraint on the version.
NoVersionClash(v) == FALSE

\* The UNIQUE(session_id, version) constraint would reject this version.
VersionExists(v) == \E i \in DOMAIN summaries : summaries[i].version = v

\* The old row is retired and the new one inserted in one transaction.
CommitSummary(r) ==
    LET q == reqs[r] IN
    /\ Resumes(r, "commit")
    /\ summaries' =
          IF q.old # 0 THEN Append(Retired(q.old), [q.row EXCEPT !.version = NextVersion])
          ELSE IF VersionExists(q.row.version) THEN summaries
          ELSE Append(summaries, q.row)
    /\ Compacted(r, q, summaries' = summaries)
    /\ UNCHANGED messages

-----------------------------------------------------------------------------
\* prepare_context after its compaction: the summary is read ...
PrepareSummary(r) ==
    /\ Resumes(r, "prepare")
    /\ \E summary \in CurrentRows :
          Suspend(r, [pc |-> "list", own |-> reqs[r].own, degraded |-> reqs[r].degraded,
                      summary |-> summary])
    /\ UNCHANGED <<messages, summaries>>

\* ... then the messages after it.  ContextBuilder.build takes the newest of
\* them as its window; which of these the token budget lets into the prompt,
\* beside the newest one and how much of the summary, is ContextBuilder's Build.
PrepareMessages(r) ==
    LET q == reqs[r] IN
    /\ Resumes(r, "list")
    /\ Suspend(r, [pc |-> "stream", own |-> q.own, degraded |-> q.degraded,
                   window |-> Newest(After(q.summary), RecentLimit),
                   folded |-> IF q.summary = None THEN {} ELSE q.summary.folded])
    /\ UNCHANGED <<messages, summaries>>

\* The run completes: the assistant's message is stored.
Answer(r) ==
    /\ Resumes(r, "stream")
    /\ Insert(r, "assistant")
    /\ UNCHANGED <<messages, summaries>>

\* The run fails, the client disconnects, or the store fails where nothing
\* guards it: no assistant message.
GiveUp(r) ==
    /\ reqs[r].pc \in {"insert", "current", "pending", "prepare", "list", "stream"}
    /\ Suspend(r, Idle)
    /\ UNCHANGED <<messages, summaries>>

\* The process dies and restarts: only commits survive.
Restart ==
    /\ reqs' = [r \in Request |-> Idle]
    /\ UNCHANGED <<messages, summaries, waits>>

Chat(r) ==
    \/ Post(r) \/ CommitMessage(r)
    \/ PrepareSummary(r) \/ PrepareMessages(r) \/ Answer(r) \/ GiveUp(r)

Compaction(r) ==
    \/ \E force \in BOOLEAN : Compact(r, force)
    \/ ReadCurrent(r) \/ ReadPending(r) \/ Summarized(r) \/ SummaryFails(r)
    \/ ReadNoCurrent(r) \/ ReadOldCurrent(r) \/ CommitSummary(r)

Next == (\E r \in Request : Chat(r) \/ Compaction(r)) \/ Restart

Spec == Init /\ [][Next]_vars

-----------------------------------------------------------------------------
(* What holds whatever requests overlap. *)

\* Versions count the summaries, in the order they were committed.
VersionsAreConsecutive == \A i \in DOMAIN summaries : summaries[i].version = i

\* What was folded into a summary is committed messages up to its boundary,
\* and each of them is counted once, however many compactions it was built by.
SummariesCountTheirMessages ==
    \A i \in DOMAIN summaries :
        LET row == summaries[i] IN
        /\ row.folded \subseteq messages
        /\ row.until = Max(row.folded)
        /\ row.covered = Cardinality(row.folded)

\* Once there is a summary there is a current one: a compaction replaces, and
\* never just removes.
SomeSummaryIsCurrent == summaries # <<>> => Current # {}

-----------------------------------------------------------------------------
(* What clients that wait for each other may rely on; overlapping requests   *)
(* break it.                                                                 *)

\* The session has one current summary at most.
OneCurrentSummary == Cardinality(Current) <= 1

\* No message is passed over: there is one current summary at most, and each
\* message was handed to a fold it is made from or comes after its boundary,
\* where the next fold and the windows look for it.
EveryMessageIsFoldedOrPending ==
    waits =>
        /\ OneCurrentSummary
        /\ \A i \in Current : messages = summaries[i].folded \cup After(summaries[i])

\* The window a chat turn's prompt is selected from ends with the turn's own
\* message, which build always sends, and goes on where the summary ends: it
\* has at most RecentLimit messages, none of them folded, and those in
\* neither, which no token budget could let in, lie between the two and are
\* at most what the threshold leaves there, unless the compaction failed.
WindowFollowsSummary ==
    waits => \A r \in Request : reqs[r].pc = "stream" =>
        LET q == reqs[r]
            between == {m \in messages : m < q.own} \ (q.window \cup q.folded) IN
        /\ q.own \in q.window /\ \A m \in q.window : m <= q.own
        /\ Cardinality(q.window) <= RecentLimit
        /\ \A m \in q.folded, n \in q.window : m < n
        /\ \A b \in between : /\ \A m \in q.folded : m < b
                              /\ \A n \in q.window : b < n
        /\ ~q.degraded => Cardinality(between) <= Max({0, Threshold - RecentLimit})

\* A later summary accounts for all that the earlier ones do and more.
CoverageGrows ==
    [][waits => \A i \in Current, j \in Current' :
          i # j => summaries[i].folded \subseteq summaries'[j].folded
                   /\ summaries[i].until < summaries'[j].until
      ]_summaries

=============================================================================
