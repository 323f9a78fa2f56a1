----------------------------- MODULE CodexUsage -----------------------------
(***************************************************************************)
(* The incremental import of Codex token usage (local_usage.py).  Codex    *)
(* appends lines to its rollout files; a usage line carries the running    *)
(* total of its session.  Each request first synchronises, under a lock:   *)
(* it reads the stored cursors, scans the files in a thread, line by line, *)
(* while they may grow, and commits new events and cursors together.       *)
(*                                                                         *)
(* A byte offset is the number of lines before it, and the five counters   *)
(* of a usage line are one.                                                *)
(***************************************************************************)
EXTENDS Integers, Sequences, FiniteSetsExt

CONSTANTS
    Request,        \* coroutines that may ask for the usage at once
    File,           \* rollout files named by Codex's thread table
    Total,          \* running totals a usage line may carry
    Model,          \* models a turn_context line may name
    Fallback,       \* the model the thread table gives
    MaxLines,       \* bound: lines ever written to a file
    None

ASSUME UsageAssumption ==
    /\ Total \subseteq Nat
    /\ MaxLines \in Nat

VARIABLES
    lines,          \* the lines of each file; only the last can be unfinished
    written,        \* lines ever written to it
    recreated,      \* it was deleted and started again
    events,         \* codex_usage_events
    cursors,        \* codex_usage_cursors, by file
    reqs            \* the synchronisations under way

files == <<lines, written, recreated>>
vars == <<files, events, cursors, reqs>>

\* stamp: the line's timestamp; dated: it can be parsed.
Line == [stamp : 1..MaxLines, kind : {"usage"}, total : Total, dated : BOOLEAN, done : BOOLEAN]
   \cup [stamp : 1..MaxLines, kind : {"context"}, model : Model, done : BOOLEAN]
   \cup [stamp : 1..MaxLines, kind : {"other"}, done : BOOLEAN]

\* id: the digest of path, line start, timestamp and running total.
EventId == [file : File, at : Nat, stamp : 1..MaxLines, total : Total]
Event == [id : EventId, tokens : Nat, model : Model \cup {Fallback}]

Cursor == [offset : Nat, total : Total \cup {0}, model : Model \cup {Fallback}]

Idle == [pc |-> "idle"]
SyncState ==
       {Idle}
  \cup [pc : {"scan"}, todo : SUBSET File, prior : [File -> Cursor \cup {None}],
        found : SUBSET Event, moved : [File -> Cursor \cup {None}]]
  \cup [pc : {"read"}, todo : SUBSET File, prior : [File -> Cursor \cup {None}],
        found : SUBSET Event, moved : [File -> Cursor \cup {None}], file : File, at : Cursor]

TypeOK ==
    /\ lines \in [File -> Seq(Line)]
    /\ written \in [File -> 0..MaxLines]
    /\ recreated \in [File -> BOOLEAN]
    /\ events \subseteq Event
    /\ cursors \in [File -> Cursor \cup {None}]
    /\ reqs \in [Request -> SyncState]

Init ==
    /\ lines = [f \in File |-> <<>>]
    /\ written = [f \in File |-> 0]
    /\ recreated = [f \in File |-> FALSE]
    /\ events = {}
    /\ cursors = [f \in File |-> None]
    /\ reqs = [r \in Request |-> Idle]

Suspend(r, q) == reqs' = [reqs EXCEPT ![r] = q]
Return(r) == Suspend(r, Idle)

-----------------------------------------------------------------------------
\* Codex begins a line, ...
BeginLine(f) ==
    /\ written[f] < MaxLines
    /\ \A i \in DOMAIN lines[f] : lines[f][i].done
    /\ written' = [written EXCEPT ![f] = @ + 1]
    /\ \E line \in {l \in Line : l.stamp = written'[f] /\ ~l.done} :
          lines' = [lines EXCEPT ![f] = Append(@, line)]
    /\ UNCHANGED <<recreated, events, cursors, reqs>>

\* ... ends it, ...
EndLine(f) ==
    /\ \E i \in DOMAIN lines[f] :
          /\ ~lines[f][i].done
          /\ lines' = [lines EXCEPT ![f][i].done = TRUE]
    /\ UNCHANGED <<written, recreated, events, cursors, reqs>>

\* ... and may start a file afresh.
Recreate(f) ==
    /\ lines[f] # <<>>
    /\ lines' = [lines EXCEPT ![f] = <<>>]
    /\ recreated' = [recreated EXCEPT ![f] = TRUE]
    /\ UNCHANGED <<written, events, cursors, reqs>>

-----------------------------------------------------------------------------
\* Mutant: requests synchronise side by side.
NoLock == TRUE

LockFree == \A r \in Request : reqs[r] = Idle

\* _sync takes the lock and reads the cursors.
BeginSync(r) ==
    /\ reqs[r] = Idle
    /\ LockFree
    /\ Suspend(r, [pc |-> "scan", todo |-> File, prior |-> cursors, found |-> {},
                   moved |-> [f \in File |-> None]])
    /\ UNCHANGED <<files, events, cursors>>

AtStart == [offset |-> 0, total |-> 0, model |-> Fallback]

\* Mutant: a file without a cursor is not told apart.
StartAtCursor(prior, f) == prior

\* Where the scan of a file starts: at its cursor, unless there is none, it
\* is at the start, or the file has become shorter.
StartOf(prior, f) ==
    IF prior # None /\ prior.offset # 0 /\ prior.offset <= Len(lines[f]) THEN prior ELSE AtStart

\* The scan opens the next file.
OpenFile(r, f) ==
    LET q == reqs[r] IN
    /\ q.pc = "scan"
    /\ f \in q.todo
    /\ Suspend(r, [pc |-> "read", todo |-> q.todo \ {f}, prior |-> q.prior, found |-> q.found,
                   moved |-> q.moved, file |-> f, at |-> StartOf(q.prior[f], f)])
    /\ UNCHANGED <<files, events, cursors>>

\* _nonnegative_delta: a total below the previous one is a new count.
Delta(current, previous) == IF current >= previous THEN current - previous ELSE current

EventOf(f, at, line) ==
    [id |-> [file |-> f, at |-> at.offset, stamp |-> line.stamp, total |-> line.total],
     tokens |-> Delta(line.total, at.total), model |-> at.model]

\* The events a complete line read at a position adds, and where it leaves
\* the scan.
Found(f, at, line) ==
    IF line.kind = "usage" /\ line.dated /\ Delta(line.total, at.total) > 0
    THEN {EventOf(f, at, line)} ELSE {}

\* Mutant: a line without a usable timestamp does not count as the previous one.
SkippingUndated(at, line) ==
    [offset |-> at.offset + 1,
     total  |-> IF line.kind = "usage" /\ line.dated THEN line.total ELSE at.total,
     model  |-> IF line.kind = "context" THEN line.model ELSE at.model]

Moved(at, line) ==
    [offset |-> at.offset + 1,
     total  |-> IF line.kind = "usage" THEN line.total ELSE at.total,
     model  |-> IF line.kind = "context" THEN line.model ELSE at.model]

\* Mutant: what is there of an unfinished line is read, and passed over.
AnyLine(f, at) == at.offset < Len(lines[f])

\* readline returns a line that ends in a newline.
HasLine(f, at) == at.offset < Len(lines[f]) /\ lines[f][at.offset + 1].done

ReadLine(r) ==
    LET q == reqs[r]
        line == lines[q.file][q.at.offset + 1] IN
    /\ q.pc = "read"
    /\ HasLine(q.file, q.at)
    /\ Suspend(r, [pc |-> "read", todo |-> q.todo, prior |-> q.prior,
                   found |-> q.found \cup IF line.done THEN Found(q.file, q.at, line) ELSE {},
                   moved |-> q.moved, file |-> q.file, at |-> Moved(q.at, line)])
    /\ UNCHANGED <<files, events, cursors>>

\* The scan is over, or an OSError ends it: then the cursor does not move,
\* but the events found so far stay in the batch.
EndFile(r, moved) ==
    LET q == reqs[r] IN
    /\ Suspend(r, [pc |-> "scan", todo |-> q.todo, prior |-> q.prior, found |-> q.found,
                   moved |-> moved])
    /\ UNCHANGED <<files, events, cursors>>

CloseFile(r) ==
    /\ reqs[r].pc = "read"
    /\ ~HasLine(reqs[r].file, reqs[r].at)
    /\ EndFile(r, [reqs[r].moved EXCEPT ![reqs[r].file] = reqs[r].at])

FailFile(r) == reqs[r].pc = "read" /\ EndFile(r, reqs[r].moved)

Ids == {e.id : e \in events}

\* One transaction: new events, those with a known id left out, and cursors.
CommitSync(r) ==
    LET q == reqs[r] IN
    /\ q.pc = "scan"
    /\ q.todo = {}
    /\ events' = events \cup {e \in q.found : e.id \notin Ids}
    /\ cursors' = [f \in File |-> IF q.moved[f] # None THEN q.moved[f] ELSE cursors[f]]
    /\ Return(r)
    /\ UNCHANGED files

\* The thread table is unavailable, a line is no object or holds no numbers,
\* the request is cancelled or the process dies: nothing is written.
AbandonSync(r) ==
    /\ reqs[r] # Idle
    /\ Return(r)
    /\ UNCHANGED <<files, events, cursors>>

Codex(f) == BeginLine(f) \/ EndLine(f) \/ Recreate(f)

Sync(r) ==
    \/ BeginSync(r) \/ (\E f \in File : OpenFile(r, f))
    \/ ReadLine(r) \/ CloseFile(r) \/ FailFile(r)
    \/ CommitSync(r) \/ AbandonSync(r)

Next == (\E f \in File : Codex(f)) \/ (\E r \in Request : Sync(r))

Spec == Init /\ [][Next]_vars

-----------------------------------------------------------------------------
\* What a file says of the usage of its i-th line, from its content alone.
Before(f, i, kind) == {j \in 1..(i - 1) : lines[f][j].kind = kind}
PreviousTotal(f, i) ==
    IF Before(f, i, "usage") = {} THEN 0 ELSE lines[f][Max(Before(f, i, "usage"))].total
ModelAt(f, i) ==
    IF Before(f, i, "context") = {} THEN Fallback ELSE lines[f][Max(Before(f, i, "context"))].model
Usage(f, i) ==
    Found(f, [offset |-> i - 1, total |-> PreviousTotal(f, i), model |-> ModelAt(f, i)], lines[f][i])
UsageUpTo(f, n) == UNION {Usage(f, i) : i \in 1..n}

\* For a file that only grows, every event behind its cursor is stored, with
\* the tokens and the model its line stands for, and no event is stored that
\* the file does not hold: whatever the scans were cut into, however they
\* failed, and whatever was written while they ran.
ImportIsExact ==
    \A f \in File : ~recreated[f] =>
        LET own == {e \in events : e.id.file = f} IN
        /\ own \subseteq UsageUpTo(f, Len(lines[f]))
        /\ cursors[f] # None => UsageUpTo(f, cursors[f].offset) \subseteq own

\* The cursor of a file that only grows never goes back, so no scan repeats
\* an earlier one.
CursorAdvances ==
    [][\A f \in File : cursors[f] # None /\ ~recreated[f] =>
           cursors'[f].offset >= cursors[f].offset]_vars

=============================================================================
