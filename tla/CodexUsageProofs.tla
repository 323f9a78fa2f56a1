--------------------------- MODULE CodexUsageProofs ---------------------------
(***************************************************************************)
(* Proofs about CodexUsage, for any number of requests and files and any   *)
(* totals and models: types, that no cursor of a file that only grows goes *)
(* back, and that the import is exact.                                     *)
(*                                                                         *)
(* The inductive invariant IInv says why the cursors are safe: one request *)
(* synchronises at a time, so the cursors it read are the stored ones when *)
(* it commits; and every position, stored or reached by a scan, lies       *)
(* within its file and not before the stored cursor.  ExactInv, further    *)
(* down, adds what a position carries: the total and the model that the    *)
(* lines up to it say, with their usage stored or in the scan's batch.     *)
(***************************************************************************)
EXTENDS CodexUsage, TLAPS, SequenceTheorems, WellFoundedInduction

\* The lock is held by one request.
OneSync == \A r, o \in Request : reqs[r] # Idle /\ reqs[o] # Idle => r = o

\* A position a file that only grows can be read from next.
Ahead(f, at) ==
    ~recreated[f] =>
        /\ at.offset <= Len(lines[f])
        /\ cursors[f] # None => cursors[f].offset <= at.offset

CursorsWithin == \A f \in File : cursors[f] # None => Ahead(f, cursors[f])

\* A synchronisation, by what it relies on.
SoundSync(q) ==
    /\ q.pc \in {"scan", "read"} =>
          /\ q.prior = cursors
          /\ \A f \in File : q.moved[f] # None => Ahead(f, q.moved[f])
    /\ q.pc = "read" => Ahead(q.file, q.at)

IInv ==
    /\ TypeOK
    /\ OneSync
    /\ CursorsWithin
    /\ \A r \in Request : SoundSync(reqs[r])

-----------------------------------------------------------------------------
(* Shapes. *)

\* The fields of a synchronisation, by the point it has reached.
LEMMA SyncShape ==
    ASSUME NEW q \in SyncState
    PROVE  /\ q = Idle \/ q.pc \in {"scan", "read"}
           /\ Idle.pc = "idle"
           /\ q.pc \in {"scan", "read"} =>
                 /\ q.todo \in SUBSET File
                 /\ q.prior \in [File -> Cursor \cup {None}]
                 /\ q.found \in SUBSET Event
                 /\ q.moved \in [File -> Cursor \cup {None}]
           /\ q.pc = "read" => q.file \in File /\ q.at \in Cursor
  BY DEF SyncState, Idle

\* An unfinished line of any kind can be ended.
LEMMA EndedLine ==
    ASSUME NEW line \in Line
    PROVE  [line EXCEPT !.done = TRUE] \in Line
<1>1. CASE line \in [stamp : 1..MaxLines, kind : {"usage"}, total : Total,
                     dated : BOOLEAN, done : BOOLEAN]
  BY <1>1 DEF Line
<1>2. CASE line \in [stamp : 1..MaxLines, kind : {"context"}, model : Model, done : BOOLEAN]
  BY <1>2 DEF Line
<1>3. CASE line \in [stamp : 1..MaxLines, kind : {"other"}, done : BOOLEAN]
  BY <1>3 DEF Line
<1> QED
  BY <1>1, <1>2, <1>3 DEF Line

\* The fields of a line, by its kind.
LEMMA LineShape ==
    ASSUME NEW line \in Line
    PROVE  /\ line.stamp \in 1..MaxLines
           /\ line.kind = "usage" => line.total \in Total /\ line.total \in Nat
           /\ line.kind = "context" => line.model \in Model
  BY UsageAssumption DEF Line, UsageAssumption

\* A usage line adds well-formed events, ...
LEMMA FoundShape ==
    ASSUME NEW f \in File, NEW at \in Cursor, NEW line \in Line
    PROVE  Found(f, at, line) \subseteq Event
<1> SUFFICES ASSUME line.kind = "usage" PROVE EventOf(f, at, line) \in Event
  BY DEF Found
<1>1. /\ at.offset \in Nat /\ at.total \in Nat /\ at.model \in Model \cup {Fallback}
  <2>1. at.offset \in Nat /\ at.total \in Total \cup {0} /\ at.model \in Model \cup {Fallback}
    BY DEF Cursor
  <2>2. Total \cup {0} \subseteq Nat
    BY UsageAssumption DEF UsageAssumption
  <2> QED
    BY <2>1, <2>2
<1>2. line.stamp \in 1..MaxLines /\ line.total \in Total /\ line.total \in Nat
  BY LineShape
<1>3. Delta(line.total, at.total) \in Nat
  BY <1>1, <1>2 DEF Delta
<1>4. [file |-> f, at |-> at.offset, stamp |-> line.stamp, total |-> line.total] \in EventId
  BY <1>1, <1>2 DEF EventId
<1> QED
  BY <1>1, <1>3, <1>4 DEF EventOf, Event

\* ... and every line takes the scan one line further.
LEMMA MovedShape ==
    ASSUME NEW at \in Cursor, NEW line \in Line
    PROVE  Moved(at, line) \in Cursor /\ Moved(at, line).offset = at.offset + 1
<1>1. at.offset \in Nat /\ at.total \in Total \cup {0} /\ at.model \in Model \cup {Fallback}
  BY DEF Cursor
<1>2. /\ line.kind = "usage" => line.total \in Total
      /\ line.kind = "context" => line.model \in Model
  BY LineShape
<1> QED
  BY <1>1, <1>2 DEF Moved, Cursor

-----------------------------------------------------------------------------
(* The invariant, action by action. *)

LEMMA InitInvariant == Init => IInv
<1> SUFFICES ASSUME Init PROVE IInv
  OBVIOUS
<1>1. TypeOK
  <2>1. [f \in File |-> <<>>] \in [File -> Seq(Line)]
    OBVIOUS
  <2>2. 0 \in 0..MaxLines
    BY UsageAssumption DEF UsageAssumption
  <2> QED
    BY <2>1, <2>2 DEF Init, TypeOK, SyncState
<1>2. OneSync /\ CursorsWithin
  BY DEF Init, OneSync, CursorsWithin
<1>3. \A r \in Request : SoundSync(reqs[r])
  BY DEF Init, SoundSync, Idle
<1> QED
  BY <1>1, <1>2, <1>3 DEF IInv

\* A step that writes to one file: it grows, or is marked as recreated.
LEMMA FilesChangePreserves ==
    ASSUME IInv, UNCHANGED <<events, cursors, reqs>>,
           lines' \in [File -> Seq(Line)], written' \in [File -> 0..MaxLines],
           recreated' \in [File -> BOOLEAN],
           \A f \in File : ~recreated'[f] =>
               ~recreated[f] /\ Len(lines[f]) <= Len(lines'[f])
    PROVE  IInv'
<1>1. TypeOK'
  BY DEF IInv, TypeOK
<1>2. ASSUME NEW f \in File, NEW at \in Cursor, Ahead(f, at) PROVE Ahead(f, at)'
  <2>1. at.offset \in Nat
    BY DEF Cursor
  <2>2. lines[f] \in Seq(Line) /\ lines'[f] \in Seq(Line)
    BY DEF IInv, TypeOK
  <2>3. Len(lines[f]) \in Nat /\ Len(lines'[f]) \in Nat
    BY <2>2, LenProperties
  <2> QED
    BY <1>2, <2>1, <2>3 DEF Ahead
<1>3. OneSync'
  BY DEF IInv, OneSync
<1>4. CursorsWithin'
  BY <1>2 DEF IInv, TypeOK, CursorsWithin
<1>5. ASSUME NEW r \in Request PROVE SoundSync(reqs[r])'
  <2>1. reqs[r] \in SyncState /\ SoundSync(reqs[r]) /\ reqs'[r] = reqs[r]
    BY DEF IInv, TypeOK
  <2>2. ASSUME reqs[r].pc \in {"scan", "read"}, NEW f \in File, reqs[r].moved[f] # None
        PROVE  Ahead(f, reqs[r].moved[f])'
    <3>1. reqs[r].moved[f] \in Cursor
      BY <2>1, <2>2, SyncShape
    <3> QED
      BY <1>2, <2>1, <2>2, <3>1 DEF SoundSync
  <2>3. ASSUME reqs[r].pc = "read" PROVE Ahead(reqs[r].file, reqs[r].at)'
    BY <1>2, <2>1, <2>3, SyncShape DEF SoundSync
  <2> QED
    BY <2>1, <2>2, <2>3 DEF SoundSync, Ahead
<1> QED
  BY <1>1, <1>3, <1>4, <1>5 DEF IInv

LEMMA BeginLinePreserves ==
    ASSUME IInv, NEW f \in File, BeginLine(f)
    PROVE  IInv'
<1>1. PICK line \in Line : lines' = [lines EXCEPT ![f] = Append(@, line)]
  BY DEF BeginLine
<1>2. /\ lines \in [File -> Seq(Line)] /\ written \in [File -> 0..MaxLines]
      /\ recreated \in [File -> BOOLEAN] /\ MaxLines \in Nat
  BY UsageAssumption DEF IInv, TypeOK, UsageAssumption
<1>3. /\ Append(lines[f], line) \in Seq(Line)
      /\ Len(Append(lines[f], line)) = Len(lines[f]) + 1
      /\ Len(lines[f]) \in Nat
  BY <1>2, AppendProperties
<1>4. lines' \in [File -> Seq(Line)]
  BY <1>1, <1>2, <1>3
<1>5. ASSUME NEW g \in File PROVE Len(lines[g]) <= Len(lines'[g])
  <2>1. Len(lines[g]) \in Nat
    BY <1>2
  <2> QED
    BY <1>1, <1>2, <1>3, <2>1
<1>6. written' \in [File -> 0..MaxLines]
  BY <1>2 DEF BeginLine
<1>7. UNCHANGED <<recreated, events, cursors, reqs>>
  BY DEF BeginLine
<1> QED
  BY <1>2, <1>4, <1>5, <1>6, <1>7, FilesChangePreserves

LEMMA EndLinePreserves ==
    ASSUME IInv, NEW f \in File, EndLine(f)
    PROVE  IInv'
<1>1. PICK i \in DOMAIN lines[f] : lines' = [lines EXCEPT ![f][i].done = TRUE]
  BY DEF EndLine
<1>2. /\ lines \in [File -> Seq(Line)] /\ written \in [File -> 0..MaxLines]
      /\ recreated \in [File -> BOOLEAN]
  BY DEF IInv, TypeOK
<1> DEFINE ended == [lines[f][i] EXCEPT !.done = TRUE]
<1>3. lines[f] \in Seq(Line) /\ lines[f][i] \in Line
  BY <1>1, <1>2
<1>4. ended \in Line
  BY <1>3, EndedLine
<1>5. lines'[f] = [lines[f] EXCEPT ![i] = ended]
  BY <1>1, <1>2
<1> HIDE DEF ended
<1>6. lines'[f] \in Seq(Line) /\ Len(lines'[f]) = Len(lines[f])
  <2>1. i \in 1..Len(lines[f])
    BY <1>1, <1>3
  <2> QED
    BY <1>3, <1>4, <1>5, <2>1, ExceptSeq
<1>7. \A g \in File : g # f => lines'[g] = lines[g]
  BY <1>1, <1>2
<1>8. lines' \in [File -> Seq(Line)]
  <2>1. lines' = [g \in File |-> lines'[g]]
    BY <1>1, <1>2
  <2>2. \A g \in File : lines'[g] \in Seq(Line)
    BY <1>2, <1>6, <1>7
  <2> QED
    BY <2>1, <2>2
<1>9. ASSUME NEW g \in File PROVE Len(lines[g]) <= Len(lines'[g])
  <2>1. Len(lines[g]) \in Nat
    BY <1>2
  <2> QED
    BY <1>6, <1>7, <2>1
<1>10. UNCHANGED <<written, recreated, events, cursors, reqs>>
  BY DEF EndLine
<1> QED
  BY <1>2, <1>8, <1>9, <1>10, FilesChangePreserves

LEMMA RecreatePreserves ==
    ASSUME IInv, NEW f \in File, Recreate(f)
    PROVE  IInv'
<1>1. /\ lines \in [File -> Seq(Line)] /\ written \in [File -> 0..MaxLines]
      /\ recreated \in [File -> BOOLEAN]
  BY DEF IInv, TypeOK
<1>2. /\ lines' = [lines EXCEPT ![f] = <<>>]
      /\ recreated' = [recreated EXCEPT ![f] = TRUE]
      /\ UNCHANGED <<written, events, cursors, reqs>>
  BY DEF Recreate
<1>3. lines' \in [File -> Seq(Line)] /\ recreated' \in [File -> BOOLEAN]
  BY <1>1, <1>2
<1>4. ASSUME NEW g \in File, ~recreated'[g]
      PROVE  ~recreated[g] /\ Len(lines[g]) <= Len(lines'[g])
  <2>1. g # f /\ lines'[g] = lines[g] /\ recreated'[g] = recreated[g]
    BY <1>1, <1>2, <1>4
  <2>2. Len(lines[g]) \in Nat
    BY <1>1
  <2> QED
    BY <1>4, <2>1, <2>2
<1> QED
  BY <1>1, <1>2, <1>3, <1>4, FilesChangePreserves

\* A step of one synchronisation: it holds the lock, takes it, or gives it back.
LEMMA SyncMovePreserves ==
    ASSUME IInv, NEW r \in Request, NEW q \in SyncState, SoundSync(q), Suspend(r, q),
           q = Idle \/ reqs[r] # Idle \/ LockFree,
           UNCHANGED <<files, events, cursors>>
    PROVE  IInv'
<1>1. reqs' = [reqs EXCEPT ![r] = q] /\ reqs \in [Request -> SyncState]
  BY DEF Suspend, IInv, TypeOK
<1>2. UNCHANGED <<lines, written, recreated, events, cursors>>
  BY DEF files
<1>3. TypeOK'
  BY <1>1, <1>2 DEF IInv, TypeOK
<1>4. OneSync'
  BY <1>1 DEF IInv, OneSync, LockFree
<1>5. CursorsWithin'
  BY <1>2 DEF IInv, CursorsWithin, Ahead
<1>6. ASSUME NEW o \in Request PROVE SoundSync(reqs[o])'
  <2>1. reqs'[o] = q \/ reqs'[o] = reqs[o]
    BY <1>1
  <2>2. SoundSync(reqs[o])
    BY DEF IInv
  <2> QED
    BY <1>2, <2>1, <2>2 DEF SoundSync, Ahead
<1> QED
  BY <1>3, <1>4, <1>5, <1>6 DEF IInv

LEMMA BeginSyncPreserves ==
    ASSUME IInv, NEW r \in Request, BeginSync(r)
    PROVE  IInv'
<1> DEFINE q == [pc |-> "scan", todo |-> File, prior |-> cursors, found |-> {},
                 moved |-> [f \in File |-> None]]
<1>1. q \in SyncState
  BY DEF IInv, TypeOK, SyncState
<1>2. SoundSync(q)
  BY DEF SoundSync
<1>3. Suspend(r, q) /\ LockFree /\ UNCHANGED <<files, events, cursors>>
  BY DEF BeginSync
<1> HIDE DEF q
<1> QED
  BY <1>1, <1>2, <1>3, SyncMovePreserves

\* A scan starts within the file, and not before the stored cursor.
LEMMA StartIsAhead ==
    ASSUME IInv, NEW f \in File
    PROVE  StartOf(cursors[f], f) \in Cursor /\ Ahead(f, StartOf(cursors[f], f))
<1>1. AtStart \in Cursor /\ AtStart.offset = 0
  BY DEF AtStart, Cursor
<1>2. cursors[f] \in Cursor \cup {None} /\ Len(lines[f]) \in Nat
  BY DEF IInv, TypeOK
<1>3. \A c \in Cursor : c.offset \in Nat
  BY DEF Cursor
<1>4. cursors[f] # None => Ahead(f, cursors[f])
  BY DEF IInv, CursorsWithin
<1>5. CASE cursors[f] # None /\ cursors[f].offset # 0 /\ cursors[f].offset <= Len(lines[f])
  BY <1>2, <1>4, <1>5 DEF StartOf
<1>6. CASE ~(cursors[f] # None /\ cursors[f].offset # 0 /\ cursors[f].offset <= Len(lines[f]))
  <2>1. StartOf(cursors[f], f) = AtStart
    BY <1>6 DEF StartOf
  <2> QED
    BY <1>1, <1>2, <1>3, <1>4, <1>6, <2>1 DEF Ahead
<1> QED
  BY <1>5, <1>6

LEMMA OpenFilePreserves ==
    ASSUME IInv, NEW r \in Request, NEW f \in File, OpenFile(r, f)
    PROVE  IInv'
<1> DEFINE q == reqs[r]
           start == StartOf(q.prior[f], f)
           p == [pc |-> "read", todo |-> q.todo \ {f}, prior |-> q.prior, found |-> q.found,
                 moved |-> q.moved, file |-> f, at |-> start]
<1>1. /\ q \in SyncState /\ SoundSync(q) /\ q.pc = "scan"
      /\ Suspend(r, p) /\ UNCHANGED <<files, events, cursors>>
  BY DEF OpenFile, IInv, TypeOK
<1>2. q.prior = cursors /\ q # Idle
  BY <1>1, SyncShape DEF SoundSync
<1>3. start \in Cursor /\ Ahead(f, start)
  BY <1>2, StartIsAhead
<1> HIDE DEF start
<1>4. p \in SyncState
  <2>1. /\ q.todo \ {f} \in SUBSET File /\ q.prior \in [File -> Cursor \cup {None}]
        /\ q.found \in SUBSET Event /\ q.moved \in [File -> Cursor \cup {None}]
    BY <1>1, SyncShape
  <2> QED
    BY <1>3, <2>1 DEF SyncState
<1>5. SoundSync(p)
  BY <1>1, <1>3 DEF SoundSync
<1> HIDE DEF p
<1> QED
  BY <1>1, <1>2, <1>4, <1>5, SyncMovePreserves

LEMMA ReadLinePreserves ==
    ASSUME IInv, NEW r \in Request, ReadLine(r)
    PROVE  IInv'
<1> DEFINE q == reqs[r]
           line == lines[q.file][q.at.offset + 1]
           found == q.found \cup IF line.done THEN Found(q.file, q.at, line) ELSE {}
           at == Moved(q.at, line)
           p == [pc |-> "read", todo |-> q.todo, prior |-> q.prior, found |-> found,
                 moved |-> q.moved, file |-> q.file, at |-> at]
<1>1. /\ q \in SyncState /\ SoundSync(q) /\ q.pc = "read"
      /\ HasLine(q.file, q.at)
      /\ Suspend(r, p) /\ UNCHANGED <<files, events, cursors>>
  BY DEF ReadLine, IInv, TypeOK
<1>2. /\ q.todo \in SUBSET File /\ q.prior \in [File -> Cursor \cup {None}]
      /\ q.found \in SUBSET Event /\ q.moved \in [File -> Cursor \cup {None}]
      /\ q.file \in File /\ q.at \in Cursor /\ q # Idle
  BY <1>1, SyncShape
<1>3. lines[q.file] \in Seq(Line) /\ q.at.offset \in Nat
  BY <1>2 DEF IInv, TypeOK, Cursor
<1>4. q.at.offset < Len(lines[q.file]) /\ Len(lines[q.file]) \in Nat
  BY <1>1, <1>3 DEF HasLine
<1>5. line \in Line
  BY <1>3, <1>4
<1> HIDE DEF line
<1>6. at \in Cursor /\ at.offset = q.at.offset + 1
  BY <1>2, <1>5, MovedShape
<1>7. found \in SUBSET Event
  BY <1>2, <1>5, FoundShape
<1> HIDE DEF at, found
<1>8. p \in SyncState
  BY <1>2, <1>6, <1>7 DEF SyncState
<1>9. SoundSync(p)
  <2>1. Ahead(q.file, q.at)
    BY <1>1 DEF SoundSync
  <2>2. cursors[q.file] # None => cursors[q.file].offset \in Nat
    BY <1>2 DEF IInv, TypeOK, Cursor
  <2>3. Ahead(q.file, at)
    BY <1>3, <1>4, <1>6, <2>1, <2>2 DEF Ahead
  <2> QED
    BY <1>1, <2>3 DEF SoundSync
<1> HIDE DEF p
<1> QED
  BY <1>1, <1>2, <1>8, <1>9, SyncMovePreserves

\* The end of a file, with or without a cursor moved to where the scan stands.
LEMMA EndFilePreserves ==
    ASSUME IInv, NEW r \in Request, reqs[r].pc = "read",
           NEW moved \in {reqs[r].moved, [reqs[r].moved EXCEPT ![reqs[r].file] = reqs[r].at]},
           EndFile(r, moved)
    PROVE  IInv'
<1> DEFINE q == reqs[r]
           p == [pc |-> "scan", todo |-> q.todo, prior |-> q.prior, found |-> q.found,
                 moved |-> moved]
<1>1. /\ q \in SyncState /\ SoundSync(q)
      /\ Suspend(r, p) /\ UNCHANGED <<files, events, cursors>>
  BY DEF EndFile, IInv, TypeOK
<1>2. /\ q.todo \in SUBSET File /\ q.prior \in [File -> Cursor \cup {None}]
      /\ q.found \in SUBSET Event /\ q.moved \in [File -> Cursor \cup {None}]
      /\ q.file \in File /\ q.at \in Cursor /\ q # Idle
  BY <1>1, SyncShape
<1>3. moved \in [File -> Cursor \cup {None}]
      /\ \A f \in File : moved[f] = q.moved[f] \/ (f = q.file /\ moved[f] = q.at)
  BY <1>2
<1>4. p \in SyncState
  BY <1>2, <1>3 DEF SyncState
<1>5. \A f \in File : moved[f] # None => Ahead(f, moved[f])
  BY <1>1, <1>3 DEF SoundSync
<1>6. SoundSync(p)
  BY <1>1, <1>5 DEF SoundSync
<1> HIDE DEF p
<1> QED
  BY <1>1, <1>2, <1>4, <1>6, SyncMovePreserves

\* The commit: what it leaves of the cursors, none of which it takes back.
LEMMA CommittedCursors ==
    ASSUME IInv, NEW r \in Request, CommitSync(r)
    PROVE  /\ cursors' \in [File -> Cursor \cup {None}]
           /\ \A f \in File : cursors'[f] # None => Ahead(f, cursors'[f])
           /\ \A f \in File : cursors[f] # None => cursors'[f] # None
<1> DEFINE q == reqs[r]
<1>1. /\ q \in SyncState /\ SoundSync(q) /\ q.pc = "scan"
      /\ cursors' = [f \in File |-> IF q.moved[f] # None THEN q.moved[f] ELSE cursors[f]]
      /\ cursors \in [File -> Cursor \cup {None}]
  BY DEF CommitSync, IInv, TypeOK
<1>2. q.moved \in [File -> Cursor \cup {None}]
  BY <1>1, SyncShape
<1>3. \A f \in File : q.moved[f] # None => Ahead(f, q.moved[f])
  BY <1>1 DEF SoundSync
<1>4. \A f \in File : cursors[f] # None => Ahead(f, cursors[f])
  BY DEF IInv, CursorsWithin
<1> QED
  BY <1>1, <1>2, <1>3, <1>4

LEMMA CommitSyncPreserves ==
    ASSUME IInv, NEW r \in Request, CommitSync(r)
    PROVE  IInv'
<1>1. /\ reqs[r] \in SyncState /\ SoundSync(reqs[r]) /\ reqs[r].pc = "scan"
      /\ events' = events \cup {e \in reqs[r].found : e.id \notin Ids}
      /\ reqs' = [reqs EXCEPT ![r] = Idle] /\ reqs \in [Request -> SyncState]
      /\ UNCHANGED <<lines, written, recreated>>
  BY DEF CommitSync, IInv, TypeOK, Return, Suspend, files
<1>2. reqs[r] # Idle /\ reqs[r].found \in SUBSET Event
  BY <1>1, SyncShape
<1>3. \A o \in Request : reqs'[o] = Idle
  BY <1>1, <1>2 DEF IInv, OneSync
<1>4. Idle \in SyncState /\ Idle.pc = "idle"
  BY DEF SyncState, Idle
<1>5. TypeOK'
  <2>1. events' \subseteq Event
    BY <1>1, <1>2 DEF IInv, TypeOK
  <2>2. reqs' \in [Request -> SyncState]
    BY <1>1, <1>4
  <2> QED
    BY <1>1, <2>1, <2>2, CommittedCursors DEF IInv, TypeOK
<1>6. OneSync'
  BY <1>3 DEF OneSync
<1>7. CursorsWithin'
  <2> SUFFICES ASSUME NEW f \in File, cursors'[f] # None, ~recreated[f]
               PROVE  cursors'[f].offset <= Len(lines[f])
                      /\ cursors'[f].offset <= cursors'[f].offset
    BY <1>1 DEF CursorsWithin, Ahead
  <2>1. Ahead(f, cursors'[f]) /\ cursors'[f] \in Cursor
    BY CommittedCursors
  <2> QED
    BY <2>1 DEF Ahead, Cursor
<1>8. \A o \in Request : SoundSync(reqs[o])'
  BY <1>3, <1>4 DEF SoundSync
<1> QED
  BY <1>5, <1>6, <1>7, <1>8 DEF IInv

LEMMA AbandonSyncPreserves ==
    ASSUME IInv, NEW r \in Request, AbandonSync(r)
    PROVE  IInv'
<1>1. Idle \in SyncState /\ SoundSync(Idle)
  BY DEF SyncState, SoundSync, Idle
<1>2. Suspend(r, Idle) /\ UNCHANGED <<files, events, cursors>>
  BY DEF AbandonSync, Return
<1> QED
  BY <1>1, <1>2, SyncMovePreserves

LEMMA StutterPreserves ==
    ASSUME IInv, UNCHANGED vars
    PROVE  IInv'
  BY DEF vars, files, IInv, TypeOK, OneSync, CursorsWithin, SoundSync, Ahead

LEMMA NextPreserves == IInv /\ [Next]_vars => IInv'
<1> SUFFICES ASSUME IInv, [Next]_vars PROVE IInv'
  OBVIOUS
<1>1. ASSUME NEW f \in File, Codex(f) PROVE IInv'
  BY <1>1, BeginLinePreserves, EndLinePreserves, RecreatePreserves DEF Codex
<1>2. ASSUME NEW r \in Request, Sync(r) PROVE IInv'
  <2>1. CASE BeginSync(r)
    BY <2>1, BeginSyncPreserves
  <2>2. ASSUME NEW f \in File, OpenFile(r, f) PROVE IInv'
    BY <2>2, OpenFilePreserves
  <2>3. CASE ReadLine(r)
    BY <2>3, ReadLinePreserves
  <2>4. CASE CloseFile(r)
    BY <2>4, EndFilePreserves DEF CloseFile
  <2>5. CASE FailFile(r)
    BY <2>5, EndFilePreserves DEF FailFile
  <2>6. CASE CommitSync(r)
    BY <2>6, CommitSyncPreserves
  <2>7. CASE AbandonSync(r)
    BY <2>7, AbandonSyncPreserves
  <2> QED
    BY <1>2, <2>1, <2>2, <2>3, <2>4, <2>5, <2>6, <2>7 DEF Sync
<1>3. CASE UNCHANGED vars
  BY <1>3, StutterPreserves
<1> QED
  BY <1>1, <1>2, <1>3 DEF Next

LEMMA Invariance == Spec => []IInv
<1>1. IInv /\ [Next]_vars => IInv'
  BY NextPreserves
<1> QED
  BY <1>1, InitInvariant, PTL DEF Spec

-----------------------------------------------------------------------------
(* The import is exact.  ExactInv carries it: every position a scan has     *)
(* reached is what the lines up to there say, and their usage is stored or  *)
(* in the scan's batch.                                                     *)

\* A position in a file that only grows is what its lines up to there say, and
\* the usage of those lines is known.
Imported(f, at, known) ==
    ~recreated[f] =>
        /\ at.total = PreviousTotal(f, at.offset + 1)
        /\ at.model = ModelAt(f, at.offset + 1)
        /\ UsageUpTo(f, at.offset) \subseteq known

\* An event of a file that only grows is the usage of one of its lines.
Told(e) == ~recreated[e.id.file] => e \in UsageUpTo(e.id.file, Len(lines[e.id.file]))

ExactSync(q) ==
    /\ q.pc \in {"scan", "read"} =>
          /\ \A e \in q.found : Told(e)
          /\ \A f \in File : q.moved[f] # None => Imported(f, q.moved[f], events \cup q.found)
    /\ q.pc = "read" => Imported(q.file, q.at, events \cup q.found)

ExactInv ==
    /\ \A e \in events : Told(e)
    /\ \A f \in File : cursors[f] # None => Imported(f, cursors[f], events)
    /\ \A r \in Request : ExactSync(reqs[r])


\* What may happen to a file that only grows: lines are added at its end, and
\* what a line says stays when it is ended.
SameLine(a, b) ==
    /\ b.kind = a.kind /\ b.stamp = a.stamp
    /\ a.kind = "usage" => b.total = a.total /\ b.dated = a.dated
    /\ a.kind = "context" => b.model = a.model

Keeps(f) ==
    /\ Len(lines[f]) <= Len(lines'[f])
    /\ \A j \in 1..Len(lines[f]) : SameLine(lines[f][j], lines'[f][j])

LEMMA LeastOf ==
    ASSUME NEW S \in SUBSET Nat, S # {}
    PROVE  \E m \in S : \A n \in S : m <= n
<1> DEFINE R == OpToRel(<, Nat)
<1>1. \A x, y \in Nat : x < y => <<x, y>> \in R
  BY DEF OpToRel
<1>2. IsWellFoundedOn(R, Nat)
  BY NatLessThanWellFounded
<1> HIDE DEF R
<1>3. PICK m \in S : \A n \in S : ~(<<n, m>> \in R)
  BY <1>2, WFMin
<1>4. ASSUME NEW n \in S PROVE m <= n
  <2>1. m \in Nat /\ n \in Nat /\ ~(n < m)
    BY <1>1, <1>3
  <2> QED
    BY <2>1
<1> QED
  BY <1>4

LEMMA MaxProperty ==
    ASSUME NEW S \in SUBSET Nat, S # {}, NEW b \in Nat, \A n \in S : n <= b
    PROVE  Max(S) \in S /\ \A n \in S : n <= Max(S)
<1> DEFINE T == {b - n : n \in S}
<1>1. T \in SUBSET Nat /\ T # {}
  <2>1. ASSUME NEW n \in S PROVE b - n \in Nat
    <3>1. n \in Nat /\ n <= b
      OBVIOUS
    <3> QED
      BY <3>1
  <2> QED
    BY <2>1
<1>2. PICK m \in T : \A n \in T : m <= n
  BY <1>1, LeastOf
<1>3. PICK x \in S : m = b - x
  OBVIOUS
<1>4. \A n \in S : x >= n
  BY <1>2, <1>3
<1> QED
  BY <1>4 DEF Max

\* What the lines before the i-th say, when the i-th has been read.
LEMMA BeforeNext ==
    ASSUME NEW f \in File, NEW i \in Nat \ {0}, NEW kind
    PROVE  /\ lines[f][i].kind = kind =>
                 Before(f, i + 1, kind) # {} /\ Max(Before(f, i + 1, kind)) = i
           /\ lines[f][i].kind # kind => Before(f, i + 1, kind) = Before(f, i, kind)
<1> DEFINE S == Before(f, i + 1, kind)
<1>1. \A j : j \in S <=> j \in 1..i /\ lines[f][j].kind = kind
  <2>1. (i + 1) - 1 = i
    OBVIOUS
  <2> QED
    BY <2>1 DEF Before
<1>2. ASSUME lines[f][i].kind = kind PROVE S # {} /\ Max(S) = i
  <2>1. i \in S /\ S \in SUBSET Nat /\ \A n \in S : n <= i
    BY <1>1, <1>2
  <2>2. Max(S) \in S /\ \A n \in S : n <= Max(S)
    BY <2>1, MaxProperty
  <2>3. Max(S) \in Nat /\ Max(S) <= i /\ i <= Max(S)
    BY <2>1, <2>2
  <2> QED
    BY <2>1, <2>3
<1>3. ASSUME lines[f][i].kind # kind PROVE S = Before(f, i, kind)
  <2>1. \A j : j \in 1..i /\ lines[f][j].kind = kind <=> j \in 1..(i - 1) /\ lines[f][j].kind = kind
    BY <1>3
  <2> QED
    BY <1>1, <2>1 DEF Before
<1> QED
  BY <1>2, <1>3

\* A scan that has read a line stands where the lines up to it say.
LEMMA MovedTracks ==
    ASSUME NEW f \in File, NEW at \in Cursor,
           at.total = PreviousTotal(f, at.offset + 1), at.model = ModelAt(f, at.offset + 1)
    PROVE  LET line == lines[f][at.offset + 1]
               next == Moved(at, line) IN
           /\ next.offset = at.offset + 1
           /\ next.total = PreviousTotal(f, next.offset + 1)
           /\ next.model = ModelAt(f, next.offset + 1)
<1>1. PICK i \in Nat \ {0} : i = at.offset + 1
  BY DEF Cursor
<1> DEFINE line == lines[f][i]
           next == Moved(at, line)
<1>2. /\ next.offset = i
      /\ next.total = IF line.kind = "usage" THEN line.total ELSE at.total
      /\ next.model = IF line.kind = "context" THEN line.model ELSE at.model
  BY <1>1 DEF Moved
<1>3. PreviousTotal(f, i + 1) = IF line.kind = "usage" THEN line.total ELSE PreviousTotal(f, i)
  <2>1. line.kind = "usage" => Before(f, i + 1, "usage") # {} /\ Max(Before(f, i + 1, "usage")) = i
    BY BeforeNext
  <2>2. line.kind # "usage" => Before(f, i + 1, "usage") = Before(f, i, "usage")
    BY BeforeNext
  <2> QED
    BY <2>1, <2>2 DEF PreviousTotal
<1>4. ModelAt(f, i + 1) = IF line.kind = "context" THEN line.model ELSE ModelAt(f, i)
  <2>1. line.kind = "context" => Before(f, i + 1, "context") # {} /\ Max(Before(f, i + 1, "context")) = i
    BY BeforeNext
  <2>2. line.kind # "context" => Before(f, i + 1, "context") = Before(f, i, "context")
    BY BeforeNext
  <2> QED
    BY <2>1, <2>2 DEF ModelAt
<1> HIDE DEF next
<1> QED
  BY <1>1, <1>2, <1>3, <1>4 DEF next

\* What a scan finds in a line is the line's usage.
LEMMA FoundIsUsage ==
    ASSUME NEW f \in File, NEW at \in Cursor,
           at.total = PreviousTotal(f, at.offset + 1), at.model = ModelAt(f, at.offset + 1)
    PROVE  Found(f, at, lines[f][at.offset + 1]) = Usage(f, at.offset + 1)
<1>1. (at.offset + 1) - 1 = at.offset
  BY DEF Cursor
<1> QED
  BY <1>1 DEF Usage, Found, EventOf

LEMMA UsageNext ==
    ASSUME NEW f \in File, NEW n \in Nat
    PROVE  UsageUpTo(f, n + 1) = UsageUpTo(f, n) \cup Usage(f, n + 1)
<1>1. 1..(n + 1) = (1..n) \cup {n + 1}
  OBVIOUS
<1> QED
  BY <1>1 DEF UsageUpTo

LEMMA UsageGrows ==
    ASSUME NEW f \in File, NEW m \in Nat, NEW n \in Nat, m <= n
    PROVE  UsageUpTo(f, m) \subseteq UsageUpTo(f, n)
<1>1. 1..m \subseteq 1..n
  OBVIOUS
<1> QED
  BY <1>1 DEF UsageUpTo

\* An event names the file and the line it is the usage of, so two with one id
\* are the same.
LEMMA UsageNamesItsLine ==
    ASSUME NEW f \in File, NEW n \in Nat, NEW e \in UsageUpTo(f, n)
    PROVE  \E i \in 1..n : e \in Usage(f, i) /\ e.id.file = f /\ e.id.at = i - 1
<1>1. PICK i \in 1..n : e \in Usage(f, i)
  BY DEF UsageUpTo
<1> QED
  BY <1>1 DEF Usage, Found, EventOf

LEMMA SameIdSameUsage ==
    ASSUME NEW f \in File, NEW n \in Nat, NEW e \in UsageUpTo(f, n), NEW d \in UsageUpTo(f, n),
           e.id = d.id
    PROVE  e = d
<1>1. PICK i \in 1..n : e \in Usage(f, i) /\ e.id.at = i - 1
  BY UsageNamesItsLine
<1>2. PICK j \in 1..n : d \in Usage(f, j) /\ d.id.at = j - 1
  BY UsageNamesItsLine
<1>3. i = j
  BY <1>1, <1>2
<1> QED
  BY <1>1, <1>2, <1>3 DEF Usage, Found

\* What the lines of a file say stays when the file grows.
LEMMA HistoryKept ==
    ASSUME NEW f \in File, Keeps(f), Len(lines[f]) \in Nat, NEW i \in 1..(Len(lines[f]) + 1)
    PROVE  /\ PreviousTotal(f, i)' = PreviousTotal(f, i)
           /\ ModelAt(f, i)' = ModelAt(f, i)
<1>1. \A j \in 1..(i - 1) : SameLine(lines[f][j], lines'[f][j])
  BY DEF Keeps
<1>2. ASSUME NEW kind
      PROVE  Before(f, i, kind)' = Before(f, i, kind)
  BY <1>1 DEF Before, SameLine
<1>3. ASSUME NEW kind, Before(f, i, kind) # {}
      PROVE  Max(Before(f, i, kind)) \in Before(f, i, kind)
  <2>1. PICK S : S = Before(f, i, kind)
    OBVIOUS
  <2>2. S \in SUBSET Nat /\ S # {} /\ i \in Nat /\ \A n \in S : n <= i
    BY <1>3, <2>1 DEF Before
  <2>3. Max(S) \in S
    BY <2>2, MaxProperty
  <2> QED
    BY <2>1, <2>3
<1>4. PreviousTotal(f, i)' = PreviousTotal(f, i)
  <2> DEFINE S == Before(f, i, "usage")
  <2>1. S' = S
    BY <1>2
  <2>2. CASE S = {}
    BY <2>1, <2>2 DEF PreviousTotal
  <2>3. CASE S # {}
    <3>1. PICK m : m = Max(S)
      OBVIOUS
    <3>2. m \in 1..(i - 1) /\ lines[f][m].kind = "usage"
      BY <1>3, <2>3, <3>1 DEF Before
    <3>3. lines'[f][m].total = lines[f][m].total
      BY <1>1, <3>2 DEF SameLine
    <3>4. Max(S)' = m
      BY <2>1, <3>1
    <3> QED
      BY <2>1, <2>3, <3>1, <3>3, <3>4 DEF PreviousTotal
  <2> QED
    BY <2>2, <2>3
<1>5. ModelAt(f, i)' = ModelAt(f, i)
  <2> DEFINE S == Before(f, i, "context")
  <2>1. S' = S
    BY <1>2
  <2>2. CASE S = {}
    BY <2>1, <2>2 DEF ModelAt
  <2>3. CASE S # {}
    <3>1. PICK m : m = Max(S)
      OBVIOUS
    <3>2. m \in 1..(i - 1) /\ lines[f][m].kind = "context"
      BY <1>3, <2>3, <3>1 DEF Before
    <3>3. lines'[f][m].model = lines[f][m].model
      BY <1>1, <3>2 DEF SameLine
    <3>4. Max(S)' = m
      BY <2>1, <3>1
    <3> QED
      BY <2>1, <2>3, <3>1, <3>3, <3>4 DEF ModelAt
  <2> QED
    BY <2>2, <2>3
<1> QED
  BY <1>4, <1>5

LEMMA UsageKept ==
    ASSUME NEW f \in File, Keeps(f), Len(lines[f]) \in Nat, NEW n \in 0..Len(lines[f])
    PROVE  UsageUpTo(f, n)' = UsageUpTo(f, n)
<1>1. ASSUME NEW i \in 1..n PROVE Usage(f, i)' = Usage(f, i)
  <2>1. i \in 1..Len(lines[f]) /\ i \in 1..(Len(lines[f]) + 1)
    OBVIOUS
  <2>2. PreviousTotal(f, i)' = PreviousTotal(f, i) /\ ModelAt(f, i)' = ModelAt(f, i)
    BY <2>1, HistoryKept
  <2>3. SameLine(lines[f][i], lines'[f][i])
    BY <2>1 DEF Keeps
  <2> QED
    BY <2>2, <2>3 DEF Usage, Found, EventOf, SameLine
<1> QED
  BY <1>1 DEF UsageUpTo

LEMMA ImportedKept ==
    ASSUME IInv, NEW f \in File, ~recreated[f] => Keeps(f), recreated'[f] = recreated[f],
           NEW at \in Cursor, NEW known, Ahead(f, at), Imported(f, at, known)
    PROVE  Imported(f, at, known)'
<1> SUFFICES ASSUME ~recreated[f]
             PROVE  /\ at.total = PreviousTotal(f, at.offset + 1)'
                    /\ at.model = ModelAt(f, at.offset + 1)'
                    /\ UsageUpTo(f, at.offset)' \subseteq known
  BY DEF Imported
<1>1. at.offset \in Nat /\ Len(lines[f]) \in Nat /\ at.offset <= Len(lines[f])
  BY DEF Cursor, Ahead, IInv, TypeOK
<1>2. PICK n \in 0..Len(lines[f]) : n = at.offset
  BY <1>1
<1>3. PICK i \in 1..(Len(lines[f]) + 1) : i = at.offset + 1
  BY <1>1
<1>4. PreviousTotal(f, i)' = PreviousTotal(f, i) /\ ModelAt(f, i)' = ModelAt(f, i)
  BY <1>1, HistoryKept
<1>5. UsageUpTo(f, n)' = UsageUpTo(f, n)
  BY <1>1, UsageKept
<1> QED
  BY <1>2, <1>3, <1>4, <1>5 DEF Imported

LEMMA ToldKept ==
    ASSUME IInv, NEW e, e.id.file \in File, Told(e),
           ~recreated[e.id.file] => Keeps(e.id.file),
           recreated'[e.id.file] = recreated[e.id.file],
           lines'[e.id.file] \in Seq(Line)
    PROVE  Told(e)'
<1> SUFFICES ASSUME ~recreated[e.id.file]
             PROVE  e \in UsageUpTo(e.id.file, Len(lines[e.id.file]))'
  BY DEF Told
<1>1. PICK f \in File : f = e.id.file
  OBVIOUS
<1>2. PICK n : n = Len(lines[f])
  OBVIOUS
<1>3. PICK m : m = Len(lines'[f])
  OBVIOUS
<1>4. n \in Nat /\ m \in Nat /\ n <= m /\ n \in 0..Len(lines[f])
  <2>1. lines[f] \in Seq(Line) /\ lines'[f] \in Seq(Line)
    BY <1>1 DEF IInv, TypeOK
  <2>2. n \in Nat /\ m \in Nat
    BY <1>2, <1>3, <2>1
  <2>3. n <= m
    BY <1>1, <1>2, <1>3 DEF Keeps
  <2> QED
    BY <1>2, <2>2, <2>3
<1>5. e \in UsageUpTo(f, n)'
  BY <1>1, <1>2, <1>4, UsageKept DEF Told
<1>6. UsageUpTo(f, n)' \subseteq UsageUpTo(f, m)'
  <2>1. 1..n \subseteq 1..m
    BY <1>4
  <2> QED
    BY <2>1 DEF UsageUpTo
<1> QED
  BY <1>1, <1>3, <1>5, <1>6

\* A step that writes to one file keeps what has been imported of the others
\* and, unless it starts the file afresh, of this one.
LEMMA FilesKeepExact ==
    ASSUME IInv, ExactInv, UNCHANGED <<events, cursors, reqs>>,
           lines' \in [File -> Seq(Line)], recreated' \in [File -> BOOLEAN],
           \A f \in File : ~recreated'[f] => ~recreated[f] /\ Keeps(f)
    PROVE  ExactInv'
<1>1. ASSUME NEW f \in File, NEW at \in Cursor, NEW known, Ahead(f, at), Imported(f, at, known)
      PROVE  Imported(f, at, known)'
  <2>1. CASE ~recreated'[f]
    <3>1. ~recreated[f] /\ Keeps(f) /\ recreated'[f] = recreated[f]
      BY <2>1 DEF IInv, TypeOK
    <3> QED
      BY <1>1, <3>1, ImportedKept
  <2>2. CASE recreated'[f]
    BY <2>2 DEF Imported
  <2> QED
    BY <2>1, <2>2
<1>2. ASSUME NEW e \in Event, Told(e) PROVE Told(e)'
  <2>1. e.id.file \in File
    BY DEF Event, EventId
  <2>2. CASE ~recreated'[e.id.file]
    <3>1. ~recreated[e.id.file] /\ Keeps(e.id.file) /\ recreated'[e.id.file] = recreated[e.id.file]
      BY <2>1, <2>2 DEF IInv, TypeOK
    <3> QED
      BY <1>2, <2>1, <3>1, ToldKept
  <2>3. CASE recreated'[e.id.file]
    BY <2>3 DEF Told
  <2> QED
    BY <2>2, <2>3
<1>3. \A e \in events' : Told(e)'
  BY <1>2 DEF ExactInv, IInv, TypeOK
<1>4. ASSUME NEW f \in File, cursors[f] # None PROVE Imported(f, cursors[f], events)'
  <2>1. cursors[f] \in Cursor /\ Ahead(f, cursors[f]) /\ Imported(f, cursors[f], events)
    BY <1>4 DEF IInv, TypeOK, CursorsWithin, ExactInv
  <2>2. PICK at \in Cursor : at = cursors[f]
    BY <2>1
  <2>3. PICK known : known = events
    OBVIOUS
  <2>4. Imported(f, at, known)'
    BY <1>1, <2>1, <2>2, <2>3
  <2> QED
    BY <2>2, <2>3, <2>4
<1>5. ASSUME NEW r \in Request PROVE ExactSync(reqs[r])'
  <2>1. PICK q \in SyncState : q = reqs[r]
    BY DEF IInv, TypeOK
  <2>2. SoundSync(q) /\ ExactSync(q)
    BY <2>1 DEF IInv, ExactInv
  <2>3. PICK known : known = events \cup q.found
    OBVIOUS
  <2>4. events' \cup q.found = known
    BY <2>3
  <2>5. ASSUME q.pc \in {"scan", "read"} PROVE \A e \in q.found : Told(e)'
    BY <1>2, <2>2, <2>5, SyncShape DEF ExactSync
  <2>6. ASSUME q.pc \in {"scan", "read"}, NEW f \in File, q.moved[f] # None
        PROVE  Imported(f, q.moved[f], known)'
    <3>1. q.moved[f] \in Cursor /\ Ahead(f, q.moved[f])
      BY <2>2, <2>6, SyncShape DEF SoundSync
    <3>2. Imported(f, q.moved[f], known)
      BY <2>2, <2>3, <2>6 DEF ExactSync
    <3> QED
      BY <1>1, <3>1, <3>2
  <2>7. ASSUME q.pc = "read" PROVE Imported(q.file, q.at, known)'
    <3>1. q.file \in File /\ q.at \in Cursor /\ Ahead(q.file, q.at)
      BY <2>2, <2>7, SyncShape DEF SoundSync
    <3>2. Imported(q.file, q.at, known)
      BY <2>2, <2>3, <2>7 DEF ExactSync
    <3> QED
      BY <1>1, <3>1, <3>2
  <2>8. ExactSync(q)'
    BY <2>4, <2>5, <2>6, <2>7 DEF ExactSync
  <2> QED
    BY <2>1, <2>8
<1> QED
  BY <1>3, <1>4, <1>5 DEF ExactInv

\* What Codex does to a file.
LEMMA CodexKeepsExact ==
    ASSUME IInv, ExactInv, NEW f \in File, Codex(f)
    PROVE  ExactInv'
<1>1. /\ lines \in [File -> Seq(Line)] /\ recreated \in [File -> BOOLEAN]
      /\ lines' \in [File -> Seq(Line)] /\ recreated' \in [File -> BOOLEAN]
  <2>1. IInv'
    BY BeginLinePreserves, EndLinePreserves, RecreatePreserves DEF Codex
  <2> QED
    BY <2>1 DEF IInv, TypeOK
<1>2. UNCHANGED <<events, cursors, reqs>>
  BY DEF Codex, BeginLine, EndLine, Recreate
<1>3. ASSUME NEW g \in File, lines'[g] = lines[g] PROVE Keeps(g)
  <2>1. Len(lines[g]) \in Nat
    BY <1>1
  <2> QED
    BY <1>3, <2>1 DEF Keeps, SameLine
<1>4. CASE BeginLine(f)
  <2>1. PICK line \in Line : lines' = [lines EXCEPT ![f] = Append(@, line)]
    BY <1>4 DEF BeginLine
  <2>2. lines'[f] = Append(lines[f], line) /\ \A g \in File : g # f => lines'[g] = lines[g]
    BY <1>1, <2>1
  <2>3. /\ Len(lines'[f]) = Len(lines[f]) + 1 /\ Len(lines[f]) \in Nat
        /\ \A j \in 1..Len(lines[f]) : lines'[f][j] = lines[f][j]
    BY <1>1, <2>2, AppendProperties
  <2>4. Keeps(f)
    BY <2>3 DEF Keeps, SameLine
  <2>5. recreated' = recreated
    BY <1>4 DEF BeginLine
  <2> QED
    BY <1>1, <1>2, <1>3, <2>2, <2>4, <2>5, FilesKeepExact
<1>5. CASE EndLine(f)
  <2>1. PICK i \in DOMAIN lines[f] : lines' = [lines EXCEPT ![f][i].done = TRUE]
    BY <1>5 DEF EndLine
  <2> DEFINE ended == [lines[f][i] EXCEPT !.done = TRUE]
  <2>2. lines[f][i] \in Line
    BY <1>1, <2>1
  <2>3. SameLine(lines[f][i], ended)
    <3>1. CASE lines[f][i] \in [stamp : 1..MaxLines, kind : {"usage"}, total : Total,
                                dated : BOOLEAN, done : BOOLEAN]
      BY <3>1 DEF SameLine
    <3>2. CASE lines[f][i] \in [stamp : 1..MaxLines, kind : {"context"}, model : Model,
                                done : BOOLEAN]
      BY <3>2 DEF SameLine
    <3>3. CASE lines[f][i] \in [stamp : 1..MaxLines, kind : {"other"}, done : BOOLEAN]
      BY <3>3 DEF SameLine
    <3> QED
      BY <2>2, <3>1, <3>2, <3>3 DEF Line
  <2>4. lines'[f] = [lines[f] EXCEPT ![i] = ended] /\ \A g \in File : g # f => lines'[g] = lines[g]
    BY <1>1, <2>1
  <2> HIDE DEF ended
  <2>5. /\ Len(lines'[f]) = Len(lines[f]) /\ Len(lines[f]) \in Nat
        /\ \A j \in 1..Len(lines[f]) : lines'[f][j] = IF j = i THEN ended ELSE lines[f][j]
    <3>1. lines[f] \in Seq(Line) /\ lines'[f] \in Seq(Line)
      BY <1>1
    <3>2. DOMAIN lines'[f] = DOMAIN lines[f]
      BY <2>4
    <3>3. Len(lines'[f]) = Len(lines[f]) /\ Len(lines[f]) \in Nat /\ DOMAIN lines[f] = 1..Len(lines[f])
      BY <3>1, <3>2, LenProperties
    <3> QED
      BY <2>4, <3>3
  <2>6. Keeps(f)
    BY <2>3, <2>5 DEF Keeps, SameLine
  <2>7. recreated' = recreated
    BY <1>5 DEF EndLine
  <2> QED
    BY <1>1, <1>2, <1>3, <2>4, <2>6, <2>7, FilesKeepExact
<1>6. CASE Recreate(f)
  <2>1. \A g \in File : g # f => lines'[g] = lines[g] /\ recreated'[g] = recreated[g]
    BY <1>1, <1>6 DEF Recreate
  <2>2. recreated'[f]
    BY <1>1, <1>6 DEF Recreate
  <2> QED
    BY <1>1, <1>2, <1>3, <2>1, <2>2, FilesKeepExact
<1> QED
  BY <1>4, <1>5, <1>6 DEF Codex

\* A step of one synchronisation that commits nothing.
LEMMA SyncMoveKeepsExact ==
    ASSUME IInv, ExactInv, NEW r \in Request, NEW q, ExactSync(q), Suspend(r, q),
           UNCHANGED <<files, events, cursors>>
    PROVE  ExactInv'
<1>1. \A o \in Request : reqs'[o] = q \/ reqs'[o] = reqs[o]
  BY DEF Suspend, IInv, TypeOK
<1>2. lines' = lines /\ recreated' = recreated /\ events' = events /\ cursors' = cursors
  BY DEF files
<1>3. \A f, n : UsageUpTo(f, n)' = UsageUpTo(f, n)
  BY <1>2 DEF UsageUpTo, Usage, PreviousTotal, ModelAt, Before
<1>4. \A f, i : PreviousTotal(f, i)' = PreviousTotal(f, i) /\ ModelAt(f, i)' = ModelAt(f, i)
  BY <1>2 DEF PreviousTotal, ModelAt, Before
<1>5. \A f, at, known : Imported(f, at, known)' <=> Imported(f, at, known)
  BY <1>2, <1>3, <1>4 DEF Imported
<1>6. \A e : Told(e)' <=> Told(e)
  BY <1>2, <1>3 DEF Told
<1>7. ASSUME NEW p, ExactSync(p) PROVE ExactSync(p)'
  BY <1>2, <1>5, <1>6, <1>7 DEF ExactSync
<1>8. \A o \in Request : ExactSync(reqs[o])'
  BY <1>1, <1>7 DEF ExactInv
<1>9. \A e \in events' : Told(e)'
  BY <1>2, <1>6 DEF ExactInv
<1>10. ASSUME NEW f \in File, cursors'[f] # None PROVE Imported(f, cursors[f], events)'
  BY <1>2, <1>5, <1>10 DEF ExactInv
<1> QED
  BY <1>8, <1>9, <1>10 DEF ExactInv

LEMMA StartIsImported ==
    ASSUME IInv, ExactInv, NEW f \in File, NEW known, events \subseteq known
    PROVE  Imported(f, StartOf(cursors[f], f), known)
<1>1. CASE StartOf(cursors[f], f) = cursors[f] /\ cursors[f] # None
  BY <1>1 DEF ExactInv, Imported
<1>2. CASE StartOf(cursors[f], f) = AtStart
  <2>1. Before(f, 1, "usage") = {} /\ Before(f, 1, "context") = {}
    BY DEF Before
  <2>2. AtStart.total = PreviousTotal(f, 1) /\ AtStart.model = ModelAt(f, 1)
    BY <2>1 DEF AtStart, PreviousTotal, ModelAt
  <2>3. UsageUpTo(f, 0) = {}
    BY DEF UsageUpTo
  <2>4. AtStart.offset = 0
    BY DEF AtStart
  <2> QED
    BY <1>2, <2>2, <2>3, <2>4 DEF Imported
<1> QED
  BY <1>1, <1>2 DEF StartOf

LEMMA BeginSyncKeepsExact ==
    ASSUME IInv, ExactInv, NEW r \in Request, BeginSync(r)
    PROVE  ExactInv'
<1> DEFINE q == [pc |-> "scan", todo |-> File, prior |-> cursors, found |-> {},
                 moved |-> [f \in File |-> None]]
<1>1. ExactSync(q)
  BY DEF ExactSync
<1>2. Suspend(r, q) /\ UNCHANGED <<files, events, cursors>>
  BY DEF BeginSync
<1> HIDE DEF q
<1> QED
  BY <1>1, <1>2, SyncMoveKeepsExact

LEMMA OpenFileKeepsExact ==
    ASSUME IInv, ExactInv, NEW r \in Request, NEW f \in File, OpenFile(r, f)
    PROVE  ExactInv'
<1> DEFINE q == reqs[r]
           start == StartOf(q.prior[f], f)
           p == [pc |-> "read", todo |-> q.todo \ {f}, prior |-> q.prior, found |-> q.found,
                 moved |-> q.moved, file |-> f, at |-> start]
<1>1. /\ q \in SyncState /\ SoundSync(q) /\ ExactSync(q) /\ q.pc = "scan"
      /\ Suspend(r, p) /\ UNCHANGED <<files, events, cursors>>
  BY DEF OpenFile, IInv, TypeOK, ExactInv
<1>2. Imported(f, start, events \cup q.found)
  <2>1. q.prior = cursors
    BY <1>1 DEF SoundSync
  <2> QED
    BY <2>1, StartIsImported
<1> HIDE DEF start
<1>3. ExactSync(p)
  BY <1>1, <1>2 DEF ExactSync
<1> HIDE DEF p
<1> QED
  BY <1>1, <1>3, SyncMoveKeepsExact

\* Reading a line finds its usage and goes on from where the lines up to it say.
LEMMA ReadLineKeepsExact ==
    ASSUME IInv, ExactInv, NEW r \in Request, ReadLine(r)
    PROVE  ExactInv'
<1> DEFINE q == reqs[r]
           f == q.file
           line == lines[f][q.at.offset + 1]
           new == Found(f, q.at, line)
           at == Moved(q.at, line)
           p == [pc |-> "read", todo |-> q.todo, prior |-> q.prior, found |-> q.found \cup new,
                 moved |-> q.moved, file |-> f, at |-> at]
<1>1. /\ q \in SyncState /\ SoundSync(q) /\ ExactSync(q) /\ q.pc = "read"
      /\ HasLine(f, q.at) /\ UNCHANGED <<files, events, cursors>>
  BY DEF ReadLine, IInv, TypeOK, ExactInv
<1>2. Suspend(r, p)
  BY <1>1 DEF ReadLine, HasLine
<1>3. q.at.offset \in Nat /\ q.at \in Cursor /\ f \in File /\ q.found \subseteq Event
  BY <1>1, SyncShape DEF Cursor
<1>4. q.at.offset < Len(lines[f]) /\ Len(lines[f]) \in Nat
  BY <1>1, <1>3 DEF HasLine, IInv, TypeOK
<1>5. Imported(f, q.at, events \cup q.found)
  BY <1>1 DEF ExactSync
<1>6. ASSUME ~recreated[f]
      PROVE  /\ at.offset = q.at.offset + 1
             /\ at.total = PreviousTotal(f, at.offset + 1)
             /\ at.model = ModelAt(f, at.offset + 1)
             /\ new = Usage(f, q.at.offset + 1)
  BY <1>3, <1>5, <1>6, MovedTracks, FoundIsUsage DEF Imported
<1>7. \A e \in new : e.id.file = f
  BY DEF Found, EventOf
<1> HIDE DEF at, new
<1>8. ASSUME ~recreated[f]
      PROVE  UsageUpTo(f, at.offset) = UsageUpTo(f, q.at.offset) \cup new
  BY <1>3, <1>6, <1>8, UsageNext
<1>9. Imported(f, at, events \cup (q.found \cup new))
  BY <1>5, <1>6, <1>8 DEF Imported
<1>10. ASSUME NEW e \in new PROVE Told(e)
  <2>1. e.id.file = f
    BY <1>7, <1>10
  <2>2. ASSUME ~recreated[f] PROVE e \in UsageUpTo(f, Len(lines[f]))
    <3>1. q.at.offset + 1 \in 1..Len(lines[f])
      BY <1>3, <1>4
    <3>2. e \in Usage(f, q.at.offset + 1)
      BY <1>6, <1>10, <2>2
    <3> QED
      BY <3>1, <3>2 DEF UsageUpTo
  <2> QED
    BY <2>1, <2>2 DEF Told
<1>11. \A g \in File : q.moved[g] # None =>
          Imported(g, q.moved[g], events \cup (q.found \cup new))
  BY <1>1 DEF ExactSync, Imported
<1>12. ExactSync(p)
  BY <1>1, <1>9, <1>10, <1>11 DEF ExactSync
<1> HIDE DEF p
<1> QED
  BY <1>1, <1>2, <1>12, SyncMoveKeepsExact

LEMMA EndFileKeepsExact ==
    ASSUME IInv, ExactInv, NEW r \in Request, reqs[r].pc = "read",
           NEW moved \in {reqs[r].moved, [reqs[r].moved EXCEPT ![reqs[r].file] = reqs[r].at]},
           EndFile(r, moved)
    PROVE  ExactInv'
<1> DEFINE q == reqs[r]
           p == [pc |-> "scan", todo |-> q.todo, prior |-> q.prior, found |-> q.found,
                 moved |-> moved]
<1>1. /\ q \in SyncState /\ ExactSync(q)
      /\ Suspend(r, p) /\ UNCHANGED <<files, events, cursors>>
  BY DEF EndFile, IInv, TypeOK, ExactInv
<1>2. \A f \in File : moved[f] = q.moved[f] \/ (f = q.file /\ moved[f] = q.at)
  BY <1>1, SyncShape
<1>3. \A f \in File : moved[f] # None => Imported(f, moved[f], events \cup q.found)
  BY <1>1, <1>2 DEF ExactSync
<1>4. ExactSync(p)
  BY <1>1, <1>3 DEF ExactSync
<1> HIDE DEF p
<1> QED
  BY <1>1, <1>4, SyncMoveKeepsExact

\* The commit: an event of the batch whose id is known is the stored event.
LEMMA CommitSyncKeepsExact ==
    ASSUME IInv, ExactInv, NEW r \in Request, CommitSync(r)
    PROVE  ExactInv'
<1> DEFINE q == reqs[r]
<1>1. /\ q \in SyncState /\ ExactSync(q) /\ SoundSync(q) /\ q.pc = "scan"
      /\ events' = events \cup {e \in q.found : e.id \notin Ids}
      /\ cursors' = [f \in File |-> IF q.moved[f] # None THEN q.moved[f] ELSE cursors[f]]
      /\ reqs' = [reqs EXCEPT ![r] = Idle] /\ reqs \in [Request -> SyncState]
      /\ lines' = lines /\ recreated' = recreated
  BY DEF CommitSync, IInv, TypeOK, Return, Suspend, files, ExactInv
<1>2. /\ \A e \in q.found : Told(e)
      /\ \A f \in File : q.moved[f] # None => Imported(f, q.moved[f], events \cup q.found)
  BY <1>1 DEF ExactSync
<1>3. \A f, n : UsageUpTo(f, n)' = UsageUpTo(f, n)
  BY <1>1 DEF UsageUpTo, Usage, PreviousTotal, ModelAt, Before
<1>4. \A f, i : PreviousTotal(f, i)' = PreviousTotal(f, i) /\ ModelAt(f, i)' = ModelAt(f, i)
  BY <1>1 DEF PreviousTotal, ModelAt, Before
<1>5. \A f, at, known : Imported(f, at, known)' <=> Imported(f, at, known)
  BY <1>1, <1>3, <1>4 DEF Imported
<1>6. \A e : Told(e)' <=> Told(e)
  BY <1>1, <1>3 DEF Told
<1>7. \A e \in events' : Told(e)'
  BY <1>1, <1>2, <1>6 DEF ExactInv
<1>8. ASSUME NEW f \in File, ~recreated[f], NEW n \in 0..Len(lines[f]),
             NEW e \in UsageUpTo(f, n), e \in events \cup q.found
      PROVE  e \in events'
  <2>1. CASE e \in events \/ e.id \notin Ids
    BY <1>1, <1>8, <2>1
  <2>2. CASE e.id \in Ids
    <3>1. PICK d \in events : d.id = e.id
      BY <2>2 DEF Ids
    <3>2. Len(lines[f]) \in Nat /\ n \in Nat /\ n <= Len(lines[f])
      BY DEF IInv, TypeOK
    <3>3. e \in UsageUpTo(f, Len(lines[f])) /\ e.id.file = f
      BY <3>2, UsageGrows, UsageNamesItsLine
    <3>4. d \in UsageUpTo(f, Len(lines[f]))
      BY <1>8, <3>1, <3>3 DEF ExactInv, Told
    <3>5. d = e
      BY <3>1, <3>2, <3>3, <3>4, SameIdSameUsage
    <3> QED
      BY <1>1, <3>1, <3>5
  <2> QED
    BY <2>1, <2>2
<1>9. ASSUME NEW f \in File, NEW at \in Cursor, Ahead(f, at), Imported(f, at, events \cup q.found)
      PROVE  Imported(f, at, events')
  <2>1. ASSUME ~recreated[f] PROVE UsageUpTo(f, at.offset) \subseteq events'
    <3>1. at.offset \in 0..Len(lines[f])
      BY <2>1, <1>9 DEF Ahead, Cursor, IInv, TypeOK
    <3>2. UsageUpTo(f, at.offset) \subseteq events \cup q.found
      BY <1>9, <2>1 DEF Imported
    <3> QED
      BY <1>8, <2>1, <3>1, <3>2
  <2> QED
    BY <1>9, <2>1 DEF Imported
<1>10. ASSUME NEW f \in File, cursors'[f] # None PROVE Imported(f, cursors[f], events)'
  <2>1. PICK at \in Cursor : at = cursors'[f]
    BY <1>10, CommittedCursors
  <2>2. Ahead(f, at)
    BY <1>10, <2>1, CommittedCursors
  <2>3. Imported(f, at, events \cup q.found)
    <3>1. CASE q.moved[f] # None
      BY <1>1, <1>2, <2>1, <3>1
    <3>2. CASE q.moved[f] = None
      <4>1. cursors'[f] = cursors[f]
        BY <1>1, <3>2
      <4> QED
        BY <1>10, <2>1, <4>1 DEF ExactInv, Imported
    <3> QED
      BY <3>1, <3>2
  <2>4. PICK known : known = events'
    OBVIOUS
  <2>5. Imported(f, at, known)'
    BY <1>5, <1>9, <2>2, <2>3, <2>4
  <2> QED
    BY <2>1, <2>4, <2>5
<1>11. \A o \in Request : reqs'[o].pc = "idle"
  <2>1. q # Idle
    BY <1>1, SyncShape
  <2>2. \A o \in Request : reqs'[o] = Idle
    BY <1>1, <2>1 DEF IInv, OneSync
  <2> QED
    BY <2>2 DEF Idle
<1>12. \A o \in Request : ExactSync(reqs[o])'
  BY <1>11 DEF ExactSync
<1> QED
  BY <1>7, <1>10, <1>12 DEF ExactInv

LEMMA ExactNext == IInv /\ ExactInv /\ [Next]_vars => ExactInv'
<1> SUFFICES ASSUME IInv, ExactInv, [Next]_vars PROVE ExactInv'
  OBVIOUS
<1>1. ASSUME NEW f \in File, Codex(f) PROVE ExactInv'
  BY <1>1, CodexKeepsExact
<1>2. ASSUME NEW r \in Request, Sync(r) PROVE ExactInv'
  <2>1. ASSUME NEW f \in File, OpenFile(r, f) PROVE ExactInv'
    BY <2>1, OpenFileKeepsExact
  <2>2. CASE BeginSync(r)
    BY <2>2, BeginSyncKeepsExact
  <2>3. CASE ReadLine(r)
    BY <2>3, ReadLineKeepsExact
  <2>4. CASE CloseFile(r)
    BY <2>4, EndFileKeepsExact DEF CloseFile
  <2>5. CASE FailFile(r)
    BY <2>5, EndFileKeepsExact DEF FailFile
  <2>6. CASE CommitSync(r)
    BY <2>6, CommitSyncKeepsExact
  <2>7. CASE AbandonSync(r)
    <3>1. ExactSync(Idle)
      BY DEF ExactSync, Idle
    <3> QED
      BY <2>7, <3>1, SyncMoveKeepsExact DEF AbandonSync, Return
  <2> QED
    BY <1>2, <2>1, <2>2, <2>3, <2>4, <2>5, <2>6, <2>7 DEF Sync
<1>3. CASE UNCHANGED vars
  <2>1. lines' = lines /\ recreated' = recreated /\ events' = events
        /\ cursors' = cursors /\ reqs' = reqs
    BY <1>3 DEF vars, files
  <2>2. \A f, n : UsageUpTo(f, n)' = UsageUpTo(f, n)
    BY <2>1 DEF UsageUpTo, Usage, PreviousTotal, ModelAt, Before
  <2>3. \A f, i : PreviousTotal(f, i)' = PreviousTotal(f, i) /\ ModelAt(f, i)' = ModelAt(f, i)
    BY <2>1 DEF PreviousTotal, ModelAt, Before
  <2>4. \A f, at, known : Imported(f, at, known)' <=> Imported(f, at, known)
    BY <2>1, <2>2, <2>3 DEF Imported
  <2>5. \A e : Told(e)' <=> Told(e)
    BY <2>1, <2>2 DEF Told
  <2>6. \A q : ExactSync(q)' <=> ExactSync(q)
    BY <2>1, <2>4, <2>5 DEF ExactSync
  <2> QED
    BY <2>1, <2>4, <2>5, <2>6 DEF ExactInv
<1> QED
  BY <1>1, <1>2, <1>3 DEF Next

LEMMA InitExact == Init => ExactInv
<1> SUFFICES ASSUME Init PROVE ExactInv
  OBVIOUS
<1>1. \A r \in Request : ExactSync(reqs[r])
  BY DEF Init, ExactSync, Idle
<1> QED
  BY <1>1 DEF Init, ExactInv

-----------------------------------------------------------------------------
\* The imported events, the cursors and every scan under way keep their types,
\* whatever files hold and however scans are cut (local_usage._sync).
THEOREM TypeCorrect == Spec => []TypeOK
<1>1. IInv => TypeOK
  BY DEF IInv
<1> QED
  BY <1>1, Invariance, PTL

\* The cursor of a file that only grows never goes back, however many requests
\* ask for the usage at once and wherever a scan fails: the lock of
\* local_usage._sync makes what a scan started from the stored cursor still.
THEOREM CursorNeverGoesBack == Spec => CursorAdvances
<1>1. IInv /\ [Next]_vars =>
        [\A f \in File : cursors[f] # None /\ ~recreated[f] =>
             cursors'[f].offset >= cursors[f].offset]_vars
  <2> SUFFICES ASSUME IInv, Next, NEW f \in File, cursors[f] # None, ~recreated[f]
               PROVE  cursors'[f].offset >= cursors[f].offset
    OBVIOUS
  <2>1. cursors[f] \in Cursor /\ cursors[f].offset \in Nat
    BY DEF IInv, TypeOK, Cursor
  <2>2. ASSUME NEW r \in Request, CommitSync(r) PROVE cursors'[f].offset >= cursors[f].offset
    <3>1. cursors'[f] \in Cursor /\ Ahead(f, cursors'[f])
      BY <2>2, CommittedCursors
    <3>2. cursors'[f].offset \in Nat
      BY <3>1 DEF Cursor
    <3> QED
      BY <2>1, <3>1, <3>2 DEF Ahead
  <2>3. CASE UNCHANGED cursors
    BY <2>1, <2>3
  <2> QED
    BY <2>2, <2>3 DEF Next, Codex, BeginLine, EndLine, Recreate, Sync, BeginSync, OpenFile,
       ReadLine, CloseFile, FailFile, EndFile, AbandonSync
<1> QED
  BY <1>1, Invariance, PTL DEF Spec, CursorAdvances

\* For a file that only grows, every event behind its cursor is stored with the
\* tokens and the model its line stands for, and no other is: whatever scans
\* were cut into, however they failed, and whatever was written while they ran
\* (local_usage._scan and _sync).
THEOREM ImportStaysExact == Spec => []ImportIsExact
<1>1. IInv /\ ExactInv => ImportIsExact
  <2> SUFFICES ASSUME IInv, ExactInv, NEW f \in File, ~recreated[f]
               PROVE  LET own == {e \in events : e.id.file = f} IN
                      /\ own \subseteq UsageUpTo(f, Len(lines[f]))
                      /\ cursors[f] # None => UsageUpTo(f, cursors[f].offset) \subseteq own
    BY DEF ImportIsExact
  <2>1. \A e \in events : e.id.file = f => e \in UsageUpTo(f, Len(lines[f]))
    BY DEF ExactInv, Told
  <2>2. ASSUME cursors[f] # None, NEW e \in UsageUpTo(f, cursors[f].offset)
        PROVE  e \in events /\ e.id.file = f
    <3>1. cursors[f].offset \in Nat
      BY <2>2 DEF IInv, TypeOK, Cursor
    <3>2. e.id.file = f
      BY <2>2, <3>1, UsageNamesItsLine
    <3> QED
      BY <2>2, <3>2 DEF ExactInv, Imported
  <2> QED
    BY <2>1, <2>2
<1> QED
  BY <1>1, Invariance, InitExact, ExactNext, PTL DEF Spec

=============================================================================
