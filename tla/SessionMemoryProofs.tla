------------------------- MODULE SessionMemoryProofs -------------------------
(***************************************************************************)
(* Proofs about SessionMemory for every threshold, window and number of    *)
(* requests.  IInv is what holds however requests overlap: each summary,   *)
(* stored or about to be, was folded from messages up to its boundary and  *)
(* counts them.  WInv, further down, is what holds where clients wait for  *)
(* each other's requests: what the one request in flight has read is still *)
(* so.                                                                     *)
(***************************************************************************)
EXTENDS SessionMemory, FiniteSetTheorems, SequenceTheorems, TLAPS

\* A summary folded from committed messages, up to its boundary and counted.
SoundRow(row) ==
    /\ row \in SummaryRow
    /\ row.folded # {} /\ row.folded \subseteq messages
    /\ row.until = Max(row.folded)
    /\ row.covered = Cardinality(row.folded)

Compacting == {"current", "pending", "summarize", "replace", "commit"}

\* What a suspended request's locals can be relied on for when it resumes.
SoundRequest(q) ==
    /\ q.pc \in Compacting /\ q.turn => q.own \in Message
    /\ q.pc \in {"pending", "summarize", "list"} /\ q.summary # None => SoundRow(q.summary)
    /\ q.pc = "summarize" => q.batch # {} /\ q.batch \subseteq After(q.summary)
    /\ q.pc \in {"replace", "commit"} => SoundRow(q.row) /\ q.row.current
    /\ q.pc = "commit" /\ q.old = 0 => q.row.version \in 1..(Len(summaries) + 1)
    /\ q.pc = "commit" /\ q.old # 0 => q.old \in DOMAIN summaries

IInv ==
    /\ TypeOK
    /\ VersionsAreConsecutive
    /\ \A i \in DOMAIN summaries : SoundRow(summaries[i])
    /\ SomeSummaryIsCurrent
    /\ \A r \in Request : SoundRequest(reqs[r])

-----------------------------------------------------------------------------
(* Lemmas about sets of naturals. *)

LEMMA LeastOf ==
    ASSUME NEW S \in SUBSET Nat, S # {}
    PROVE  \E m \in S : \A n \in S : m <= n
<1> DEFINE R == OpToRel(<, Nat)
<1>1. \A x, y \in Nat : x < y => <<x, y>> \in R
  BY DEF OpToRel
<1>2. IsWellFoundedOn(R, Nat)
  BY NatLessThanWellFounded
<1> HIDE DEF R
<1>3. PICK m \in S : \A n \in S : ~(<<n, m>> \in R)
  BY <1>2, WFMin
<1>4. ASSUME NEW n \in S PROVE m <= n
  <2>1. m \in Nat /\ n \in Nat /\ ~(n < m)
    BY <1>1, <1>3
  <2> QED
    BY <2>1
<1> QED
  BY <1>4

\* The greatest of a bounded set of naturals is in it and is no less than any.
LEMMA MaxProperty ==
    ASSUME NEW S \in SUBSET Nat, S # {}, NEW b \in Nat, \A n \in S : n <= b
    PROVE  Max(S) \in S /\ \A n \in S : n <= Max(S)
<1> DEFINE T == {b - n : n \in S}
<1>1. T \in SUBSET Nat /\ T # {}
  <2>1. ASSUME NEW n \in S PROVE b - n \in Nat
    <3>1. n \in Nat /\ n <= b
      OBVIOUS
    <3> QED
      BY <3>1
  <2> QED
    BY <2>1
<1>2. PICK m \in T : \A n \in T : m <= n
  BY <1>1, LeastOf
<1>3. PICK x \in S : m = b - x
  OBVIOUS
<1>4. \A n \in S : x >= n
  BY <1>2, <1>3
<1> QED
  BY <1>4 DEF Max

LEMMA MessagesAreNumbers == Message \subseteq Nat
  BY MemoryAssumption DEF MemoryAssumption, Message

LEMMA MaxOfMessages ==
    ASSUME NEW S \in SUBSET Message, S # {}
    PROVE  Max(S) \in S /\ \A n \in S : n <= Max(S)
  BY MemoryAssumption, MaxProperty DEF MemoryAssumption, Message

LEMMA MessagesAreFinite ==
    ASSUME NEW S \in SUBSET Message
    PROVE  IsFiniteSet(S) /\ Cardinality(S) \in Nat
<1>1. IsFiniteSet(Message)
  BY FS_Interval, MemoryAssumption DEF Message, MemoryAssumption
<1> QED
  BY <1>1, FS_Subset, FS_CardinalityType

LEMMA MaxIs ==
    ASSUME NEW S \in SUBSET Message, NEW x \in S, \A n \in S : n <= x
    PROVE  Max(S) = x
<1>1. Max(S) \in S /\ x <= Max(S)
  BY MaxOfMessages
<1>2. Max(S) \in Nat /\ x \in Nat /\ Max(S) <= x
  BY <1>1, MessagesAreNumbers
<1> QED
  BY <1>1, <1>2

\* The greatest of a set of naturals below a bound, 0 when there is none.
LEMMA MaxWithZero ==
    ASSUME NEW S \in SUBSET Nat, NEW b \in Nat, \A n \in S : n <= b
    PROVE  /\ Max({0} \cup S) \in 0..b
           /\ \A n \in S : n <= Max({0} \cup S)
<1>1. {0} \cup S \in SUBSET Nat /\ {0} \cup S # {}
  OBVIOUS
<1>2. \A n \in {0} \cup S : n <= b
  OBVIOUS
<1>3. Max({0} \cup S) \in {0} \cup S /\ \A n \in {0} \cup S : n <= Max({0} \cup S)
  BY <1>1, <1>2, MaxProperty
<1>4. Max({0} \cup S) \in Nat /\ Max({0} \cup S) <= b
  BY <1>1, <1>2, <1>3
<1> QED
  BY <1>3, <1>4

-----------------------------------------------------------------------------
(* Lemmas about summaries and requests. *)

LEMMA RowShape ==
    ASSUME NEW row \in SummaryRow
    PROVE  /\ row.version \in Nat \ {0} /\ row.folded \in SUBSET Message
           /\ row.until \in Message /\ row.covered \in Nat /\ row.current \in BOOLEAN
           /\ \A v \in Nat \ {0} :
                 /\ [row EXCEPT !.version = v] \in SummaryRow
                 /\ [row EXCEPT !.version = v].version = v
                 /\ [row EXCEPT !.version = v].folded = row.folded
                 /\ [row EXCEPT !.version = v].until = row.until
                 /\ [row EXCEPT !.version = v].covered = row.covered
                 /\ [row EXCEPT !.version = v].current = row.current
           /\ [row EXCEPT !.current = FALSE] \in SummaryRow
           /\ [row EXCEPT !.current = FALSE].version = row.version
           /\ [row EXCEPT !.current = FALSE].folded = row.folded
           /\ [row EXCEPT !.current = FALSE].until = row.until
           /\ [row EXCEPT !.current = FALSE].covered = row.covered
           /\ [row EXCEPT !.current = FALSE].current = FALSE
  BY DEF SummaryRow

\* The locals of a suspended request, by the await it is suspended at.
LEMMA RequestShape ==
    ASSUME NEW q \in RequestState
    PROVE  /\ q.pc \in Compacting \cup {"idle", "insert", "prepare", "list", "stream"}
           /\ q.pc = "idle" => q = Idle
           /\ q.pc = "insert" => q.stamp \in Message /\ q.role \in {"user", "assistant"}
           /\ q.pc \in Compacting => q.turn \in BOOLEAN /\ q.own \in Message \cup {None}
           /\ q.pc \in {"current", "pending"} => q.force \in BOOLEAN
           /\ q.pc \in {"pending", "summarize", "list"} => q.summary \in SummaryRow \cup {None}
           /\ q.pc = "summarize" => q.batch \in SUBSET Message
           /\ q.pc \in {"replace", "commit"} => q.row \in SummaryRow
           /\ q.pc = "commit" => q.old \in Nat
           /\ q.pc \in {"prepare", "list", "stream"} => q.own \in Message /\ q.degraded \in BOOLEAN
           /\ q.pc = "stream" => q.window \in SUBSET Message /\ q.folded \in SUBSET Message
  BY DEF RequestState, Compacting, Idle

\* Messages after a summary are committed ones.
LEMMA AfterType ==
    ASSUME IInv, NEW summary
    PROVE  After(summary) \subseteq messages /\ After(summary) \in SUBSET Message
  BY DEF After, IInv, TypeOK

\* Folding a batch of later messages into a summary gives a sound summary.
LEMMA SummaryOfSound ==
    ASSUME IInv, NEW previous, previous # None => SoundRow(previous),
           NEW batch, batch # {}, batch \subseteq After(previous)
    PROVE  /\ SoundRow(SummaryOf(previous, batch))
           /\ SummaryOf(previous, batch).current
           /\ Max(batch) \in batch
<1> DEFINE folded == IF previous = None THEN {} ELSE previous.folded
           row == SummaryOf(previous, batch)
<1>1. batch \subseteq messages /\ batch \in SUBSET Message
  BY AfterType
<1>2. folded \subseteq messages /\ folded \in SUBSET Message
  BY DEF SoundRow, IInv, TypeOK
<1>3. \A m \in folded, n \in batch : m < n
  <2> SUFFICES ASSUME previous # None, NEW m \in previous.folded, NEW n \in batch
               PROVE  m < n
    OBVIOUS
  <2>1. n > previous.until /\ previous.until = Max(previous.folded)
    BY DEF After, SoundRow
  <2>2. m <= Max(previous.folded) /\ Max(previous.folded) \in previous.folded
    BY <1>2, MaxOfMessages
  <2>3. m \in Nat /\ n \in Nat /\ Max(previous.folded) \in Nat
    BY <1>1, <1>2, <2>2, MessagesAreNumbers
  <2> QED
    BY <2>1, <2>2, <2>3
<1>4. Max(batch) \in batch /\ \A n \in batch : n <= Max(batch)
  BY <1>1, MaxOfMessages
<1>5. Max(batch \cup folded) = Max(batch)
  <2>1. \A n \in batch \cup folded : n <= Max(batch)
    <3>1. \A n \in batch \cup folded : n \in Nat
      BY <1>1, <1>2, MessagesAreNumbers
    <3> QED
      BY <1>3, <1>4, <3>1
  <2> QED
    BY <1>1, <1>2, <1>4, <2>1, MaxIs
<1>6. batch \cap folded = {}
  <2>1. \A n \in batch : ~(n < n)
    BY <1>1, MessagesAreNumbers
  <2> QED
    BY <1>3, <2>1
<1>7. Cardinality(batch \cup folded) = Cardinality(batch) + Cardinality(folded)
  <2>1. /\ IsFiniteSet(batch) /\ IsFiniteSet(folded)
        /\ Cardinality(batch) \in Nat /\ Cardinality(folded) \in Nat
    BY <1>1, <1>2, MessagesAreFinite
  <2>2. Cardinality(batch \cap folded) = 0
    BY <1>6, FS_EmptySet
  <2>3. Cardinality(batch \cup folded) =
           Cardinality(batch) + Cardinality(folded) - Cardinality(batch \cap folded)
    BY <2>1, FS_Union
  <2> HIDE DEF folded
  <2> QED
    BY <2>1, <2>2, <2>3
<1>8. Cardinality(folded) = IF previous = None THEN 0 ELSE previous.covered
  BY FS_EmptySet DEF SoundRow
<1>9. /\ row.version = 1 /\ row.folded = batch \cup folded /\ row.until = Max(batch)
      /\ row.covered = Cardinality(batch) + Cardinality(folded) /\ row.current = TRUE
  BY <1>8 DEF SummaryOf
<1>10. row \in SummaryRow
  <2>1. Cardinality(batch) \in Nat /\ Cardinality(folded) \in Nat
    BY <1>1, <1>2, MessagesAreFinite
  <2>2. Cardinality(batch) + (IF previous = None THEN 0 ELSE previous.covered) \in Nat
    BY <1>8, <2>1
  <2>3. batch \cup folded \in SUBSET Message /\ Max(batch) \in Message
    BY <1>1, <1>2, <1>4
  <2> QED
    BY <2>2, <2>3 DEF SummaryOf, SummaryRow
<1> HIDE DEF row, folded
<1>11. SoundRow(row) /\ row.current
  BY <1>1, <1>2, <1>5, <1>7, <1>9, <1>10 DEF SoundRow
<1> QED
  BY <1>4, <1>11 DEF row

-----------------------------------------------------------------------------
(* The invariant, for the kinds of step there are. *)

\* Messages and summaries are never deleted, so what is sound stays sound.
LEMMA SoundStays ==
    ASSUME IInv, messages \subseteq messages', DOMAIN summaries \subseteq DOMAIN summaries',
           Len(summaries) \in Nat, Len(summaries') \in Nat, Len(summaries) <= Len(summaries')
    PROVE  /\ \A row : SoundRow(row) => SoundRow(row)'
           /\ \A q : SoundRequest(q) => SoundRequest(q)'
<1>1. \A row : SoundRow(row) => SoundRow(row)'
  BY DEF SoundRow
<1>2. \A summary : After(summary) \subseteq After(summary)'
  BY DEF After
<1> QED
  BY <1>1, <1>2 DEF SoundRequest

LEMMA StepPreserves ==
    ASSUME IInv, NEW r \in Request, NEW q \in RequestState, Suspend(r, q), SoundRequest(q)',
           messages \subseteq messages', messages' \subseteq Message,
           summaries' \in Seq(SummaryRow), Len(summaries) <= Len(summaries'),
           VersionsAreConsecutive', SomeSummaryIsCurrent',
           \A i \in DOMAIN summaries' : SoundRow(summaries[i])'
    PROVE  IInv'
<1>1. TypeOK'
  BY DEF IInv, TypeOK, Suspend
<1>2. \A i \in DOMAIN summaries : i \in DOMAIN summaries'
  BY LenProperties DEF IInv, TypeOK
<1>3. \A t \in Request : SoundRequest(reqs[t])'
  <2> SUFFICES ASSUME NEW t \in Request PROVE SoundRequest(reqs[t])'
    OBVIOUS
  <2>1. CASE t = r
    BY <2>1 DEF Suspend, IInv, TypeOK, SoundRequest
  <2>2. CASE t # r
    <3>1. reqs'[t] = reqs[t] /\ SoundRequest(reqs[t])
      BY <2>2 DEF Suspend, IInv, TypeOK
    <3>2. \A p : SoundRequest(p) => SoundRequest(p)'
      BY <1>2, SoundStays, LenProperties DEF IInv, TypeOK
    <3> QED
      BY <3>1, <3>2 DEF SoundRequest
  <2> QED
    BY <2>1, <2>2
<1> QED
  BY <1>1, <1>3 DEF IInv

\* A step that only moves one request to a sound state.
LEMMA ReadPreserves ==
    ASSUME IInv, NEW r \in Request, NEW q \in RequestState, Suspend(r, q), SoundRequest(q),
           UNCHANGED <<messages, summaries>>
    PROVE  IInv'
<1>1. SoundRequest(q)'
  BY DEF SoundRequest, SoundRow, After
<1>2. VersionsAreConsecutive' /\ SomeSummaryIsCurrent'
  BY DEF IInv, VersionsAreConsecutive, SomeSummaryIsCurrent, Current
<1>3. \A i \in DOMAIN summaries' : SoundRow(summaries[i])'
  BY DEF IInv, SoundRow
<1> QED
  BY <1>1, <1>2, <1>3, StepPreserves, LenProperties DEF IInv, TypeOK

\* Where a compaction leaves the request it served.
LEMMA CompactedState ==
    ASSUME NEW p, p.turn \in BOOLEAN, p.turn => p.own \in Message, NEW degraded \in BOOLEAN
    PROVE  LET q == IF p.turn THEN [pc |-> "prepare", own |-> p.own, degraded |-> degraded] ELSE Idle
           IN  q \in RequestState /\ q.pc \in {"prepare", "idle"}
<1>1. Idle \in RequestState /\ Idle.pc = "idle"
  BY DEF RequestState, Idle
<1>2. p.turn => [pc |-> "prepare", own |-> p.own, degraded |-> degraded] \in RequestState
  BY DEF RequestState
<1> QED
  BY <1>1, <1>2

LEMMA CompactedPreserves ==
    ASSUME IInv, NEW r \in Request, reqs[r].pc \in Compacting, NEW degraded \in BOOLEAN,
           Compacted(r, reqs[r], degraded), UNCHANGED <<messages, summaries>>
    PROVE  IInv'
<1>1. reqs[r].turn \in BOOLEAN /\ (reqs[r].turn => reqs[r].own \in Message)
  BY RequestShape DEF IInv, TypeOK, SoundRequest
<1>2. PICK q : q = IF reqs[r].turn
                   THEN [pc |-> "prepare", own |-> reqs[r].own, degraded |-> degraded]
                   ELSE Idle
  OBVIOUS
<1>3. q \in RequestState /\ q.pc \in {"prepare", "idle"}
  BY <1>1, <1>2, CompactedState
<1>4. SoundRequest(q)
  BY <1>3 DEF SoundRequest, Compacting
<1> QED
  BY <1>2, <1>3, <1>4, ReadPreserves DEF Compacted

-----------------------------------------------------------------------------
(* The invariant, action by action. *)

LEMMA InitInvariant == Init => IInv
<1> SUFFICES ASSUME Init PROVE IInv
  OBVIOUS
<1>1. TypeOK
  BY DEF Init, TypeOK, RequestState
<1>2. VersionsAreConsecutive /\ SomeSummaryIsCurrent /\ \A i \in DOMAIN summaries : SoundRow(summaries[i])
  BY DEF Init, VersionsAreConsecutive, SomeSummaryIsCurrent
<1>3. \A r \in Request : SoundRequest(reqs[r])
  BY DEF Init, SoundRequest, Idle, Compacting
<1> QED
  BY <1>1, <1>2, <1>3 DEF IInv

\* The stamp of a new message is a message, later than every stamp in use.
LEMMA InsertStamps ==
    ASSUME IInv, NEW r \in Request, NEW role \in {"user", "assistant"}, Insert(r, role)
    PROVE  \E stamp \in Message :
              /\ Suspend(r, [pc |-> "insert", stamp |-> stamp, role |-> role])
              /\ \A m \in Stamps : m < stamp
<1> DEFINE b == (IF waits THEN MaxMessage ELSE MaxOverlapping) - 1
           last == Max({0} \cup Stamps)
<1>1. b \in Nat /\ b + 1 <= MaxMessage
  BY MemoryAssumption DEF MemoryAssumption
<1>2. Stamps \subseteq 1..b /\ Suspend(r, [pc |-> "insert", stamp |-> 1 + last, role |-> role])
  BY DEF Insert
<1> HIDE DEF b
<1>3. Stamps \in SUBSET Nat /\ \A n \in Stamps : n <= b
  BY <1>1, <1>2
<1>4. last \in 0..b /\ \A n \in Stamps : n <= last
  BY <1>1, <1>3, MaxWithZero
<1> HIDE DEF last
<1>5. 1 + last \in Message
  BY <1>1, <1>4, MemoryAssumption DEF Message, MemoryAssumption
<1>6. \A m \in Stamps : m < 1 + last
  BY <1>3, <1>4
<1> QED
  BY <1>2, <1>5, <1>6

LEMMA IdleIsSound == Idle \in RequestState /\ SoundRequest(Idle)
  BY DEF RequestState, SoundRequest, Idle, Compacting

LEMMA InsertPreserves ==
    ASSUME IInv, NEW r \in Request, NEW role \in {"user", "assistant"}, Insert(r, role),
           UNCHANGED <<messages, summaries>>
    PROVE  IInv'
<1>1. PICK stamp \in Message : Suspend(r, [pc |-> "insert", stamp |-> stamp, role |-> role])
  BY InsertStamps
<1> DEFINE q == [pc |-> "insert", stamp |-> stamp, role |-> role]
<1>2. q \in RequestState
  BY DEF RequestState
<1>3. SoundRequest(q)
  BY DEF SoundRequest, Compacting
<1> QED
  BY <1>1, <1>2, <1>3, ReadPreserves

LEMMA CommitMessagePreserves ==
    ASSUME IInv, NEW r \in Request, CommitMessage(r)
    PROVE  IInv'
<1>1. reqs[r] \in RequestState /\ reqs[r].pc = "insert" /\ reqs[r].stamp \in Message
  BY RequestShape DEF IInv, TypeOK, CommitMessage, Resumes
<1>2. PICK q : q = IF reqs[r].role = "user"
                   THEN [pc |-> "current", force |-> FALSE, turn |-> TRUE, own |-> reqs[r].stamp]
                   ELSE Idle
  OBVIOUS
<1>3. q \in RequestState
  BY <1>1, <1>2, IdleIsSound DEF RequestState
<1>4. SoundRequest(q)'
  BY <1>1, <1>2, IdleIsSound DEF SoundRequest, Compacting, Idle
<1>5. Suspend(r, q) /\ messages' = messages \cup {reqs[r].stamp} /\ summaries' = summaries
  BY <1>2 DEF CommitMessage
<1>6. VersionsAreConsecutive' /\ SomeSummaryIsCurrent'
  BY <1>5 DEF IInv, VersionsAreConsecutive, SomeSummaryIsCurrent, Current
<1>7. \A i \in DOMAIN summaries' : SoundRow(summaries[i])'
  BY <1>5 DEF IInv, SoundRow
<1> QED
  BY <1>1, <1>3, <1>4, <1>5, <1>6, <1>7, StepPreserves, LenProperties DEF IInv, TypeOK

\* Any current summary is a stored one.
LEMMA CurrentRowsType ==
    ASSUME IInv, NEW summary \in CurrentRows
    PROVE  summary \in SummaryRow \cup {None} /\ (summary # None => SoundRow(summary))
<1>1. CASE Current = {}
  BY <1>1 DEF CurrentRows
<1>2. CASE Current # {}
  <2>1. PICK i \in DOMAIN summaries : summary = summaries[i]
    BY <1>2 DEF CurrentRows, Current
  <2> QED
    BY <2>1 DEF IInv, SoundRow
<1> QED
  BY <1>1, <1>2

LEMMA PreparePreserves ==
    ASSUME IInv, NEW r \in Request, PrepareSummary(r) \/ PrepareMessages(r)
    PROVE  IInv'
<1> DEFINE p == reqs[r]
<1>1. CASE PrepareSummary(r)
  <2>1. p \in RequestState /\ p.own \in Message /\ p.degraded \in BOOLEAN
    BY <1>1, RequestShape DEF IInv, TypeOK, PrepareSummary, Resumes
  <2>2. PICK summary \in CurrentRows :
          Suspend(r, [pc |-> "list", own |-> p.own, degraded |-> p.degraded, summary |-> summary])
    BY <1>1 DEF PrepareSummary
  <2> DEFINE q == [pc |-> "list", own |-> p.own, degraded |-> p.degraded, summary |-> summary]
  <2>3. q \in RequestState
    BY <2>1, CurrentRowsType DEF RequestState
  <2>4. SoundRequest(q)
    BY CurrentRowsType DEF SoundRequest, Compacting
  <2> QED
    BY <1>1, <2>2, <2>3, <2>4, ReadPreserves DEF PrepareSummary
<1>2. CASE PrepareMessages(r)
  <2> DEFINE window == Newest(After(p.summary), RecentLimit)
             folded == IF p.summary = None THEN {} ELSE p.summary.folded
             q == [pc |-> "stream", own |-> p.own, degraded |-> p.degraded,
                   window |-> window, folded |-> folded]
  <2>1. /\ p \in RequestState /\ p.own \in Message /\ p.degraded \in BOOLEAN
        /\ p.summary \in SummaryRow \cup {None}
    BY <1>2, RequestShape DEF IInv, TypeOK, PrepareMessages, Resumes
  <2>2. window \in SUBSET Message
    BY AfterType DEF Newest
  <2>3. folded \in SUBSET Message
    BY <2>1, RowShape
  <2>4. Suspend(r, q) /\ UNCHANGED <<messages, summaries>>
    BY <1>2 DEF PrepareMessages
  <2> HIDE DEF window, folded
  <2>5. q \in RequestState
    BY <2>1, <2>2, <2>3 DEF RequestState
  <2>6. SoundRequest(q)
    BY DEF SoundRequest, Compacting
  <2> QED
    BY <2>4, <2>5, <2>6, ReadPreserves
<1> QED
  BY <1>1, <1>2

LEMMA ChatPreserves ==
    ASSUME IInv, NEW r \in Request, Chat(r)
    PROVE  IInv'
<1>1. CASE Post(r) \/ Answer(r)
  BY <1>1, InsertPreserves DEF Post, Answer
<1>2. CASE GiveUp(r)
  BY <1>2, IdleIsSound, ReadPreserves DEF GiveUp
<1> QED
  BY <1>1, <1>2, CommitMessagePreserves, PreparePreserves DEF Chat

LEMMA ReadCurrentPreserves ==
    ASSUME IInv, NEW r \in Request, NEW force \in BOOLEAN, Compact(r, force) \/ ReadCurrent(r)
    PROVE  IInv'
<1> DEFINE p == reqs[r]
<1>1. CASE Compact(r, force)
  <2> DEFINE q == [pc |-> "current", force |-> force, turn |-> FALSE, own |-> None]
  <2>1. q \in RequestState
    BY DEF RequestState
  <2>2. SoundRequest(q)
    BY DEF SoundRequest, Compacting
  <2> QED
    BY <1>1, <2>1, <2>2, ReadPreserves DEF Compact
<1>2. CASE ReadCurrent(r)
  <2>1. /\ p \in RequestState /\ SoundRequest(p) /\ p.pc = "current"
        /\ p.force \in BOOLEAN /\ p.turn \in BOOLEAN /\ p.own \in Message \cup {None}
    BY <1>2, RequestShape DEF IInv, TypeOK, ReadCurrent, Resumes, Compacting
  <2>2. PICK summary \in CurrentRows :
          Suspend(r, [pc |-> "pending", force |-> p.force, turn |-> p.turn, own |-> p.own,
                      summary |-> summary])
    BY <1>2 DEF ReadCurrent
  <2> DEFINE q == [pc |-> "pending", force |-> p.force, turn |-> p.turn, own |-> p.own,
                   summary |-> summary]
  <2>3. q \in RequestState
    BY <2>1, CurrentRowsType DEF RequestState
  <2>4. SoundRequest(q)
    BY <2>1, CurrentRowsType DEF SoundRequest, Compacting
  <2> QED
    BY <1>2, <2>2, <2>3, <2>4, ReadPreserves DEF ReadCurrent
<1> QED
  BY <1>1, <1>2

LEMMA ReadPendingPreserves ==
    ASSUME IInv, NEW r \in Request, ReadPending(r)
    PROVE  IInv'
<1> DEFINE p == reqs[r]
           pending == After(p.summary)
           batch == Oldest(pending, CompactCount(Cardinality(pending), p.force))
<1>1. /\ p \in RequestState /\ SoundRequest(p) /\ p.pc = "pending" /\ p.pc \in Compacting
      /\ p.turn \in BOOLEAN /\ p.own \in Message \cup {None}
      /\ p.summary \in SummaryRow \cup {None}
  BY RequestShape DEF IInv, TypeOK, ReadPending, Resumes, Compacting
<1>2. /\ batch \subseteq pending
      /\ UNCHANGED <<messages, summaries>>
      /\ IF batch = {}
         THEN Compacted(r, p, Cardinality(pending) > Threshold)
         ELSE Suspend(r, [pc |-> "summarize", turn |-> p.turn, own |-> p.own,
                          summary |-> p.summary, batch |-> batch])
  BY DEF ReadPending, Oldest
<1>3. (Cardinality(pending) > Threshold) \in BOOLEAN
  <2>1. Cardinality(pending) \in Nat /\ Threshold \in Nat
    BY AfterType, MessagesAreFinite, MemoryAssumption DEF MemoryAssumption
  <2> HIDE DEF pending
  <2> QED
    BY <2>1
<1> HIDE DEF batch
<1>4. CASE batch = {}
  BY <1>1, <1>2, <1>3, <1>4, CompactedPreserves
<1>5. CASE batch # {}
  <2> DEFINE q == [pc |-> "summarize", turn |-> p.turn, own |-> p.own,
                   summary |-> p.summary, batch |-> batch]
  <2>1. batch \in SUBSET Message
    BY <1>2, AfterType
  <2>2. q \in RequestState
    BY <1>1, <2>1 DEF RequestState
  <2>3. SoundRequest(q)
    BY <1>1, <1>2, <1>5 DEF SoundRequest
  <2> QED
    BY <1>2, <1>5, <2>2, <2>3, ReadPreserves
<1> QED
  BY <1>4, <1>5

LEMMA SummarizedPreserves ==
    ASSUME IInv, NEW r \in Request, Summarized(r)
    PROVE  IInv'
<1> DEFINE p == reqs[r]
           row == SummaryOf(p.summary, p.batch)
           q == [pc |-> "replace", turn |-> p.turn, own |-> p.own, row |-> row]
<1>1. /\ p \in RequestState /\ SoundRequest(p) /\ p.pc = "summarize"
      /\ p.turn \in BOOLEAN /\ p.own \in Message \cup {None}
  BY RequestShape DEF IInv, TypeOK, Summarized, Resumes, Compacting
<1>2. SoundRow(row) /\ row.current
  BY <1>1, SummaryOfSound DEF SoundRequest
<1>3. Suspend(r, q) /\ UNCHANGED <<messages, summaries>>
  BY DEF Summarized
<1> HIDE DEF row
<1>4. q \in RequestState
  BY <1>1, <1>2 DEF RequestState, SoundRow
<1>5. SoundRequest(q)
  BY <1>1, <1>2 DEF SoundRequest, Compacting
<1> QED
  BY <1>3, <1>4, <1>5, ReadPreserves

-----------------------------------------------------------------------------
(* The insertion of a summary. *)

\* The next version counts the summaries.
LEMMA NextVersionCounts ==
    ASSUME IInv
    PROVE  /\ NextVersion = Len(summaries) + 1
           /\ Len(summaries) \in Nat /\ DOMAIN summaries = 1..Len(summaries)
           /\ \A v \in 1..Len(summaries) : VersionExists(v)
<1>1. Len(summaries) \in Nat /\ DOMAIN summaries = 1..Len(summaries)
  BY LenProperties DEF IInv, TypeOK
<1> DEFINE S == {summaries[i].version : i \in DOMAIN summaries}
<1>2. S = 1..Len(summaries)
  BY <1>1 DEF IInv, VersionsAreConsecutive
<1> HIDE DEF S
<1>3. S \in SUBSET Nat /\ \A n \in S : n <= Len(summaries)
  BY <1>1, <1>2
<1>4. /\ Max({0} \cup S) \in 0..Len(summaries)
      /\ \A n \in S : n <= Max({0} \cup S)
  BY <1>1, <1>3, MaxWithZero
<1> DEFINE last == Max({0} \cup S)
<1> HIDE DEF last
<1>5. last \in 0..Len(summaries) /\ \A n \in S : n <= last
  BY <1>4 DEF last
<1>6. last = Len(summaries)
  <2>1. CASE Len(summaries) = 0
    BY <1>5, <2>1
  <2>2. CASE Len(summaries) # 0
    <3>1. Len(summaries) \in S
      BY <1>1, <1>2, <2>2
    <3>2. Len(summaries) <= last
      BY <1>5, <3>1
    <3>3. last \in Nat /\ last <= Len(summaries) /\ Len(summaries) \in Nat
      BY <1>1, <1>5
    <3> QED
      BY <3>2, <3>3
  <2> QED
    BY <2>1, <2>2
<1>7. \A v \in 1..Len(summaries) : VersionExists(v)
  BY <1>1 DEF IInv, VersionsAreConsecutive, VersionExists
<1>8. NextVersion = 1 + last
  BY DEF NextVersion, last, S
<1> QED
  BY <1>1, <1>6, <1>7, <1>8

LEMMA ReplacePreserves ==
    ASSUME IInv, NEW r \in Request, ReadNoCurrent(r) \/ ReadOldCurrent(r)
    PROVE  IInv'
<1> DEFINE p == reqs[r]
<1>1. /\ p \in RequestState /\ SoundRequest(p) /\ p.pc = "replace"
      /\ p.turn \in BOOLEAN /\ p.own \in Message \cup {None} /\ p.row \in SummaryRow
  BY RequestShape DEF IInv, TypeOK, ReadNoCurrent, ReadOldCurrent, Resumes, Compacting
<1>2. SoundRow(p.row) /\ p.row.current /\ (p.turn => p.own \in Message)
  BY <1>1 DEF SoundRequest, Compacting
<1>3. CASE ReadNoCurrent(r)
  <2> DEFINE row == [p.row EXCEPT !.version = NextVersion]
             q == [pc |-> "commit", turn |-> p.turn, own |-> p.own, row |-> row, old |-> 0]
  <2>1. NextVersion \in 1..(Len(summaries) + 1) /\ NextVersion \in Nat \ {0}
    BY NextVersionCounts
  <2>2. /\ row \in SummaryRow /\ row.version = NextVersion /\ row.folded = p.row.folded
        /\ row.until = p.row.until /\ row.covered = p.row.covered /\ row.current = p.row.current
    BY <1>1, <2>1, RowShape
  <2>3. Suspend(r, q) /\ UNCHANGED <<messages, summaries>>
    BY <1>3 DEF ReadNoCurrent
  <2> HIDE DEF row
  <2>4. q \in RequestState
    BY <1>1, <2>2 DEF RequestState
  <2>5. SoundRow(row)
    BY <1>2, <2>2 DEF SoundRow
  <2>6. SoundRequest(q)
    BY <1>2, <2>1, <2>2, <2>5 DEF SoundRequest
  <2> QED
    BY <2>3, <2>4, <2>6, ReadPreserves
<1>4. CASE ReadOldCurrent(r)
  <2>1. PICK i \in Current : Suspend(r, [pc |-> "commit", turn |-> p.turn, own |-> p.own,
                                          row |-> p.row, old |-> i])
    BY <1>4 DEF ReadOldCurrent
  <2> DEFINE q == [pc |-> "commit", turn |-> p.turn, own |-> p.own, row |-> p.row, old |-> i]
  <2>2. i \in DOMAIN summaries /\ i \in Nat /\ i # 0
    BY NextVersionCounts DEF Current
  <2>3. q \in RequestState
    BY <1>1, <2>2 DEF RequestState
  <2>4. SoundRequest(q)
    BY <1>2, <2>2 DEF SoundRequest
  <2> QED
    BY <1>4, <2>1, <2>3, <2>4, ReadPreserves DEF ReadOldCurrent
<1> QED
  BY <1>3, <1>4

\* A retired row is the same but for its mark.
LEMMA RetiredRows ==
    ASSUME IInv, NEW k \in DOMAIN summaries
    PROVE  /\ Retired(k) \in Seq(SummaryRow) /\ Len(Retired(k)) = Len(summaries)
           /\ DOMAIN Retired(k) = DOMAIN summaries
           /\ \A i \in DOMAIN summaries :
                 /\ Retired(k)[i].version = summaries[i].version
                 /\ Retired(k)[i].folded = summaries[i].folded
                 /\ Retired(k)[i].until = summaries[i].until
                 /\ Retired(k)[i].covered = summaries[i].covered
                 /\ Retired(k)[i].current = (i # k /\ summaries[i].current)
<1> DEFINE row == [summaries[k] EXCEPT !.current = FALSE]
<1>1. /\ summaries \in Seq(SummaryRow) /\ k \in 1..Len(summaries)
      /\ DOMAIN summaries = 1..Len(summaries)
      /\ \A i \in DOMAIN summaries : summaries[i] \in SummaryRow
  BY LenProperties DEF IInv, TypeOK
<1>2. /\ row \in SummaryRow /\ row.version = summaries[k].version
      /\ row.folded = summaries[k].folded /\ row.until = summaries[k].until
      /\ row.covered = summaries[k].covered /\ row.current = FALSE
  BY <1>1, RowShape
<1>3. Retired(k) = [summaries EXCEPT ![k] = row]
  BY DEF Retired
<1> HIDE DEF row
<1>4. /\ Retired(k) \in Seq(SummaryRow) /\ Len(Retired(k)) = Len(summaries)
      /\ DOMAIN Retired(k) = DOMAIN summaries
      /\ \A i \in DOMAIN summaries : Retired(k)[i] = IF i = k THEN row ELSE summaries[i]
  BY <1>1, <1>2, <1>3, ExceptSeq
<1>5. \A i \in DOMAIN summaries : summaries[i].current \in BOOLEAN
  BY <1>1, RowShape
<1>6. ASSUME NEW i \in DOMAIN summaries
      PROVE  Retired(k)[i].current = (i # k /\ summaries[i].current)
  <2>1. CASE i = k
    BY <1>2, <1>4, <2>1
  <2>2. CASE i # k
    BY <1>4, <1>5, <2>2
  <2> QED
    BY <2>1, <2>2
<1> QED
  BY <1>2, <1>4, <1>6

\* Appending a sound current row at the next version, whatever row it retires.
LEMMA InsertSummary ==
    ASSUME IInv, NEW rows \in Seq(SummaryRow), Len(rows) = Len(summaries),
           \A i \in DOMAIN summaries :
              /\ rows[i].version = summaries[i].version
              /\ rows[i].folded = summaries[i].folded
              /\ rows[i].until = summaries[i].until
              /\ rows[i].covered = summaries[i].covered,
           NEW row, SoundRow(row), row.current, row.version = Len(summaries) + 1,
           summaries' = Append(rows, row), messages' = messages
    PROVE  /\ summaries' \in Seq(SummaryRow) /\ Len(summaries') = Len(summaries) + 1
           /\ VersionsAreConsecutive' /\ SomeSummaryIsCurrent'
           /\ \A i \in DOMAIN summaries' : SoundRow(summaries[i])'
<1> DEFINE n == Len(summaries)
<1>1. n \in Nat /\ DOMAIN summaries = 1..n /\ row \in SummaryRow
  BY NextVersionCounts DEF SoundRow
<1>2. /\ summaries' \in Seq(SummaryRow) /\ Len(summaries') = n + 1 /\ DOMAIN summaries' = 1..(n + 1)
      /\ \A i \in 1..n : summaries'[i] = rows[i] /\ rows[i] \in SummaryRow
      /\ summaries'[n + 1] = row
  BY <1>1, AppendProperties, LenProperties
<1> HIDE DEF n
<1>3. \A i \in 1..(n + 1) : i \in 1..n \/ i = n + 1
  BY <1>1
<1>4. VersionsAreConsecutive'
  BY <1>1, <1>2, <1>3 DEF n, IInv, VersionsAreConsecutive
<1>5. SomeSummaryIsCurrent'
  <2>1. n + 1 \in 1..(n + 1)
    BY <1>1
  <2> QED
    BY <1>2, <2>1 DEF SomeSummaryIsCurrent, Current
<1>6. \A i \in DOMAIN summaries' : SoundRow(summaries[i])'
  BY <1>1, <1>2, <1>3 DEF IInv, SoundRow
<1> QED
  BY <1>2, <1>4, <1>5, <1>6 DEF n

LEMMA CommitSummaryPreserves ==
    ASSUME IInv, NEW r \in Request, CommitSummary(r)
    PROVE  IInv'
<1> DEFINE p == reqs[r]
<1>1. /\ p \in RequestState /\ SoundRequest(p) /\ p.pc = "commit" /\ p.pc \in Compacting
      /\ p.turn \in BOOLEAN /\ p.own \in Message \cup {None} /\ p.row \in SummaryRow
  BY RequestShape DEF IInv, TypeOK, CommitSummary, Resumes, Compacting
<1>2. SoundRow(p.row) /\ p.row.current /\ (p.turn => p.own \in Message)
  BY <1>1 DEF SoundRequest, Compacting
<1>3. (summaries' = summaries) \in BOOLEAN /\ messages' = messages
      /\ Compacted(r, p, summaries' = summaries)
  BY DEF CommitSummary
<1>4. ASSUME NEW rows \in Seq(SummaryRow), Len(rows) = Len(summaries),
             \A i \in DOMAIN summaries :
                /\ rows[i].version = summaries[i].version
                /\ rows[i].folded = summaries[i].folded
                /\ rows[i].until = summaries[i].until
                /\ rows[i].covered = summaries[i].covered,
             NEW row, SoundRow(row), row.current, row.version = Len(summaries) + 1,
             summaries' = Append(rows, row)
      PROVE  IInv'
  <2>0. PICK degraded \in BOOLEAN : degraded = (summaries' = summaries)
    BY <1>3
  <2>1. PICK q : q = IF p.turn THEN [pc |-> "prepare", own |-> p.own, degraded |-> degraded]
                               ELSE Idle
    OBVIOUS
  <2>2. q \in RequestState /\ q.pc \in {"prepare", "idle"} /\ Suspend(r, q)
    <3>1. Suspend(r, q)
      BY <1>3, <2>0, <2>1, Zenon DEF Compacted
    <3> QED
      BY <1>1, <1>2, <2>1, <3>1, CompactedState
  <2>3. SoundRequest(q)'
    BY <2>2 DEF SoundRequest, Compacting
  <2>4. /\ summaries' \in Seq(SummaryRow) /\ Len(summaries') = Len(summaries) + 1
        /\ VersionsAreConsecutive' /\ SomeSummaryIsCurrent'
        /\ \A i \in DOMAIN summaries' : SoundRow(summaries[i])'
    BY <1>3, <1>4, InsertSummary
  <2>5. Len(summaries) <= Len(summaries') /\ messages \subseteq messages' /\ messages' \subseteq Message
    BY <1>3, <2>4, NextVersionCounts DEF IInv, TypeOK
  <2> QED
    BY <2>2, <2>3, <2>4, <2>5, StepPreserves
<1>5. CASE p.old # 0
  <2> DEFINE row == [p.row EXCEPT !.version = NextVersion]
  <2>1. p.old \in DOMAIN summaries
    BY <1>1, <1>5 DEF SoundRequest
  <2>2. NextVersion = Len(summaries) + 1
    BY NextVersionCounts
  <2>3. NextVersion \in Nat \ {0}
    BY NextVersionCounts
  <2>4. /\ row \in SummaryRow /\ row.version = NextVersion /\ row.folded = p.row.folded
        /\ row.until = p.row.until /\ row.covered = p.row.covered /\ row.current = p.row.current
    BY <1>1, <2>3, RowShape
  <2>5. summaries' = Append(Retired(p.old), row)
    BY <1>5 DEF CommitSummary
  <2> HIDE DEF row
  <2>6. SoundRow(row)
    BY <1>2, <2>4 DEF SoundRow
  <2> QED
    BY <1>2, <1>4, <2>1, <2>2, <2>4, <2>5, <2>6, RetiredRows
<1>6. CASE p.old = 0 /\ VersionExists(p.row.version)
  <2>1. summaries' = summaries
    BY <1>6 DEF CommitSummary
  <2> QED
    BY <1>1, <1>3, <2>1, CompactedPreserves
<1>7. CASE p.old = 0 /\ ~VersionExists(p.row.version)
  <2>1. p.row.version \in 1..(Len(summaries) + 1)
    BY <1>1, <1>7 DEF SoundRequest
  <2>2. p.row.version = Len(summaries) + 1
    BY <1>7, <2>1, NextVersionCounts
  <2>3. summaries' = Append(summaries, p.row)
    BY <1>7 DEF CommitSummary
  <2> QED
    BY <1>2, <1>4, <2>2, <2>3 DEF IInv, TypeOK
<1> QED
  BY <1>5, <1>6, <1>7

LEMMA RestartPreserves ==
    ASSUME IInv, Restart
    PROVE  IInv'
<1>1. TypeOK'
  BY IdleIsSound DEF Restart, IInv, TypeOK
<1>2. VersionsAreConsecutive' /\ SomeSummaryIsCurrent'
  BY DEF Restart, IInv, VersionsAreConsecutive, SomeSummaryIsCurrent, Current
<1>3. \A i \in DOMAIN summaries' : SoundRow(summaries[i])'
  BY DEF Restart, IInv, SoundRow
<1>4. \A r \in Request : SoundRequest(reqs[r])'
  BY DEF Restart, SoundRequest, Idle, Compacting
<1> QED
  BY <1>1, <1>2, <1>3, <1>4 DEF IInv

LEMMA NextPreserves == IInv /\ [Next]_vars => IInv'
<1> SUFFICES ASSUME IInv, [Next]_vars PROVE IInv'
  OBVIOUS
<1>1. ASSUME NEW r \in Request, Compaction(r) PROVE IInv'
  <2>1. CASE SummaryFails(r)
    BY <2>1, CompactedPreserves DEF SummaryFails, Compacting
  <2> QED
    BY <1>1, <2>1, ReadCurrentPreserves, ReadPendingPreserves, SummarizedPreserves,
       ReplacePreserves, CommitSummaryPreserves DEF Compaction
<1>2. CASE UNCHANGED vars
  BY <1>2 DEF vars, IInv, TypeOK, VersionsAreConsecutive, SomeSummaryIsCurrent, Current,
              SoundRow, SoundRequest, After
<1> QED
  BY <1>1, <1>2, ChatPreserves, RestartPreserves DEF Next

LEMMA Invariance == Spec => []IInv
  BY InitInvariant, NextPreserves, PTL DEF Spec

-----------------------------------------------------------------------------
(* The theorems that hold whatever requests overlap. *)

\* The tables and every suspended request hold values of their types.
THEOREM TypeCorrect == Spec => []TypeOK
<1>1. IInv => TypeOK
  BY DEF IInv
<1> QED
  BY <1>1, Invariance, PTL

\* Versions count the summaries in the order they were committed, although the
\* version is read before the row is inserted (repository.create_summary).
THEOREM VersionsCount == Spec => []VersionsAreConsecutive
<1>1. IInv => VersionsAreConsecutive
  BY DEF IInv
<1> QED
  BY <1>1, Invariance, PTL

\* Every summary was folded from committed messages up to its boundary and
\* counts each once, however many compactions it was built by (service.compact).
THEOREM SummariesAreCounted == Spec => []SummariesCountTheirMessages
<1>1. IInv => SummariesCountTheirMessages
  BY DEF IInv, SoundRow, SummariesCountTheirMessages
<1> QED
  BY <1>1, Invariance, PTL

\* A compaction replaces the current summary and never just removes it, whatever
\* else commits in between and wherever the process restarts.
THEOREM SummaryStaysCurrent == Spec => []SomeSummaryIsCurrent
<1>1. IInv => SomeSummaryIsCurrent
  BY DEF IInv
<1> QED
  BY <1>1, Invariance, PTL

-----------------------------------------------------------------------------
(* What clients that wait for each other may rely on.  One request at most *)
(* is in flight, so what it read is still so: WInv says what that is.      *)

\* The messages after a summary, and all others folded into it.
Later(row) == {m \in messages : m > row.until}
Complete(row) == messages = row.folded \cup Later(row)

\* The message of a chat turn is the newest one, and folded into no summary.
IsNewest(own) ==
    /\ own \in messages
    /\ \A m \in messages : m <= own
    /\ \A i \in Current : summaries[i].until < own

\* What a compaction may leave between the summary and the newest message.
Fits(S) == Cardinality(S) <= Threshold \/ Cardinality(S) <= RecentLimit

Turns(q) == q.pc \in {"prepare", "list", "stream"} \/ (q.pc \in Compacting /\ q.turn)

FollowedRequest(q) ==
    /\ q.pc = "insert" => \A m \in messages : m < q.stamp
    /\ Turns(q) => IsNewest(q.own)
    /\ q.pc \in {"current", "pending"} /\ q.turn => ~q.force
    /\ q.pc \in {"pending", "summarize", "list"} => q.summary \in CurrentRows
    /\ q.pc = "summarize" =>
          /\ \A m \in After(q.summary) \ q.batch, n \in q.batch : n < m
          /\ q.turn => q.own \notin q.batch /\ Fits(After(q.summary) \ q.batch)
    /\ q.pc \in {"replace", "commit"} =>
          /\ Complete(q.row)
          /\ q.turn => q.row.until < q.own /\ Fits(Later(q.row))
          /\ \A i \in Current : /\ summaries[i].folded \subseteq q.row.folded
                                /\ summaries[i].until < q.row.until
    /\ q.pc = "commit" /\ q.old = 0 => Current = {} /\ q.row.version = Len(summaries) + 1
    /\ q.pc = "commit" /\ q.old # 0 => q.old \in Current
    /\ q.pc \in {"prepare", "list", "stream"} /\ ~q.degraded =>
          \A summary \in CurrentRows : Fits(After(summary))
    /\ q.pc = "stream" =>
          \E summary \in CurrentRows :
             /\ q.window = Newest(After(summary), RecentLimit)
             /\ q.folded = IF summary = None THEN {} ELSE summary.folded

WInv ==
    waits =>
        /\ \A r, o \in Request : reqs[r] # Idle /\ reqs[o] # Idle => r = o
        /\ \A i, j \in Current : i = j
        /\ \A i \in Current : Complete(summaries[i])
        /\ \A r \in Request : FollowedRequest(reqs[r])

-----------------------------------------------------------------------------
(* Counting the newest and the oldest of a set of messages. *)

\* A set whose members have distinct ranks in an interval is no larger than it.
LEMMA RankedSet ==
    ASSUME NEW T, NEW a \in Int, NEW b \in Int, NEW rank,
           \A m \in T : rank[m] \in a..b,
           \A m, n \in T : rank[m] = rank[n] => m = n
    PROVE  IsFiniteSet(T) /\ Cardinality(T) <= (IF a > b THEN 0 ELSE b - a + 1)
<1> DEFINE f == [m \in T |-> rank[m]]
<1>1. f \in [T -> a..b]
  OBVIOUS
<1>2. \A m, n \in T : f[m] = f[n] => m = n
  OBVIOUS
<1> HIDE DEF f
<1>3. f \in Injection(T, a..b)
  BY <1>1, <1>2 DEF Injection, IsInjective
<1>4. IsFiniteSet(a..b) /\ Cardinality(a..b) = IF a > b THEN 0 ELSE b - a + 1
  BY FS_Interval
<1> QED
  BY <1>3, <1>4, FS_Injection

\* Members with more members above them (below them) are smaller (greater).
LEMMA RanksDiffer ==
    ASSUME NEW S \in SUBSET Message
    PROVE  /\ \A m \in S : /\ Cardinality({k \in S : k > m}) \in 0..(Cardinality(S) - 1)
                           /\ Cardinality({k \in S : k < m}) \in 0..(Cardinality(S) - 1)
           /\ \A m, n \in S : m < n =>
                 /\ Cardinality({k \in S : k > n}) < Cardinality({k \in S : k > m})
                 /\ Cardinality({k \in S : k < m}) < Cardinality({k \in S : k < n})
<1>0. \A m \in S : m \in Nat
  BY MessagesAreNumbers
<1>1. ASSUME NEW A \in SUBSET S, NEW B \in SUBSET S, A \subseteq B, NEW x \in B, x \notin A
      PROVE  /\ Cardinality(A) \in Nat /\ Cardinality(B) \in Nat
             /\ Cardinality(A) < Cardinality(B)
  <2>1. IsFiniteSet(B) /\ Cardinality(A) \in Nat /\ Cardinality(B) \in Nat
    BY MessagesAreFinite
  <2>2. Cardinality(A) <= Cardinality(B) /\ Cardinality(A) # Cardinality(B)
    BY <1>1, <2>1, FS_Subset
  <2> QED
    BY <2>1, <2>2
<1>2. ASSUME NEW m \in S
      PROVE  /\ Cardinality({k \in S : k > m}) \in 0..(Cardinality(S) - 1)
             /\ Cardinality({k \in S : k < m}) \in 0..(Cardinality(S) - 1)
  <2>1. m \notin {k \in S : k > m} /\ m \notin {k \in S : k < m}
    BY <1>0
  <2>2. ASSUME NEW A \in SUBSET S, m \notin A PROVE Cardinality(A) \in 0..(Cardinality(S) - 1)
    <3>1. /\ Cardinality(A) \in Nat /\ Cardinality(S) \in Nat
          /\ Cardinality(A) < Cardinality(S)
      BY <1>1, <2>2
    <3> QED
      BY <3>1
  <2> QED
    BY <2>1, <2>2
<1>3. ASSUME NEW m \in S, NEW n \in S, m < n
      PROVE  /\ Cardinality({k \in S : k > n}) < Cardinality({k \in S : k > m})
             /\ Cardinality({k \in S : k < m}) < Cardinality({k \in S : k < n})
  <2>1. /\ {k \in S : k > n} \subseteq {k \in S : k > m}
        /\ n \in {k \in S : k > m} /\ n \notin {k \in S : k > n}
    BY <1>0, <1>3
  <2>2. /\ {k \in S : k < m} \subseteq {k \in S : k < n}
        /\ m \in {k \in S : k < n} /\ m \notin {k \in S : k < m}
    BY <1>0, <1>3
  <2> QED
    BY <1>1, <2>1, <2>2
<1> QED
  BY <1>2, <1>3

\* At most n are among the newest n, and at most |S| - n are not.
LEMMA NewestCounts ==
    ASSUME NEW S \in SUBSET Message, NEW n \in Nat
    PROVE  /\ Cardinality(Newest(S, n)) <= n
           /\ Cardinality(S \ Newest(S, n)) <= (IF n > Cardinality(S) THEN 0 ELSE Cardinality(S) - n)
           /\ \A m \in S \ Newest(S, n), k \in Newest(S, n) : m < k
<1> DEFINE rank == [m \in S |-> Cardinality({k \in S : k > m})]
           T == Newest(S, n)
           size == Cardinality(S)
<1>1. size \in Nat /\ T \subseteq S /\ \A m \in S : m \in Nat
  BY MessagesAreFinite, MessagesAreNumbers DEF Newest
<1>2. /\ \A m \in S : rank[m] \in 0..(size - 1)
      /\ \A m, k \in S : m < k => rank[k] < rank[m]
      /\ \A m \in S : m \in T <=> rank[m] < n
  BY RanksDiffer DEF Newest
<1> HIDE DEF rank, T, size
<1>3. \A m, k \in S : rank[m] = rank[k] => m = k
  <2> SUFFICES ASSUME NEW m \in S, NEW k \in S, m # k PROVE rank[m] # rank[k]
    OBVIOUS
  <2>1. m \in Nat /\ k \in Nat /\ rank[m] \in Int /\ rank[k] \in Int
    BY <1>1, <1>2
  <2>2. m < k \/ k < m
    BY <2>1
  <2> QED
    BY <1>2, <2>1, <2>2
<1>4. Cardinality(T) <= n
  <2>1. ASSUME NEW m \in T PROVE rank[m] \in 0..(n - 1)
    <3>1. rank[m] \in 0..(size - 1) /\ rank[m] < n
      BY <1>1, <1>2
    <3> QED
      BY <1>1, <3>1
  <2>2. Cardinality(T) <= (IF 0 > n - 1 THEN 0 ELSE n - 1 - 0 + 1)
    BY <1>1, <1>3, <2>1, RankedSet
  <2> QED
    BY <2>2
<1>5. Cardinality(S \ T) <= (IF n > size THEN 0 ELSE size - n)
  <2>1. ASSUME NEW m \in S \ T PROVE rank[m] \in n..(size - 1)
    <3>1. rank[m] \in 0..(size - 1) /\ ~(rank[m] < n)
      BY <1>2
    <3> QED
      BY <1>1, <3>1
  <2>2. size - 1 \in Int
    BY <1>1
  <2>3. Cardinality(S \ T) <= (IF n > size - 1 THEN 0 ELSE size - 1 - n + 1)
    <3> DEFINE U == S \ T
               b == size - 1
    <3>1. b \in Int /\ n \in Int
      BY <2>2
    <3>2. (\A m \in U : rank[m] \in n..b) /\ (\A m, k \in U : rank[m] = rank[k] => m = k)
      BY <1>3, <2>1
    <3> HIDE DEF U, b
    <3>3. Cardinality(U) <= (IF n > b THEN 0 ELSE b - n + 1)
      BY <3>1, <3>2, RankedSet
    <3> QED
      BY <3>3 DEF U, b
  <2> QED
    BY <1>1, <2>3
<1>6. ASSUME NEW m \in S \ T, NEW k \in T PROVE m < k
  <2>1. /\ m \in Nat /\ k \in Nat /\ rank[m] \in Int /\ rank[k] \in Int
        /\ ~(rank[m] < n) /\ rank[k] < n /\ k \in S
    BY <1>1, <1>2
  <2>2. k < m => rank[m] < rank[k]
    BY <1>2, <2>1
  <2> QED
    BY <2>1, <2>2
<1> QED
  BY <1>4, <1>5, <1>6 DEF T, size

\* The same of the oldest n; where not all are among them, the newest is not.
LEMMA OldestCounts ==
    ASSUME NEW S \in SUBSET Message, NEW n \in Nat
    PROVE  /\ Cardinality(S \ Oldest(S, n)) <= (IF n > Cardinality(S) THEN 0 ELSE Cardinality(S) - n)
           /\ \A m \in S \ Oldest(S, n), k \in Oldest(S, n) : k < m
           /\ n < Cardinality(S) => \A m \in S : (\A k \in S : k <= m) => m \notin Oldest(S, n)
<1> DEFINE rank == [m \in S |-> Cardinality({k \in S : k < m})]
           T == Oldest(S, n)
           size == Cardinality(S)
<1>1. size \in Nat /\ T \subseteq S /\ \A m \in S : m \in Nat
  BY MessagesAreFinite, MessagesAreNumbers DEF Oldest
<1>2. /\ \A m \in S : rank[m] \in 0..(size - 1)
      /\ \A m, k \in S : m < k => rank[m] < rank[k]
      /\ \A m \in S : m \in T <=> rank[m] < n
  BY RanksDiffer DEF Oldest
<1>3. ASSUME NEW m \in S, \A k \in S : k <= m PROVE rank[m] = size - 1
  <2>1. {k \in S : k < m} = S \ {m}
    BY <1>1, <1>3
  <2>2. IsFiniteSet(S)
    BY MessagesAreFinite
  <2> QED
    BY <2>1, <2>2, FS_RemoveElement
<1> HIDE DEF rank, T, size
<1>4. \A m, k \in S : rank[m] = rank[k] => m = k
  <2> SUFFICES ASSUME NEW m \in S, NEW k \in S, m # k PROVE rank[m] # rank[k]
    OBVIOUS
  <2>1. m \in Nat /\ k \in Nat /\ rank[m] \in Int /\ rank[k] \in Int
    BY <1>1, <1>2
  <2>2. m < k \/ k < m
    BY <2>1
  <2> QED
    BY <1>2, <2>1, <2>2
<1>5. Cardinality(S \ T) <= (IF n > size THEN 0 ELSE size - n)
  <2>1. ASSUME NEW m \in S \ T PROVE rank[m] \in n..(size - 1)
    <3>1. rank[m] \in 0..(size - 1) /\ ~(rank[m] < n)
      BY <1>2
    <3> QED
      BY <1>1, <3>1
  <2>2. size - 1 \in Int
    BY <1>1
  <2>3. Cardinality(S \ T) <= (IF n > size - 1 THEN 0 ELSE size - 1 - n + 1)
    <3> DEFINE U == S \ T
               b == size - 1
    <3>1. b \in Int /\ n \in Int
      BY <2>2
    <3>2. (\A m \in U : rank[m] \in n..b) /\ (\A m, k \in U : rank[m] = rank[k] => m = k)
      BY <1>4, <2>1
    <3> HIDE DEF U, b
    <3>3. Cardinality(U) <= (IF n > b THEN 0 ELSE b - n + 1)
      BY <3>1, <3>2, RankedSet
    <3> QED
      BY <3>3 DEF U, b
  <2> QED
    BY <1>1, <2>3
<1>6. ASSUME NEW m \in S \ T, NEW k \in T PROVE k < m
  <2>1. /\ m \in Nat /\ k \in Nat /\ rank[m] \in Int /\ rank[k] \in Int
        /\ ~(rank[m] < n) /\ rank[k] < n /\ k \in S
    BY <1>1, <1>2
  <2>2. m < k => rank[m] < rank[k]
    BY <1>2, <2>1
  <2>3. m # k
    OBVIOUS
  <2> QED
    BY <2>1, <2>2, <2>3
<1>7. ASSUME n < size, NEW m \in S, \A k \in S : k <= m PROVE m \notin T
  <2>1. rank[m] = size - 1
    BY <1>3, <1>7
  <2> QED
    BY <1>1, <1>2, <1>7, <2>1
<1> QED
  BY <1>5, <1>6, <1>7 DEF T, size

-----------------------------------------------------------------------------
(* WInv, for the kinds of step there are. *)

LEMMA IdleFollows ==
    /\ FollowedRequest(Idle)
    /\ \A q : q.pc \in {"idle", "insert"} => (Turns(q) <=> FALSE)
  BY DEF FollowedRequest, Idle, Turns, Compacting

\* Where clients wait, a request that goes on goes on alone.
LEMMA GoesAlone ==
    ASSUME IInv, WInv, waits, NEW r \in Request, reqs[r] # Idle \/ Arrives(r)
    PROVE  \A t \in Request \ {r} : reqs[t] = Idle
  BY DEF WInv, Arrives

LEMMA FollowedStep ==
    ASSUME IInv, WInv, NEW r \in Request, reqs[r] # Idle \/ Arrives(r),
           NEW q, Suspend(r, q),
           waits => /\ FollowedRequest(q)'
                    /\ \A i, j \in Current' : i = j
                    /\ \A i \in Current' : Complete(summaries[i])'
    PROVE  WInv'
<1> SUFFICES ASSUME waits' PROVE WInv'
  BY DEF WInv
<1>1. waits
  BY DEF Suspend
<1>2. \A t \in Request \ {r} : reqs'[t] = Idle
  BY <1>1, GoesAlone DEF Suspend, IInv, TypeOK
<1>3. reqs'[r] = q
  BY DEF Suspend, IInv, TypeOK
<1>4. \A t \in Request : FollowedRequest(reqs[t])'
  <2> SUFFICES ASSUME NEW t \in Request PROVE FollowedRequest(reqs[t])'
    OBVIOUS
  <2>1. CASE t = r
    BY <1>1, <1>3, <2>1 DEF FollowedRequest, Turns, IsNewest, Complete, Later
  <2>2. CASE t # r
    BY <1>2, <2>2 DEF FollowedRequest, Turns, Idle, Compacting
  <2> QED
    BY <2>1, <2>2
<1>5. \A t, o \in Request : reqs'[t] # Idle /\ reqs'[o] # Idle => t = o
  BY <1>2
<1> QED
  BY <1>1, <1>4, <1>5 DEF WInv

LEMMA FollowedRead ==
    ASSUME IInv, WInv, NEW r \in Request, reqs[r] # Idle \/ Arrives(r),
           NEW q, Suspend(r, q), waits => FollowedRequest(q), UNCHANGED <<messages, summaries>>
    PROVE  WInv'
<1>1. /\ Current' = Current /\ CurrentRows' = CurrentRows
      /\ \A summary : After(summary)' = After(summary)
      /\ \A row : Later(row)' = Later(row) /\ (Complete(row)' <=> Complete(row))
  BY DEF Current, CurrentRows, After, Later, Complete
<1>2. FollowedRequest(q) => FollowedRequest(q)'
  BY <1>1 DEF FollowedRequest, IsNewest, Complete, Later
<1>3. waits => \A i \in Current' : Complete(summaries[i])'
  BY <1>1 DEF WInv, Complete, Later
<1> QED
  BY <1>1, <1>2, <1>3, FollowedStep DEF WInv

\* Returning, from wherever.
LEMMA FollowedReturn ==
    ASSUME IInv, WInv, NEW r \in Request, reqs[r] # Idle, Suspend(r, Idle),
           UNCHANGED <<messages, summaries>>
    PROVE  WInv'
  BY IdleFollows, FollowedRead

LEMMA Follows ==
    ASSUME WInv, waits, NEW r \in Request
    PROVE  FollowedRequest(reqs[r])
  BY DEF WInv

\* A current summary is a stored row, and the messages after it are Later.
LEMMA CurrentIsRow ==
    ASSUME IInv
    PROVE  /\ \A i \in Current : /\ i \in DOMAIN summaries /\ SoundRow(summaries[i])
                                 /\ summaries[i] # None
                                 /\ After(summaries[i]) = Later(summaries[i])
           /\ \A summary \in CurrentRows :
                 \/ summary = None /\ Current = {} /\ After(summary) = messages
                 \/ \E i \in Current : summary = summaries[i]
<1>1. ASSUME NEW i \in Current
      PROVE  i \in DOMAIN summaries /\ SoundRow(summaries[i]) /\ summaries[i] # None
  BY NullAssumption DEF IInv, Current, SoundRow, NullAssumption
<1>2. \A i \in Current : After(summaries[i]) = Later(summaries[i])
  BY <1>1 DEF After, Later
<1>3. \A summary \in CurrentRows :
         \/ summary = None /\ Current = {} /\ After(summary) = messages
         \/ \E i \in Current : summary = summaries[i]
  BY DEF CurrentRows, After
<1> QED
  BY <1>1, <1>2, <1>3

\* The boundary of a sound row is the newest of the messages folded into it.
LEMMA BoundaryIsNewest ==
    ASSUME IInv, NEW row, SoundRow(row)
    PROVE  /\ row.until \in row.folded /\ row.until \in messages
           /\ \A m \in row.folded : m <= row.until
           /\ row.folded \in SUBSET Message
<1>1. row.folded \in SUBSET Message /\ row.folded # {} /\ row.until = Max(row.folded)
  BY DEF SoundRow, IInv, TypeOK
<1> QED
  BY <1>1, MaxOfMessages DEF SoundRow

-----------------------------------------------------------------------------
(* WInv, action by action. *)

LEMMA InsertFollows ==
    ASSUME IInv, WInv, NEW r \in Request, NEW role \in {"user", "assistant"}, Insert(r, role),
           reqs[r] # Idle \/ Arrives(r), UNCHANGED <<messages, summaries>>
    PROVE  WInv'
<1>1. PICK stamp \in Message :
        /\ Suspend(r, [pc |-> "insert", stamp |-> stamp, role |-> role])
        /\ \A m \in Stamps : m < stamp
  BY InsertStamps
<1> DEFINE q == [pc |-> "insert", stamp |-> stamp, role |-> role]
<1>2. FollowedRequest(q)
  BY <1>1 DEF FollowedRequest, Turns, Compacting, Stamps
<1> QED
  BY <1>1, <1>2, FollowedRead

LEMMA CommitMessageFollows ==
    ASSUME IInv, WInv, NEW r \in Request, CommitMessage(r)
    PROVE  WInv'
<1>1. reqs[r] \in RequestState /\ reqs[r].pc = "insert" /\ reqs[r] # Idle
  BY DEF IInv, TypeOK, CommitMessage, Resumes, Idle
<1>2. PICK own \in Message : own = reqs[r].stamp
  BY <1>1, RequestShape
<1>3. PICK q : q = IF reqs[r].role = "user"
                   THEN [pc |-> "current", force |-> FALSE, turn |-> TRUE, own |-> own]
                   ELSE Idle
  OBVIOUS
<1>4. Suspend(r, q) /\ messages' = messages \cup {own} /\ summaries' = summaries
  BY <1>2, <1>3 DEF CommitMessage
<1>5. Current' = Current
  BY <1>4 DEF Current
<1> SUFFICES ASSUME waits
             PROVE  /\ FollowedRequest(q)'
                    /\ \A i, j \in Current' : i = j
                    /\ \A i \in Current' : Complete(summaries[i])'
  BY <1>1, <1>4, FollowedStep
<1>6. \A m \in messages : m < own
  BY <1>1, <1>2, Follows DEF FollowedRequest
<1>7. own \in Nat /\ \A m \in messages : m \in Nat
  BY MessagesAreNumbers DEF IInv, TypeOK
<1>8. \A i \in Current : summaries[i].until < own
  BY <1>6, CurrentIsRow, BoundaryIsNewest
<1>9. FollowedRequest(q)'
  <2>1. IsNewest(own)'
    BY <1>4, <1>5, <1>6, <1>7, <1>8 DEF IsNewest
  <2>2. CASE q = Idle
    BY <2>2, IdleFollows DEF FollowedRequest, Turns, Idle, Compacting
  <2>3. CASE q = [pc |-> "current", force |-> FALSE, turn |-> TRUE, own |-> own]
    BY <2>1, <2>3 DEF FollowedRequest
  <2> QED
    BY <1>3, <2>2, <2>3
<1>10. \A i \in Current : Complete(summaries[i])'
  <2> SUFFICES ASSUME NEW i \in Current PROVE Complete(summaries[i])'
    OBVIOUS
  <2>1. messages = summaries[i].folded \cup Later(summaries[i])
    BY DEF WInv, Complete
  <2>2. own > summaries[i].until
    <3>1. summaries[i].until < own /\ summaries[i].until \in Nat
      BY <1>7, <1>8, CurrentIsRow, BoundaryIsNewest
    <3> QED
      BY <1>7, <3>1
  <2>3. \A m \in messages' : m \in summaries[i].folded \/ m > summaries[i].until
    BY <1>4, <2>1, <2>2 DEF Later
  <2>4. summaries[i].folded \subseteq messages'
    BY <1>4, <2>1
  <2> QED
    BY <1>4, <2>3, <2>4 DEF Complete, Later
<1> QED
  BY <1>5, <1>9, <1>10 DEF WInv

LEMMA PrepareFollows ==
    ASSUME IInv, WInv, NEW r \in Request, PrepareSummary(r) \/ PrepareMessages(r)
    PROVE  WInv'
<1> DEFINE p == reqs[r]
<1>1. p # Idle
  BY DEF PrepareSummary, PrepareMessages, Resumes, Idle
<1>2. CASE PrepareSummary(r)
  <2>1. PICK summary \in CurrentRows :
          Suspend(r, [pc |-> "list", own |-> p.own, degraded |-> p.degraded, summary |-> summary])
    BY <1>2 DEF PrepareSummary
  <2> DEFINE q == [pc |-> "list", own |-> p.own, degraded |-> p.degraded, summary |-> summary]
  <2>2. waits => FollowedRequest(q)
    <3>1. p.pc = "prepare"
      BY <1>2 DEF PrepareSummary, Resumes
    <3> QED
      BY <3>1, Follows DEF FollowedRequest, Turns
  <2> QED
    BY <1>1, <1>2, <2>1, <2>2, FollowedRead DEF PrepareSummary
<1>3. CASE PrepareMessages(r)
  <2> DEFINE q == [pc |-> "stream", own |-> p.own, degraded |-> p.degraded,
                   window |-> Newest(After(p.summary), RecentLimit),
                   folded |-> IF p.summary = None THEN {} ELSE p.summary.folded]
  <2>1. Suspend(r, q) /\ UNCHANGED <<messages, summaries>> /\ p.pc = "list"
    BY <1>3 DEF PrepareMessages, Resumes
  <2>2. waits => FollowedRequest(q)
    BY <2>1, Follows DEF FollowedRequest, Turns
  <2> QED
    BY <1>1, <2>1, <2>2, FollowedRead
<1> QED
  BY <1>2, <1>3

LEMMA ChatFollows ==
    ASSUME IInv, WInv, NEW r \in Request, Chat(r)
    PROVE  WInv'
<1>1. CASE Post(r)
  BY <1>1, InsertFollows DEF Post
<1>2. CASE Answer(r)
  BY <1>2, InsertFollows DEF Answer, Resumes, Idle
<1>3. CASE GiveUp(r)
  BY <1>3, FollowedReturn DEF GiveUp, Idle
<1> QED
  BY <1>1, <1>2, <1>3, CommitMessageFollows, PrepareFollows DEF Chat

LEMMA ReadCurrentFollows ==
    ASSUME IInv, WInv, NEW r \in Request, NEW force \in BOOLEAN, Compact(r, force) \/ ReadCurrent(r)
    PROVE  WInv'
<1> DEFINE p == reqs[r]
<1>1. CASE Compact(r, force)
  <2> DEFINE q == [pc |-> "current", force |-> force, turn |-> FALSE, own |-> None]
  <2>1. FollowedRequest(q)
    BY DEF FollowedRequest, Turns
  <2> QED
    BY <1>1, <2>1, FollowedRead DEF Compact
<1>2. CASE ReadCurrent(r)
  <2>1. PICK summary \in CurrentRows :
          Suspend(r, [pc |-> "pending", force |-> p.force, turn |-> p.turn, own |-> p.own,
                      summary |-> summary])
    BY <1>2 DEF ReadCurrent
  <2> DEFINE q == [pc |-> "pending", force |-> p.force, turn |-> p.turn, own |-> p.own,
                   summary |-> summary]
  <2>2. p.pc = "current" /\ p # Idle
    BY <1>2 DEF ReadCurrent, Resumes, Idle
  <2>3. waits => FollowedRequest(q)
    BY <2>2, Follows DEF FollowedRequest, Turns, Compacting
  <2> QED
    BY <1>2, <2>1, <2>2, <2>3, FollowedRead DEF ReadCurrent
<1> QED
  BY <1>1, <1>2

\* Where a compaction leaves a chat turn: to go on with the summary that is
\* now current, whatever became of it.
LEMMA CompactedFollows ==
    ASSUME IInv, WInv, NEW r \in Request, reqs[r].pc \in Compacting, NEW degraded \in BOOLEAN,
           Compacted(r, reqs[r], degraded), UNCHANGED <<messages, summaries>>,
           waits /\ reqs[r].turn /\ ~degraded => \A summary \in CurrentRows : Fits(After(summary))
    PROVE  WInv'
<1> DEFINE p == reqs[r]
           prepare == [pc |-> "prepare", own |-> p.own, degraded |-> degraded]
<1>1. p # Idle
  BY DEF Compacting, Idle
<1>2. CASE p.turn
  <2>1. waits => FollowedRequest(prepare)
    BY <1>2, Follows DEF FollowedRequest, Turns
  <2>2. Suspend(r, prepare)
    BY <1>2 DEF Compacted
  <2> QED
    BY <1>1, <2>1, <2>2, FollowedRead
<1>3. CASE ~p.turn
  BY <1>1, <1>3, FollowedReturn DEF Compacted
<1> QED
  BY <1>2, <1>3

LEMMA RetainBounds == Retain \in 1..RecentLimit
<1> DEFINE S == {4, RecentLimit \div 2}
<1>1. RecentLimit \in Nat /\ 4 <= RecentLimit
  BY MemoryAssumption DEF MemoryAssumption
<1>2. RecentLimit \div 2 \in Nat /\ RecentLimit \div 2 <= RecentLimit
  BY <1>1
<1>3. S \in SUBSET Nat /\ S # {} /\ \A n \in S : n <= RecentLimit
  BY <1>1, <1>2
<1>4. 4 \in S
  OBVIOUS
<1> HIDE DEF S
<1>5. Max(S) \in S /\ \A n \in S : n <= Max(S)
  BY <1>1, <1>3, MaxProperty
<1>6. Max(S) \in Nat /\ 4 <= Max(S) /\ Max(S) <= RecentLimit
  BY <1>3, <1>4, <1>5
<1>7. Max(S) \in 1..RecentLimit
  BY <1>1, <1>6
<1> QED
  BY <1>7 DEF Retain, S

LEMMA OneCurrentRow ==
    ASSUME IInv, WInv, waits
    PROVE  \A s, t \in CurrentRows : s = t
  BY DEF WInv, CurrentRows

\* What is left of the pending messages of a chat turn.
LEMMA BatchFollows ==
    ASSUME NEW S \in SUBSET Message, NEW own \in S, \A m \in S : m <= own,
           Oldest(S, CompactCount(Cardinality(S), FALSE)) # {}
    PROVE  /\ own \notin Oldest(S, CompactCount(Cardinality(S), FALSE))
           /\ Fits(S \ Oldest(S, CompactCount(Cardinality(S), FALSE)))
<1> DEFINE size == Cardinality(S)
           count == CompactCount(size, FALSE)
<1>1. size \in Nat
  BY MessagesAreFinite
<1>2. Oldest(S, 0) = {}
  <2>1. \A m \in S : Cardinality({k \in S : k < m}) \in Nat
    BY MessagesAreFinite
  <2> QED
    BY <2>1 DEF Oldest
<1>3. count # 0
  BY <1>2
<1> HIDE DEF size
<1>4. /\ count = size - Retain /\ size > Retain
      /\ Retain \in Nat /\ 1 <= Retain /\ Retain <= RecentLimit /\ RecentLimit \in Nat
  <2>1. /\ Retain \in Nat /\ 1 <= Retain /\ Retain <= RecentLimit /\ RecentLimit \in Nat
    BY RetainBounds, MemoryAssumption DEF MemoryAssumption
  <2> QED
    BY <1>3, <2>1 DEF CompactCount
<1> HIDE DEF count
<1>5. count \in Nat /\ count < size /\ size - count = Retain
  BY <1>1, <1>4
<1>6. /\ Cardinality(S \ Oldest(S, count)) <= (IF count > size THEN 0 ELSE size - count)
      /\ own \notin Oldest(S, count)
  BY <1>5, OldestCounts DEF size
<1>7. Cardinality(S \ Oldest(S, count)) \in Nat
  BY MessagesAreFinite
<1>8. Cardinality(S \ Oldest(S, count)) <= RecentLimit
  BY <1>1, <1>4, <1>5, <1>6, <1>7
<1> QED
  BY <1>6, <1>8 DEF Fits, count, size

LEMMA ReadPendingFollows ==
    ASSUME IInv, WInv, NEW r \in Request, ReadPending(r)
    PROVE  WInv'
<1> DEFINE p == reqs[r]
           pending == After(p.summary)
           count == CompactCount(Cardinality(pending), p.force)
           batch == Oldest(pending, count)
<1>1. /\ p \in RequestState /\ p.pc = "pending" /\ p.pc \in Compacting /\ p # Idle
      /\ p.force \in BOOLEAN
  BY RequestShape DEF IInv, TypeOK, ReadPending, Resumes, Compacting, Idle
<1>2. /\ UNCHANGED <<messages, summaries>>
      /\ IF batch = {}
         THEN Compacted(r, p, Cardinality(pending) > Threshold)
         ELSE Suspend(r, [pc |-> "summarize", turn |-> p.turn, own |-> p.own,
                          summary |-> p.summary, batch |-> batch])
  BY DEF ReadPending
<1>3. pending \in SUBSET Message /\ Cardinality(pending) \in Nat /\ Threshold \in Nat
  BY AfterType, MessagesAreFinite, MemoryAssumption DEF MemoryAssumption
<1>4. waits => p.summary \in CurrentRows
  BY <1>1, Follows DEF FollowedRequest
<1>5. CASE batch = {}
  <2> DEFINE degraded == Cardinality(pending) > Threshold
  <2>1. degraded \in BOOLEAN /\ (~degraded => Cardinality(pending) <= Threshold)
    <3> HIDE DEF pending
    <3> QED
      BY <1>3
  <2>2. Compacted(r, p, degraded)
    BY <1>2, <1>5
  <2> HIDE DEF degraded
  <2>3. ~degraded => Fits(pending)
    BY <2>1 DEF Fits
  <2>4. waits /\ p.turn /\ ~degraded => \A summary \in CurrentRows : Fits(After(summary))
    BY <1>4, <2>3, OneCurrentRow
  <2> QED
    BY <1>1, <1>2, <2>1, <2>2, <2>4, CompactedFollows
<1>6. CASE batch # {}
  <2> DEFINE q == [pc |-> "summarize", turn |-> p.turn, own |-> p.own,
                   summary |-> p.summary, batch |-> batch]
  <2>1. ASSUME waits PROVE FollowedRequest(q)
    <3>1. FollowedRequest(p)
      BY <2>1, Follows
    <3>2. \A m \in pending \ batch, n \in batch : n < m
      <4>1. count \in Nat
        <5>1. Retain \in Nat
          BY RetainBounds, MemoryAssumption DEF MemoryAssumption
        <5> DEFINE n == Cardinality(pending)
        <5>2. n \in Nat /\ Threshold \in Nat
          BY <1>3
        <5> HIDE DEF n
        <5>3. CompactCount(n, p.force) \in Nat
          BY <5>1, <5>2, <1>1 DEF CompactCount
        <5> QED
          BY <5>3 DEF n
      <4> HIDE DEF count
      <4> QED
        BY <1>3, <4>1, OldestCounts
    <3>3. ASSUME p.turn PROVE p.own \notin batch /\ Fits(pending \ batch)
      <4>1. IsNewest(p.own) /\ ~p.force
        BY <1>1, <3>1, <3>3 DEF FollowedRequest, Turns
      <4>2. p.own \in pending
        <5>1. CASE p.summary = None
          BY <4>1, <5>1 DEF After, IsNewest
        <5>2. CASE p.summary # None
          <6>1. PICK i \in Current : p.summary = summaries[i]
            BY <1>4, <2>1, <5>2, CurrentIsRow
          <6>2. summaries[i].until < p.own /\ summaries[i].until \in Nat /\ p.own \in Nat
            BY <4>1, CurrentIsRow, BoundaryIsNewest, MessagesAreNumbers DEF IsNewest, IInv, TypeOK
          <6> QED
            BY <4>1, <5>2, <6>1, <6>2 DEF After, IsNewest
        <5> QED
          BY <5>1, <5>2
      <4>3. \A m \in pending : m <= p.own
        BY <4>1, AfterType DEF IsNewest
      <4>4. p.force = FALSE
        BY <1>1, <4>1
      <4> QED
        BY <1>3, <1>6, <4>2, <4>3, <4>4, BatchFollows
    <3> HIDE DEF batch
    <3>4. /\ q.pc = "summarize" /\ q.turn = p.turn /\ q.own = p.own
          /\ q.summary = p.summary /\ q.batch = batch
      OBVIOUS
    <3>5. Turns(q) => IsNewest(q.own)
      BY <1>1, <3>1, <3>4 DEF FollowedRequest, Turns, Compacting
    <3> HIDE DEF q
    <3> QED
      BY <1>4, <2>1, <3>2, <3>3, <3>4, <3>5 DEF FollowedRequest
  <2> QED
    BY <1>1, <1>2, <1>6, <2>1, FollowedRead
<1> QED
  BY <1>5, <1>6

\* A summary folded from the current one and the oldest messages after it takes
\* in all messages up to its boundary, and more than any current one.
LEMMA FoldFollows ==
    ASSUME IInv, WInv, waits, NEW previous \in CurrentRows,
           NEW batch, batch # {}, batch \subseteq After(previous),
           \A m \in After(previous) \ batch, n \in batch : n < m
    PROVE  LET row == SummaryOf(previous, batch) IN
           /\ row.until \in batch
           /\ Later(row) = After(previous) \ batch
           /\ Complete(row)
           /\ \A i \in Current : /\ summaries[i].folded \subseteq row.folded
                                 /\ summaries[i].until < row.until
<1> DEFINE folded == IF previous = None THEN {} ELSE previous.folded
           row == SummaryOf(previous, batch)
<1>1. batch \subseteq messages /\ batch \in SUBSET Message /\ After(previous) \subseteq messages
  BY AfterType
<1>2. Max(batch) \in batch /\ \A n \in batch : n <= Max(batch)
  BY <1>1, MaxOfMessages
<1>3. row.until = Max(batch) /\ row.folded = batch \cup folded
  BY DEF SummaryOf
<1>4. \A m \in messages : m \in Nat
  BY MessagesAreNumbers DEF IInv, TypeOK
<1>5. /\ messages = folded \cup After(previous)
      /\ \A m \in folded, n \in After(previous) : m < n
      /\ \A i \in Current : /\ summaries[i].folded \subseteq folded
                            /\ \A n \in After(previous) : summaries[i].until < n
  <2>1. CASE previous = None
    <3>1. Current = {} \/ \E i \in Current : previous = summaries[i]
      BY CurrentIsRow
    <3>2. Current = {}
      BY <2>1, <3>1, CurrentIsRow
    <3> QED
      BY <2>1, <3>2 DEF After
  <2>2. CASE previous # None
    <3>1. PICK k \in Current : previous = summaries[k]
      BY <2>2, CurrentIsRow
    <3>2. Complete(previous) /\ After(previous) = Later(previous) /\ SoundRow(previous)
      BY <3>1, CurrentIsRow DEF WInv
    <3>3. \A i \in Current : summaries[i] = previous
      BY <3>1 DEF WInv
    <3>4. \A m \in folded : m <= previous.until /\ m \in messages
      BY <2>2, <3>2, BoundaryIsNewest DEF SoundRow
    <3>5. previous.until \in Nat
      BY <1>4, <3>2, BoundaryIsNewest
    <3>6. \A n \in After(previous) : previous.until < n
      BY <1>1, <1>4, <3>2, <3>5 DEF Later
    <3> HIDE DEF folded
    <3>7. \A m \in folded, n \in After(previous) : m < n
      BY <1>1, <1>4, <3>4, <3>5, <3>6
    <3> QED
      BY <2>2, <3>2, <3>3, <3>6, <3>7 DEF Complete, folded
  <2> QED
    BY <2>1, <2>2
<1> HIDE DEF folded, row
<1>6. Later(row) = After(previous) \ batch
  <2>1. \A m \in batch : ~(m > Max(batch))
    BY <1>1, <1>2, <1>4
  <2>2. \A m \in After(previous) \ batch : m > Max(batch)
    BY <1>1, <1>2, <1>4
  <2>3. \A m \in folded : ~(m > Max(batch))
    BY <1>1, <1>2, <1>4, <1>5
  <2> QED
    BY <1>3, <1>5, <2>1, <2>2, <2>3 DEF Later
<1>7. Complete(row)
  BY <1>1, <1>3, <1>5, <1>6 DEF Complete
<1>8. \A i \in Current : /\ summaries[i].folded \subseteq row.folded
                         /\ summaries[i].until < row.until
  BY <1>2, <1>3, <1>5
<1> QED
  BY <1>2, <1>3, <1>6, <1>7, <1>8 DEF row

LEMMA SummarizedFollows ==
    ASSUME IInv, WInv, NEW r \in Request, Summarized(r)
    PROVE  WInv'
<1> DEFINE p == reqs[r]
           row == SummaryOf(p.summary, p.batch)
           q == [pc |-> "replace", turn |-> p.turn, own |-> p.own, row |-> row]
<1>1. SoundRequest(p) /\ p.pc = "summarize" /\ p # Idle
  BY DEF IInv, Summarized, Resumes, Idle
<1>2. Suspend(r, q) /\ UNCHANGED <<messages, summaries>>
  BY DEF Summarized
<1>3. ASSUME waits PROVE FollowedRequest(q)
  <2>1. FollowedRequest(p)
    BY <1>3, Follows
  <2>2. /\ p.summary \in CurrentRows /\ p.batch # {} /\ p.batch \subseteq After(p.summary)
        /\ \A m \in After(p.summary) \ p.batch, n \in p.batch : n < m
    BY <1>1, <2>1 DEF FollowedRequest, SoundRequest
  <2>3. /\ row.until \in p.batch /\ Later(row) = After(p.summary) \ p.batch /\ Complete(row)
        /\ \A i \in Current : /\ summaries[i].folded \subseteq row.folded
                              /\ summaries[i].until < row.until
    BY <1>3, <2>2, FoldFollows
  <2> HIDE DEF row
  <2>4. ASSUME p.turn PROVE row.until < p.own /\ Fits(Later(row)) /\ IsNewest(p.own)
    <3>1. /\ p.own \notin p.batch /\ Fits(After(p.summary) \ p.batch) /\ IsNewest(p.own)
      BY <1>1, <2>1, <2>4 DEF FollowedRequest, Turns, Compacting
    <3>2. row.until \in messages /\ row.until # p.own /\ row.until <= p.own /\ p.own \in messages
      BY <2>2, <2>3, <3>1, AfterType DEF IsNewest
    <3>3. row.until \in Nat /\ p.own \in Nat
      BY <3>2, MessagesAreNumbers DEF IInv, TypeOK
    <3> QED
      BY <2>3, <3>1, <3>2, <3>3
  <2> QED
    BY <2>3, <2>4 DEF FollowedRequest, Turns, Compacting
<1> QED
  BY <1>1, <1>2, <1>3, FollowedRead

LEMMA SummaryFailsFollows ==
    ASSUME IInv, WInv, NEW r \in Request, SummaryFails(r)
    PROVE  WInv'
  BY CompactedFollows DEF SummaryFails, Compacting

LEMMA ReplaceFollows ==
    ASSUME IInv, WInv, NEW r \in Request, ReadNoCurrent(r) \/ ReadOldCurrent(r)
    PROVE  WInv'
<1> DEFINE p == reqs[r]
<1>1. p \in RequestState /\ p.pc = "replace" /\ p # Idle /\ p.row \in SummaryRow
  BY RequestShape DEF IInv, TypeOK, ReadNoCurrent, ReadOldCurrent, Resumes, Idle
<1>2. waits => /\ p.turn => IsNewest(p.own) /\ p.row.until < p.own /\ Fits(Later(p.row))
               /\ Complete(p.row)
               /\ \A i \in Current : /\ summaries[i].folded \subseteq p.row.folded
                                     /\ summaries[i].until < p.row.until
  BY <1>1, Follows DEF FollowedRequest, Turns, Compacting
<1>3. CASE ReadNoCurrent(r)
  <2> DEFINE row == [p.row EXCEPT !.version = NextVersion]
             q == [pc |-> "commit", turn |-> p.turn, own |-> p.own, row |-> row, old |-> 0]
  <2>1. NextVersion = Len(summaries) + 1 /\ NextVersion \in Nat \ {0}
    BY NextVersionCounts
  <2>2. row.version = NextVersion /\ row.folded = p.row.folded /\ row.until = p.row.until
    BY <1>1, <2>1, RowShape
  <2>3. Suspend(r, q) /\ UNCHANGED <<messages, summaries>> /\ Current = {}
    BY <1>3 DEF ReadNoCurrent
  <2> HIDE DEF row
  <2>4. Later(row) = Later(p.row) /\ (Complete(row) <=> Complete(p.row))
    BY <2>2 DEF Later, Complete
  <2>5. waits => FollowedRequest(q)
    BY <1>2, <2>1, <2>2, <2>3, <2>4 DEF FollowedRequest, Turns, Compacting
  <2> QED
    BY <1>1, <2>3, <2>5, FollowedRead
<1>4. CASE ReadOldCurrent(r)
  <2>1. PICK i \in Current : Suspend(r, [pc |-> "commit", turn |-> p.turn, own |-> p.own,
                                          row |-> p.row, old |-> i])
    BY <1>4 DEF ReadOldCurrent
  <2> DEFINE q == [pc |-> "commit", turn |-> p.turn, own |-> p.own, row |-> p.row, old |-> i]
  <2>2. i # 0
    BY NextVersionCounts DEF Current
  <2>3. waits => FollowedRequest(q)
    BY <1>2, <2>1, <2>2 DEF FollowedRequest, Turns, Compacting
  <2> QED
    BY <1>1, <1>4, <2>1, <2>3, FollowedRead DEF ReadOldCurrent
<1> QED
  BY <1>3, <1>4

\* Where clients wait, the commit of a summary that was folded under the retired
\* one, or under none, makes it the one current summary.
LEMMA CommitAppends ==
    ASSUME IInv, WInv, waits, NEW r \in Request, CommitSummary(r)
    PROVE  LET n == Len(summaries) + 1 IN
           /\ Current' = {n} /\ n \notin DOMAIN summaries
           /\ summaries'[n].folded = reqs[r].row.folded
           /\ summaries'[n].until = reqs[r].row.until
<1> DEFINE p == reqs[r]
           n == Len(summaries)
<1>1. /\ p \in RequestState /\ p.pc = "commit" /\ p.row \in SummaryRow
      /\ SoundRow(p.row) /\ p.row.current
  BY RequestShape DEF IInv, TypeOK, SoundRequest, CommitSummary, Resumes
<1>2. FollowedRequest(p)
  BY Follows
<1>3. n \in Nat /\ DOMAIN summaries = 1..n /\ summaries \in Seq(SummaryRow)
  BY NextVersionCounts DEF IInv, TypeOK
<1>4. ASSUME NEW rows \in Seq(SummaryRow), Len(rows) = n,
             \A i \in 1..n : ~rows[i].current,
             NEW row \in SummaryRow, row.current, row.folded = p.row.folded, row.until = p.row.until,
             summaries' = Append(rows, row)
      PROVE  /\ Current' = {n + 1} /\ n + 1 \notin DOMAIN summaries
             /\ summaries'[n + 1].folded = p.row.folded
             /\ summaries'[n + 1].until = p.row.until
  <2>1. /\ DOMAIN summaries' = 1..(n + 1) /\ summaries'[n + 1] = row
        /\ \A i \in 1..n : summaries'[i] = rows[i]
    BY <1>3, <1>4, AppendProperties, LenProperties
  <2> HIDE DEF n
  <2>2. (\A i \in 1..(n + 1) : i \in 1..n \/ i = n + 1) /\ n + 1 \in 1..(n + 1) /\ n + 1 \notin 1..n
    BY <1>3
  <2>3. Current' = {n + 1}
    BY <1>4, <2>1, <2>2 DEF Current
  <2> QED
    BY <1>3, <1>4, <2>1, <2>2, <2>3
<1>5. CASE p.old # 0
  <2> DEFINE row == [p.row EXCEPT !.version = NextVersion]
  <2>1. NextVersion \in Nat \ {0}
    BY NextVersionCounts
  <2>2. /\ row \in SummaryRow /\ row.folded = p.row.folded /\ row.until = p.row.until
        /\ row.current = p.row.current
    BY <1>1, <2>1, RowShape
  <2>3. summaries' = Append(Retired(p.old), row)
    BY <1>5 DEF CommitSummary
  <2> HIDE DEF row
  <2>4. p.old \in Current /\ \A i \in Current : i = p.old
    BY <1>1, <1>2, <1>5 DEF FollowedRequest, WInv
  <2>5. /\ Retired(p.old) \in Seq(SummaryRow) /\ Len(Retired(p.old)) = n
        /\ \A i \in 1..n : ~Retired(p.old)[i].current
    BY <1>3, <2>4, RetiredRows DEF Current
  <2> QED
    BY <1>1, <1>4, <2>2, <2>3, <2>5
<1>6. CASE p.old = 0
  <2>1. Current = {} /\ p.row.version = n + 1
    BY <1>1, <1>2, <1>6 DEF FollowedRequest
  <2>2. ~VersionExists(p.row.version)
    <3>1. \A i \in DOMAIN summaries : summaries[i].version = i
      BY DEF IInv, VersionsAreConsecutive
    <3> HIDE DEF n
    <3>2. n + 1 \notin 1..n
      BY <1>3
    <3> QED
      BY <1>3, <2>1, <3>1, <3>2 DEF VersionExists
  <2>3. summaries' = Append(summaries, p.row)
    BY <1>6, <2>2 DEF CommitSummary
  <2>4. \A i \in 1..n : ~summaries[i].current
    BY <1>3, <2>1 DEF Current
  <2> QED
    BY <1>1, <1>3, <1>4, <2>3, <2>4
<1> QED
  BY <1>5, <1>6

LEMMA CommitSummaryFollows ==
    ASSUME IInv, WInv, NEW r \in Request, CommitSummary(r)
    PROVE  WInv'
<1>1. PICK p : p = reqs[r]
  OBVIOUS
<1>2. PICK n : n = Len(summaries) + 1
  OBVIOUS
<1>3. /\ p \in RequestState /\ p.pc = "commit" /\ p # Idle /\ p.turn \in BOOLEAN
  BY <1>1, RequestShape DEF IInv, TypeOK, CommitSummary, Resumes, Idle, Compacting
<1>4. messages' = messages /\ Compacted(r, p, summaries' = summaries)
  BY <1>1 DEF CommitSummary
<1>5. PICK degraded \in BOOLEAN : degraded = (summaries' = summaries)
  OBVIOUS
<1>6. PICK q : q = IF p.turn THEN [pc |-> "prepare", own |-> p.own, degraded |-> degraded] ELSE Idle
  OBVIOUS
<1>7. Suspend(r, q)
  BY <1>4, <1>5, <1>6, Zenon DEF Compacted
<1> SUFFICES ASSUME waits
             PROVE  /\ FollowedRequest(q)'
                    /\ \A i, j \in Current' : i = j
                    /\ \A i \in Current' : Complete(summaries[i])'
  BY <1>1, <1>3, <1>7, FollowedStep
<1>8. /\ Current' = {n} /\ n \notin DOMAIN summaries
      /\ summaries'[n].folded = p.row.folded /\ summaries'[n].until = p.row.until
  BY <1>1, <1>2, CommitAppends
<1>9. Complete(p.row) /\ (p.turn => IsNewest(p.own) /\ p.row.until < p.own /\ Fits(Later(p.row)))
  BY <1>1, <1>3, Follows DEF FollowedRequest, Turns, Compacting
<1>10. \A i \in Current' : Complete(summaries[i])'
  BY <1>4, <1>8, <1>9 DEF Complete, Later
<1>11. FollowedRequest(q)'
  <2>1. CASE ~p.turn
    BY <1>3, <1>6, <2>1 DEF FollowedRequest, Turns, Idle, Compacting
  <2>2. CASE p.turn
    <3>1. q.pc = "prepare" /\ q.own = p.own
      BY <1>6, <2>2
    <3>2. IsNewest(q.own)'
      BY <1>4, <1>8, <1>9, <2>2, <3>1 DEF IsNewest
    <3>3. \A summary \in CurrentRows' : Fits(After(summary)')
      <4>1. CurrentRows' = {summaries'[n]}
        BY <1>8 DEF CurrentRows
      <4>2. summaries'[n] # None
        BY <1>8, CommitSummaryPreserves, NullAssumption DEF IInv, SoundRow, Current
      <4>3. After(summaries[n])' = Later(p.row)
        BY <1>4, <1>8, <4>2 DEF After, Later
      <4>4. Fits(After(summaries[n])')
        BY <1>9, <2>2, <4>3
      <4> QED
        BY <4>1, <4>4 DEF After
    <3> QED
      BY <3>1, <3>2, <3>3 DEF FollowedRequest, Fits, Turns
  <2> QED
    BY <1>3, <2>1, <2>2
<1> QED
  BY <1>8, <1>10, <1>11

LEMMA RestartFollows ==
    ASSUME IInv, WInv, Restart
    PROVE  WInv'
<1>1. waits' = waits /\ Current' = Current
  BY DEF Restart, Current
<1>2. \A r \in Request : reqs'[r] = Idle
  BY DEF Restart
<1>3. \A r \in Request : FollowedRequest(reqs[r])'
  BY <1>2 DEF FollowedRequest, Turns, Idle, Compacting
<1>4. waits => \A i \in Current' : Complete(summaries[i])'
  BY <1>1 DEF Restart, WInv, Complete, Later
<1> QED
  BY <1>1, <1>2, <1>3, <1>4 DEF WInv

LEMMA InitFollows == Init => WInv
<1> SUFFICES ASSUME Init PROVE WInv
  OBVIOUS
<1>1. Current = {}
  BY DEF Init, Current
<1>2. \A r \in Request : reqs[r] = Idle
  BY DEF Init
<1> QED
  BY <1>1, <1>2, IdleFollows DEF WInv

LEMMA NextFollows == IInv /\ WInv /\ [Next]_vars => WInv'
<1> SUFFICES ASSUME IInv, WInv, [Next]_vars PROVE WInv'
  OBVIOUS
<1>1. ASSUME NEW r \in Request, Compaction(r) PROVE WInv'
  BY <1>1, ReadCurrentFollows, ReadPendingFollows, SummarizedFollows, SummaryFailsFollows,
     ReplaceFollows, CommitSummaryFollows DEF Compaction
<1>2. CASE UNCHANGED vars
  <2>1. /\ messages' = messages /\ summaries' = summaries /\ reqs' = reqs /\ waits' = waits
        /\ Current' = Current /\ CurrentRows' = CurrentRows
        /\ \A summary : After(summary)' = After(summary)
        /\ \A row : Later(row)' = Later(row) /\ (Complete(row)' <=> Complete(row))
    BY <1>2 DEF vars, Current, CurrentRows, After, Later, Complete
  <2>2. ASSUME NEW q PROVE FollowedRequest(q) => FollowedRequest(q)'
    BY <2>1 DEF FollowedRequest, IsNewest, Complete, Later
  <2>3. ASSUME NEW r \in Request PROVE FollowedRequest(reqs[r]) => FollowedRequest(reqs[r])'
    <3>1. PICK q : q = reqs[r]
      OBVIOUS
    <3>2. reqs'[r] = q
      BY <2>1, <3>1
    <3>3. FollowedRequest(reqs[r]) => FollowedRequest(q)'
      BY <2>2, <3>1
    <3>4. FollowedRequest(q)' => FollowedRequest(reqs[r])'
      BY <3>2 DEF FollowedRequest, IsNewest, Complete, Later, Turns
    <3> QED
      BY <3>3, <3>4
  <2>4. \A i \in Current' : Complete(summaries[i]) => Complete(summaries[i])'
    BY <2>1 DEF Complete, Later
  <2> QED
    BY <2>1, <2>3, <2>4 DEF WInv
<1> QED
  BY <1>1, <1>2, ChatFollows, RestartFollows DEF Next

LEMMA Following == Spec => [](IInv /\ WInv)
<1>1. Init => IInv /\ WInv
  BY InitInvariant, InitFollows
<1>2. IInv /\ WInv /\ [Next]_vars => IInv' /\ WInv'
  BY NextPreserves, NextFollows
<1> QED
  BY <1>1, <1>2, PTL DEF Spec

-----------------------------------------------------------------------------
(* The theorems about clients that wait for each other. *)

LEMMA OneSummary ==
    ASSUME IInv, WInv, waits
    PROVE  OneCurrentSummary
<1>1. CASE Current = {}
  BY <1>1, FS_EmptySet DEF OneCurrentSummary
<1>2. CASE Current # {}
  <2>1. PICK i \in Current : Current = {i}
    BY <1>2 DEF WInv
  <2>2. Cardinality(Current) = 1
    BY <2>1, FS_Singleton
  <2> QED
    BY <2>2 DEF OneCurrentSummary
<1> QED
  BY <1>1, <1>2

\* No message is passed over: every message up to the boundary of the one current
\* summary was handed to a fold it is made from (service.compact, to _summarize),
\* and list_messages_after returns all the others.  What the cut of a transcript
\* leaves of a folded message is no part of this.
THEOREM NoMessageIsPassedOver == Spec => []EveryMessageIsFoldedOrPending
<1>1. IInv /\ WInv => EveryMessageIsFoldedOrPending
  BY OneSummary, CurrentIsRow DEF EveryMessageIsFoldedOrPending, WInv, Complete
<1> QED
  BY <1>1, Following, PTL

\* How few messages a turn leaves out when the compaction did not fail.
LEMMA GapIsBounded ==
    ASSUME NEW size \in Nat, NEW gap \in Nat, size <= Threshold \/ size <= RecentLimit,
           gap <= (IF RecentLimit > size THEN 0 ELSE size - RecentLimit)
    PROVE  gap <= Max({0, Threshold - RecentLimit})
<1> DEFINE d == Threshold - RecentLimit
<1>1. Threshold \in Nat /\ RecentLimit \in Nat /\ d \in Int
  BY MemoryAssumption DEF MemoryAssumption
<1>2. CASE d >= 0
  <2>1. {0, d} \in SUBSET Nat /\ {0, d} # {} /\ \A n \in {0, d} : n <= d
    BY <1>1, <1>2
  <2> HIDE DEF d
  <2>2. d \in Nat
    BY <1>1, <1>2
  <2>3. d <= Max({0, d}) /\ Max({0, d}) \in {0, d}
    BY <2>1, <2>2, MaxProperty
  <2>4. Max({0, d}) = d
    BY <2>2, <2>3
  <2>5. gap <= d
    BY <1>1, <1>2 DEF d
  <2> QED
    BY <2>4, <2>5 DEF d
<1>3. CASE d < 0
  <2>1. Max({0, d}) = 0
    <3> HIDE DEF d
    <3>1. 0 \in {0, d} /\ \A n \in {0, d} : 0 >= n
      BY <1>1, <1>3
    <3>2. \A x \in {0, d} : (\A n \in {0, d} : x >= n) => x = 0
      BY <1>1, <1>3
    <3> DEFINE T == {0, d}
    <3> HIDE DEF T
    <3>3. Max(T) = 0
      BY <3>1, <3>2 DEF Max, T
    <3> QED
      BY <3>3 DEF T
  <2>2. gap = 0
    BY <1>1, <1>3
  <2> QED
    BY <2>1, <2>2
<1> QED
  BY <1>1, <1>2, <1>3

\* The window ContextBuilder selects a turn's prompt from is the newest messages
\* after the summary, the turn's own the last of them, and what lies between
\* summary and window is bounded by the threshold unless the compaction failed.
\* What the token budget leaves of the window is ContextBuilderProofs' subject.
THEOREM WindowHoldsTheTurn == Spec => []WindowFollowsSummary
<1>1. ASSUME IInv, WInv PROVE WindowFollowsSummary
  <2> SUFFICES ASSUME waits, NEW r \in Request, reqs[r].pc = "stream"
               PROVE  LET q == reqs[r]
                          between == {m \in messages : m < q.own} \ (q.window \cup q.folded) IN
                      /\ q.own \in q.window /\ \A m \in q.window : m <= q.own
                      /\ Cardinality(q.window) <= RecentLimit
                      /\ \A m \in q.folded, n \in q.window : m < n
                      /\ \A b \in between : /\ \A m \in q.folded : m < b
                                            /\ \A n \in q.window : b < n
                      /\ ~q.degraded => Cardinality(between) <= Max({0, Threshold - RecentLimit})
    BY DEF WindowFollowsSummary
  <2> DEFINE q == reqs[r]
             between == {m \in messages : m < q.own} \ (q.window \cup q.folded)
  <2>1. FollowedRequest(q) /\ RecentLimit \in Nat /\ RecentLimit >= 4
    BY <1>1, Follows, MemoryAssumption DEF MemoryAssumption
  <2>2. IsNewest(q.own)
    BY <2>1 DEF FollowedRequest, Turns
  <2>3. PICK summary \in CurrentRows :
          /\ q.window = Newest(After(summary), RecentLimit)
          /\ q.folded = IF summary = None THEN {} ELSE summary.folded
    BY <2>1 DEF FollowedRequest
  <2>4. ~q.degraded => Fits(After(summary))
    BY <2>1 DEF FollowedRequest
  <2> DEFINE S == After(summary)
  <2>5. S \in SUBSET Message /\ S \subseteq messages
    BY <1>1, AfterType
  <2>6. /\ messages = q.folded \cup S
        /\ \A m \in q.folded, n \in S : m < n
        /\ q.own \in S
    <3>1. CASE summary = None
      BY <2>2, <2>3, <3>1 DEF After, IsNewest
    <3>2. CASE summary # None
      <4>1. PICK i \in Current : summary = summaries[i]
        BY <1>1, <3>2, CurrentIsRow
      <4>2. Complete(summary) /\ S = Later(summary) /\ SoundRow(summary) /\ summary.until < q.own
        BY <1>1, <2>2, <4>1, CurrentIsRow DEF WInv, IsNewest
      <4>3. /\ \A m \in summary.folded : m <= summary.until /\ m \in messages
            /\ summary.until \in messages
        BY <1>1, <4>2, BoundaryIsNewest DEF SoundRow
      <4>4. \A m \in messages : m \in Nat
        BY <1>1, MessagesAreNumbers DEF IInv, TypeOK
      <4>5. \A m \in summary.folded, n \in Later(summary) : m < n
        BY <4>3, <4>4 DEF Later
      <4>6. q.own \in Later(summary)
        BY <2>2, <4>2, <4>3, <4>4 DEF Later, IsNewest
      <4> QED
        BY <2>3, <3>2, <4>2, <4>5, <4>6 DEF Complete
    <3> QED
      BY <3>1, <3>2
  <2>7. q.window = Newest(S, RecentLimit)
    BY <2>3
  <2> HIDE DEF S
  <2>8. /\ Cardinality(q.window) <= RecentLimit
        /\ Cardinality(S \ q.window) <= (IF RecentLimit > Cardinality(S) THEN 0
                                         ELSE Cardinality(S) - RecentLimit)
        /\ \A m \in S \ q.window, k \in q.window : m < k
    <3> DEFINE T == Newest(S, RecentLimit)
    <3>1. /\ Cardinality(T) <= RecentLimit
          /\ Cardinality(S \ T) <= (IF RecentLimit > Cardinality(S) THEN 0
                                    ELSE Cardinality(S) - RecentLimit)
          /\ \A m \in S \ T, k \in T : m < k
      BY <2>1, <2>5, NewestCounts
    <3> HIDE DEF T
    <3> QED
      BY <2>7, <3>1 DEF T
  <2>9. q.own \in q.window
    <3>1. {k \in S : k > q.own} = {}
      <4>1. \A k \in S : k <= q.own /\ k \in Nat /\ q.own \in Nat
        BY <2>2, <2>5, <2>6, MessagesAreNumbers DEF IsNewest
      <4> QED
        BY <4>1
    <3>2. Cardinality({k \in S : k > q.own}) = 0
      BY <3>1, FS_EmptySet
    <3> QED
      BY <2>1, <2>3, <2>6, <3>2 DEF Newest, S
  <2>10. q.window \subseteq S
    BY <2>3 DEF Newest, S
  <2>11. /\ between \subseteq S \ q.window
         /\ \A m \in q.window : m <= q.own
    BY <2>2, <2>5, <2>6, <2>10 DEF IsNewest
  <2>12. ~q.degraded => Cardinality(between) <= Max({0, Threshold - RecentLimit})
    <3> SUFFICES ASSUME ~q.degraded
                 PROVE  Cardinality(between) <= Max({0, Threshold - RecentLimit})
      OBVIOUS
    <3> DEFINE rest == S \ q.window
    <3> HIDE DEF between
    <3>1. /\ IsFiniteSet(rest) /\ Cardinality(rest) \in Nat /\ Cardinality(S) \in Nat
          /\ between \subseteq rest
      BY <2>5, <2>11, MessagesAreFinite
    <3>2. Cardinality(between) \in Nat /\ Cardinality(between) <= Cardinality(rest)
      BY <3>1, FS_Subset, FS_CardinalityType
    <3>3. Cardinality(S) <= Threshold \/ Cardinality(S) <= RecentLimit
      BY <2>4 DEF Fits, S
    <3>4. Cardinality(between) <= (IF RecentLimit > Cardinality(S) THEN 0
                                   ELSE Cardinality(S) - RecentLimit)
      <4> DEFINE a == Cardinality(between)
                 b == Cardinality(rest)
                 c == Cardinality(S)
      <4>1. /\ a \in Nat /\ b \in Nat /\ c \in Nat /\ a <= b
            /\ b <= (IF RecentLimit > c THEN 0 ELSE c - RecentLimit)
        BY <2>8, <3>1, <3>2
      <4> HIDE DEF a, b, c
      <4>2. a <= (IF RecentLimit > c THEN 0 ELSE c - RecentLimit)
        BY <2>1, <4>1
      <4> QED
        BY <4>2 DEF a, c
    <3> QED
      BY <3>1, <3>2, <3>3, <3>4, GapIsBounded
  <2> QED
    BY <2>6, <2>8, <2>9, <2>10, <2>11, <2>12
<1> QED
  BY <1>1, Following, PTL

\* A summary that replaces another accounts for all it does and more, where clients
\* wait: no commit puts an older summary in the place of a newer one.
THEOREM CoverageAlwaysGrows == Spec => CoverageGrows
<1> DEFINE Grows == waits => \A i \in Current, j \in Current' :
                       i # j => summaries[i].folded \subseteq summaries'[j].folded
                                /\ summaries[i].until < summaries'[j].until
<1>1. ASSUME IInv, WInv, [Next]_vars PROVE [Grows]_summaries
  <2>1. ASSUME NEW r \in Request, CommitSummary(r), waits
        PROVE  \A i \in Current, j \in Current' :
                  i # j => summaries[i].folded \subseteq summaries'[j].folded
                           /\ summaries[i].until < summaries'[j].until
    <3>1. reqs[r].pc = "commit" /\ FollowedRequest(reqs[r])
      BY <1>1, <2>1, Follows DEF CommitSummary, Resumes
    <3>2. \A i \in Current : /\ summaries[i].folded \subseteq reqs[r].row.folded
                             /\ summaries[i].until < reqs[r].row.until
      BY <3>1 DEF FollowedRequest
    <3> QED
      BY <1>1, <2>1, <3>2, CommitAppends
  <2>2. ASSUME NEW r \in Request, Chat(r) PROVE summaries' = summaries
    BY <2>2 DEF Chat, Post, CommitMessage, PrepareSummary, PrepareMessages, Answer, GiveUp
  <2>3. ASSUME NEW r \in Request, Compaction(r), ~CommitSummary(r) PROVE summaries' = summaries
    BY <2>3 DEF Compaction, Compact, ReadCurrent, ReadPending, Summarized, SummaryFails,
                ReadNoCurrent, ReadOldCurrent
  <2>4. Restart \/ UNCHANGED vars => summaries' = summaries
    BY DEF Restart, vars
  <2> QED
    BY <1>1, <2>1, <2>2, <2>3, <2>4 DEF Next
<1> QED
  BY <1>1, Following, PTL DEF Spec, CoverageGrows

=============================================================================
