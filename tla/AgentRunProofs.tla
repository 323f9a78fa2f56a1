--------------------------- MODULE AgentRunProofs ---------------------------
(***************************************************************************)
(* Proofs about AgentRun for every set of cache keys, every lifetime and   *)
(* every limit on the steps of a run.  The invariant has a part for each   *)
(* thing a run keeps: the cached rows with the one it has looked up        *)
(* (CacheInv), the call it serves (CallInv), the conversation with the     *)
(* model (TranscriptInv) and the events its client sees (EventInv).        *)
(***************************************************************************)
EXTENDS AgentRun, SequenceTheorems, TLAPS

\* Where the calls of an answer are served, and where one of them is open.
InCall == {"decide", "mark", "reused", "launch", "wait", "drain", "save", "upsert"}
Calling == InCall \cup {"calls"}

\* A row is stored for no longer than the lifetime of its kind.
SoundRow(row) ==
    /\ row \in Row
    /\ TtlOf(row.ok) > 0
    /\ row.expires <= row.created + TtlOf(row.ok)

CacheInv ==
    /\ \A k \in Key : table[k] # None => SoundRow(table[k])
    /\ pc \in {"decide", "mark"} =>
          /\ decision.key \in Key
          /\ decision.asked <= now
          /\ decision.row # None => SoundRow(decision.row)
          /\ \/ table[decision.key] = decision.row
             \/ table[decision.key] # None /\ table[decision.key].created >= decision.asked
    /\ pc = "mark" => decision.row # None /\ decision.asked < decision.row.expires
    /\ ReusedWithinTtl
    /\ pc \in {"save", "upsert"} =>
          /\ decision.key \in Key
          /\ TtlOf(decision.ok) > 0
          /\ decision.expires <= now + TtlOf(decision.ok)

CallInv ==
    /\ pc \in Calling => calls \in Requests /\ served < Len(calls)
    /\ pc \in Calling \cup {"model"} => turn \in 1..StepLimit
    /\ pc \in InCall => skill # "none"
    /\ child = "running" => pc \in {"wait", "closed"}

\* The answer at i has a tool message for every call, and nothing else.
AnsweredIn(s, i) ==
    LET n == s[i].calls IN
    /\ Len(s) >= i + n
    /\ \A j \in 1..n : s[i + j] = [role |-> "tool", call |-> j]
    /\ Len(s) > i + n => s[i + n + 1].role = "assistant"

\* While calls are served, the last answer has a tool message for each call
\* that has been, and every earlier answer is answered.
TranscriptInv ==
    /\ pc \in {"idle", "select"} => transcript = <<>>
    /\ CallsAreAnswered
    /\ pc \in Calling =>
          LET last == Len(transcript) - served IN
          /\ last \in DOMAIN transcript
          /\ transcript[last] = [role |-> "assistant", calls |-> Len(calls)]
          /\ \A j \in 1..served : transcript[last + j] = [role |-> "tool", call |-> j]
          /\ \A i \in 1..(last - 1) : transcript[i].role = "assistant" => AnsweredIn(transcript, i)

\* StreamIsWellFormed of any sequence of events, kept or not in the history.
Stream(s, kept) ==
    /\ \A i \in 1..Len(s) :
          /\ s[i] = "script.started" =>
                i = Len(s) \/ s[i + 1] \in {"script.completed", "run.failed"}
          /\ s[i] = "script.completed" => i > 1 /\ s[i - 1] = "script.started"
          /\ s[i] \in Terminal => i = Len(s)
          /\ s[i] = "run.completed" => s[Len(s) - 1] = "message.completed"
          /\ s[i] = "run.failed" => ~kept
          /\ s[i] = "message.completed" => kept

Ended(s) == \E i \in 1..Len(s) : s[i] \in Terminal
LastIs(s, event) == Len(s) > 0 /\ s[Len(s)] = event

EventInv ==
    /\ Stream(events, stored)
    /\ pc # "closed" => ~Ended(events)
    /\ pc \in {"deliver", "extract"} => stored
    /\ pc \notin {"deliver", "extract", "closed"} => ~stored
    /\ pc = "extract" => LastIs(events, "message.completed")
    /\ pc \in InCall => LastIs(events, "script.started")
    /\ pc \notin InCall \cup {"closed"} => ~LastIs(events, "script.started")

IInv == TypeOK /\ CacheInv /\ CallInv /\ TranscriptInv /\ EventInv

-----------------------------------------------------------------------------
(* Lemmas about the limits, the calls and one call's answer. *)

LEMMA Limits ==
    ASSUME TypeOK
    PROVE  /\ StepLimit \in 1..MaxSteps /\ MaxSteps \in Nat /\ MaxCalls \in Nat
           /\ now \in Nat /\ MaxTime \in Nat /\ \A ok \in BOOLEAN : TtlOf(ok) \in Nat
  BY RunAssumption, CacheAssumption
     DEF RunAssumption, CacheAssumption, TypeOK, CacheTypeOK, StepLimit, TtlOf

LEMMA RequestsType ==
    ASSUME NEW asked \in Requests
    PROVE  /\ Len(asked) \in 1..MaxCalls /\ DOMAIN asked = 1..Len(asked)
           /\ \A i \in 1..Len(asked) : asked[i] \in Key \cup {"missing", "malformed"}
<1> DEFINE S == Key \cup {"missing", "malformed"}
<1>1. PICK n \in 1..MaxCalls : asked \in [1..n -> S]
  BY DEF Requests
<1> HIDE DEF S
<1>2. MaxCalls \in Nat /\ n \in Nat
  BY RunAssumption DEF RunAssumption
<1>3. asked \in Seq(S) /\ DOMAIN asked = 1..n
  BY <1>1, <1>2, SeqDef
<1>4. Len(asked) = n
  BY <1>2, <1>3, LenProperties
<1> QED
  BY <1>1, <1>3, <1>4 DEF S

LEMMA RowType ==
    ASSUME TypeOK, NEW ok \in BOOLEAN, NEW expires \in Nat
    PROVE  NewRow(ok, expires) \in Row
  BY DEF TypeOK, CacheTypeOK, NewRow, Row

LEMMA DecisionType ==
    /\ NoDecision \in Decision
    /\ \A d \in Decision :
          /\ d.key \in Key \cup {None} /\ d.row \in Row \cup {None} /\ d.asked \in 0..MaxTime
          /\ d.ok \in BOOLEAN /\ d.expires \in Nat
          /\ \A ok \in BOOLEAN : [d EXCEPT !.ok = ok] \in Decision
          /\ \A row \in Row \cup {None} : [d EXCEPT !.row = row] \in Decision
          /\ \A expires \in Nat : [d EXCEPT !.expires = expires] \in Decision
          /\ \A k \in Key : [d EXCEPT !.key = k] \in Decision
          /\ \A asked \in 0..MaxTime : [d EXCEPT !.asked = asked] \in Decision
<1>1. 0 \in 0..MaxTime
  BY CacheAssumption DEF CacheAssumption
<1> QED
  BY <1>1 DEF NoDecision, Decision

LEMMA LookedUp ==
    ASSUME NEW k \in Key, NEW row \in Row \cup {None}, NEW asked \in 0..MaxTime
    PROVE  LET d == [NoDecision EXCEPT !.key = k, !.row = row, !.asked = asked] IN
           d \in Decision /\ d.key = k /\ d.row = row /\ d.asked = asked
<1>1. [NoDecision EXCEPT !.key = k, !.row = row, !.asked = asked] =
         [[[NoDecision EXCEPT !.key = k] EXCEPT !.row = row] EXCEPT !.asked = asked]
  BY DEF NoDecision
<1>2. [[[NoDecision EXCEPT !.key = k] EXCEPT !.row = row] EXCEPT !.asked = asked] \in Decision
  BY DecisionType
<1> QED
  BY <1>1, <1>2 DEF NoDecision

\* What the answer to a call sends, after what was sent before it.
Closing == {<<"script.completed">>, <<"script.completed", "run.failed">>}

LEMMA AnsweredStep ==
    ASSUME TypeOK, CallInv, pc \in Calling, NEW before, Answered(before)
    PROVE  LET answer == [role |-> "tool", call |-> served + 1] IN
           /\ answer \in Message
           /\ transcript' = Append(transcript, answer)
           /\ served' = served + 1 /\ served \in Nat /\ served < Len(calls)
           /\ Len(calls) \in 1..MaxCalls
           /\ pc' \in {"calls", "model", "closed"}
           /\ pc' = "calls" => served + 1 < Len(calls) /\ turn' = turn
           /\ pc' = "model" => served + 1 = Len(calls) /\ turn < StepLimit /\ turn' = turn + 1
           /\ pc' = "closed" => turn' = turn
           /\ \E new \in Closing :
                 Emit(before \o new) /\ (pc' = "closed" <=> new = <<"script.completed", "run.failed">>)
           /\ decision' = NoDecision /\ UNCHANGED <<skill, refresh, calls>>
<1> DEFINE answer == [role |-> "tool", call |-> served + 1]
<1>1. Len(calls) \in 1..MaxCalls /\ served < Len(calls) /\ served \in 0..MaxCalls /\ MaxCalls \in Nat
  BY RequestsType, Limits DEF CallInv, TypeOK
<1> DEFINE n == Len(calls)
<1> HIDE DEF n
<1>2. served + 1 \in 1..MaxCalls
  BY <1>1 DEF n
<1>3. answer \in Message
  BY <1>2 DEF Message
<1>4. transcript' = transcript \o <<answer>> /\ transcript \in Seq(Message)
  BY DEF Answered, ToolMessage, TypeOK
<1>5. transcript' = Append(transcript, answer)
  BY <1>3, <1>4, AppendIsConcat
<1>6. /\ pc' \in {"calls", "model", "closed"}
      /\ pc' = "calls" => served + 1 < Len(calls) /\ turn' = turn
      /\ pc' = "model" => served + 1 = Len(calls) /\ turn < StepLimit /\ turn' = turn + 1
      /\ pc' = "closed" => turn' = turn
  BY DEF Answered
<1>7. \E new \in Closing :
         Emit(before \o new) /\ (pc' = "closed" <=> new = <<"script.completed", "run.failed">>)
  BY DEF Answered, Closing
<1> QED
  BY <1>1, <1>3, <1>5, <1>6, <1>7 DEF Answered

-----------------------------------------------------------------------------
(* Types. *)

LEMMA EventTuples ==
    /\ <<"run.started", "select.started">> \in Seq(Event)
    /\ <<"select.completed">> \in Seq(Event)
    /\ <<"run.failed">> \in Seq(Event)
    /\ <<>> \in Seq(Event) /\ <<"script.started">> \in Seq(Event)
    /\ Closing \subseteq Seq(Event)
    /\ <<"message.completed">> \in Seq(Event)
    /\ <<"run.completed">> \in Seq(Event)
  BY DEF Event, Terminal, Closing

LEMMA EmitType ==
    ASSUME TypeOK, NEW new \in Seq(Event), Emit(new)
    PROVE  events' \in Seq(Event) /\ stored' \in BOOLEAN
  BY ConcatProperties DEF Emit, TypeOK

LEMMA AnsweredType ==
    ASSUME TypeOK, CallInv, pc \in Calling, NEW before \in {<<>>, <<"script.started">>},
           Answered(before)
    PROVE  /\ pc' \in {"calls", "model", "closed"} /\ skill' \in Skills /\ refresh' \in BOOLEAN
           /\ turn' \in 0..MaxSteps /\ calls' \in Requests \cup {<<>>} /\ served' \in 0..MaxCalls
           /\ transcript' \in Seq(Message) /\ events' \in Seq(Event) /\ stored' \in BOOLEAN
           /\ decision' \in Decision
<1>1. transcript' \in Seq(Message)
  BY AnsweredStep, AppendProperties DEF TypeOK
<1>2. events' \in Seq(Event) /\ stored' \in BOOLEAN
  <2>1. PICK new \in Closing : Emit(before \o new)
    BY AnsweredStep
  <2>2. before \o new \in Seq(Event)
    BY EventTuples, ConcatProperties
  <2> QED
    BY <2>1, <2>2, EmitType
<1>3. served' \in 0..MaxCalls
  <2> DEFINE n == Len(calls)
  <2>1. served' = served + 1 /\ served \in Nat /\ served < n /\ n \in 1..MaxCalls
    BY AnsweredStep
  <2> HIDE DEF n
  <2> QED
    BY <2>1, Limits
<1>4. turn' \in 0..MaxSteps
  <2>1. turn' = turn \/ (turn < StepLimit /\ turn' = turn + 1)
    BY AnsweredStep
  <2> QED
    BY <2>1, Limits DEF TypeOK
<1> QED
  BY <1>1, <1>2, <1>3, <1>4, AnsweredStep, DecisionType DEF TypeOK

\* A step that answers a call and leaves the cache and the process alone, but
\* for what it stores.
LEMMA AnsweredTypeOK ==
    ASSUME TypeOK, CallInv, pc \in Calling, NEW before \in {<<>>, <<"script.started">>},
           Answered(before), CacheTypeOK', UNCHANGED <<child, open>>
    PROVE  TypeOK'
  BY AnsweredType DEF TypeOK

LEMMA CallTypeOK ==
    ASSUME TypeOK, CallInv, CacheInv, Call
    PROVE  TypeOK'
<1>1. UNCHANGED cacheVars => CacheTypeOK'
  BY DEF cacheVars, TypeOK, CacheTypeOK
<1>2. CASE RefuseCall
  BY <1>1, <1>2, AnsweredTypeOK DEF RefuseCall, Calling
<1>3. CASE Reuse
  BY <1>1, <1>3, AnsweredTypeOK DEF Reuse, Calling, InCall
<1>4. CASE RejectScript
  BY <1>1, <1>4, AnsweredTypeOK DEF RejectScript, Calling, InCall
<1>5. CASE ResolveCall
  <2>1. events' \in Seq(Event) /\ stored' \in BOOLEAN
    BY <1>5, EventTuples, EmitType DEF ResolveCall
  <2>2. pc' \in {"launch", "decide"}
    BY <1>5 DEF ResolveCall
  <2>3. decision' \in Decision
    <3> DEFINE k == calls[served + 1]
    <3>1. k \in Key => table[k] \in Row \cup {None} /\ now \in 0..MaxTime
      BY DEF TypeOK, CacheTypeOK
    <3>2. CASE decision' = NoDecision
      BY <3>2, DecisionType
    <3>3. CASE k \in Key /\ decision' = [NoDecision EXCEPT !.key = k]
      BY <3>3, DecisionType
    <3>4. CASE /\ k \in Key
               /\ decision' = [NoDecision EXCEPT !.key = k, !.row = table[k], !.asked = now]
      <4> DEFINE row == table[k]
      <4>1. k \in Key /\ row \in Row \cup {None} /\ now \in 0..MaxTime
        BY <3>1, <3>4
      <4>2. decision' = [NoDecision EXCEPT !.key = k, !.row = row, !.asked = now]
        BY <3>4
      <4> HIDE DEF k, row
      <4> QED
        BY <4>1, <4>2, LookedUp
    <3> QED
      BY <1>5, <3>2, <3>3, <3>4 DEF ResolveCall
  <2> QED
    BY <1>1, <1>5, <2>1, <2>2, <2>3 DEF ResolveCall, runVars, TypeOK
<1>6. CASE Decide
  BY <1>1, <1>6 DEF Decide, At, runVars, answerVars, callVars, TypeOK
<1>7. CASE MarkHit
  <2>1. decision' \in Decision
    <3>1. decision.key \in Key
      BY <1>7 DEF MarkHit, At, CacheInv
    <3>2. table[decision.key] \in Row \cup {None} /\ decision \in Decision
      BY <3>1 DEF TypeOK, CacheTypeOK
    <3> QED
      BY <1>7, <3>2, DecisionType DEF MarkHit
  <2> QED
    BY <1>1, <1>7, <2>1 DEF MarkHit, At, runVars, answerVars, TypeOK
<1>8. CASE StartScript
  BY <1>1, <1>8 DEF StartScript, At, runVars, answerVars, TypeOK
<1>9. CASE WaitReturns
  <2>1. decision' \in Decision
    BY <1>9, DecisionType DEF WaitReturns, TypeOK
  <2> QED
    BY <1>1, <1>9, <2>1 DEF WaitReturns, At, runVars, answerVars, TypeOK
<1>10. CASE Timeout
  <2>1. decision' \in Decision
    BY <1>10, DecisionType DEF Timeout, TypeOK
  <2> QED
    BY <1>1, <1>10, <2>1 DEF Timeout, At, runVars, answerVars, TypeOK, PipesAfterExit
<1>11. CASE Drain
  <2>1. CASE Answered(<<>>)
    BY <1>1, <1>11, <2>1, AnsweredTypeOK DEF Drain, Calling, InCall
  <2>2. CASE /\ pc' = "save" /\ UNCHANGED <<runVars, answerVars>>
             /\ decision' = [decision EXCEPT !.expires = now + TtlOf(decision.ok)]
    <3>1. now + TtlOf(decision.ok) \in Nat
      BY Limits, DecisionType DEF TypeOK
    <3>2. decision' \in Decision
      BY <2>2, <3>1, DecisionType DEF TypeOK
    <3> QED
      BY <1>1, <1>11, <2>2, <3>2 DEF Drain, runVars, answerVars, TypeOK
  <2> QED
    BY <1>11, <2>1, <2>2 DEF Drain
<1>12. CASE ReadForUpsert
  <2>1. decision' \in Decision
    <3>1. decision.key \in Key
      BY <1>12 DEF ReadForUpsert, At, CacheInv
    <3>2. table[decision.key] \in Row \cup {None} /\ decision \in Decision
      BY <3>1 DEF TypeOK, CacheTypeOK
    <3> QED
      BY <1>12, <3>2, DecisionType DEF ReadForUpsert
  <2> QED
    BY <1>1, <1>12, <2>1 DEF ReadForUpsert, At, runVars, answerVars, TypeOK
<1>13. CASE Upsert
  <2>1. CacheTypeOK'
    <3>1. NewRow(decision.ok, decision.expires) \in Row
      BY RowType, DecisionType DEF TypeOK
    <3> QED
      BY <1>13, <3>1 DEF Upsert, Upserted, TypeOK, CacheTypeOK
  <2> QED
    BY <1>13, <2>1, AnsweredTypeOK DEF Upsert, Calling, InCall
<1> QED
  BY <1>2, <1>3, <1>4, <1>5, <1>6, <1>7, <1>8, <1>9, <1>10, <1>11, <1>12, <1>13 DEF Call

LEMMA NextTypeOK ==
    ASSUME TypeOK, CallInv, CacheInv, [Next]_vars
    PROVE  TypeOK'
<1>1. UNCHANGED cacheVars => CacheTypeOK'
  BY DEF cacheVars, TypeOK, CacheTypeOK
<1>2. CASE Start
  <2>1. events' \in Seq(Event) /\ stored' \in BOOLEAN
    BY <1>2, EventTuples, EmitType DEF Start
  <2> QED
    BY <1>1, <1>2, <2>1 DEF Start, At, callVars, TypeOK
<1>3. CASE SelectSkill
  <2>1. events' \in Seq(Event) /\ stored' \in BOOLEAN
    BY <1>3, EventTuples, EmitType DEF SelectSkill
  <2>2. 1 \in 0..MaxSteps
    BY Limits
  <2> QED
    BY <1>1, <1>3, <2>1, <2>2 DEF SelectSkill, At, callVars, TypeOK
<1>4. CASE RunFails
  <2>1. events' \in Seq(Event) /\ stored' \in BOOLEAN
    BY <1>4, EventTuples, EmitType DEF RunFails, Fail
  <2> QED
    BY <1>1, <1>4, <2>1 DEF RunFails, Fail, runVars, callVars, TypeOK
<1>5. CASE \E asked \in Requests : ModelCalls(asked)
  <2>1. PICK asked \in Requests : ModelCalls(asked)
    BY <1>5
  <2>2. transcript' \in Seq(Message)
    <3> DEFINE m == [role |-> "assistant", calls |-> Len(asked)]
    <3>1. m \in Message
      BY RequestsType DEF Message
    <3> QED
      BY <2>1, <3>1, AppendProperties DEF ModelCalls, TypeOK
  <2> QED
    BY <1>1, <2>1, <2>2, Limits DEF ModelCalls, At, answerVars, callVars, TypeOK
<1>6. CASE ModelAnswers \/ StoreAnswer \/ StreamBreaks \/ ScriptExits \/ HelperEnds
  BY <1>1, <1>6
     DEF ModelAnswers, StoreAnswer, StreamBreaks, ScriptExits, HelperEnds, At, PipesAfterExit,
         runVars, answerVars, callVars, TypeOK
<1>7. CASE DeliverAnswer \/ Complete
  <2>1. events' \in Seq(Event) /\ stored' \in BOOLEAN
    BY <1>7, EventTuples, EmitType DEF DeliverAnswer, Complete
  <2> QED
    BY <1>1, <1>7, <2>1 DEF DeliverAnswer, Complete, At, runVars, callVars, TypeOK
<1>8. CASE Disconnect
  BY <1>1, <1>8, DecisionType DEF Disconnect, runVars, answerVars, TypeOK
<1>9. CASE Tick /\ UNCHANGED <<pc, runVars, answerVars, callVars>>
  <2>1. CacheTypeOK'
    BY <1>9, Limits DEF Tick, TypeOK, CacheTypeOK
  <2> QED
    BY <1>9, <2>1 DEF runVars, answerVars, callVars, TypeOK
<1>10. CASE \E k \in Key : StoredElsewhere(k) /\ UNCHANGED <<pc, runVars, answerVars, callVars>>
  <2>1. CacheTypeOK'
    <3>1. PICK k \in Key, ok \in BOOLEAN, since \in 0..now :
             table' = [table EXCEPT ![k] = NewRow(ok, since + TtlOf(ok))] /\ UNCHANGED now
      BY <1>10 DEF StoredElsewhere
    <3>2. since + TtlOf(ok) \in Nat
      BY Limits
    <3>3. NewRow(ok, since + TtlOf(ok)) \in Row
      BY <3>2, RowType
    <3> QED
      BY <3>1, <3>3 DEF TypeOK, CacheTypeOK
  <2> QED
    BY <1>10, <2>1 DEF runVars, answerVars, callVars, TypeOK
<1>11. CASE UNCHANGED vars
  BY <1>1, <1>11 DEF vars, runVars, answerVars, callVars, TypeOK
<1> QED
  BY <1>2, <1>3, <1>4, <1>5, <1>6, <1>7, <1>8, <1>9, <1>10, <1>11, CallTypeOK
     DEF Next, Run, Environment

-----------------------------------------------------------------------------
(* The calls of an answer, the step limit and the process. *)

LEMMA AnsweredCallInv ==
    ASSUME TypeOK, CallInv, pc \in Calling, pc # "wait", NEW before, Answered(before), child' = child
    PROVE  CallInv'
<1>1. /\ pc' \in {"calls", "model", "closed"}
      /\ pc' = "calls" => served' < Len(calls')
      /\ calls' = calls /\ skill' = skill
  BY AnsweredStep
<1>2. pc' \in Calling \cup {"model"} => turn' \in 1..StepLimit'
  <2>1. StepLimit' = StepLimit
    BY <1>1 DEF StepLimit
  <2>2. turn \in 1..StepLimit
    BY DEF CallInv
  <2>3. pc' # "closed" => turn' = turn \/ (turn' = turn + 1 /\ turn < StepLimit)
    BY AnsweredStep
  <2>4. pc' # "closed" => turn' \in 1..StepLimit
    BY <2>2, <2>3, Limits
  <2> QED
    BY <2>1, <2>4 DEF Calling, InCall
<1>3. child # "running" /\ calls \in Requests
  BY DEF CallInv, Calling, InCall
<1> QED
  BY <1>1, <1>2, <1>3 DEF CallInv, Calling, InCall

LEMMA CallCallInv ==
    ASSUME TypeOK, CallInv, Call
    PROVE  CallInv'
<1>1. CASE RefuseCall \/ Reuse \/ RejectScript \/ Upsert
  BY <1>1, AnsweredCallInv DEF RefuseCall, Reuse, RejectScript, Upsert, Calling, InCall
<1>2. CASE ResolveCall \/ Decide \/ MarkHit \/ StartScript \/ WaitReturns \/ Timeout \/ ReadForUpsert
  <2>1. /\ UNCHANGED runVars /\ pc \in Calling /\ pc' \in InCall
        /\ pc = "calls" => skill # "none"
    BY <1>2 DEF ResolveCall, Decide, MarkHit, StartScript, WaitReturns, Timeout, ReadForUpsert,
                At, Calling, InCall
  <2>2. child' = "running" => pc' = "wait"
    BY <1>2 DEF ResolveCall, Decide, MarkHit, StartScript, WaitReturns, Timeout, ReadForUpsert,
                At, callVars, CallInv
  <2>3. StepLimit' = StepLimit
    BY <2>1 DEF runVars, StepLimit
  <2> QED
    BY <2>1, <2>2, <2>3 DEF CallInv, Calling, runVars
<1>3. CASE Drain
  <2>1. CASE Answered(<<>>)
    BY <1>3, <2>1, AnsweredCallInv DEF Drain, Calling, InCall
  <2>2. CASE pc' = "save" /\ UNCHANGED runVars
    <3>1. StepLimit' = StepLimit
      BY <2>2 DEF runVars, StepLimit
    <3> QED
      BY <1>3, <2>2, <3>1 DEF Drain, CallInv, Calling, InCall, runVars
  <2> QED
    BY <1>3, <2>1, <2>2 DEF Drain
<1> QED
  BY <1>1, <1>2, <1>3 DEF Call

LEMMA NextCallInv ==
    ASSUME TypeOK, CallInv, [Next]_vars
    PROVE  CallInv'
<1>1. CASE SelectSkill
  <2>1. 1 \in 1..StepLimit'
    BY RunAssumption DEF RunAssumption, StepLimit
  <2> QED
    BY <1>1, <2>1 DEF SelectSkill, At, CallInv, Calling, InCall, callVars
<1>2. CASE \E asked \in Requests : ModelCalls(asked)
  <2>1. PICK asked \in Requests : ModelCalls(asked)
    BY <1>2
  <2>2. StepLimit' = StepLimit /\ served' < Len(calls')
    BY <2>1, RequestsType DEF ModelCalls, StepLimit
  <2> QED
    BY <2>1, <2>2 DEF ModelCalls, At, CallInv, Calling, InCall, callVars
<1>3. CASE Start \/ RunFails \/ ModelAnswers \/ StoreAnswer \/ DeliverAnswer \/ Complete
              \/ StreamBreaks \/ Disconnect
  <2>1. pc' \notin Calling \cup {"model"} /\ child' = child /\ (pc = "wait" => pc' = "closed")
    BY <1>3 DEF Start, RunFails, Fail, ModelAnswers, StoreAnswer, DeliverAnswer, Complete,
                StreamBreaks, Disconnect, At, callVars, Calling, InCall
  <2>2. pc = "closed" => pc' = "closed"
    BY <1>3 DEF Start, RunFails, Fail, ModelAnswers, StoreAnswer, DeliverAnswer, Complete,
                StreamBreaks, Disconnect, At
  <2> QED
    BY <2>1, <2>2 DEF CallInv, Calling
<1>4. ASSUME UNCHANGED <<pc, runVars>>, child' = "running" => child = "running" PROVE CallInv'
  <2>1. StepLimit' = StepLimit
    BY <1>4 DEF runVars, StepLimit
  <2> QED
    BY <1>4, <2>1 DEF CallInv, runVars
<1>5. CASE ScriptExits \/ HelperEnds
  BY <1>4, <1>5 DEF ScriptExits, HelperEnds
<1>6. CASE \/ Tick /\ UNCHANGED <<pc, runVars, answerVars, callVars>>
           \/ \E k \in Key : StoredElsewhere(k) /\ UNCHANGED <<pc, runVars, answerVars, callVars>>
           \/ UNCHANGED vars
  BY <1>4, <1>6 DEF callVars, vars
<1> QED
  BY <1>1, <1>2, <1>3, <1>5, <1>6, CallCallInv DEF Next, Run, Environment

-----------------------------------------------------------------------------
(* The cache and the decision made from it. *)

\* The result of a call is a sound row of the time it is stored at.
LEMMA NewRowSound ==
    ASSUME TypeOK, NEW ok \in BOOLEAN, NEW expires \in Nat, TtlOf(ok) > 0,
           expires <= now + TtlOf(ok)
    PROVE  /\ SoundRow(NewRow(ok, expires)) /\ NewRow(ok, expires).created = now
           /\ NewRow(ok, expires) # None
<1>1. NewRow(ok, expires) \in Row
  BY RowType
<1> QED
  BY <1>1, NullAssumption DEF NullAssumption, SoundRow, NewRow

\* A sound row that had not expired when the call looked it up, or was stored
\* after that, was within its lifetime.
LEMMA WithinTtl ==
    ASSUME NEW row, SoundRow(row), NEW asked \in Nat,
           asked < row.expires \/ row.created >= asked
    PROVE  asked - row.created < TtlOf(row.ok)
<1>1. /\ row.created \in Nat /\ row.expires \in Nat /\ TtlOf(row.ok) \in Nat
      /\ TtlOf(row.ok) > 0 /\ row.expires <= row.created + TtlOf(row.ok)
  BY CacheAssumption DEF CacheAssumption, SoundRow, Row, TtlOf
<1> DEFINE ttl == TtlOf(row.ok)
<1> HIDE DEF ttl
<1>2. asked - row.created < ttl
  BY <1>1 DEF ttl
<1> QED
  BY <1>2 DEF ttl

\* A step that keeps the table and leaves the call with no decision to keep.
LEMMA NoDecisionToKeep ==
    ASSUME CacheInv, table' = table, pc' \notin {"decide", "mark", "reused", "save", "upsert"}
    PROVE  CacheInv'
  BY DEF CacheInv, ReusedWithinTtl, SoundRow, TtlOf

LEMMA CallCacheInv ==
    ASSUME TypeOK, CallInv, CacheInv, Call
    PROVE  CacheInv'
<1>1. decision \in Decision /\ now \in Nat /\ decision.asked \in Nat
  BY DecisionType, Limits DEF TypeOK
<1>2. CASE RefuseCall \/ Reuse \/ RejectScript \/ StartScript \/ WaitReturns \/ Timeout
  <2>1. RefuseCall \/ Reuse \/ RejectScript => pc' \in {"calls", "model", "closed"}
    BY AnsweredStep DEF RefuseCall, Reuse, RejectScript, Calling, InCall
  <2>2. StartScript \/ WaitReturns \/ Timeout => pc' \in {"wait", "drain"}
    BY DEF StartScript, WaitReturns, Timeout, At
  <2>3. table' = table
    BY <1>2 DEF RefuseCall, Reuse, RejectScript, StartScript, WaitReturns, Timeout, cacheVars
  <2> QED
    BY <1>2, <2>1, <2>2, <2>3, NoDecisionToKeep
<1>3. CASE ResolveCall
  <2>1. table' = table /\ now' = now
    BY <1>3 DEF ResolveCall, cacheVars
  <2>2. CASE pc' = "launch"
    BY <2>1, <2>2, NoDecisionToKeep
  <2>3. CASE pc' = "decide"
    <3>1. PICK k \in Key :
            decision' = [NoDecision EXCEPT !.key = k, !.row = table[k], !.asked = now]
      BY <1>3, <2>3 DEF ResolveCall
    <3>2. PICK row, asked :
            /\ row = table[k] /\ asked = now
            /\ decision' = [NoDecision EXCEPT !.key = k, !.row = row, !.asked = asked]
      BY <3>1
    <3>3. decision'.key = k /\ decision'.row = row /\ decision'.asked = asked
      BY <3>2 DEF NoDecision
    <3> QED
      BY <1>1, <2>1, <2>3, <3>2, <3>3 DEF CacheInv, ReusedWithinTtl, SoundRow, TtlOf
  <2> QED
    BY <1>3, <2>2, <2>3 DEF ResolveCall
<1>4. CASE Decide
  <2>1. table' = table /\ now' = now /\ decision' = decision /\ pc = "decide"
    BY <1>4 DEF Decide, At, cacheVars, callVars
  <2>2. CASE pc' = "launch"
    BY <2>1, <2>2, NoDecisionToKeep
  <2>3. CASE pc' = "mark" /\ Live(decision.row)
    <3>1. decision.row # None /\ now < decision.row.expires
      BY <2>3 DEF Live
    <3>2. decision.asked <= now /\ decision.row.expires \in Nat
      BY <2>1, <3>1 DEF CacheInv, SoundRow, Row
    <3>3. decision.asked < decision.row.expires
      BY <1>1, <3>1, <3>2
    <3> QED
      BY <2>1, <2>3, <3>1, <3>3 DEF CacheInv, ReusedWithinTtl, SoundRow, TtlOf
  <2> QED
    BY <1>4, <2>2, <2>3 DEF Decide, At
<1>5. CASE MarkHit
  <2>1. table' = table /\ pc = "mark" /\ pc' = "reused"
    BY <1>5 DEF MarkHit, At, cacheVars
  <2>2. PICK row \in {decision.row, table[decision.key]} : decision' = [decision EXCEPT !.row = row]
    BY <1>5 DEF MarkHit
  <2>3. decision.key \in Key /\ SoundRow(decision.row) /\ decision.asked < decision.row.expires
    BY <2>1 DEF CacheInv
  <2>4. SoundRow(row) /\ (decision.asked < row.expires \/ row.created >= decision.asked)
    BY <2>1, <2>2, <2>3 DEF CacheInv
  <2>5. decision.asked - row.created < TtlOf(row.ok)
    BY <1>1, <2>4, WithinTtl
  <2>6. decision'.asked = decision.asked /\ decision'.row = row
    BY <1>1, <2>2 DEF Decision
  <2>7. ReusedWithinTtl'
    BY <2>5, <2>6 DEF ReusedWithinTtl, TtlOf
  <2> QED
    BY <2>1, <2>7 DEF CacheInv, SoundRow, TtlOf
<1>6. CASE Drain
  <2>1. table' = table /\ now' = now
    BY <1>6 DEF Drain, cacheVars
  <2>2. CASE Answered(<<>>)
    <3>1. pc' \in {"calls", "model", "closed"}
      BY <1>6, <2>2, AnsweredStep DEF Drain, Calling, InCall
    <3> QED
      BY <2>1, <3>1, NoDecisionToKeep
  <2>3. CASE /\ decision.key # None /\ TtlOf(decision.ok) > 0 /\ pc' = "save"
             /\ decision' = [decision EXCEPT !.expires = now + TtlOf(decision.ok)]
    <3>1. decision.key \in Key
      BY <1>1, <2>3 DEF Decision
    <3>2. /\ decision'.key = decision.key /\ decision'.ok = decision.ok
          /\ decision'.expires = now + TtlOf(decision.ok) /\ decision.ok \in BOOLEAN
      BY <1>1, <2>3 DEF Decision
    <3>3. TtlOf(decision.ok) \in Nat
      BY <3>2, Limits
    <3>4. decision'.expires <= now' + TtlOf(decision.ok)
      BY <1>1, <2>1, <3>2, <3>3
    <3> QED
      BY <2>1, <2>3, <3>1, <3>2, <3>4 DEF CacheInv, ReusedWithinTtl, SoundRow, TtlOf
  <2> QED
    BY <1>6, <2>2, <2>3 DEF Drain
<1>7. CASE ReadForUpsert
  <2>1. /\ decision'.key = decision.key /\ decision'.ok = decision.ok
        /\ decision'.expires = decision.expires
    BY <1>1, <1>7 DEF ReadForUpsert, Decision
  <2>2. table' = table /\ now' = now /\ pc = "save" /\ pc' = "upsert"
    BY <1>7 DEF ReadForUpsert, At, cacheVars
  <2> QED
    BY <2>1, <2>2 DEF CacheInv, ReusedWithinTtl, SoundRow, TtlOf
<1>8. CASE Upsert
  <2>1. pc' \in {"calls", "model", "closed"}
    BY <1>8, AnsweredStep DEF Upsert, Calling, InCall
  <2>2. SoundRow(NewRow(decision.ok, decision.expires))
    <3>1. decision.ok \in BOOLEAN /\ decision.expires \in Nat
      BY <1>1, DecisionType
    <3>2. TtlOf(decision.ok) > 0 /\ decision.expires <= now + TtlOf(decision.ok)
      BY <1>8 DEF Upsert, CacheInv
    <3> QED
      BY <3>1, <3>2, NewRowSound
  <2>3. \A k \in Key : table'[k] # None => SoundRow(table'[k])
    BY <1>8, <2>2 DEF Upsert, Upserted, CacheInv, TypeOK, CacheTypeOK
  <2> QED
    BY <2>1, <2>3 DEF CacheInv, ReusedWithinTtl, SoundRow, TtlOf
<1> QED
  BY <1>2, <1>3, <1>4, <1>5, <1>6, <1>7, <1>8 DEF Call

LEMMA NextCacheInv ==
    ASSUME TypeOK, CallInv, CacheInv, [Next]_vars
    PROVE  CacheInv'
<1>1. now \in Nat /\ decision \in Decision /\ decision.asked \in Nat /\ decision.expires \in Nat
      /\ decision.ok \in BOOLEAN /\ TtlOf(decision.ok) \in Nat
  BY DecisionType, Limits DEF TypeOK
<1>2. CASE Start \/ SelectSkill \/ RunFails \/ ModelAnswers \/ (\E asked \in Requests : ModelCalls(asked))
              \/ StoreAnswer \/ DeliverAnswer \/ Complete \/ StreamBreaks \/ Disconnect
  <2>1. table' = table /\ pc' \notin {"decide", "mark", "reused", "save", "upsert"}
    BY <1>2 DEF Start, SelectSkill, RunFails, Fail, ModelAnswers, ModelCalls, StoreAnswer,
                DeliverAnswer, Complete, StreamBreaks, Disconnect, At, cacheVars
  <2> QED
    BY <2>1, NoDecisionToKeep
<1>3. CASE ScriptExits \/ HelperEnds \/ UNCHANGED vars
  <2>1. table' = table /\ now' = now /\ decision' = decision /\ pc' = pc
    BY <1>3 DEF ScriptExits, HelperEnds, vars, callVars, cacheVars
  <2> QED
    BY <2>1 DEF CacheInv, ReusedWithinTtl, SoundRow, TtlOf
<1>4. CASE Tick /\ UNCHANGED <<pc, runVars, answerVars, callVars>>
  <2>1. table' = table /\ now' = now + 1 /\ decision' = decision /\ pc' = pc
    BY <1>4 DEF Tick, callVars
  <2>2. decision.asked <= now => decision.asked <= now'
    BY <1>1, <2>1
  <2>3. decision.expires <= now + TtlOf(decision.ok) => decision.expires <= now' + TtlOf(decision.ok)
    BY <1>1, <2>1
  <2> QED
    BY <2>1, <2>2, <2>3 DEF CacheInv, ReusedWithinTtl, SoundRow, TtlOf
<1>5. CASE \E k \in Key : StoredElsewhere(k) /\ UNCHANGED <<pc, runVars, answerVars, callVars>>
  <2>1. PICK k \in Key, ok \in BOOLEAN, since \in 0..now :
           /\ TtlOf(ok) > 0 /\ table' = [table EXCEPT ![k] = NewRow(ok, since + TtlOf(ok))]
           /\ now' = now
    BY <1>5 DEF StoredElsewhere
  <2>2. PICK row : row = NewRow(ok, since + TtlOf(ok))
    OBVIOUS
  <2>3. SoundRow(row) /\ row.created = now /\ row # None
    <3>1. TtlOf(ok) \in Nat
      BY Limits
    <3>2. since + TtlOf(ok) \in Nat /\ since + TtlOf(ok) <= now + TtlOf(ok)
      BY <1>1, <3>1
    <3> QED
      BY <2>1, <2>2, <3>2, NewRowSound
  <2>4. \A j \in Key : table'[j] = table[j] \/ table'[j] = row
    BY <2>1, <2>2 DEF TypeOK, CacheTypeOK
  <2>5. decision' = decision /\ pc' = pc
    BY <1>5 DEF callVars
  <2> QED
    BY <2>1, <2>3, <2>4, <2>5 DEF CacheInv, ReusedWithinTtl, SoundRow, TtlOf
<1> QED
  BY <1>2, <1>3, <1>4, <1>5, CallCacheInv DEF Next, Run, Environment

-----------------------------------------------------------------------------
(* The conversation. *)

LEMMA MessageShape ==
    ASSUME NEW m \in Message
    PROVE  m.role = "assistant" => m.calls \in 1..MaxCalls /\ m.calls \in Nat
  BY RunAssumption DEF RunAssumption, Message

\* What is answered stays answered when the conversation goes on.
LEMMA StaysAnswered ==
    ASSUME NEW s \in Seq(Message), NEW m \in Message, NEW i \in 1..Len(s),
           s[i].role = "assistant", AnsweredIn(s, i),
           m.role = "assistant" \/ i + s[i].calls < Len(s)
    PROVE  AnsweredIn(Append(s, m), i)
<1> DEFINE t == Append(s, m)
           len == Len(s)
           n == s[i].calls
<1>1. /\ Len(t) = len + 1 /\ len \in Nat /\ t[len + 1] = m
      /\ \A j \in 1..len : t[j] = s[j]
  BY AppendProperties, LenProperties
<1>2. n \in Nat
  BY MessageShape, ElementOfSeq
<1>3. len >= i + n /\ \A j \in 1..n : s[i + j] = [role |-> "tool", call |-> j]
  BY DEF AnsweredIn
<1>4. len > i + n => s[i + n + 1].role = "assistant"
  BY DEF AnsweredIn
<1> HIDE DEF t, len, n
<1>5. i \in Nat /\ i >= 1 /\ i <= len
  BY <1>1 DEF len
<1>6. \A j \in 1..n : i + j \in 1..len
  BY <1>1, <1>2, <1>3, <1>5
<1>7. t[i] = s[i] /\ Len(t) >= i + n
  BY <1>1, <1>2, <1>3, <1>5
<1>8. \A j \in 1..n : t[i + j] = [role |-> "tool", call |-> j]
  BY <1>1, <1>3, <1>6
<1>9. t[i + n + 1].role = "assistant"
  <2>1. CASE i + n = len
    <3>1. m.role = "assistant"
      BY <1>1, <1>2, <1>5, <2>1 DEF len, n
    <3> QED
      BY <1>1, <2>1, <3>1
  <2>2. CASE i + n # len
    <3>1. len > i + n /\ i + n + 1 \in 1..len
      BY <1>1, <1>2, <1>3, <1>5, <2>2
    <3> QED
      BY <1>1, <1>4, <3>1
  <2> QED
    BY <2>1, <2>2
<1>10. t[i].calls = n
  BY <1>7 DEF n
<1> QED
  BY <1>7, <1>8, <1>9, <1>10 DEF AnsweredIn, t

LEMMA AnsweredTranscript ==
    ASSUME TypeOK, CallInv, TranscriptInv, pc \in Calling, NEW before, Answered(before)
    PROVE  TranscriptInv'
<1> DEFINE s == transcript
           m == [role |-> "tool", call |-> served + 1]
           len == Len(s)
           last == len - served
           n == Len(calls)
           t == Append(s, m)
<1>1. /\ s \in Seq(Message) /\ m \in Message /\ transcript' = t /\ calls' = calls
      /\ served' = served + 1 /\ served \in Nat /\ served < n /\ n \in Nat
      /\ pc' \in {"calls", "model", "closed"} /\ (pc' = "model" => served + 1 = n)
  <2>1. n \in 1..MaxCalls /\ MaxCalls \in Nat
    BY AnsweredStep, Limits
  <2>2. n \in Nat
    BY <2>1
  <2> QED
    BY <2>2, AnsweredStep DEF TypeOK
<1>2. /\ last \in DOMAIN s /\ s[last] = [role |-> "assistant", calls |-> n]
      /\ \A j \in 1..served : s[last + j] = [role |-> "tool", call |-> j]
      /\ \A i \in 1..(last - 1) : s[i].role = "assistant" => AnsweredIn(s, i)
  BY DEF TranscriptInv
<1>3. /\ Len(t) = len + 1 /\ len \in Nat /\ DOMAIN s = 1..len /\ t[len + 1] = m
      /\ \A j \in 1..len : t[j] = s[j]
      /\ DOMAIN t = 1..(len + 1)
  <2>1. t \in Seq(Message)
    BY <1>1, AppendProperties
  <2> QED
    BY <1>1, <2>1, AppendProperties, LenProperties
<1>4. last \in Nat /\ 1 <= last /\ last <= len /\ len = last + served
  <2> HIDE DEF s
  <2>1. last \in 1..len
    BY <1>2, <1>3
  <2> HIDE DEF len
  <2> QED
    BY <1>1, <1>3, <2>1
<1>5. Len(transcript') - served' = last
  <2> HIDE DEF s, m, t
  <2> QED
    BY <1>1, <1>3
<1> HIDE DEF len, last, n
<1>6. ASSUME NEW i \in 1..(last - 1), s[i].role = "assistant" PROVE AnsweredIn(t, i)
  <2>1. i \in 1..Len(s) /\ AnsweredIn(s, i) /\ i < last /\ i \in Nat
    BY <1>2, <1>3, <1>4, <1>6 DEF len
  <2>2. s[i].calls \in Nat
    BY <1>1, <1>6, <2>1, MessageShape, ElementOfSeq
  <2>3. i + s[i].calls < last
    <3> SUFFICES ASSUME ~(i + s[i].calls < last) PROVE FALSE
      OBVIOUS
    <3>1. PICK k \in 1..s[i].calls : last = i + k
      <4> DEFINE c == s[i].calls
      <4>1. c \in Nat /\ ~(i + c < last)
        BY <2>2
      <4> HIDE DEF c, s
      <4>2. last - i \in 1..c /\ last = i + (last - i)
        BY <1>4, <2>1, <4>1
      <4> QED
        BY <4>2 DEF c
    <3>2. s[last] = [role |-> "tool", call |-> k]
      BY <2>1, <3>1 DEF AnsweredIn
    <3> QED
      BY <1>2, <3>2
  <2>4. i + s[i].calls < Len(s)
    <3> DEFINE c == s[i].calls
    <3>1. i + c < last /\ c \in Nat
      BY <2>2, <2>3
    <3> HIDE DEF c
    <3>2. i + c < len
      BY <1>3, <1>4, <2>1, <3>1
    <3> QED
      BY <3>2 DEF c, len
  <2> QED
    BY <1>1, <1>6, <2>1, <2>4, StaysAnswered
<1>7. \A j \in 1..(served + 1) : t[last + j] = [role |-> "tool", call |-> j]
  <2> SUFFICES ASSUME NEW j \in 1..(served + 1) PROVE t[last + j] = [role |-> "tool", call |-> j]
    OBVIOUS
  <2>1. CASE j \in 1..served
    <3>1. last + j \in 1..len
      BY <1>1, <1>3, <1>4, <2>1
    <3> QED
      BY <1>2, <1>3, <2>1, <3>1
  <2>2. CASE j = served + 1
    <3>1. last + j = len + 1
      BY <1>1, <1>3, <1>4, <2>2
    <3> QED
      BY <1>3, <2>2, <3>1
  <2>3. j \in 1..served \/ j = served + 1
    BY <1>1
  <2> QED
    BY <2>1, <2>2, <2>3
<1>8. t[last] = [role |-> "assistant", calls |-> n] /\ last \in 1..(len + 1)
  BY <1>2, <1>3, <1>4
<1>9. ASSUME NEW i \in 1..(last - 1) PROVE t[i] = s[i]
  BY <1>3, <1>4
<1> HIDE DEF s, t
<1>10. CASE pc' = "calls"
  <2>1. /\ last \in DOMAIN t /\ t[last] = [role |-> "assistant", calls |-> n]
        /\ \A j \in 1..served' : t[last + j] = [role |-> "tool", call |-> j]
        /\ \A i \in 1..(last - 1) : t[i].role = "assistant" => AnsweredIn(t, i)
    BY <1>1, <1>3, <1>6, <1>7, <1>8, <1>9
  <2> QED
    BY <1>1, <1>5, <1>10, <2>1 DEF TranscriptInv, CallsAreAnswered, n
<1>11. CASE pc' = "model"
  <2>1. ASSUME NEW i \in 1..(len + 1), t[i].role = "assistant" PROVE AnsweredIn(t, i)
    <3>1. CASE i \in 1..(last - 1)
      BY <1>6, <1>9, <2>1, <3>1
    <3>2. CASE i = last
      <4>1. Len(t) = last + n /\ t[last].calls = n
        BY <1>1, <1>3, <1>4, <1>8, <1>11
      <4> HIDE DEF m
      <4>2. ~(Len(t) > last + n) /\ Len(t) >= last + n
        BY <1>1, <1>4, <4>1
      <4>3. \A j \in 1..n : t[last + j] = [role |-> "tool", call |-> j]
        BY <1>1, <1>7, <1>11
      <4> QED
        BY <3>2, <4>1, <4>2, <4>3 DEF AnsweredIn
    <3>3. CASE i > last
      <4>1. PICK j \in 1..(served + 1) : i = last + j
        <5>1. i - last \in 1..(served + 1) /\ i = last + (i - last)
          BY <1>1, <1>3, <1>4, <3>3
        <5> QED
          BY <5>1
      <4>2. t[i] = [role |-> "tool", call |-> j]
        BY <1>7, <4>1
      <4>3. t[i].role = "tool"
        BY <4>2
      <4> QED
        BY <2>1, <4>3
    <3> QED
      BY <1>3, <1>4, <3>1, <3>2, <3>3
  <2>2. \A i \in DOMAIN transcript' : transcript'[i].role = "assistant" => AnsweredIn(transcript', i)
    BY <1>1, <1>3, <2>1
  <2> QED
    BY <1>11, <2>2 DEF TranscriptInv, CallsAreAnswered, AnsweredIn, Calling, InCall
<1>12. CASE pc' = "closed"
  BY <1>12 DEF TranscriptInv, CallsAreAnswered, Calling, InCall
<1> QED
  BY <1>1, <1>10, <1>11, <1>12

LEMMA NextTranscript ==
    ASSUME TypeOK, CallInv, TranscriptInv, [Next]_vars
    PROVE  TranscriptInv'
<1>1. ASSUME UNCHANGED runVars,
             pc' \in {"idle", "select"} => pc \in {"idle", "select"},
             pc' = "model" => pc \in {"model", "select"},
             pc' \in Calling => pc \in Calling
      PROVE  TranscriptInv'
  <2>1. transcript' = transcript /\ served' = served /\ calls' = calls
    BY <1>1 DEF runVars
  <2>2. pc' = "model" => \A i \in DOMAIN transcript : transcript[i].role = "assistant" =>
                            AnsweredIn(transcript, i)
    <3>1. pc = "select" => DOMAIN transcript = {}
      BY DEF TranscriptInv
    <3> QED
      BY <1>1, <3>1 DEF TranscriptInv, CallsAreAnswered, AnsweredIn
  <2>3. CallsAreAnswered'
    BY <2>1, <2>2 DEF CallsAreAnswered, AnsweredIn
  <2>4. pc' \in {"idle", "select"} => transcript' = <<>>
    BY <1>1, <2>1 DEF TranscriptInv
  <2> QED
    BY <1>1, <2>1, <2>3, <2>4 DEF TranscriptInv, AnsweredIn
<1>2. CASE SelectSkill
  <2>1. transcript' = transcript /\ pc = "select" /\ pc' = "model"
    BY <1>2 DEF SelectSkill, At
  <2>2. DOMAIN transcript' = {}
    BY <2>1 DEF TranscriptInv
  <2> QED
    BY <2>1, <2>2 DEF TranscriptInv, CallsAreAnswered, Calling, InCall
<1>3. CASE \E asked \in Requests : ModelCalls(asked)
  <2>1. PICK asked \in Requests : ModelCalls(asked)
    BY <1>3
  <2> DEFINE s == transcript
             m == [role |-> "assistant", calls |-> Len(asked)]
             len == Len(s)
             t == Append(s, m)
  <2>2. /\ m \in Message /\ m.role = "assistant" /\ s \in Seq(Message) /\ transcript' = t
        /\ served' = 0 /\ calls' = asked /\ pc = "model" /\ pc' = "calls"
    BY <2>1, RequestsType DEF ModelCalls, At, TypeOK, Message
  <2>3. /\ Len(t) = len + 1 /\ len \in Nat /\ t[len + 1] = m /\ DOMAIN s = 1..len
        /\ \A j \in 1..len : t[j] = s[j]
        /\ DOMAIN t = 1..(len + 1)
    <3>1. t \in Seq(Message)
      BY <2>2, AppendProperties
    <3> QED
      BY <2>2, <3>1, AppendProperties, LenProperties
  <2> HIDE DEF len
  <2>4. ASSUME NEW i \in 1..len, t[i].role = "assistant" PROVE AnsweredIn(t, i)
    <3>1. s[i].role = "assistant" /\ AnsweredIn(s, i)
      BY <2>2, <2>3, <2>4 DEF TranscriptInv, CallsAreAnswered, AnsweredIn
    <3> QED
      BY <2>2, <2>4, <3>1, StaysAnswered DEF len
  <2> HIDE DEF s, m, t
  <2>5. Len(transcript') - served' = len + 1 /\ len + 1 \in DOMAIN t /\ len + 1 - 1 = len
    BY <2>2, <2>3
  <2>6. \A j \in 1..served' : t[len + 1 + j] = [role |-> "tool", call |-> j]
    BY <2>2
  <2>7. t[len + 1] = [role |-> "assistant", calls |-> Len(calls')]
    BY <2>2, <2>3 DEF m
  <2>8. PICK last : last = len + 1
    OBVIOUS
  <2>9. /\ last \in DOMAIN t
        /\ t[last] = [role |-> "assistant", calls |-> Len(calls')]
        /\ \A j \in 1..served' : t[last + j] = [role |-> "tool", call |-> j]
    BY <2>5, <2>6, <2>7, <2>8
  <2>10. \A i \in 1..(last - 1) : t[i].role = "assistant" => AnsweredIn(t, i)
    <3>1. last - 1 = len
      BY <2>3, <2>8
    <3> QED
      BY <2>4, <3>1
  <2>11. Len(transcript') - served' = last
    BY <2>5, <2>8
  <2> QED
    BY <2>2, <2>9, <2>10, <2>11 DEF TranscriptInv, CallsAreAnswered
<1>4. CASE RefuseCall \/ Reuse \/ RejectScript \/ Upsert \/ (Drain /\ Answered(<<>>))
  BY <1>4, AnsweredTranscript DEF RefuseCall, Reuse, RejectScript, Upsert, Drain, Calling, InCall
<1>5. CASE ResolveCall \/ Decide \/ MarkHit \/ StartScript \/ WaitReturns \/ Timeout \/ ReadForUpsert
              \/ (Drain /\ ~Answered(<<>>))
  BY <1>1, <1>5
     DEF ResolveCall, Decide, MarkHit, StartScript, WaitReturns, Timeout, ReadForUpsert, Drain,
         At, Calling, InCall
<1>6. CASE RunFails \/ ModelAnswers \/ StoreAnswer \/ DeliverAnswer \/ Complete
              \/ StreamBreaks \/ Disconnect
  BY <1>1, <1>6
     DEF RunFails, Fail, ModelAnswers, StoreAnswer, DeliverAnswer, Complete, StreamBreaks,
         Disconnect, At, Calling, InCall
<1>7. CASE Start
  BY <1>7 DEF Start, At, TranscriptInv, CallsAreAnswered, Calling, InCall
<1>8. CASE \/ ScriptExits \/ HelperEnds
           \/ Tick /\ UNCHANGED <<pc, runVars, answerVars, callVars>>
           \/ \E k \in Key : StoredElsewhere(k) /\ UNCHANGED <<pc, runVars, answerVars, callVars>>
           \/ UNCHANGED vars
  BY <1>1, <1>8 DEF ScriptExits, HelperEnds, vars
<1> QED
  BY <1>2, <1>3, <1>4, <1>5, <1>6, <1>7, <1>8 DEF Next, Run, Call, Environment

-----------------------------------------------------------------------------
(* The events. *)

LEMMA StreamOfEvents ==
    ASSUME events \in Seq(Event), Stream(events, stored)
    PROVE  StreamIsWellFormed
<1>1. DOMAIN events = 1..Len(events)
  BY LenProperties
<1>2. \A e : e \in Sent <=> \E i \in 1..Len(events) : events[i] = e
  BY <1>1 DEF Sent, Range
<1> QED
  BY <1>1, <1>2 DEF StreamIsWellFormed, Stream

\* One more event.
LEMMA StreamGoesOn ==
    ASSUME NEW s \in Seq(Event), NEW kept \in BOOLEAN, Stream(s, kept), ~Ended(s), NEW e \in Event,
           LastIs(s, "script.started") => e \in {"script.completed", "run.failed"},
           e = "script.completed" => LastIs(s, "script.started"),
           e = "run.completed" => LastIs(s, "message.completed"),
           e = "run.failed" => ~kept,
           e = "message.completed" => kept
    PROVE  LET t == Append(s, e) IN
           /\ t \in Seq(Event) /\ Stream(t, kept)
           /\ Len(t) > 0 /\ t[Len(t)] = e
           /\ Ended(t) <=> e \in Terminal
<1> DEFINE t == Append(s, e)
           len == Len(s)
<1>1. /\ t \in Seq(Event) /\ Len(t) = len + 1 /\ len \in Nat /\ t[len + 1] = e
      /\ \A j \in 1..len : t[j] = s[j]
  BY AppendProperties, LenProperties
<1>2. \A j \in 1..(len + 1) : j \in 1..len \/ j = len + 1
  BY <1>1
<1>3. \A j \in 1..len : s[j] \notin Terminal
  BY DEF Ended
<1> HIDE DEF t
<1>4. Ended(t) <=> e \in Terminal
  <2>1. len + 1 \in 1..(len + 1)
    BY <1>1
  <2> QED
    BY <1>1, <1>2, <1>3, <2>1 DEF Ended
<1>5. ASSUME NEW i \in 1..len
      PROVE  /\ t[i] = "script.started" => t[i + 1] \in {"script.completed", "run.failed"}
             /\ t[i] = "script.completed" => i > 1 /\ t[i - 1] = "script.started"
             /\ t[i] \notin Terminal
             /\ t[i] = "message.completed" => kept
  <2>1. t[i] = "script.started" => t[i + 1] \in {"script.completed", "run.failed"}
    <3>1. CASE i = len
      BY <1>1, <3>1 DEF LastIs, len
    <3>2. CASE i # len
      <4>1. i + 1 \in 1..len
        BY <1>1, <3>2
      <4> QED
        BY <1>1, <3>2, <4>1 DEF Stream, len
    <3> QED
      BY <3>1, <3>2
  <2>2. t[i] = "script.completed" => i > 1 /\ t[i - 1] = "script.started"
    <3>1. t[i] = "script.completed" => i > 1 /\ s[i - 1] = "script.started"
      BY <1>1 DEF Stream, len
    <3>2. i > 1 => i - 1 \in 1..len
      BY <1>1
    <3> QED
      BY <1>1, <3>1, <3>2
  <2>3. t[i] = "message.completed" => kept
    BY <1>1 DEF Stream, len
  <2> QED
    BY <1>1, <1>3, <2>1, <2>2, <2>3
<1>6. /\ e = "script.completed" => len + 1 > 1 /\ t[len] = "script.started"
      /\ e = "run.completed" => t[len] = "message.completed"
  BY <1>1 DEF LastIs, len
<1>7. len + 1 - 1 = len
  BY <1>1
<1>8. Stream(t, kept)
  <2> HIDE DEF len
  <2>1. "run.completed" \in Terminal /\ "run.failed" \in Terminal
    BY DEF Terminal
  <2> QED
    BY <1>1, <1>2, <1>5, <1>6, <1>7, <2>1 DEF Stream
<1>9. Len(t) > 0 /\ t[Len(t)] = e
  BY <1>1
<1> QED
  BY <1>1, <1>4, <1>8, <1>9 DEF t

LEMMA Appended ==
    ASSUME NEW s \in Seq(Event), NEW e \in Event, NEW f \in Event
    PROVE  s \o <<e>> = Append(s, e) /\ s \o <<e, f>> = Append(Append(s, e), f)
<1>1. s \o <<e>> = Append(s, e)
  BY AppendIsConcat
<1>2. <<e, f>> = <<e>> \o <<f>> /\ <<e>> \in Seq(Event) /\ <<f>> \in Seq(Event)
  <2>1. /\ <<e>> \in Seq(Event) /\ <<f>> \in Seq(Event) /\ <<e, f>> \in Seq(Event)
        /\ Len(<<e>>) = 1 /\ Len(<<f>>) = 1 /\ Len(<<e, f>>) = 2
    OBVIOUS
  <2>2. /\ <<e>> \o <<f>> \in Seq(Event) /\ Len(<<e>> \o <<f>>) = 2
        /\ (<<e>> \o <<f>>)[1] = e /\ (<<e>> \o <<f>>)[2] = f
    BY <2>1, ConcatProperties
  <2>3. \A i \in 1..2 : <<e, f>>[i] = (<<e>> \o <<f>>)[i]
    BY <2>2
  <2> QED
    BY <2>1, <2>2, <2>3, SeqEqual
<1>3. s \o <<e, f>> = (s \o <<e>>) \o <<f>>
  BY <1>2, ConcatAssociative
<1>4. Append(s, e) \in Seq(Event)
  BY AppendProperties
<1> QED
  BY <1>1, <1>3, <1>4, AppendIsConcat

LEMMA EventsTypes ==
    ASSUME TypeOK
    PROVE  /\ events \in Seq(Event) /\ stored \in BOOLEAN
           /\ {"run.started", "select.started", "select.completed", "script.started",
               "script.completed", "message.completed", "run.completed", "run.failed"} \subseteq Event
           /\ {"run.completed", "run.failed"} = Terminal
  BY DEF TypeOK, Event, Terminal

\* A call is answered after its step was opened, before or now.
LEMMA AnsweredEvents ==
    ASSUME TypeOK, CallInv, EventInv, pc \in Calling, NEW before, Answered(before),
           \/ before = <<>> /\ pc \in InCall
           \/ before = <<"script.started">> /\ pc = "calls"
    PROVE  EventInv'
<1> DEFINE s == events \o before
           t == Append(s, "script.completed")
<1>1. stored = FALSE /\ ~Ended(events) /\ Stream(events, FALSE)
  BY EventsTypes DEF EventInv, Calling, InCall
<1>2. s \in Seq(Event) /\ Stream(s, FALSE) /\ ~Ended(s) /\ LastIs(s, "script.started")
  <2>1. CASE before = <<>> /\ pc \in InCall
    <3>1. s = events
      BY <2>1, EventsTypes, ConcatEmptySeq
    <3> QED
      BY <1>1, <2>1, <3>1, EventsTypes DEF EventInv
  <2>2. CASE before = <<"script.started">> /\ pc = "calls"
    <3>1. s = Append(events, "script.started")
      BY <2>2, EventsTypes, Appended
    <3>2. ~LastIs(events, "script.started")
      BY <2>2 DEF EventInv, InCall
    <3>3. LET u == Append(events, "script.started") IN
          u \in Seq(Event) /\ Stream(u, FALSE) /\ Len(u) > 0 /\ u[Len(u)] = "script.started"
          /\ (Ended(u) <=> "script.started" \in Terminal)
      BY <1>1, <3>2, EventsTypes, StreamGoesOn
    <3>4. "script.started" \notin Terminal
      BY DEF Terminal
    <3> QED
      BY <3>1, <3>3, <3>4 DEF LastIs
  <2> QED
    BY <2>1, <2>2
<1> HIDE DEF s
<1>3. /\ t \in Seq(Event) /\ Stream(t, FALSE) /\ ~Ended(t) /\ LastIs(t, "script.completed")
      /\ ~LastIs(t, "script.started") /\ ~LastIs(t, "message.completed")
  <2>1. "script.completed" \notin Terminal
    BY DEF Terminal
  <2> QED
    BY <1>2, <2>1, EventsTypes, StreamGoesOn DEF LastIs
<1>4. PICK new \in Closing :
        Emit(before \o new) /\ (pc' = "closed" <=> new = <<"script.completed", "run.failed">>)
  BY AnsweredStep
<1>5. events' = s \o new /\ stored' = FALSE
  <2>1. before \in Seq(Event) /\ new \in Seq(Event)
    BY EventTuples
  <2>2. events \o (before \o new) = (events \o before) \o new
    <3>1. events \in Seq(Event)
      BY EventsTypes
    <3> QED
      BY <2>1, <3>1, ConcatAssociative
  <2> QED
    BY <1>1, <1>4, <2>2 DEF Emit, s
<1>6. pc' \in {"calls", "model", "closed"}
  BY AnsweredStep
<1>7. CASE new = <<"script.completed">>
  <2>1. events' = t
    BY <1>2, <1>5, <1>7, EventsTypes, Appended
  <2>2. pc' # "closed"
    <3>1. <<"script.completed">> # <<"script.completed", "run.failed">>
      OBVIOUS
    <3> QED
      BY <1>4, <1>7, <3>1
  <2> HIDE DEF t
  <2> QED
    BY <1>3, <1>5, <1>6, <2>1, <2>2 DEF EventInv, InCall
<1>8. CASE new = <<"script.completed", "run.failed">>
  <2>1. events' = Append(t, "run.failed") /\ pc' = "closed"
    BY <1>2, <1>4, <1>5, <1>8, EventsTypes, Appended
  <2> HIDE DEF t
  <2>2. Stream(Append(t, "run.failed"), FALSE)
    BY <1>3, EventsTypes, StreamGoesOn
  <2> QED
    BY <1>5, <2>1, <2>2 DEF EventInv, InCall
<1> QED
  BY <1>4, <1>7, <1>8 DEF Closing

LEMMA NextEvents ==
    ASSUME TypeOK, CallInv, EventInv, [Next]_vars
    PROVE  EventInv'
<1>1. events \in Seq(Event) /\ stored \in BOOLEAN
  BY EventsTypes
\* One event that opens or closes no script step.
<1>2. ASSUME NEW e \in Event \ {"script.started", "script.completed"}, Emit(<<e>>), pc # "closed",
             pc \notin InCall \/ e = "run.failed",
             e = "run.completed" => pc = "extract",
             e = "run.failed" => ~stored,
             e = "message.completed" => stored
      PROVE  /\ Stream(events', stored') /\ stored' = stored /\ LastIs(events', e)
             /\ Ended(events') <=> e \in Terminal
  <2>1. events' = Append(events, e) /\ stored' = stored
    BY <1>1, <1>2, Appended DEF Emit
  <2>2. LET u == Append(events, e) IN
        Stream(u, stored) /\ Len(u) > 0 /\ u[Len(u)] = e /\ (Ended(u) <=> e \in Terminal)
    BY <1>1, <1>2, StreamGoesOn DEF EventInv
  <2> QED
    BY <2>1, <2>2 DEF LastIs
<1>3. \A e, f : e # f => ~(LastIs(events', e) /\ LastIs(events', f))
  BY DEF LastIs
<1>4. CASE RefuseCall \/ Reuse \/ RejectScript \/ Upsert \/ (Drain /\ Answered(<<>>))
  BY <1>4, AnsweredEvents DEF RefuseCall, Reuse, RejectScript, Upsert, Drain, Calling, InCall
<1>5. CASE ResolveCall
  <2>1. pc = "calls" /\ pc' \in {"launch", "decide"} /\ Emit(<<"script.started">>)
    BY <1>5 DEF ResolveCall
  <2>2. events' = Append(events, "script.started") /\ stored' = stored
    BY <1>1, <2>1, EventsTypes, Appended DEF Emit
  <2>3. "script.started" \notin Terminal
    BY DEF Terminal
  <2>4. LET u == Append(events, "script.started") IN
        Stream(u, stored) /\ Len(u) > 0 /\ u[Len(u)] = "script.started" /\ ~Ended(u)
    BY <1>1, <2>1, <2>3, EventsTypes, StreamGoesOn DEF EventInv, InCall
  <2> QED
    BY <2>1, <2>2, <2>4 DEF EventInv, InCall, LastIs
<1>6. CASE Decide \/ MarkHit \/ StartScript \/ WaitReturns \/ Timeout \/ ReadForUpsert
              \/ (Drain /\ ~Answered(<<>>))
  <2>1. events' = events /\ stored' = stored /\ pc \in InCall /\ pc' \in InCall
    BY <1>6 DEF Decide, MarkHit, StartScript, WaitReturns, Timeout, ReadForUpsert, Drain,
                At, InCall, answerVars
  <2> QED
    BY <2>1 DEF EventInv, InCall
<1>7. CASE Start
  <2>1. DOMAIN <<>> = {} /\ pc = "idle" /\ pc' = "select"
    BY <1>7 DEF Start, At
  <2>2. events' = Append(Append(events, "run.started"), "select.started") /\ stored' = stored
    BY <1>1, <1>7, EventsTypes, Appended DEF Start, Emit
  <2> DEFINE u == Append(events, "run.started")
  <2>3. "run.started" \notin Terminal /\ "select.started" \notin Terminal
    BY DEF Terminal
  <2>4. u \in Seq(Event) /\ Stream(u, stored) /\ Len(u) > 0 /\ u[Len(u)] = "run.started" /\ ~Ended(u)
    BY <1>1, <2>1, <2>3, EventsTypes, StreamGoesOn DEF EventInv, InCall
  <2> HIDE DEF u
  <2>5. LET v == Append(u, "select.started") IN
        Stream(v, stored) /\ Len(v) > 0 /\ v[Len(v)] = "select.started" /\ ~Ended(v)
    BY <1>1, <2>3, <2>4, EventsTypes, StreamGoesOn DEF LastIs
  <2> QED
    BY <2>1, <2>2, <2>5 DEF EventInv, InCall, LastIs, u
<1>8. CASE SelectSkill
  <2>1. Emit(<<"select.completed">>) /\ pc = "select" /\ pc' = "model"
    BY <1>8 DEF SelectSkill, At
  <2> QED
    BY <1>2, <1>3, <2>1, EventsTypes DEF EventInv, InCall
<1>9. CASE RunFails
  <2>1. Emit(<<"run.failed">>) /\ pc \in {"select", "model", "launch"} /\ pc' = "closed"
    BY <1>9 DEF RunFails, Fail
  <2> QED
    BY <1>2, <2>1, EventsTypes DEF EventInv, InCall
<1>10. CASE DeliverAnswer
  <2>1. Emit(<<"message.completed">>) /\ pc = "deliver" /\ pc' = "extract"
    BY <1>10 DEF DeliverAnswer, At
  <2> QED
    BY <1>2, <1>3, <2>1, EventsTypes DEF EventInv, InCall
<1>11. CASE Complete
  <2>1. Emit(<<"run.completed">>) /\ pc = "extract" /\ pc' = "closed"
    BY <1>11 DEF Complete, At
  <2> QED
    BY <1>2, <2>1, EventsTypes DEF EventInv, InCall
<1>12. CASE \E asked \in Requests : ModelCalls(asked)
  BY <1>12 DEF ModelCalls, At, EventInv, InCall, answerVars
<1>13. CASE ModelAnswers \/ StreamBreaks \/ Disconnect
  BY <1>13 DEF ModelAnswers, StreamBreaks, Disconnect, At, EventInv, InCall, answerVars
<1>14. CASE StoreAnswer
  <2>1. pc = "store" /\ pc' = "deliver" /\ events' = events /\ stored' = TRUE
    BY <1>14 DEF StoreAnswer, At
  <2>2. Stream(events, TRUE)
    BY <2>1, EventsTypes DEF EventInv, Stream, Ended
  <2> QED
    BY <2>1, <2>2 DEF EventInv, InCall
<1>15. CASE \/ ScriptExits \/ HelperEnds
            \/ Tick /\ UNCHANGED <<pc, runVars, answerVars, callVars>>
            \/ \E k \in Key : StoredElsewhere(k) /\ UNCHANGED <<pc, runVars, answerVars, callVars>>
            \/ UNCHANGED vars
  <2>1. events' = events /\ stored' = stored /\ pc' = pc
    BY <1>15 DEF ScriptExits, HelperEnds, answerVars, vars
  <2> QED
    BY <2>1 DEF EventInv
<1> QED
  BY <1>4, <1>5, <1>6, <1>7, <1>8, <1>9, <1>10, <1>11, <1>12, <1>13, <1>14, <1>15
     DEF Next, Run, Call, Environment

-----------------------------------------------------------------------------
LEMMA InitInvariant == Init => IInv
<1> SUFFICES ASSUME Init PROVE IInv
  OBVIOUS
<1>1. TypeOK
  <2>1. 0 \in 0..MaxTime /\ 0 \in 0..MaxSteps /\ 0 \in 0..MaxCalls
    BY CacheAssumption, RunAssumption DEF CacheAssumption, RunAssumption
  <2>2. CacheTypeOK
    BY <2>1 DEF Init, CacheInit, CacheTypeOK
  <2>3. <<>> \in Seq(Message) /\ <<>> \in Seq(Event)
    OBVIOUS
  <2> QED
    BY <2>1, <2>2, <2>3, DecisionType DEF Init, TypeOK, Skills
<1>2. CacheInv /\ CallInv
  BY DEF Init, CacheInit, CacheInv, ReusedWithinTtl, CallInv, Calling, InCall
<1>3. TranscriptInv
  BY DEF Init, TranscriptInv, CallsAreAnswered, Calling, InCall
<1>4. EventInv
  BY DEF Init, EventInv, Stream, Ended, LastIs, InCall
<1> QED
  BY <1>1, <1>2, <1>3, <1>4 DEF IInv

LEMMA NextPreserves == IInv /\ [Next]_vars => IInv'
  BY NextTypeOK, NextCacheInv, NextCallInv, NextTranscript, NextEvents DEF IInv

LEMMA Invariance == Spec => []IInv
  BY InitInvariant, NextPreserves, PTL DEF Spec

\* The variables of a run, its cache and its script hold values of their types,
\* and no run asks the model for more answers than its skill allows.
THEOREM TypeCorrect == Spec => []TypeOK
<1>1. IInv => TypeOK
  BY DEF IInv
<1> QED
  BY <1>1, Invariance, PTL

\* Every call the model made has its tool message, in order, whenever the model
\* is asked again (runner.stream): refused, reused, rejected, timed out or not.
THEOREM EveryCallIsAnswered == Spec => []CallsAreAnswered
<1>1. IInv => CallsAreAnswered
  BY DEF IInv, TranscriptInv
<1> QED
  BY <1>1, Invariance, PTL

\* The events of a run, wherever it fails, breaks or is cancelled.
THEOREM StreamsAreWellFormed == Spec => []StreamIsWellFormed
<1>1. IInv => StreamIsWellFormed
  BY StreamOfEvents, EventsTypes DEF IInv, EventInv
<1> QED
  BY <1>1, Invariance, PTL

\* A cached result is within the lifetime of its kind when the call looks it
\* up, whichever run stores another one in its place meanwhile
\* (result_cache.resolve and mark_hit).
THEOREM HitsAreFresh == Spec => []ReusedWithinTtl
<1>1. IInv => ReusedWithinTtl
  BY DEF IInv, CacheInv
<1> QED
  BY <1>1, Invariance, PTL

\* A run that sends its last event has no script of its own running: the
\* executor kills it on the time limit before it answers.
THEOREM NoRunLeavesAProcess == Spec => NoProcessLeft
<1>1. IInv /\ [Next]_vars => [pc' = "closed" /\ events' # events => child' # "running"]_vars
  <2> SUFFICES ASSUME IInv, Next, pc' = "closed", events' # events PROVE child' # "running"
    OBVIOUS
  <2>1. child # "running" \/ pc \in {"wait", "closed"}
    BY DEF IInv, CallInv
  <2>2. CASE RefuseCall \/ Reuse \/ RejectScript \/ Upsert \/ Drain
    BY <2>1, <2>2 DEF RefuseCall, Reuse, RejectScript, Upsert, Drain
  <2>3. CASE ResolveCall \/ Decide \/ MarkHit \/ StartScript \/ WaitReturns \/ Timeout \/ ReadForUpsert
    BY <2>3 DEF ResolveCall, Decide, MarkHit, StartScript, WaitReturns, Timeout, ReadForUpsert, At
  <2>4. CASE RunFails \/ Complete
    BY <2>1, <2>4 DEF RunFails, Complete, At, callVars
  <2>5. CASE Start \/ SelectSkill \/ ModelAnswers \/ (\E asked \in Requests : ModelCalls(asked))
                \/ StoreAnswer \/ DeliverAnswer
    BY <2>5 DEF Start, SelectSkill, ModelAnswers, ModelCalls, StoreAnswer, DeliverAnswer, At
  <2>6. CASE StreamBreaks \/ Environment
    BY <2>6 DEF StreamBreaks, Environment, ScriptExits, HelperEnds, Disconnect, answerVars
  <2> QED
    BY <2>2, <2>3, <2>4, <2>5, <2>6 DEF Next, Run, Call
<1> QED
  BY <1>1, Invariance, PTL DEF Spec, NoProcessLeft

=============================================================================
