------------------------------ MODULE AgentRun ------------------------------
(***************************************************************************)
(* One run of the agent: AgentRunner.stream (agent/runner.py), the script  *)
(* executor it calls (skills/executor.py), the result cache it shares with *)
(* other runs, and the endpoint that relays its events and stores the      *)
(* answer (api/router.py).  The model, the script's process and the client *)
(* are the environment: they answer, exit or go away when they like.       *)
(***************************************************************************)
EXTENDS ToolResultCache, Sequences, Functions

CONSTANTS
    MaxSteps,       \* manifest.limits.max_steps
    MaxCalls        \* bound: tool calls in one answer of the model

ASSUME RunAssumption ==
    /\ MaxSteps \in Nat \ {0}
    /\ MaxCalls \in Nat

VARIABLES
    pc,             \* where the run is suspended
    skill,          \* what the selected skill brings
    refresh,        \* the user's message asks for fresh data
    turn,           \* answers asked of the model so far
    calls,          \* the tool calls of the last answer ...
    served,         \* ... and how many of them have been served
    transcript,     \* provider_messages after the conversation
    events,         \* what the run has sent
    stored,         \* the assistant's message is in chat_messages
    decision,       \* the call being served: the cache's decision and the result
    child,          \* the script's process
    open            \* someone holds the write end of the script's pipes

runVars == <<skill, refresh, turn, calls, served, transcript>>
answerVars == <<events, stored>>
callVars == <<decision, child, open>>
vars == <<cacheVars, pc, runVars, answerVars, callVars>>

\* none: no skill; plain: one without scripts; scripted: with scripts;
\* cached: with scripts whose results may be reused.
Skills == {"none", "plain", "scripted", "cached"}

\* A tool call asks for a script by its cache key, for one the package does
\* not hold, or is malformed.
Requests == UNION {[1..n -> Key \cup {"missing", "malformed"}] : n \in 1..MaxCalls}

\* key: None when no result is looked up or stored; row: what the last SELECT
\* found; asked: when it ran; ok, expires: the result and its expiry.
NoDecision == [key |-> None, row |-> None, asked |-> 0, ok |-> FALSE, expires |-> 0]
Decision == [key : Key \cup {None}, row : Row \cup {None}, asked : 0..MaxTime,
             ok : BOOLEAN, expires : Nat]

Terminal == {"run.completed", "run.failed"}
Event == Terminal \cup {"run.started", "select.started", "select.completed",
                        "script.started", "script.completed", "message.completed"}

Message == [role : {"assistant"}, calls : 1..MaxCalls] \cup [role : {"tool"}, call : 1..MaxCalls]

TypeOK ==
    /\ CacheTypeOK
    /\ pc \in {"idle", "select", "model", "calls", "decide", "mark", "reused", "launch", "wait",
               "drain", "save", "upsert", "store", "deliver", "extract", "closed"}
    /\ skill \in Skills
    /\ refresh \in BOOLEAN
    /\ turn \in 0..MaxSteps
    /\ calls \in Requests \cup {<<>>}
    /\ served \in 0..MaxCalls
    /\ transcript \in Seq(Message)
    /\ events \in Seq(Event)
    /\ stored \in BOOLEAN
    /\ decision \in Decision
    /\ child \in {"none", "running", "exited", "killed"}
    /\ open \in BOOLEAN

Init ==
    /\ CacheInit
    /\ pc = "idle"
    /\ skill = "none"
    /\ refresh = FALSE
    /\ turn = 0
    /\ calls = <<>>
    /\ served = 0
    /\ transcript = <<>>
    /\ events = <<>>
    /\ stored = FALSE
    /\ decision = NoDecision
    /\ child = "none"
    /\ open = FALSE

Emit(new) == events' = events \o new /\ UNCHANGED stored
At(here, next) == pc = here /\ pc' = next

-----------------------------------------------------------------------------
\* stream: the run and its skill selection begin.
Start ==
    /\ At("idle", "select")
    /\ refresh' \in BOOLEAN
    /\ Emit(<<"run.started", "select.started">>)
    /\ UNCHANGED <<cacheVars, skill, turn, calls, served, transcript, callVars>>

SelectSkill ==
    /\ At("select", "model")
    /\ skill' \in Skills
    /\ turn' = 1
    /\ Emit(<<"select.completed">>)
    /\ UNCHANGED <<cacheVars, refresh, calls, served, transcript, callVars>>

\* An exception inside the run, wherever it is raised: one event, then nothing.
Fail == pc' = "closed" /\ Emit(<<"run.failed">>)

\* Mutant: what the endpoint raises after the answer reaches the run.
LateFailure ==
    /\ pc \in {"select", "model", "launch", "extract"}
    /\ Fail
    /\ UNCHANGED <<cacheVars, runVars, callVars>>

\* The skill is unknown, disabled or not for this model; the provider fails;
\* the package cannot be written out or its script started.
RunFails ==
    /\ pc \in {"select", "model", "launch"}
    /\ Fail
    /\ UNCHANGED <<cacheVars, runVars, callVars>>

\* The model's answer asks for no tool: the run has its final text.
ModelAnswers ==
    /\ At("model", "store")
    /\ UNCHANGED <<cacheVars, runVars, answerVars, callVars>>

ModelCalls(asked) ==
    /\ At("model", "calls")
    /\ calls' = asked
    /\ served' = 0
    /\ transcript' = Append(transcript, [role |-> "assistant", calls |-> Len(asked)])
    /\ UNCHANGED <<cacheVars, skill, refresh, turn, answerVars, callVars>>

\* Mutant: one answer too many.
OneStepMore == MaxSteps + 1

\* Without a skill the model gets one answer.
StepLimit == IF skill = "none" THEN 1 ELSE MaxSteps

\* Mutant: the call's result is not added to the conversation.
NoMessage == <<>>

ToolMessage == <<[role |-> "tool", call |-> served + 1]>>

\* The call has its tool message and its decision is gone.  After the last call
\* of an answer the model is asked again, within the limit.
Answered(before) ==
    /\ transcript' = transcript \o ToolMessage
    /\ served' = served + 1
    /\ \/ /\ served + 1 < Len(calls)
          /\ pc' = "calls"
          /\ turn' = turn
          /\ Emit(before \o <<"script.completed">>)
       \/ /\ served + 1 = Len(calls)
          /\ turn < StepLimit
          /\ pc' = "model"
          /\ turn' = turn + 1
          /\ Emit(before \o <<"script.completed">>)
       \/ /\ served + 1 = Len(calls)
          /\ turn = StepLimit
          /\ pc' = "closed"
          /\ turn' = turn
          /\ Emit(before \o <<"script.completed", "run.failed">>)
    /\ decision' = NoDecision
    /\ UNCHANGED <<skill, refresh, calls>>

-----------------------------------------------------------------------------
\* _execute_script_tool: no skill, not the script tool, or bad arguments.
RefuseCall ==
    /\ pc = "calls"
    /\ skill = "none" \/ calls[served + 1] = "malformed"
    /\ Answered(<<"script.started">>)
    /\ UNCHANGED <<cacheVars, child, open>>

\* resolve, up to its SELECT; a refresh does not look, and a cache that is off
\* or cannot be read is left out of the call.
ResolveCall ==
    LET k == calls[served + 1] IN
    /\ pc = "calls"
    /\ skill # "none" /\ k # "malformed"
    /\ Emit(<<"script.started">>)
    /\ \/ /\ skill # "cached" \/ k = "missing"
          /\ decision' = NoDecision
          /\ pc' = "launch"
       \/ /\ skill = "cached" /\ k \in Key /\ refresh
          /\ decision' = [NoDecision EXCEPT !.key = k]
          /\ pc' = "launch"
       \/ /\ skill = "cached" /\ k \in Key /\ ~refresh
          /\ decision' = [NoDecision EXCEPT !.key = k, !.row = table[k], !.asked = now]
          /\ pc' = "decide"
       \/ /\ skill = "cached" /\ k \in Key /\ ~refresh
          /\ decision' = NoDecision
          /\ pc' = "launch"
    /\ UNCHANGED <<cacheVars, runVars, child, open>>

Decide ==
    /\ At("decide", IF Live(decision.row) THEN "mark" ELSE "launch")
    /\ UNCHANGED <<cacheVars, runVars, answerVars, callVars>>

\* mark_hit loads the row again after its commit, and the call is answered
\* with what it finds; if that fails, with the row found before.
MarkHit ==
    /\ At("mark", "reused")
    /\ \E row \in {decision.row, table[decision.key]} :
          decision' = [decision EXCEPT !.row = row]
    /\ UNCHANGED <<cacheVars, runVars, answerVars, child, open>>

Reuse ==
    /\ pc = "reused"
    /\ Answered(<<>>)
    /\ UNCHANGED <<cacheVars, child, open>>

-----------------------------------------------------------------------------
\* execute refuses a script the package does not hold.
RejectScript ==
    /\ pc = "launch"
    /\ calls[served + 1] = "missing" \/ skill = "plain"
    /\ Answered(<<>>)
    /\ UNCHANGED <<cacheVars, child, open>>

StartScript ==
    /\ At("launch", "wait")
    /\ calls[served + 1] \in Key /\ skill # "plain"
    /\ child' = "running"
    /\ open' = TRUE
    /\ UNCHANGED <<cacheVars, runVars, answerVars, decision>>

\* The pipes outlive the process only in the hands of a helper it started.
PipesAfterExit == BOOLEAN

ScriptExits ==
    /\ child = "running"
    /\ child' = "exited"
    /\ open' \in PipesAfterExit
    /\ UNCHANGED <<cacheVars, pc, runVars, answerVars, decision>>

HelperEnds ==
    /\ child \in {"exited", "killed"}
    /\ open
    /\ open' = FALSE
    /\ UNCHANGED <<cacheVars, pc, runVars, answerVars, decision, child>>

WaitReturns ==
    /\ At("wait", "drain")
    /\ child = "exited"
    /\ \E ok \in BOOLEAN : decision' = [decision EXCEPT !.ok = ok]
    /\ UNCHANGED <<cacheVars, runVars, answerVars, child, open>>

\* Mutant: nothing limits the time a script takes.
NeverTimesOut == FALSE

\* Mutant: the time limit is an error like any other.
TimeoutEscapes ==
    /\ pc = "wait"
    /\ Fail
    /\ UNCHANGED <<cacheVars, runVars, callVars>>

\* The limit has passed: a process that still runs is killed and waited for.
Timeout ==
    /\ At("wait", "drain")
    /\ IF child = "running"
       THEN child' = "killed" /\ open' \in PipesAfterExit
       ELSE UNCHANGED <<child, open>>
    /\ decision' = [decision EXCEPT !.ok = FALSE]
    /\ UNCHANGED <<cacheVars, runVars, answerVars>>

\* execute reads both pipes to their end; save computes the result's expiry,
\* if the result is to be stored.
Drain ==
    /\ pc = "drain"
    /\ ~open
    /\ UNCHANGED <<cacheVars, child, open>>
    /\ \/ /\ decision.key # None /\ TtlOf(decision.ok) > 0
          /\ pc' = "save"
          /\ decision' = [decision EXCEPT !.expires = now + TtlOf(decision.ok)]
          /\ UNCHANGED <<runVars, answerVars>>
       \/ /\ decision.key = None \/ TtlOf(decision.ok) = 0
          /\ Answered(<<>>)

ReadForUpsert ==
    /\ At("save", "upsert")
    /\ decision' = [decision EXCEPT !.row = table[decision.key]]
    /\ UNCHANGED <<cacheVars, runVars, answerVars, child, open>>

\* The commit, or an exception that is swallowed.
Upsert ==
    /\ pc = "upsert"
    /\ table' \in {table, Upserted(decision.key, decision.row, decision.ok, decision.expires)}
    /\ Answered(<<>>)
    /\ UNCHANGED <<now, child, open>>

-----------------------------------------------------------------------------
\* event_stream stores the answer before it relays message.completed ...
StoreAnswer ==
    /\ At("store", "deliver")
    /\ stored' = TRUE
    /\ UNCHANGED <<cacheVars, runVars, events, callVars>>

DeliverAnswer ==
    /\ At("deliver", "extract")
    /\ Emit(<<"message.completed">>)
    /\ UNCHANGED <<cacheVars, runVars, callVars>>

\* ... and extracts memories from it before it lets the run go on.
Complete ==
    /\ At("extract", "closed")
    /\ Emit(<<"run.completed">>)
    /\ UNCHANGED <<cacheVars, runVars, callVars>>

\* An exception of the endpoint's own ends the stream where it is.
StreamBreaks ==
    /\ pc \in {"store", "extract"}
    /\ pc' = "closed"
    /\ UNCHANGED <<cacheVars, runVars, answerVars, callVars>>

\* The client goes away: the run is cancelled at its await, and no handler
\* looks after the script.
Disconnect ==
    /\ pc \notin {"idle", "closed"}
    /\ pc' = "closed"
    /\ decision' = NoDecision
    /\ UNCHANGED <<cacheVars, runVars, answerVars, child, open>>

Call ==
    \/ RefuseCall \/ ResolveCall \/ Decide \/ MarkHit \/ Reuse
    \/ RejectScript \/ StartScript \/ WaitReturns \/ Timeout \/ Drain
    \/ ReadForUpsert \/ Upsert

Run ==
    \/ SelectSkill \/ RunFails \/ ModelAnswers \/ (\E asked \in Requests : ModelCalls(asked))
    \/ Call
    \/ StoreAnswer \/ DeliverAnswer \/ Complete \/ StreamBreaks

Environment ==
    \/ ScriptExits \/ HelperEnds \/ Disconnect
    \/ (Tick /\ UNCHANGED <<pc, runVars, answerVars, callVars>>)
    \/ \E k \in Key : StoredElsewhere(k) /\ UNCHANGED <<pc, runVars, answerVars, callVars>>

Next == Start \/ Run \/ Environment

\* The event loop runs whatever is ready, the model's endpoint answers or
\* fails, the timer of a waiting script goes off, and a client that stays reads
\* what it is sent.  Nothing obliges a script to exit, a helper to end or a
\* client to stay.
Spec == Init /\ [][Next]_vars /\ WF_vars(Run)

-----------------------------------------------------------------------------
\* Whenever the model is asked, each of its earlier answers is followed by one
\* tool message for every call in it, in order, and by nothing else.
CallsAreAnswered ==
    pc = "model" =>
        \A i \in DOMAIN transcript : transcript[i].role = "assistant" =>
            LET n == transcript[i].calls IN
            /\ Len(transcript) >= i + n
            /\ \A j \in 1..n : transcript[i + j] = [role |-> "tool", call |-> j]
            /\ Len(transcript) > i + n => transcript[i + n + 1].role = "assistant"

Sent == Range(events)

\* The stream a client sees: a script step is closed, or the run has failed,
\* before anything else is sent, and only a step that was opened is closed; a
\* terminal event is the last one, run.completed comes right after the answer,
\* and a run that failed has not answered; the answer a client has seen is in
\* the history.
StreamIsWellFormed ==
    /\ \A i \in DOMAIN events :
          /\ events[i] = "script.started" =>
                i = Len(events) \/ events[i + 1] \in {"script.completed", "run.failed"}
          /\ events[i] = "script.completed" => i > 1 /\ events[i - 1] = "script.started"
          /\ events[i] \in Terminal => i = Len(events)
    /\ "run.completed" \in Sent => events[Len(events) - 1] = "message.completed"
    /\ "run.failed" \in Sent => ~stored
    /\ "message.completed" \in Sent => stored

\* A result is reused only within the lifetime of its kind, counted from the
\* time it was stored to the time the call looked it up, even when another run
\* replaces the row between the two reads of it.
ReusedWithinTtl ==
    pc = "reused" => decision.asked - decision.row.created < TtlOf(decision.row.ok)

\* A run the client stays with leaves no process of its own behind, however
\* it ends.
NoProcessLeft ==
    [][pc' = "closed" /\ events' # events => child' # "running"]_vars

\* A run that was started ends, whatever the script does.
RunEnds == (pc = "select") ~> (pc = "closed")

\* ... unless a process that the script left behind holds its pipes for good:
\* nothing else that script or store may do keeps a run from its end.
RunEndsUnlessHeld == (pc = "select") ~> (pc = "closed" \/ [](pc = "drain" /\ open))

=============================================================================
