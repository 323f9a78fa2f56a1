--------------------------- MODULE LongTermMemory ---------------------------
(***************************************************************************)
(* Long-term memories: the memory_items table of persistence/repository.py *)
(* under the memory endpoints of api/router.py, the retrieval of           *)
(* memory/service.py that puts memories into the prompt of a chat turn,    *)
(* and the extraction that proposes new ones after it.                     *)
(*                                                                         *)
(* The chat turns are those of one session.  A memory's scope is that      *)
(* session, its workspace, or another session.  What a memory says is a    *)
(* member of Content; LineSize tells the length of its line in the prompt. *)
(* Percentages stand for importance and confidence.  access_count is left  *)
(* out: nothing reads it but responses.                                    *)
(***************************************************************************)
EXTENDS ContextBuilder, FiniteSets

CONSTANTS
    Turn,           \* coroutines serving chat turns
    Admin,          \* the PATCH and DELETE requests clients send
    Content,        \* what memories say
    LineSize,       \* LineSize[c]: the bytes of a prompt line that says c
    Expiry,         \* expires_at values clients give: [at : UTC instant, offset : of the zone]
    Body,           \* POST bodies clients send
    Payload,        \* PATCH bodies clients send
    History,        \* the messages and the summary (0: none) a prompt is built from
    Extractions,    \* contents a model extracts from an exchange
    Limit,          \* memory_retrieval_limit
    MaxItems,       \* bound: no memory is added beyond this many
    MaxTime,        \* bound: the clock stops here
    None

Item == 1..MaxItems
Status == {"candidate", "active", "rejected", "deleted"}

\* A row of memory_items; deleted: deleted_at is set, accessed:
\* last_accessed_at is set.
Row == [scope : {"session", "workspace", "other"}, content : Content,
        importance : 0..100, confidence : 0..100, status : Status,
        expires : Expiry \cup {None}, deleted : BOOLEAN, accessed : BOOLEAN]

\* What delete_memory asks update_memory to assign.
Deletion == [status |-> "deleted", deleted |-> TRUE]

ASSUME LongTermAssumption ==
    /\ LineSize \in [Content -> Nat]
    /\ \A e \in Expiry : e.at \in Nat /\ e.offset \in Int
    /\ None \notin Expiry
    /\ Body \subseteq [scope : {"session", "workspace", "other"}, content : Content,
                      importance : 0..100, expires : Expiry \cup {None}]
    /\ \A u \in Payload :
          /\ DOMAIN u \subseteq {"status", "content", "importance", "expires"}
          /\ "status" \in DOMAIN u => u["status"] \in Status
          /\ "content" \in DOMAIN u => u["content"] \in Content
          /\ "importance" \in DOMAIN u => u["importance"] \in 0..100
          /\ "expires" \in DOMAIN u => u["expires"] \in Expiry \cup {None}
    /\ \A e \in Extractions : e \in Seq(Content) /\ Len(e) <= 3
    /\ History \subseteq [messages : Seq([role : {"user", "assistant"}, size : Nat]),
                         summary : Nat]
    /\ Limit \in Nat
    /\ MaxItems \in Nat /\ MaxTime \in Nat
    /\ Turn \cap Admin = {}

VARIABLES
    items,      \* memory_items, in the order of insertion
    clock,      \* utc_now()
    turns,      \* the chat turns in flight
    admins,     \* the PATCH and DELETE requests, none is served twice
    approved    \* history: the proposals a PATCH made active

vars == <<items, clock, turns, admins, approved>>

Idle == [pc |-> "idle"]

\* What retrieval returned of a row.
Found == [id : Item, content : Content]

\* A chat turn by the await it is suspended at.  gone: the memories whose
\* deletion had been answered when the turn began.
TurnState ==
       {Idle}
  \cup [pc : {"search"}, gone : SUBSET Item]
  \cup [pc : {"mark"}, gone : SUBSET Item, found : Seq(Found)]
  \cup [pc : {"build"}, gone : SUBSET Item, found : Seq(Found), history : History]
  \cup [pc : {"stream"}, gone : SUBSET Item, told : SUBSET Item]
  \cup [pc : {"existing"}, contents : Seq(Content)]
  \cup [pc : {"insert"}, contents : Seq(Content), existing : SUBSET Content]

\* The SET clauses of the UPDATEs: some columns of what was assigned.
Update == UNION {{[c \in C |-> u[c]] : C \in SUBSET DOMAIN u} : u \in Payload \cup {Deletion}}

Over == [pc |-> "over"]

AdminState == {Idle, Over} \cup [pc : {"write"}, item : Item, set : Update]

TypeOK ==
    /\ items \in Seq(Row) /\ Len(items) <= MaxItems
    /\ clock \in 0..MaxTime
    /\ turns \in [Turn -> TurnState]
    /\ admins \in [Admin -> AdminState]
    /\ approved \subseteq Item

Init ==
    /\ items = <<>>
    /\ clock = 0
    /\ turns = [t \in Turn |-> Idle]
    /\ admins = [a \in Admin |-> Idle]
    /\ approved = {}

TurnGoes(t, q) == turns' = [turns EXCEPT ![t] = q]
AdminGoes(a, q) == admins' = [admins EXCEPT ![a] = q]

-----------------------------------------------------------------------------
(* The memory endpoints. *)

\* Mutant: a status that is not one.
UnknownStatus(c) ==
    [scope |-> "session", content |-> c, importance |-> 50, confidence |-> 70,
     status |-> "proposed", expires |-> None, deleted |-> FALSE, accessed |-> FALSE]

\* Mutant: a proposal is stored with the default status.
ActiveProposal(c) ==
    [scope |-> "session", content |-> c, importance |-> 50, confidence |-> 70,
     status |-> "active", expires |-> None, deleted |-> FALSE, accessed |-> FALSE]

\* What extraction stores of a content, with the importance it has by default.
Proposal(c) ==
    [scope |-> "session", content |-> c, importance |-> 50, confidence |-> 70,
     status |-> "candidate", expires |-> None, deleted |-> FALSE, accessed |-> FALSE]

\* POST: a user's own memory is active at once.
Create(body) ==
    /\ Len(items) < MaxItems
    /\ items' = Append(items,
          [scope |-> body.scope, content |-> body.content, importance |-> body.importance,
           confidence |-> 100, status |-> "active", expires |-> body.expires,
           deleted |-> FALSE, accessed |-> FALSE])
    /\ UNCHANGED <<clock, turns, admins, approved>>

\* The columns an UPDATE names: those assigned another value than was
\* loaded.  A timestamp always differs from the loaded one.
Changed(row, assigned) ==
    [c \in {d \in DOMAIN assigned :
               \/ assigned[d] # row[d]
               \/ d \in {"expires", "deleted"} /\ assigned[d] # None}
        |-> assigned[c]]

\* update_memory loads the row, which decides what it will write; delete_memory
\* is update_memory too.
Load(a, i, assigned) ==
    /\ admins[a] = Idle
    /\ AdminGoes(a, [pc |-> "write", item |-> i, set |-> Changed(items[i], assigned)])
    /\ UNCHANGED <<items, clock, turns, approved>>

Patch(a) == \E i \in DOMAIN items, assigned \in Payload : Load(a, i, assigned)

Delete(a) == \E i \in DOMAIN items : Load(a, i, Deletion)

\* The memories a model proposed.
Proposals == {i \in DOMAIN items : items[i].confidence = 70}

\* ... and commits.
Write(a) ==
    LET q == admins[a] IN
    /\ q.pc = "write"
    /\ items' = [items EXCEPT ![q.item] =
                    [c \in DOMAIN @ |-> IF c \in DOMAIN q.set THEN q.set[c] ELSE @[c]]]
    /\ approved' = approved \cup {i \in Proposals : i = q.item /\ items'[i].status = "active"}
    /\ AdminGoes(a, Over)
    /\ UNCHANGED <<clock, turns>>

-----------------------------------------------------------------------------
(* Retrieval and prompt of a chat turn. *)

\* stream_message: the turn has stored its message; the compaction and the
\* reads of SessionMemory come before retrieval.
Begin(t) ==
    /\ turns[t] = Idle
    /\ TurnGoes(t, [pc |-> "search", gone |-> {i \in DOMAIN items : items[i].deleted}])
    /\ UNCHANGED <<items, clock, admins, approved>>

\* The stored digits of an expiry: SQLite keeps the time of day of the
\* client's zone and drops the zone.
Digits(e) == e.at + e.offset

\* Mutant: only the status tells what is deleted.
SearchableByStatus(row) ==
    /\ row.scope \in {"session", "workspace"}
    /\ row.status = "active"
    /\ row.expires = None \/ Digits(row.expires) > clock

\* What search_active_memories selects.
Searchable(row) ==
    /\ row.scope \in {"session", "workspace"}
    /\ row.status = "active" /\ ~row.deleted
    /\ row.expires = None \/ Digits(row.expires) > clock

\* The subsets of n best members of S, or all of S, by their rank.
Best(S, n, rank) ==
    {B \in SUBSET S : /\ Cardinality(B) = LesserOf(n, Cardinality(S))
                      /\ \A i \in B, j \in S \ B : rank[i] >= rank[j]}

\* ORDER BY importance DESC, confidence DESC; what follows is left open.
Weight(i) == 101 * items[i].importance + items[i].confidence

\* _score_memory in hundredths of a percent: relevance to the query (a content
\* has all of the query's terms or none), importance, confidence and a bonus
\* for earlier accesses.
Score(i, relevant) ==
    (IF items[i].content \in relevant THEN 5000 ELSE 0)
      + 25 * items[i].importance + 20 * items[i].confidence
      + (IF items[i].accessed THEN 500 ELSE 0)

\* The orders in which retrieval may return the members of S: best score first.
ByScore(S, relevant) ==
    {order \in [1..Cardinality(S) -> S] :
        /\ \A i \in S : \E j \in DOMAIN order : order[j] = i
        /\ \A j, k \in DOMAIN order :
              j < k => Score(order[j], relevant) >= Score(order[k], relevant)}

\* One SELECT finds the candidates; the best of them are returned.
Search(t) ==
    LET searchable == {i \in DOMAIN items : Searchable(items[i])} IN
    /\ turns[t].pc = "search"
    /\ \E candidates \in Best(searchable, 4 * Limit, [i \in searchable |-> Weight(i)]),
          relevant \in SUBSET {items[i].content : i \in searchable} :
       \E best \in Best(candidates, Limit, [i \in candidates |-> Score(i, relevant)]) :
       \E order \in ByScore(best, relevant) :
          TurnGoes(t, [pc |-> "mark", gone |-> turns[t].gone,
                       found |-> [j \in DOMAIN order |->
                                    [id |-> order[j], content |-> items[order[j]].content]]])
    /\ UNCHANGED <<items, clock, admins, approved>>

Ids(found) == {found[j].id : j \in DOMAIN found}

\* mark_memories_accessed; the messages and the summary were read before.
Mark(t) ==
    LET q == turns[t] IN
    /\ q.pc = "mark"
    /\ items' = [i \in DOMAIN items |->
                    IF i \in Ids(q.found) THEN [items[i] EXCEPT !.accessed = TRUE]
                    ELSE items[i]]
    /\ \E history \in History :
          TurnGoes(t, [pc |-> "build", gone |-> q.gone, found |-> q.found,
                       history |-> history])
    /\ UNCHANGED <<clock, admins, approved>>

\* Neither statement is guarded: when the store fails, so does the request.
RetrievalFails(t) ==
    /\ turns[t].pc \in {"search", "mark"}
    /\ TurnGoes(t, Idle)
    /\ UNCHANGED <<items, clock, admins, approved>>

Lines(found) == [j \in DOMAIN found |-> LineSize[found[j].content]]

Bundle(q) == Build(q.history.messages, q.history.summary, Lines(q.found))

\* The prompt is built and sent, whether or not its statistics are stored.
Send(t) ==
    LET q == turns[t] IN
    /\ q.pc = "build"
    /\ TurnGoes(t, [pc |-> "stream", gone |-> q.gone,
                    told |-> {q.found[j].id : j \in Bundle(q).told}])
    /\ UNCHANGED <<items, clock, admins, approved>>

-----------------------------------------------------------------------------
(* Extraction after the answer. *)

\* The answer is stored and the model extracts something from the exchange;
\* what is malformed or sensitive is already left out of the contents.
Answer(t) ==
    /\ turns[t].pc = "stream"
    /\ \E contents \in Extractions : TurnGoes(t, [pc |-> "existing", contents |-> contents])
    /\ UNCHANGED <<items, clock, admins, approved>>

\* The run fails, the client goes away, or extraction is off or fails.
EndTurn(t) ==
    /\ turns[t].pc \in {"build", "stream", "existing", "insert"}
    /\ TurnGoes(t, Idle)
    /\ UNCHANGED <<items, clock, admins, approved>>

\* The contents the session's memories say already, the deleted ones aside.
Known == {items[i].content : i \in {j \in DOMAIN items :
             items[j].scope = "session" /\ items[j].status # "deleted"}}

\* The existing memories are read once, before the first insertion.
ReadExisting(t) ==
    /\ turns[t].pc = "existing"
    /\ TurnGoes(t, [pc |-> "insert", contents |-> turns[t].contents, existing |-> Known])
    /\ UNCHANGED <<items, clock, admins, approved>>

\* What was known then, or has been proposed since, is left out.
Skip(t) ==
    LET q == turns[t] IN
    /\ q.pc = "insert" /\ q.contents # <<>>
    /\ Head(q.contents) \in q.existing
    /\ TurnGoes(t, [pc |-> "insert", contents |-> Tail(q.contents), existing |-> q.existing])
    /\ UNCHANGED <<items, clock, admins, approved>>

\* Each proposal is committed by itself.
Insert(t) ==
    LET q == turns[t] IN
    /\ q.pc = "insert" /\ q.contents # <<>>
    /\ Head(q.contents) \notin q.existing
    /\ Len(items) < MaxItems
    /\ items' = Append(items, Proposal(Head(q.contents)))
    /\ TurnGoes(t, [pc |-> "insert", contents |-> Tail(q.contents),
                    existing |-> q.existing \cup {Head(q.contents)}])
    /\ UNCHANGED <<clock, admins, approved>>

-----------------------------------------------------------------------------
\* Time passes.
Tick ==
    /\ clock < MaxTime
    /\ clock' = clock + 1
    /\ UNCHANGED <<items, turns, admins, approved>>

\* The process dies and restarts: only commits survive.
Restart ==
    /\ turns' = [t \in Turn |-> Idle]
    /\ admins' = [a \in Admin |-> IF admins[a].pc = "write" THEN Over ELSE admins[a]]
    /\ UNCHANGED <<items, clock, approved>>

ChatTurn(t) ==
    \/ Begin(t) \/ Search(t) \/ Mark(t) \/ RetrievalFails(t) \/ Send(t)
    \/ Answer(t) \/ EndTurn(t) \/ ReadExisting(t) \/ Skip(t) \/ Insert(t)

Endpoint ==
    \/ \E body \in Body : Create(body)
    \/ \E a \in Admin : Patch(a) \/ Delete(a) \/ Write(a)

Next == Endpoint \/ (\E t \in Turn : ChatTurn(t)) \/ Tick \/ Restart

Spec == Init /\ [][Next]_vars

-----------------------------------------------------------------------------
\* What is deleted stays forgotten: a turn that began after the deletion was
\* answered recalls nothing of it, whatever requests edit, reject or activate
\* the memory before, during or after its deletion.
DeletedStaysForgotten ==
    \A t \in Turn :
        /\ turns[t].pc \in {"mark", "build"} => Ids(turns[t].found) \cap turns[t].gone = {}
        /\ turns[t].pc = "stream" => turns[t].told \cap turns[t].gone = {}

\* The memories a turn may still be told.
Recalled(q) ==
    CASE q.pc \in {"mark", "build"} -> Ids(q.found)
      [] q.pc = "stream" -> q.told
      [] OTHER -> {}

\* Refinement: retrieval implements MemoryGovernance.
Governance == INSTANCE MemoryGovernance WITH
    Id <- Item,
    visible <- {i \in DOMAIN items : Searchable(items[i])},
    proposed <- Proposals \ approved,
    forgotten <- {i \in DOMAIN items : items[i].deleted},
    recalled <- [t \in Turn |-> Recalled(turns[t])]

ImplementsGovernance == Governance!Spec

\* A memory is recalled only before the instant its client gave as its expiry;
\* so it is where clients give it in UTC, and not where their zone is ahead.
ExpiredIsNotRecalled ==
    [][\A t \in Turn : turns[t].pc = "search" /\ turns'[t].pc = "mark" =>
          \A i \in Ids(turns'[t].found) :
              items[i].expires # None => items[i].expires.at > clock]_turns

\* The prompt of every turn keeps the promises of ContextBuilder: it is
\* within the budget when the newest message is the user's.
PromptWithinBudget ==
    \A t \in Turn : turns[t].pc = "build" =>
        LET q == turns[t] IN WithinBudget(q.history.messages, Bundle(q))

\* No turn's prompt is trimmed needlessly, whatever retrieval returned and
\* however summary, memories and messages share the budget.
PromptIsFull ==
    \A t \in Turn : turns[t].pc = "build" =>
        LET q == turns[t] IN
        LeftOutForWantOfRoom(q.history.messages, Lines(q.found), Bundle(q))

=============================================================================
