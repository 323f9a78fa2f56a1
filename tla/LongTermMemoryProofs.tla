------------------------ MODULE LongTermMemoryProofs ------------------------
(***************************************************************************)
(* Proofs about LongTermMemory, for any number of turns and requests and   *)
(* whatever clients send and models extract: types, that what is deleted   *)
(* stays forgotten, that retrieval implements MemoryGovernance, and what   *)
(* the prompt of every turn promises.                                      *)
(*                                                                         *)
(* The inductive invariant adds two facts to the types: what had been      *)
(* deleted when a turn began is still marked deleted when it searches, and *)
(* a proposal that is active has been approved by a PATCH.                 *)
(***************************************************************************)
EXTENDS LongTermMemory, ContextBuilderProofs, FiniteSetTheorems

\* A turn by what it relies on: nothing deleted before it began is told.
SoundTurn(q) ==
    /\ q.pc = "search" => \A i \in q.gone : i \in DOMAIN items /\ items[i].deleted
    /\ q.pc \in {"mark", "build"} => Ids(q.found) \cap q.gone = {}
    /\ q.pc = "stream" => q.told \cap q.gone = {}

ActiveIsApproved ==
    \A i \in DOMAIN items :
        items[i].confidence = 70 /\ items[i].status = "active" => i \in approved

IInv ==
    /\ TypeOK
    /\ \A t \in Turn : SoundTurn(turns[t])
    /\ ActiveIsApproved

-----------------------------------------------------------------------------
(* Shapes. *)

LEMMA ItemsShape ==
    ASSUME TypeOK
    PROVE  /\ DOMAIN items = 1..Len(items) /\ Len(items) \in Nat
           /\ DOMAIN items \subseteq Item
           /\ \A i \in DOMAIN items : items[i] \in Row
           /\ IsFiniteSet(DOMAIN items)
<1>1. DOMAIN items = 1..Len(items) /\ Len(items) \in Nat
      /\ \A i \in DOMAIN items : items[i] \in Row
  BY DEF TypeOK
<1>2. Len(items) <= MaxItems /\ MaxItems \in Nat
  BY LongTermAssumption DEF TypeOK, LongTermAssumption
<1>3. IsFiniteSet(1..Len(items))
  BY <1>1, FS_Interval
<1> QED
  BY <1>1, <1>2, <1>3 DEF Item

\* The fields of a turn's state, by the await it is suspended at.
LEMMA TurnShape ==
    ASSUME NEW q \in TurnState
    PROVE  /\ q.pc \in {"search", "mark", "build", "stream"} => q.gone \in SUBSET Item
           /\ q.pc \in {"mark", "build"} => q.found \in Seq(Found)
           /\ q.pc = "build" => q.history \in History
           /\ q.pc = "stream" => q.told \in SUBSET Item
           /\ q.pc \in {"existing", "insert"} => q.contents \in Seq(Content)
           /\ q.pc = "insert" => q.existing \in SUBSET Content
  BY DEF TurnState, Idle

\* What a suspended PATCH or DELETE writes: no confidence, and deleted only as TRUE.
LEMMA UpdateShape ==
    ASSUME NEW u \in Update
    PROVE  /\ DOMAIN u \subseteq {"status", "content", "importance", "expires", "deleted"}
           /\ "status" \in DOMAIN u => u["status"] \in Status
           /\ "content" \in DOMAIN u => u["content"] \in Content
           /\ "importance" \in DOMAIN u => u["importance"] \in 0..100
           /\ "expires" \in DOMAIN u => u["expires"] \in Expiry \cup {None}
           /\ "deleted" \in DOMAIN u => u["deleted"] = TRUE
<1>1. PICK a \in Payload \cup {Deletion} : \E C \in SUBSET DOMAIN a : u = [c \in C |-> a[c]]
  BY DEF Update
<1>2. DOMAIN u \subseteq DOMAIN a /\ \A c \in DOMAIN u : u[c] = a[c]
  BY <1>1
<1>3. CASE a \in Payload
  BY <1>2, <1>3, LongTermAssumption DEF LongTermAssumption
<1>4. CASE a = Deletion
  BY <1>2, <1>4 DEF Deletion, Status
<1> QED
  BY <1>3, <1>4

\* The row an UPDATE leaves.
LEMMA UpdatedRow ==
    ASSUME NEW row \in Row, NEW u \in Update, NEW new,
           new = [c \in DOMAIN row |-> IF c \in DOMAIN u THEN u[c] ELSE row[c]]
    PROVE  /\ new \in Row
           /\ row.deleted => new.deleted
           /\ new.confidence = row.confidence
<1>1. DOMAIN row = {"scope", "content", "importance", "confidence", "status", "expires",
                    "deleted", "accessed"}
  BY DEF Row
<1>2. new = [scope |-> new.scope, content |-> new.content, importance |-> new.importance,
             confidence |-> new.confidence, status |-> new.status,
             expires |-> new.expires, deleted |-> new.deleted, accessed |-> new.accessed]
  BY <1>1
<1>3. /\ new.scope = row.scope /\ new.confidence = row.confidence
      /\ new.accessed = row.accessed
  BY <1>1, UpdateShape
<1>4. /\ new.content \in Content /\ new.importance \in 0..100 /\ new.status \in Status
      /\ new.expires \in Expiry \cup {None}
  BY <1>1, UpdateShape DEF Row
<1>5. new.deleted \in BOOLEAN /\ (row.deleted => new.deleted)
  BY <1>1, UpdateShape DEF Row
<1> QED
  BY <1>2, <1>3, <1>4, <1>5 DEF Row

\* A selection takes some of what it considers.
LEMMA TakenIsSubset ==
    ASSUME NEW sizes, NEW room
    PROVE  Taken(sizes, room) \subseteq DOMAIN sizes
  BY DEF Taken

\* The prompt tells memories that were found.
LEMMA ToldIsFound ==
    ASSUME NEW q
    PROVE  {q.found[j].id : j \in Bundle(q).told} \subseteq Ids(q.found)
<1> DEFINE lines == Lines(q.found)
           room == AuxiliaryBudget(q.history.messages)
           section == SummarySection(q.history.summary, room)
<1>1. Bundle(q).told = MemoriesTold(lines, section, room)
  BY DEF Bundle, Build
<1>2. MemoriesTold(lines, section, room) \subseteq DOMAIN lines
  BY TakenIsSubset DEF MemoriesTold
<1>3. DOMAIN lines = DOMAIN q.found
  BY DEF Lines
<1> QED
  BY <1>1, <1>2, <1>3 DEF Ids

-----------------------------------------------------------------------------
(* The invariant, action by action. *)

LEMMA InitInvariant == Init => IInv
<1> SUFFICES ASSUME Init PROVE IInv
  OBVIOUS
<1>1. TypeOK
  <2>1. items \in Seq(Row) /\ Len(items) = 0
    BY DEF Init
  <2>2. MaxItems \in Nat /\ MaxTime \in Nat
    BY LongTermAssumption DEF LongTermAssumption
  <2> QED
    BY <2>1, <2>2 DEF Init, TypeOK, TurnState, AdminState
<1>2. \A t \in Turn : SoundTurn(turns[t])
  BY DEF Init, SoundTurn, Idle
<1>3. ActiveIsApproved
  BY DEF Init, ActiveIsApproved
<1> QED
  BY <1>1, <1>2, <1>3 DEF IInv

\* A step that only moves one turn to a sound state.
LEMMA TurnMovePreserves ==
    ASSUME IInv, NEW t \in Turn, NEW q \in TurnState, SoundTurn(q), TurnGoes(t, q),
           UNCHANGED <<items, clock, admins, approved>>
    PROVE  IInv'
<1>1. turns' = [turns EXCEPT ![t] = q] /\ turns \in [Turn -> TurnState]
  BY DEF TurnGoes, IInv, TypeOK
<1>2. turns' \in [Turn -> TurnState]
  BY <1>1
<1>3. TypeOK'
  BY <1>2 DEF IInv, TypeOK
<1>4. \A u \in Turn : SoundTurn(turns[u])'
  <2> SUFFICES ASSUME NEW u \in Turn PROVE SoundTurn(turns[u])'
    OBVIOUS
  <2>1. turns'[u] = q \/ turns'[u] = turns[u]
    BY <1>1
  <2>2. SoundTurn(turns[u])
    BY DEF IInv
  <2> QED
    BY <2>1, <2>2 DEF SoundTurn, Ids
<1>5. ActiveIsApproved'
  BY DEF IInv, ActiveIsApproved
<1> QED
  BY <1>3, <1>4, <1>5 DEF IInv

\* A step that writes rows, the turns staying where they are.
LEMMA RowsChangePreserves ==
    ASSUME IInv,
           items' \in Seq(Row), Len(items') <= MaxItems,
           DOMAIN items \subseteq DOMAIN items',
           \A i \in DOMAIN items : items[i].deleted => items'[i].deleted,
           approved' \subseteq Item, ActiveIsApproved',
           turns' \in [Turn -> TurnState], \A t \in Turn : SoundTurn(turns[t])',
           admins' \in [Admin -> AdminState], UNCHANGED clock
    PROVE  IInv'
  BY DEF IInv, TypeOK

\* The turns that stay where they are while rows change: no row is removed
\* nor its deletion undone.
LEMMA OthersStaySound ==
    ASSUME IInv, UNCHANGED turns,
           DOMAIN items \subseteq DOMAIN items',
           \A i \in DOMAIN items : items[i].deleted => items'[i].deleted
    PROVE  turns' \in [Turn -> TurnState] /\ \A t \in Turn : SoundTurn(turns[t])'
<1>1. turns' \in [Turn -> TurnState]
  BY DEF IInv, TypeOK
<1>2. ASSUME NEW t \in Turn PROVE SoundTurn(turns[t])'
  BY <1>2 DEF IInv, SoundTurn, Ids
<1> QED
  BY <1>1, <1>2

\* A row that is added: its predecessors keep their places.
LEMMA AddedRow ==
    ASSUME IInv, NEW row \in Row, Len(items) < MaxItems, items' = Append(items, row),
           row.confidence = 70 => row.status # "active", UNCHANGED approved
    PROVE  /\ items' \in Seq(Row) /\ Len(items') <= MaxItems
           /\ DOMAIN items \subseteq DOMAIN items'
           /\ \A i \in DOMAIN items : items'[i] = items[i]
           /\ ActiveIsApproved'
<1>1. items \in Seq(Row) /\ MaxItems \in Nat
  BY LongTermAssumption DEF IInv, TypeOK, LongTermAssumption
<1>2. /\ items' \in Seq(Row) /\ Len(items') = Len(items) + 1
      /\ \A i \in 1..Len(items) : items'[i] = items[i]
      /\ items'[Len(items) + 1] = row
  BY <1>1, AppendProperties
<1>3. DOMAIN items = 1..Len(items) /\ DOMAIN items' = 1..(Len(items) + 1)
      /\ Len(items) \in Nat
  BY <1>1, <1>2
<1>4. ActiveIsApproved'
  <2> SUFFICES ASSUME NEW i \in DOMAIN items',
                      items'[i].confidence = 70, items'[i].status = "active"
               PROVE  i \in approved'
    BY DEF ActiveIsApproved
  <2>1. i # Len(items) + 1
    BY <1>2
  <2>2. i \in DOMAIN items
    BY <1>3, <2>1
  <2> QED
    BY <1>2, <1>3, <2>2 DEF IInv, ActiveIsApproved
<1> QED
  BY <1>1, <1>2, <1>3, <1>4

LEMMA CreatePreserves ==
    ASSUME IInv, NEW body \in Body, Create(body)
    PROVE  IInv'
<1> DEFINE row == [scope |-> body.scope, content |-> body.content,
                   importance |-> body.importance, confidence |-> 100, status |-> "active",
                   expires |-> body.expires, deleted |-> FALSE, accessed |-> FALSE]
<1>1. row \in Row
  BY LongTermAssumption DEF LongTermAssumption, Row, Status
<1>2. /\ items' \in Seq(Row) /\ Len(items') <= MaxItems
      /\ DOMAIN items \subseteq DOMAIN items'
      /\ \A i \in DOMAIN items : items'[i] = items[i]
      /\ ActiveIsApproved'
  <2> HIDE DEF row
  <2>1. row.confidence = 70 => row.status # "active"
    BY DEF row
  <2>2. Len(items) < MaxItems /\ items' = Append(items, row) /\ UNCHANGED approved
    BY DEF Create, row
  <2> QED
    BY <1>1, <2>1, <2>2, AddedRow
<1>3. UNCHANGED <<clock, turns, admins, approved>>
  BY DEF Create
<1>4. turns' \in [Turn -> TurnState] /\ \A t \in Turn : SoundTurn(turns[t])'
  BY <1>2, <1>3, OthersStaySound
<1> QED
  BY <1>2, <1>3, <1>4, RowsChangePreserves DEF IInv, TypeOK

LEMMA LoadPreserves ==
    ASSUME IInv, NEW a \in Admin, NEW i \in DOMAIN items,
           NEW assigned \in Payload \cup {Deletion}, Load(a, i, assigned)
    PROVE  IInv'
<1> DEFINE set == Changed(items[i], assigned)
<1>1. set \in Update
  <2>1. PICK C \in SUBSET DOMAIN assigned : set = [c \in C |-> assigned[c]]
    BY DEF Changed
  <2> QED
    BY <2>1 DEF Update
<1>2. i \in Item
  BY ItemsShape DEF IInv
<1>3. [pc |-> "write", item |-> i, set |-> set] \in AdminState
  BY <1>1, <1>2 DEF AdminState
<1>4. admins' \in [Admin -> AdminState]
  BY <1>3 DEF Load, AdminGoes, IInv, TypeOK
<1>5. UNCHANGED <<items, clock, turns, approved>>
  BY DEF Load
<1>6. turns' \in [Turn -> TurnState] /\ \A t \in Turn : SoundTurn(turns[t])'
  BY <1>5, OthersStaySound
<1> QED
  BY <1>4, <1>5, <1>6 DEF IInv, TypeOK, ActiveIsApproved

\* What a PATCH or DELETE leaves when it commits.
LEMMA WrittenRows ==
    ASSUME IInv, NEW a \in Admin, Write(a)
    PROVE  LET n == admins[a].item IN
           /\ items' = [i \in DOMAIN items |-> items'[i]]
           /\ DOMAIN items' = DOMAIN items
           /\ \A i \in DOMAIN items : i # n => items'[i] = items[i]
           /\ \A i \in DOMAIN items :
                 /\ items'[i] \in Row
                 /\ items[i].deleted => items'[i].deleted
                 /\ items'[i].confidence = items[i].confidence
<1> DEFINE q == admins[a]
           n == q.item
<1>1. /\ n \in Item /\ q.set \in Update
      /\ items' = [items EXCEPT ![n] =
                      [c \in DOMAIN @ |-> IF c \in DOMAIN q.set THEN q.set[c] ELSE @[c]]]
  <2>1. q.pc = "write" /\ q \in AdminState
    BY DEF Write, IInv, TypeOK
  <2>2. n \in Item /\ q.set \in Update
    BY <2>1 DEF AdminState, Idle, Over
  <2> QED
    BY <2>2 DEF Write
<1>2. /\ DOMAIN items' = DOMAIN items
      /\ \A i \in DOMAIN items : i # n => items'[i] = items[i]
      /\ \A i \in DOMAIN items : i = n =>
            items'[i] = [c \in DOMAIN items[i] |->
                            IF c \in DOMAIN q.set THEN q.set[c] ELSE items[i][c]]
  BY <1>1
<1>3. \A i \in DOMAIN items :
          /\ items'[i] \in Row
          /\ items[i].deleted => items'[i].deleted
          /\ items'[i].confidence = items[i].confidence
  <2> SUFFICES ASSUME NEW i \in DOMAIN items
               PROVE  /\ items'[i] \in Row
                      /\ items[i].deleted => items'[i].deleted
                      /\ items'[i].confidence = items[i].confidence
    OBVIOUS
  <2>1. items[i] \in Row
    BY ItemsShape DEF IInv
  <2>2. CASE i # n
    BY <1>2, <2>1, <2>2
  <2>3. CASE i = n
    BY <1>1, <1>2, <2>1, <2>3, UpdatedRow
  <2> QED
    BY <2>2, <2>3
<1> QED
  BY <1>1, <1>2, <1>3

LEMMA WritePreserves ==
    ASSUME IInv, NEW a \in Admin, Write(a)
    PROVE  IInv'
<1> DEFINE q == admins[a]
           n == q.item
<1>1. items' = [i \in DOMAIN items |-> items'[i]]
  BY WrittenRows
<1>2. /\ DOMAIN items' = DOMAIN items
      /\ \A i \in DOMAIN items : i # n => items'[i] = items[i]
  BY WrittenRows
<1>3. \A i \in DOMAIN items :
          /\ items'[i] \in Row
          /\ items[i].deleted => items'[i].deleted
          /\ items'[i].confidence = items[i].confidence
  BY WrittenRows
<1>4. items' \in Seq(Row) /\ Len(items') = Len(items)
  <2>1. DOMAIN items' = 1..Len(items) /\ Len(items) \in Nat
    BY <1>2, ItemsShape DEF IInv
  <2>2. items' = [i \in 1..Len(items) |-> items'[i]]
    BY <1>1, <2>1
  <2> QED
    BY <1>2, <1>3, <2>1, <2>2, IsASeq
<1>5. approved' = approved \cup {i \in Proposals : i = n /\ items'[i].status = "active"}
  BY DEF Write
<1>6. ActiveIsApproved'
  <2> SUFFICES ASSUME NEW i \in DOMAIN items,
                      items'[i].confidence = 70, items'[i].status = "active"
               PROVE  i \in approved'
    BY <1>2 DEF ActiveIsApproved
  <2>1. items[i].confidence = 70
    BY <1>3
  <2>2. CASE i = n
    BY <1>5, <2>1, <2>2 DEF Proposals
  <2>3. CASE i # n
    BY <1>2, <1>5, <2>1, <2>3 DEF IInv, ActiveIsApproved
  <2> QED
    BY <2>2, <2>3
<1>7. approved' \subseteq Item
  BY <1>5, ItemsShape DEF Proposals, IInv, TypeOK
<1>8. UNCHANGED <<clock, turns>> /\ admins' \in [Admin -> AdminState]
  BY DEF Write, AdminGoes, AdminState, IInv, TypeOK
<1>9. turns' \in [Turn -> TurnState] /\ \A t \in Turn : SoundTurn(turns[t])'
  BY <1>2, <1>3, <1>8, OthersStaySound
<1> QED
  BY <1>2, <1>3, <1>4, <1>6, <1>7, <1>8, <1>9, RowsChangePreserves DEF IInv, TypeOK

LEMMA BeginPreserves ==
    ASSUME IInv, NEW t \in Turn, Begin(t)
    PROVE  IInv'
<1> DEFINE q == [pc |-> "search", gone |-> {i \in DOMAIN items : items[i].deleted}]
<1>1. q \in TurnState
  BY ItemsShape DEF TurnState, IInv
<1>2. SoundTurn(q)
  BY DEF SoundTurn
<1> QED
  BY <1>1, <1>2, TurnMovePreserves DEF Begin

\* What a search finds: live rows, told with what they say.
LEMMA SearchFinds ==
    ASSUME IInv, NEW t \in Turn, Search(t)
    PROVE  \E found \in Seq(Found) :
              /\ TurnGoes(t, [pc |-> "mark", gone |-> turns[t].gone, found |-> found])
              /\ Ids(found) \subseteq {i \in DOMAIN items : Searchable(items[i])}
<1> DEFINE searchable == {i \in DOMAIN items : Searchable(items[i])}
<1>1. PICK candidates \in Best(searchable, 4 * Limit, [i \in searchable |-> Weight(i)]),
           relevant \in SUBSET {items[i].content : i \in searchable} :
       \E best \in Best(candidates, Limit, [i \in candidates |-> Score(i, relevant)]) :
       \E order \in ByScore(best, relevant) :
          TurnGoes(t, [pc |-> "mark", gone |-> turns[t].gone,
                       found |-> [j \in DOMAIN order |->
                                    [id |-> order[j], content |-> items[order[j]].content]]])
  BY DEF Search
<1>2. PICK best \in Best(candidates, Limit, [i \in candidates |-> Score(i, relevant)]) :
       \E order \in ByScore(best, relevant) :
          TurnGoes(t, [pc |-> "mark", gone |-> turns[t].gone,
                       found |-> [j \in DOMAIN order |->
                                    [id |-> order[j], content |-> items[order[j]].content]]])
  BY <1>1
<1>3. PICK order \in ByScore(best, relevant) :
          TurnGoes(t, [pc |-> "mark", gone |-> turns[t].gone,
                       found |-> [j \in DOMAIN order |->
                                    [id |-> order[j], content |-> items[order[j]].content]]])
  BY <1>2
<1>4. best \subseteq searchable
  BY DEF Best
<1>5. Cardinality(best) \in Nat
  <2>1. IsFiniteSet(DOMAIN items)
    BY ItemsShape DEF IInv
  <2>2. best \in SUBSET DOMAIN items
    BY <1>4
  <2> QED
    BY <2>1, <2>2, FS_Subset, FS_CardinalityType
<1>6. order \in [1..Cardinality(best) -> best]
  BY DEF ByScore
<1> DEFINE found == [j \in DOMAIN order |->
                        [id |-> order[j], content |-> items[order[j]].content]]
<1>7. \A j \in DOMAIN order : found[j] \in Found
  <2> SUFFICES ASSUME NEW j \in DOMAIN order PROVE found[j] \in Found
    OBVIOUS
  <2>1. order[j] \in DOMAIN items
    BY <1>4, <1>6
  <2>2. order[j] \in Item /\ items[order[j]] \in Row
    BY <2>1, ItemsShape DEF IInv
  <2> QED
    BY <2>2 DEF Found, Row
<1>8. found \in Seq(Found)
  BY <1>5, <1>6, <1>7, IsASeq
<1>9. Ids(found) \subseteq searchable
  BY <1>4, <1>6 DEF Ids
<1> QED
  BY <1>3, <1>8, <1>9

LEMMA SearchPreserves ==
    ASSUME IInv, NEW t \in Turn, Search(t)
    PROVE  IInv'
<1>1. PICK found \in Seq(Found) :
              /\ TurnGoes(t, [pc |-> "mark", gone |-> turns[t].gone, found |-> found])
              /\ Ids(found) \subseteq {i \in DOMAIN items : Searchable(items[i])}
  BY SearchFinds
<1> DEFINE q == [pc |-> "mark", gone |-> turns[t].gone, found |-> found]
<1>2. turns[t].gone \in SUBSET Item
      /\ \A i \in turns[t].gone : i \in DOMAIN items /\ items[i].deleted
  BY TurnShape DEF Search, IInv, TypeOK, SoundTurn
<1>3. q \in TurnState
  BY <1>2 DEF TurnState
<1>4. SoundTurn(q)
  BY <1>1, <1>2 DEF SoundTurn, Searchable
<1> QED
  BY <1>1, <1>3, <1>4, TurnMovePreserves DEF Search

LEMMA MarkedRow ==
    ASSUME NEW row \in Row
    PROVE  LET new == [row EXCEPT !.accessed = TRUE] IN
           /\ new \in Row
           /\ new.deleted = row.deleted /\ new.status = row.status
           /\ new.confidence = row.confidence
           /\ new.scope = row.scope /\ new.expires = row.expires
  BY DEF Row

\* What marking leaves: the rows with last_accessed_at set.
LEMMA MarkedRows ==
    ASSUME IInv, NEW t \in Turn, Mark(t)
    PROVE  /\ DOMAIN items' = DOMAIN items
           /\ items' \in Seq(Row) /\ Len(items') = Len(items)
           /\ \A i \in DOMAIN items :
                 /\ items'[i].deleted = items[i].deleted
                 /\ items'[i].status = items[i].status
                 /\ items'[i].confidence = items[i].confidence
                 /\ items'[i].scope = items[i].scope
                 /\ items'[i].expires = items[i].expires
<1> DEFINE found == turns[t].found
<1>1. items' = [i \in DOMAIN items |->
                   IF i \in Ids(found) THEN [items[i] EXCEPT !.accessed = TRUE] ELSE items[i]]
  BY DEF Mark
<1>2. \A i \in DOMAIN items : items[i] \in Row
  BY ItemsShape DEF IInv
<1>3. \A i \in DOMAIN items :
                 /\ items'[i] \in Row
                 /\ items'[i].deleted = items[i].deleted
                 /\ items'[i].status = items[i].status
                 /\ items'[i].confidence = items[i].confidence
                 /\ items'[i].scope = items[i].scope
                 /\ items'[i].expires = items[i].expires
  <2> SUFFICES ASSUME NEW i \in DOMAIN items
               PROVE  /\ items'[i] \in Row
                      /\ items'[i].deleted = items[i].deleted
                      /\ items'[i].status = items[i].status
                      /\ items'[i].confidence = items[i].confidence
                      /\ items'[i].scope = items[i].scope
                      /\ items'[i].expires = items[i].expires
    OBVIOUS
  <2>1. CASE i \in Ids(found)
    <3>1. items'[i] = [items[i] EXCEPT !.accessed = TRUE]
      BY <1>1, <2>1
    <3> QED
      BY <1>2, <3>1, MarkedRow
  <2>2. CASE i \notin Ids(found)
    BY <1>1, <1>2, <2>2
  <2> QED
    BY <2>1, <2>2
<1>4. DOMAIN items = 1..Len(items) /\ Len(items) \in Nat
  BY ItemsShape DEF IInv
<1>5. items' \in Seq(Row) /\ Len(items') = Len(items)
  <2>1. items' = [i \in 1..Len(items) |-> items'[i]]
    BY <1>1, <1>4
  <2> QED
    BY <1>1, <1>3, <1>4, <2>1, IsASeq
<1> QED
  BY <1>1, <1>3, <1>5

LEMMA MarkPreserves ==
    ASSUME IInv, NEW t \in Turn, Mark(t)
    PROVE  IInv'
<1>1. PICK history \in History :
         TurnGoes(t, [pc |-> "build", gone |-> turns[t].gone, found |-> turns[t].found,
                      history |-> history])
  BY DEF Mark
<1> DEFINE q == [pc |-> "build", gone |-> turns[t].gone, found |-> turns[t].found,
                 history |-> history]
<1>2. turns[t].pc = "mark" /\ turns[t] \in TurnState /\ SoundTurn(turns[t])
  BY DEF Mark, IInv, TypeOK
<1>3. q \in TurnState /\ SoundTurn(q)
  BY <1>2, TurnShape DEF TurnState, SoundTurn
<1>4. turns' = [turns EXCEPT ![t] = q] /\ turns \in [Turn -> TurnState]
  BY <1>1 DEF TurnGoes, IInv, TypeOK
<1>5. turns' \in [Turn -> TurnState]
  BY <1>3, <1>4
<1>6. \A u \in Turn : SoundTurn(turns[u])'
  <2> SUFFICES ASSUME NEW u \in Turn PROVE SoundTurn(turns[u])'
    OBVIOUS
  <2>1. turns'[u] = q \/ turns'[u] = turns[u]
    BY <1>4
  <2>2. SoundTurn(turns[u])
    BY DEF IInv
  <2> QED
    BY <1>3, <2>1, <2>2, MarkedRows DEF SoundTurn, Ids
<1>7. UNCHANGED <<clock, admins, approved>>
  BY DEF Mark
<1>8. ActiveIsApproved'
  BY <1>7, MarkedRows DEF IInv, ActiveIsApproved
<1> QED
  BY <1>5, <1>6, <1>7, <1>8, MarkedRows, RowsChangePreserves DEF IInv, TypeOK

LEMMA TurnEndPreserves ==
    ASSUME IInv, NEW t \in Turn, RetrievalFails(t) \/ EndTurn(t)
    PROVE  IInv'
<1>1. Idle \in TurnState /\ SoundTurn(Idle)
  BY DEF TurnState, SoundTurn, Idle
<1> QED
  BY <1>1, TurnMovePreserves DEF RetrievalFails, EndTurn

LEMMA SendPreserves ==
    ASSUME IInv, NEW t \in Turn, Send(t)
    PROVE  IInv'
<1> DEFINE told == {turns[t].found[j].id : j \in Bundle(turns[t]).told}
           q == [pc |-> "stream", gone |-> turns[t].gone, told |-> told]
<1>1. /\ turns[t].pc = "build" /\ turns[t] \in TurnState /\ SoundTurn(turns[t])
      /\ TurnGoes(t, q) /\ UNCHANGED <<items, clock, admins, approved>>
  BY DEF Send, IInv, TypeOK
<1>2. told \subseteq Ids(turns[t].found)
  BY ToldIsFound
<1> HIDE DEF told
<1>3. Ids(turns[t].found) \subseteq Item
  <2>1. turns[t].found \in Seq(Found)
    BY <1>1, TurnShape
  <2>2. \A j \in DOMAIN turns[t].found : turns[t].found[j] \in Found
    BY <2>1
  <2> QED
    BY <2>2 DEF Ids, Found
<1>4. q \in TurnState
  BY <1>1, <1>2, <1>3, TurnShape DEF TurnState
<1>5. SoundTurn(q)
  BY <1>1, <1>2 DEF SoundTurn
<1> QED
  BY <1>1, <1>4, <1>5, TurnMovePreserves

LEMMA AnswerPreserves ==
    ASSUME IInv, NEW t \in Turn, Answer(t)
    PROVE  IInv'
<1>1. PICK contents \in Extractions : TurnGoes(t, [pc |-> "existing", contents |-> contents])
  BY DEF Answer
<1>2. [pc |-> "existing", contents |-> contents] \in TurnState
  BY LongTermAssumption DEF LongTermAssumption, TurnState
<1>3. SoundTurn([pc |-> "existing", contents |-> contents])
  BY DEF SoundTurn
<1> QED
  BY <1>1, <1>2, <1>3, TurnMovePreserves DEF Answer

LEMMA ReadExistingPreserves ==
    ASSUME IInv, NEW t \in Turn, ReadExisting(t)
    PROVE  IInv'
<1> DEFINE q == [pc |-> "insert", contents |-> turns[t].contents, existing |-> Known]
<1>1. Known \in SUBSET Content
  BY ItemsShape DEF Known, IInv, Row
<1>2. q \in TurnState
  BY <1>1, TurnShape DEF ReadExisting, TurnState, IInv, TypeOK
<1>3. SoundTurn(q)
  BY DEF SoundTurn
<1> QED
  BY <1>2, <1>3, TurnMovePreserves DEF ReadExisting

LEMMA SkipPreserves ==
    ASSUME IInv, NEW t \in Turn, Skip(t)
    PROVE  IInv'
<1> DEFINE q == [pc |-> "insert", contents |-> Tail(turns[t].contents),
                 existing |-> turns[t].existing]
<1>1. /\ turns[t].pc = "insert" /\ turns[t] \in TurnState /\ turns[t].contents # <<>>
      /\ TurnGoes(t, q) /\ UNCHANGED <<items, clock, admins, approved>>
  BY DEF Skip, IInv, TypeOK
<1>2. turns[t].contents \in Seq(Content) /\ turns[t].existing \in SUBSET Content
  BY <1>1, TurnShape
<1>3. Tail(turns[t].contents) \in Seq(Content)
  BY <1>1, <1>2, HeadTailProperties
<1>4. q \in TurnState
  BY <1>2, <1>3 DEF TurnState
<1>5. SoundTurn(q)
  BY DEF SoundTurn
<1> QED
  BY <1>1, <1>2, <1>4, <1>5, TurnMovePreserves

LEMMA InsertPreserves ==
    ASSUME IInv, NEW t \in Turn, Insert(t)
    PROVE  IInv'
<1> DEFINE c == Head(turns[t].contents)
           q == [pc |-> "insert", contents |-> Tail(turns[t].contents),
                 existing |-> turns[t].existing \cup {c}]
<1>1. /\ turns[t].pc = "insert" /\ turns[t] \in TurnState /\ turns[t].contents # <<>>
      /\ Len(items) < MaxItems /\ items' = Append(items, Proposal(c))
      /\ TurnGoes(t, q) /\ UNCHANGED <<clock, admins, approved>>
  BY DEF Insert, IInv, TypeOK
<1>2. turns[t].contents \in Seq(Content) /\ turns[t].existing \in SUBSET Content
  BY <1>1, TurnShape
<1>3. c \in Content /\ Tail(turns[t].contents) \in Seq(Content)
  BY <1>1, <1>2, HeadTailProperties
<1>4. q \in TurnState /\ SoundTurn(q)'
  BY <1>2, <1>3 DEF TurnState, SoundTurn
<1>5. Proposal(c) \in Row /\ Proposal(c).status # "active"
  BY <1>3 DEF Proposal, Row, Status
<1>6. /\ items' \in Seq(Row) /\ Len(items') <= MaxItems
      /\ DOMAIN items \subseteq DOMAIN items'
      /\ \A i \in DOMAIN items : items'[i] = items[i]
      /\ ActiveIsApproved'
  BY <1>1, <1>5, AddedRow
<1>7. turns' = [turns EXCEPT ![t] = q] /\ turns \in [Turn -> TurnState]
  BY <1>1 DEF TurnGoes, IInv, TypeOK
<1>8. turns' \in [Turn -> TurnState]
  BY <1>4, <1>7
<1>9. \A u \in Turn : SoundTurn(turns[u])'
  <2> SUFFICES ASSUME NEW u \in Turn PROVE SoundTurn(turns[u])'
    OBVIOUS
  <2>1. turns'[u] = q \/ turns'[u] = turns[u]
    BY <1>7
  <2>2. SoundTurn(turns[u])
    BY DEF IInv
  <2> QED
    BY <1>4, <1>6, <2>1, <2>2 DEF SoundTurn, Ids
<1> QED
  BY <1>1, <1>6, <1>8, <1>9, RowsChangePreserves DEF IInv, TypeOK

LEMMA TickPreserves ==
    ASSUME IInv, Tick
    PROVE  IInv'
<1>1. clock' \in 0..MaxTime
  BY LongTermAssumption DEF Tick, IInv, TypeOK, LongTermAssumption
<1> QED
  BY <1>1 DEF Tick, IInv, TypeOK, SoundTurn, Ids, ActiveIsApproved

LEMMA RestartPreserves ==
    ASSUME IInv, Restart
    PROVE  IInv'
<1>1. turns' \in [Turn -> TurnState] /\ \A t \in Turn : SoundTurn(turns[t])'
  BY DEF Restart, TurnState, SoundTurn, Idle
<1>2. admins' \in [Admin -> AdminState]
  BY DEF Restart, AdminState, IInv, TypeOK
<1> QED
  BY <1>1, <1>2 DEF Restart, IInv, TypeOK, ActiveIsApproved

LEMMA StutterPreserves ==
    ASSUME IInv, UNCHANGED vars
    PROVE  IInv'
  BY DEF vars, IInv, TypeOK, SoundTurn, Ids, ActiveIsApproved

LEMMA NextPreserves == IInv /\ [Next]_vars => IInv'
<1> SUFFICES ASSUME IInv, [Next]_vars PROVE IInv'
  OBVIOUS
<1>1. CASE Endpoint
  BY <1>1, CreatePreserves, LoadPreserves, WritePreserves DEF Endpoint, Patch, Delete
<1>2. ASSUME NEW t \in Turn, ChatTurn(t) PROVE IInv'
  BY <1>2, BeginPreserves, SearchPreserves, MarkPreserves, TurnEndPreserves,
     SendPreserves, AnswerPreserves, ReadExistingPreserves, SkipPreserves,
     InsertPreserves DEF ChatTurn
<1>3. CASE Tick
  BY <1>3, TickPreserves
<1>4. CASE Restart
  BY <1>4, RestartPreserves
<1>5. CASE UNCHANGED vars
  BY <1>5, StutterPreserves
<1> QED
  BY <1>1, <1>2, <1>3, <1>4, <1>5 DEF Next

LEMMA Invariance == Spec => []IInv
<1>1. IInv /\ [Next]_vars => IInv'
  BY NextPreserves
<1> QED
  BY <1>1, InitInvariant, PTL DEF Spec

-----------------------------------------------------------------------------
(* The refinement, step by step. *)

LEMMA InitRefines == Init => Governance!Init
<1> SUFFICES ASSUME Init PROVE Governance!Init
  OBVIOUS
<1>1. \A t \in Turn : Recalled(turns[t]) = {}
  BY DEF Init, Recalled, Idle
<1> QED
  BY <1>1 DEF Init, Governance!Init, Proposals

\* A step that writes rows or lets time pass while the turns recall what they did.
LEMMA GovernRefines ==
    ASSUME IInv, IInv',
           \A t \in Turn : Recalled(turns'[t]) = Recalled(turns[t]),
           DOMAIN items \subseteq DOMAIN items',
           \A i \in DOMAIN items : items[i].deleted => items'[i].deleted
    PROVE  Governance!Govern
<1>1. DOMAIN items' \subseteq Item
  <2>1. items' \in Seq(Row) /\ Len(items') <= MaxItems /\ MaxItems \in Nat
    BY LongTermAssumption DEF IInv, TypeOK, LongTermAssumption
  <2> QED
    BY <2>1 DEF Item
<1>2. Proposals' \ approved' \subseteq Item
  BY <1>1 DEF Proposals
<1>3. {i \in DOMAIN items : items[i].deleted} \subseteq {i \in DOMAIN items' : items'[i].deleted}
  OBVIOUS
<1>4. ASSUME NEW i \in DOMAIN items', Searchable(items[i])'
      PROVE  i \in Item /\ i \notin Proposals' \ approved' /\ ~items'[i].deleted
  BY <1>1, <1>4 DEF Searchable, Proposals, IInv, ActiveIsApproved
<1>5. [t \in Turn |-> Recalled(turns'[t])] = [t \in Turn |-> Recalled(turns[t])]
  OBVIOUS
<1> QED
  BY <1>1, <1>2, <1>3, <1>4, <1>5 DEF Governance!Govern

\* The tables a turn's step leaves alone look the same to the abstract system.
LEMMA SameTables ==
    ASSUME UNCHANGED <<items, clock, approved>>
    PROVE  /\ {i \in DOMAIN items : Searchable(items[i])}'
                = {i \in DOMAIN items : Searchable(items[i])}
           /\ (Proposals \ approved)' = Proposals \ approved
           /\ {i \in DOMAIN items : items[i].deleted}'
                = {i \in DOMAIN items : items[i].deleted}
  BY DEF Searchable, Proposals

LEMMA DropRefines ==
    ASSUME IInv, NEW t \in Turn, NEW q, TurnGoes(t, q),
           Recalled(q) \subseteq Recalled(turns[t]),
           UNCHANGED <<items, clock, approved>>
    PROVE  Governance!Drop(t)
<1> DEFINE before == [u \in Turn |-> Recalled(turns[u])]
           after == [u \in Turn |-> Recalled(turns'[u])]
<1>1. turns' = [turns EXCEPT ![t] = q] /\ turns \in [Turn -> TurnState]
  BY DEF TurnGoes, IInv, TypeOK
<1>2. \A u \in Turn : turns'[u] = IF u = t THEN q ELSE turns[u]
  BY <1>1
<1>3. after = [before EXCEPT ![t] = Recalled(q)]
  <2>1. \A u \in Turn : after[u] = IF u = t THEN Recalled(q) ELSE before[u]
    BY <1>2
  <2> QED
    BY <2>1
<1>4. Recalled(q) \in SUBSET before[t]
  OBVIOUS
<1> QED
  BY <1>3, <1>4, SameTables DEF Governance!Drop

LEMMA SearchRefines ==
    ASSUME IInv, NEW t \in Turn, Search(t)
    PROVE  Governance!Recall(t)
<1>1. PICK found \in Seq(Found) :
              /\ TurnGoes(t, [pc |-> "mark", gone |-> turns[t].gone, found |-> found])
              /\ Ids(found) \subseteq {i \in DOMAIN items : Searchable(items[i])}
  BY SearchFinds
<1> DEFINE q == [pc |-> "mark", gone |-> turns[t].gone, found |-> found]
           before == [u \in Turn |-> Recalled(turns[u])]
           after == [u \in Turn |-> Recalled(turns'[u])]
<1>2. Recalled(q) = Ids(found)
  BY DEF Recalled
<1>3. turns' = [turns EXCEPT ![t] = q] /\ turns \in [Turn -> TurnState]
  BY <1>1 DEF TurnGoes, IInv, TypeOK
<1>4. \A u \in Turn : turns'[u] = IF u = t THEN q ELSE turns[u]
  BY <1>3
<1>5. after = [before EXCEPT ![t] = Ids(found)]
  <2>1. \A u \in Turn : after[u] = IF u = t THEN Ids(found) ELSE before[u]
    BY <1>2, <1>4
  <2> QED
    BY <2>1
<1>6. UNCHANGED <<items, clock, approved>>
  BY DEF Search
<1> QED
  BY <1>1, <1>5, <1>6, SameTables DEF Governance!Recall

\* The steps after which a turn recalls nothing.
LEMMA EndsRecall ==
    ASSUME NEW t \in Turn,
           \/ Begin(t) \/ RetrievalFails(t) \/ EndTurn(t)
           \/ Answer(t) \/ ReadExisting(t) \/ Skip(t)
    PROVE  /\ UNCHANGED <<items, clock, approved>>
           /\ \E q : TurnGoes(t, q) /\ Recalled(q) = {}
<1>1. UNCHANGED <<items, clock, approved>>
  BY DEF Begin, RetrievalFails, EndTurn, Answer, ReadExisting, Skip
<1>2. ASSUME NEW q, TurnGoes(t, q), q.pc \notin {"mark", "build", "stream"}
      PROVE  \E r : TurnGoes(t, r) /\ Recalled(r) = {}
  BY <1>2 DEF Recalled
<1>3. CASE Begin(t)
  <2> DEFINE q == [pc |-> "search", gone |-> {i \in DOMAIN items : items[i].deleted}]
  <2>1. TurnGoes(t, q) /\ q.pc = "search"
    BY <1>3 DEF Begin
  <2> QED
    BY <1>1, <1>2, <2>1
<1>4. CASE RetrievalFails(t) \/ EndTurn(t)
  <2>1. TurnGoes(t, Idle) /\ Idle.pc = "idle"
    BY <1>4 DEF RetrievalFails, EndTurn, Idle
  <2> QED
    BY <1>1, <1>2, <2>1
<1>5. CASE Answer(t)
  <2>1. PICK contents \in Extractions :
           TurnGoes(t, [pc |-> "existing", contents |-> contents])
    BY <1>5 DEF Answer
  <2> DEFINE q == [pc |-> "existing", contents |-> contents]
  <2>2. TurnGoes(t, q) /\ q.pc = "existing"
    BY <2>1
  <2> QED
    BY <1>1, <1>2, <2>2
<1>6. CASE ReadExisting(t)
  <2> DEFINE q == [pc |-> "insert", contents |-> turns[t].contents, existing |-> Known]
  <2>1. TurnGoes(t, q) /\ q.pc = "insert"
    BY <1>6 DEF ReadExisting
  <2> QED
    BY <1>1, <1>2, <2>1
<1>7. CASE Skip(t)
  <2> DEFINE q == [pc |-> "insert", contents |-> Tail(turns[t].contents),
                   existing |-> turns[t].existing]
  <2>1. TurnGoes(t, q) /\ q.pc = "insert"
    BY <1>7 DEF Skip
  <2> QED
    BY <1>1, <1>2, <2>1
<1> QED
  BY <1>3, <1>4, <1>5, <1>6, <1>7

LEMMA TurnRefines ==
    ASSUME IInv, IInv', NEW t \in Turn, ChatTurn(t)
    PROVE  Governance!Next
<1>1. CASE Begin(t) \/ RetrievalFails(t) \/ EndTurn(t) \/ Answer(t) \/ ReadExisting(t) \/ Skip(t)
  <2>1. /\ UNCHANGED <<items, clock, approved>>
        /\ \E q : TurnGoes(t, q) /\ Recalled(q) = {}
    BY <1>1, EndsRecall
  <2> QED
    BY <2>1, DropRefines DEF Governance!Next
<1>2. CASE Search(t)
  BY <1>2, SearchRefines DEF Governance!Next
<1>3. CASE Mark(t)
  <2>1. PICK history \in History :
         turns' = [turns EXCEPT ![t] = [pc |-> "build", gone |-> turns[t].gone,
                                        found |-> turns[t].found, history |-> history]]
    BY <1>3 DEF Mark, TurnGoes
  <2>2. \A u \in Turn : Recalled(turns'[u]) = Recalled(turns[u])
    BY <1>3, <2>1 DEF Mark, Recalled, IInv, TypeOK
  <2> QED
    BY <1>3, <2>2, MarkedRows, GovernRefines DEF Governance!Next
<1>4. CASE Send(t)
  <2> DEFINE told == {turns[t].found[j].id : j \in Bundle(turns[t]).told}
             q == [pc |-> "stream", gone |-> turns[t].gone, told |-> told]
  <2>1. turns[t].pc = "build" /\ TurnGoes(t, q) /\ UNCHANGED <<items, clock, approved>>
    BY <1>4 DEF Send
  <2>2. told \subseteq Ids(turns[t].found)
    BY ToldIsFound
  <2> HIDE DEF told
  <2>3. Recalled(q) \subseteq Recalled(turns[t])
    BY <2>1, <2>2 DEF Recalled
  <2> QED
    BY <2>1, <2>3, DropRefines DEF Governance!Next
<1>5. CASE Insert(t)
  <2>1. \A u \in Turn : Recalled(turns'[u]) = Recalled(turns[u])
    BY <1>5 DEF Insert, TurnGoes, Recalled, IInv, TypeOK
  <2>2. /\ DOMAIN items \subseteq DOMAIN items'
        /\ \A i \in DOMAIN items : items'[i] = items[i]
    <3> DEFINE row == Proposal(Head(turns[t].contents))
    <3>1. items \in Seq(Row) /\ items' = Append(items, row)
      BY <1>5 DEF Insert, IInv, TypeOK
    <3> HIDE DEF row
    <3> QED
      BY <3>1
  <2> QED
    BY <2>1, <2>2, GovernRefines DEF Governance!Next
<1> QED
  BY <1>1, <1>2, <1>3, <1>4, <1>5 DEF ChatTurn

LEMMA EndpointRefines ==
    ASSUME IInv, IInv', Endpoint
    PROVE  Governance!Next
<1>1. UNCHANGED turns
  BY DEF Endpoint, Create, Patch, Delete, Load, Write
<1>2. \A t \in Turn : Recalled(turns'[t]) = Recalled(turns[t])
  BY <1>1
<1>3. ASSUME NEW body \in Body, Create(body)
      PROVE  /\ DOMAIN items \subseteq DOMAIN items'
             /\ \A i \in DOMAIN items : items'[i] = items[i]
  <2>1. items \in Seq(Row) /\ \E row : items' = Append(items, row)
    BY <1>3 DEF Create, IInv, TypeOK
  <2> QED
    BY <2>1
<1>4. ASSUME NEW a \in Admin, Patch(a) \/ Delete(a) PROVE UNCHANGED items
  BY <1>4 DEF Patch, Delete, Load
<1>5. ASSUME NEW a \in Admin, Write(a)
      PROVE  /\ DOMAIN items' = DOMAIN items
             /\ \A i \in DOMAIN items : items[i].deleted => items'[i].deleted
  BY <1>5, WrittenRows
<1>6. /\ DOMAIN items \subseteq DOMAIN items'
      /\ \A i \in DOMAIN items : items[i].deleted => items'[i].deleted
  BY <1>3, <1>4, <1>5 DEF Endpoint
<1> QED
  BY <1>2, <1>6, GovernRefines DEF Governance!Next

LEMMA RestartRefines ==
    ASSUME IInv, Restart
    PROVE  Governance!Next
<1>1. \A t \in Turn : Recalled(turns'[t]) = {}
  BY DEF Restart, Recalled, Idle
<1>2. UNCHANGED <<items, clock, approved>>
  BY DEF Restart
<1> QED
  BY <1>1, <1>2, SameTables DEF Governance!Next, Governance!DropAll

LEMMA StepRefines == IInv /\ IInv' /\ [Next]_vars => [Governance!Next]_(Governance!vars)
<1> SUFFICES ASSUME IInv, IInv', [Next]_vars PROVE [Governance!Next]_(Governance!vars)
  OBVIOUS
<1>1. CASE Endpoint
  BY <1>1, EndpointRefines
<1>2. ASSUME NEW t \in Turn, ChatTurn(t) PROVE Governance!Next
  BY <1>2, TurnRefines
<1>3. CASE Tick
  BY <1>3, GovernRefines DEF Tick, Governance!Next
<1>4. CASE Restart
  BY <1>4, RestartRefines
<1>5. CASE UNCHANGED vars
  BY <1>5, SameTables DEF vars, Governance!vars
<1> QED
  BY <1>1, <1>2, <1>3, <1>4, <1>5 DEF Next

-----------------------------------------------------------------------------
(* The theorems. *)

\* The table, the turns and the requests in flight hold values of their types,
\* whatever requests overlap and wherever the process restarts.
THEOREM TypeCorrect == Spec => []TypeOK
<1>1. IInv => TypeOK
  BY DEF IInv
<1> QED
  BY <1>1, Invariance, PTL

\* No turn is told of a memory whose deletion had been answered when the turn
\* began, however PATCH and DELETE requests overlap with each other and with
\* the turn (repository.update_memory against search_active_memories).
THEOREM DeletedIsNeverTold == Spec => []DeletedStaysForgotten
<1>1. IInv => DeletedStaysForgotten
  BY DEF IInv, SoundTurn, DeletedStaysForgotten
<1> QED
  BY <1>1, Invariance, PTL

\* Retrieval implements the abstract memory governance: a turn is told what was
\* visible at one moment, the deleted is never visible again, and neither is
\* what a model proposed before a PATCH approved it.
THEOREM RetrievalImplementsGovernance == Spec => ImplementsGovernance
<1>1. IInv /\ IInv' /\ [Next]_vars => [Governance!Next]_(Governance!vars)
  BY StepRefines
<1> QED
  BY <1>1, Invariance, InitRefines, PTL DEF Spec, ImplementsGovernance, Governance!Spec

\* Where every client gives its expiry in UTC or in a zone behind it, no turn
\* recalls a memory at or after its expiry: the digits SQLite keeps of a zone
\* ahead of UTC are what lets one through (repository.search_active_memories).
THEOREM ExpiryHoldsBehindUtc ==
    ASSUME \A e \in Expiry : e.offset <= 0
    PROVE  Spec => ExpiredIsNotRecalled
<1>1. IInv /\ [Next]_vars => [\A t \in Turn : turns[t].pc = "search" /\ turns'[t].pc = "mark" =>
          \A i \in Ids(turns'[t].found) :
              items[i].expires # None => items[i].expires.at > clock]_turns
  <2> SUFFICES ASSUME IInv, [Next]_vars, turns' # turns,
                      NEW t \in Turn, turns[t].pc = "search", turns'[t].pc = "mark",
                      NEW i \in Ids(turns'[t].found), items[i].expires # None
               PROVE  items[i].expires.at > clock
    OBVIOUS
  <2>1. PICK u \in Turn : ChatTurn(u)
    <3>1. Endpoint \/ Tick => UNCHANGED turns
      BY DEF Endpoint, Create, Patch, Delete, Load, Write, Tick
    <3>2. Restart => turns'[t].pc = "idle"
      BY DEF Restart, Idle
    <3> QED
      BY <3>1, <3>2 DEF Next, vars
  <2>2. u = t
    <3>1. PICK q : turns' = [turns EXCEPT ![u] = q]
      BY <2>1 DEF ChatTurn, Begin, Search, Mark, RetrievalFails, Send, Answer, EndTurn,
                  ReadExisting, Skip, Insert, TurnGoes
    <3>2. u # t => turns'[t] = turns[t]
      BY <3>1 DEF IInv, TypeOK
    <3> QED
      BY <3>2
  <2>3. Search(t)
    <3>1. turns[t].pc = "search" /\ turns[t] # Idle
      BY DEF Idle
    <3>2. ~RetrievalFails(t)
      BY DEF RetrievalFails, TurnGoes, Idle, IInv, TypeOK
    <3>3. ~Begin(t)
      BY <3>1 DEF Begin
    <3> QED
      BY <2>1, <2>2, <3>1, <3>2, <3>3 DEF ChatTurn, Mark, Send, Answer, EndTurn,
                                           ReadExisting, Skip, Insert
  <2>4. PICK found \in Seq(Found) :
              /\ TurnGoes(t, [pc |-> "mark", gone |-> turns[t].gone, found |-> found])
              /\ Ids(found) \subseteq {j \in DOMAIN items : Searchable(items[j])}
    BY <2>3, SearchFinds
  <2>5. turns'[t].found = found
    BY <2>4 DEF TurnGoes, IInv, TypeOK
  <2>6. i \in DOMAIN items /\ Searchable(items[i])
    BY <2>4, <2>5
  <2>7. items[i].expires \in Expiry /\ clock \in Nat
    BY <2>6, ItemsShape, LongTermAssumption DEF IInv, TypeOK, Row, LongTermAssumption
  <2> QED
    BY <2>6, <2>7, LongTermAssumption DEF Searchable, Digits, LongTermAssumption
<1> QED
  BY <1>1, Invariance, PTL DEF Spec, ExpiredIsNotRecalled

\* What a turn builds its prompt from.
LEMMA BuildsFrom ==
    ASSUME TypeOK, NEW t \in Turn, turns[t].pc = "build"
    PROVE  /\ turns[t].history \in History
           /\ turns[t].history.messages \in Seq(Message)
           /\ turns[t].history.summary \in Nat
           /\ Lines(turns[t].found) \in Seq(Nat)
<1>1. turns[t].found \in Seq(Found) /\ turns[t].history \in History
  BY TurnShape DEF TypeOK
<1>2. turns[t].history.messages \in Seq(Message) /\ turns[t].history.summary \in Nat
  BY <1>1, LongTermAssumption DEF LongTermAssumption, Message
<1> DEFINE found == turns[t].found
<1>3. PICK n \in Nat : DOMAIN found = 1..n
  BY <1>1, LenProperties
<1> HIDE DEF found
<1>4. \A j \in DOMAIN found : LineSize[found[j].content] \in Nat
  <2>1. ASSUME NEW j \in DOMAIN found PROVE found[j] \in Found
    BY <1>1, <2>1, ElementOfSeq, LenProperties DEF found
  <2>2. \A c \in Content : LineSize[c] \in Nat
    BY LongTermAssumption DEF LongTermAssumption
  <2> QED
    BY <2>1, <2>2 DEF Found
<1>5. Lines(found) \in [1..n -> Nat]
  BY <1>3, <1>4 DEF Lines
<1> HIDE DEF Lines
<1>6. Lines(found) \in Seq(Nat)
  BY <1>5, SeqDef
<1> QED
  BY <1>1, <1>2, <1>6 DEF found

\* When the messages a turn reads end with the user's, its prompt is within the
\* budget and the window, and holds that message, whatever lengths messages,
\* summary and memories have (ContextBuilder.build).
THEOREM PromptsStayWithinBudget ==
    ASSUME \A h \in History : h.messages # <<>> /\ h.messages[Len(h.messages)].role = "user"
    PROVE  Spec => []PromptWithinBudget
<1>1. IInv => PromptWithinBudget
  <2> SUFFICES ASSUME TypeOK, NEW t \in Turn, turns[t].pc = "build"
               PROVE  WithinBudget(turns[t].history.messages, Bundle(turns[t]))
    BY DEF IInv, PromptWithinBudget
  <2> QED
    BY BuildsFrom, BundleWithinBudget DEF Bundle
<1> QED
  BY <1>1, Invariance, PTL

\* No prompt is trimmed needlessly: the newest message left out of the window and
\* each memory left out would have exceeded the budget, whoever wrote the newest
\* message (ContextBuilder.build, given what retrieval returned).
THEOREM PromptsStayFull == Spec => []PromptIsFull
<1>1. IInv => PromptIsFull
  <2> SUFFICES ASSUME TypeOK, NEW t \in Turn, turns[t].pc = "build"
               PROVE  LeftOutForWantOfRoom(turns[t].history.messages,
                                           Lines(turns[t].found), Bundle(turns[t]))
    BY DEF IInv, PromptIsFull
  <2> QED
    BY BuildsFrom, BundleIsTrimmedForRoom DEF Bundle
<1> QED
  BY <1>1, Invariance, PTL

=============================================================================
