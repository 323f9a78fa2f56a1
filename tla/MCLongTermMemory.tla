-------------------------- MODULE MCLongTermMemory --------------------------
(***************************************************************************)
(* Small instances of LongTermMemory.  A budget of 1000 tokens is 3000     *)
(* bytes: two long lines do not fit, and neither does a long line beside a *)
(* long message.                                                           *)
(***************************************************************************)
EXTENDS LongTermMemory, TLC

CONSTANTS Short, Long

MCLineSize == [c \in Content |-> IF c = Long THEN 1500 ELSE 60]

At(time, offset) == [at |-> time, offset |-> offset]

MCExpiryUtc == {At(1, 0)}
MCExpiryZone == {At(1, 0), At(1, 1)}

\* Memories that last, and one of the session that expires.
MCBody ==
    {[scope |-> "workspace", content |-> Long, importance |-> 50, expires |-> None]}
      \cup [scope : {"session"}, content : {Short}, importance : {50}, expires : Expiry]

\* Approve for good, reject, and rewrite.
MCPayload ==
    {[status |-> "active", expires |-> None], [status |-> "rejected"], [content |-> Long]}

User(size) == [role |-> "user", size |-> size]
Assistant(size) == [role |-> "assistant", size |-> size]

\* One that exceeds the budget, one that fills it to the last token, and one
\* whose third message from the end does not fit while the one before it does.
MCHistory ==
    {[messages |-> <<User(4000)>>, summary |-> 5000],
     [messages |-> <<User(600), Assistant(1425), User(900)>>, summary |-> 0],
     [messages |-> <<User(30), Assistant(30), User(600), Assistant(1100), User(1200)>>,
      summary |-> 5000]}

MCExtractions == {<<Long, Short>>}

MCSymmetry == Permutations(Admin)

=============================================================================
