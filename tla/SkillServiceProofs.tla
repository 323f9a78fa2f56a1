------------------------- MODULE SkillServiceProofs -------------------------
(***************************************************************************)
(* Proofs about SkillService for every set of skills, packages and         *)
(* requests.  The columns a commit writes depend on the row its session    *)
(* loaded, so neither TypeOK nor ReleasesValidated is inductive: IInv adds *)
(* that every draft row, stored or held by a suspended request, pairs its  *)
(* digest with its content and its report with its validated digest.       *)
(***************************************************************************)
EXTENDS SkillService, TLAPS

\* A draft row whose columns belong together.
SoundDraft(d) ==
    /\ d \in DraftRow
    /\ d.hash = Hash(d.content)
    /\ d.validated = None => d.report = None
    /\ d.validated # None => d.report = Validate(d.validated.sha256, d.validated)

HoldsSkill == {"save", "validate", "report", "publish", "release",
               "activate", "archive", "retire"}
HoldsDraft == {"validate", "report", "publish", "release"}

\* What a suspended request's locals can be relied on for when it resumes.
SoundRequest(q) ==
    /\ q.pc \in HoldsSkill => skills[q.skill] # None
    /\ q.pc \in HoldsDraft => SoundDraft(q.draft)
    /\ q.pc \in {"save", "report"} => SoundDraft(q.loaded)
    /\ q.pc \in {"publish", "release"} => Publishable(q.draft)
    /\ q.pc = "enable" /\ q.id \in Skill => skills[q.id] # None
    /\ q.pc = "enable" /\ q.loaded # None => states[q.id] # None

RowsExist ==
    /\ \A s \in Skill : skills[s] = None <=> drafts[s] = None
    /\ \A i \in Published : skills[releases[i].skill] # None

IInv ==
    /\ TypeOK
    /\ RowsExist
    /\ \A s \in Skill : drafts[s] # None => SoundDraft(drafts[s])
    /\ \A r \in Request : SoundRequest(reqs[r])
    /\ ReleasesValidated

-----------------------------------------------------------------------------
(* Lemmas about single rows. *)

\* A validation report is a report, and never NULL.
LEMMA ValidateType ==
    ASSUME NEW c, NEW h \in Digest
    PROVE  /\ Validate(c, h) \in Report
           /\ Validate(c, h) # None
           /\ Validate(c, h).hash = h
<1>1. (c.body \in ValidBody) \in BOOLEAN
  OBVIOUS
<1>2. Validate(c, h) \in Report
  BY <1>1 DEF Validate, Report
<1>3. Validate(c, h).hash = h
  BY DEF Validate
<1> QED
  BY <1>2, <1>3, NullAssumption DEF NullAssumption

\* A draft has a report exactly when it has a validated digest.
LEMMA ReportWithDigest ==
    ASSUME NEW d, SoundDraft(d)
    PROVE  /\ d.validated = None <=> d.report = None
           /\ d.validated # None => d.validated \in Digest /\ d.report.hash = d.validated
<1>1. CASE d.validated = None
  BY <1>1 DEF SoundDraft
<1>2. CASE d.validated # None
  <2>1. d.validated \in Digest
    BY <1>2 DEF SoundDraft, DraftRow
  <2> QED
    BY <1>2, <2>1, ValidateType DEF SoundDraft
<1> QED
  BY <1>1, <1>2

\* Saving writes content and digest together, and clears digest and report of
\* the validation together, or writes neither.
LEMMA SavedDraftSound ==
    ASSUME NEW stored, NEW loaded, NEW c \in Package,
           SoundDraft(stored), SoundDraft(loaded)
    PROVE  SoundDraft(SavedDraft(stored, loaded, c))
<1> DEFINE d == SavedDraft(stored, loaded, c)
<1>1. d \in DraftRow
  BY DEF SoundDraft, SavedDraft, Written, Hash, DraftRow, Digest
<1>2. c = loaded.content <=> Hash(c) = loaded.hash
  BY DEF SoundDraft, Hash
<1>3. d.hash = Hash(d.content)
  BY <1>2 DEF SoundDraft, SavedDraft, Written
<1>4. \/ d.validated = None /\ d.report = None
      \/ d.validated = stored.validated /\ d.report = stored.report
  BY ReportWithDigest DEF SavedDraft, Written
<1> QED
  BY <1>1, <1>3, <1>4 DEF SoundDraft

\* Validating what an earlier read saw writes the digest and the report
\* together or writes neither.
LEMMA ValidatedDraftSound ==
    ASSUME NEW stored, NEW loaded, NEW seen,
           SoundDraft(stored), SoundDraft(loaded), SoundDraft(seen)
    PROVE  SoundDraft(ValidatedDraft(stored, loaded, seen))
<1> DEFINE d == ValidatedDraft(stored, loaded, seen)
           report == Validate(seen.content, seen.hash)
<1>1. seen.hash \in Digest /\ seen.hash.sha256 = seen.content /\ seen.hash # None
  BY NullAssumption DEF NullAssumption, SoundDraft, DraftRow, Hash
<1>2. report \in Report /\ report # None /\ report.hash = seen.hash
  BY <1>1, ValidateType
<1>3. seen.hash = loaded.validated <=> report = loaded.report
  <2>1. CASE loaded.validated = None
    BY <2>1, <1>1, <1>2, ReportWithDigest
  <2>2. CASE loaded.validated # None
    BY <2>2, <1>1, <1>2, ReportWithDigest DEF SoundDraft
  <2> QED
    BY <2>1, <2>2
<1>4. /\ d \in DraftRow
      /\ d.hash = stored.hash
      /\ d.content = stored.content
      /\ d.validated = Written(seen.hash, loaded.validated, stored.validated)
      /\ d.report = Written(report, loaded.report, stored.report)
  BY <1>1, <1>2 DEF SoundDraft, ValidatedDraft, Written, DraftRow
<1>5. \/ d.validated = seen.hash /\ d.report = report
      \/ d.validated = stored.validated /\ d.report = stored.report
  BY <1>3, <1>4 DEF Written
<1> QED
  BY <1>1, <1>4, <1>5 DEF SoundDraft

-----------------------------------------------------------------------------
(* Lemmas about requests. *)

\* The locals a suspended request holds, by the await it is suspended at.
LEMMA RequestShape ==
    ASSUME NEW q \in RequestState
    PROVE  /\ q.pc \in HoldsSkill \cup {"create"} => q.skill \in Skill
           /\ q.pc \in {"create", "save"} => q.content \in Package
           /\ q.pc \in {"save", "report"} => q.loaded \in DraftRow
           /\ q.pc \in HoldsDraft => q.draft \in DraftRow
           /\ q.pc \in {"publish", "release"} => q.activate \in BOOLEAN
           /\ q.pc \in {"release", "activate", "retire"} => q.row \in SkillRow
           /\ q.pc = "activate" => q.release \in ReleaseId
           /\ q.pc = "enable" => /\ q.id \in Id
                                 /\ q.enabled \in BOOLEAN
                                 /\ q.loaded \in StateRow \cup {None}
           /\ q.pc \in {"overrides", "install"} =>
                 q.active \in [Skill -> LoadedSkill \cup {None}]
           /\ q.pc = "install" => q.enabled \in [Id -> StateRow \cup {None}]
  BY DEF RequestState, HoldsSkill, HoldsDraft, Idle

\* Skills and runtime states are never deleted, so what a suspended request relies on stays.
LEMMA RequestStaysSound ==
    ASSUME NEW q \in RequestState, SoundRequest(q),
           \A s \in Skill : skills[s] # None => skills'[s] # None,
           \A d \in Id : states[d] # None => states'[d] # None
    PROVE  SoundRequest(q)'
  BY RequestShape DEF SoundRequest

\* A step that only moves one request to a sound state preserves the invariant.
LEMMA SuspendPreserves ==
    ASSUME IInv, NEW r \in Request, NEW q \in RequestState, SoundRequest(q),
           Suspend(r, q), UNCHANGED storeVars,
           managed' \in [Skill -> LoadedSkill \cup {None}],
           overrides' \in [Id -> StateRow \cup {None}],
           behind' \in BOOLEAN
    PROVE  IInv'
<1> USE DEF IInv, Suspend, storeVars
<1>1. reqs' \in [Request -> RequestState]
  BY DEF TypeOK
<1>2. TypeOK'
  BY <1>1 DEF TypeOK, StoreTypeOK
<1>3. \A t \in Request : SoundRequest(reqs[t])'
  BY DEF TypeOK, SoundRequest
<1>4. RowsExist' /\ ReleasesValidated'
  BY DEF RowsExist, ReleasesValidated, Published
<1> QED
  BY <1>2, <1>3, <1>4

\* So does one that commits a sound row to an existing draft and returns.
LEMMA DraftCommitPreserves ==
    ASSUME IInv, NEW r \in Request, NEW s \in Skill, skills[s] # None,
           NEW d, SoundDraft(d), drafts' = [drafts EXCEPT ![s] = d], Return(r),
           UNCHANGED <<skills, releases, states, registryVars>>
    PROVE  IInv'
<1> USE DEF IInv, Suspend, Return, registryVars
<1>1. d \in DraftRow /\ d # None
  BY NullAssumption DEF SoundDraft, NullAssumption
<1>2. reqs' \in [Request -> RequestState]
  BY DEF TypeOK, RequestState
<1>3. TypeOK'
  BY <1>1, <1>2 DEF TypeOK, StoreTypeOK
<1>4. \A t \in Request : SoundRequest(reqs[t])'
  BY DEF TypeOK, SoundRequest, Idle, HoldsSkill, HoldsDraft
<1>5. \A t \in Skill : (drafts[t] # None => SoundDraft(drafts[t]))'
  BY DEF TypeOK, StoreTypeOK
<1>6. RowsExist' /\ ReleasesValidated'
  BY <1>1 DEF RowsExist, ReleasesValidated, Published, TypeOK, StoreTypeOK
<1> QED
  BY <1>3, <1>4, <1>5, <1>6

\* So does one that commits skill rows, keeping those that exist, and the
\* runtime states, and goes on to refresh the registry or returns.
LEMMA SkillCommitPreserves ==
    ASSUME IInv, NEW r \in Request, NEW q \in {Idle, [pc |-> "refresh"]}, Suspend(r, q),
           skills' \in [Skill -> SkillRow \cup {None}],
           states' \in [Id -> StateRow \cup {None}],
           \A s \in Skill : skills'[s] = None <=> skills[s] = None,
           \A d \in Id : states[d] # None => states'[d] # None,
           UNCHANGED <<drafts, releases, registryVars>>
    PROVE  IInv'
<1> USE DEF IInv, Suspend, registryVars
<1>1. q \in RequestState
  BY DEF RequestState
<1>2. TypeOK'
  BY <1>1 DEF TypeOK, StoreTypeOK
<1>3. \A t \in Request : SoundRequest(reqs[t])'
  <2> SUFFICES ASSUME NEW t \in Request PROVE SoundRequest(reqs[t])'
    OBVIOUS
  <2>1. CASE t = r
    BY <2>1 DEF TypeOK, SoundRequest, Idle, HoldsSkill, HoldsDraft
  <2>2. CASE t # r
    BY <2>2, RequestStaysSound DEF TypeOK
  <2> QED
    BY <2>1, <2>2
<1>4. \A i \in Published : releases[i].skill \in Skill
  BY DEF TypeOK, StoreTypeOK, Published, ReleaseRow
<1>5. RowsExist'
  BY <1>4 DEF RowsExist, Published
<1>6. ReleasesValidated'
  BY DEF ReleasesValidated, Published
<1> QED
  BY <1>2, <1>3, <1>5, <1>6

-----------------------------------------------------------------------------
(* The invariant, action by action. *)

LEMMA InitInvariant == Init => IInv
<1> SUFFICES ASSUME Init PROVE IInv
  OBVIOUS
<1> USE DEF Init, StoreInit
<1>1. TypeOK
  BY DEF TypeOK, StoreTypeOK, RequestState
<1>2. RowsExist /\ ReleasesValidated
  BY DEF RowsExist, ReleasesValidated, Published
<1>3. \A r \in Request : SoundRequest(reqs[r])
  BY DEF SoundRequest, Idle, HoldsSkill, HoldsDraft
<1> QED
  BY <1>1, <1>2, <1>3 DEF IInv

\* What a stored row of each table is, once it is known to exist.
LEMMA StoredRows ==
    ASSUME IInv
    PROVE  /\ \A s \in Skill : skills[s] # None => skills[s] \in SkillRow
           /\ \A s \in Skill : drafts[s] # None =>
                 /\ SoundDraft(drafts[s])
                 /\ drafts[s].content \in Package
                 /\ skills[s] # None
           /\ \A i \in Published : /\ releases[i] \in ReleaseRow
                                   /\ releases[i].skill \in Skill
                                   /\ releases[i].content \in Package
                                   /\ skills[releases[i].skill] # None
  BY DEF IInv, TypeOK, StoreTypeOK, RowsExist, Published, ReleaseRow, DraftRow

LEMMA PackageOperators ==
    /\ Starter \in Package
    /\ \A c \in Package : CloneOf(c) \in Package /\ Hash(c) \in Digest
  BY StoreAssumption DEF StoreAssumption, Starter, Package, CloneOf, Hash, Digest

\* SuspendPreserves for the actions that only read.
LEMMA ReadPreserves ==
    ASSUME IInv, NEW r \in Request, NEW q \in RequestState, SoundRequest(q),
           Suspend(r, q), UNCHANGED <<storeVars, registryVars>>
    PROVE  IInv'
  BY SuspendPreserves DEF IInv, TypeOK, registryVars

LEMMA ReturnPreserves ==
    ASSUME IInv, NEW r \in Request, Return(r), UNCHANGED <<storeVars, registryVars>>
    PROVE  IInv'
<1>1. Idle \in RequestState /\ SoundRequest(Idle)
  BY DEF RequestState, SoundRequest, Idle, HoldsSkill, HoldsDraft
<1> QED
  BY <1>1, ReadPreserves DEF Return

LEMMA CreatePreserves ==
    ASSUME IInv, NEW r \in Request, NEW s \in Skill, Create(r, s) \/ Clone(r, s)
    PROVE  IInv'
<1>1. PICK c \in Package :
          /\ Suspend(r, [pc |-> "create", skill |-> s, content |-> c])
          /\ UNCHANGED <<storeVars, registryVars>>
  <2>1. CASE Create(r, s)
    BY <2>1, PackageOperators DEF Create
  <2>2. CASE Clone(r, s)
    <3>1. \A b \in Builtin : BuiltinPackage[b] \in Package
      BY ServiceAssumption DEF ServiceAssumption
    <3> QED
      BY <2>2, <3>1, StoredRows, PackageOperators DEF Clone
  <2> QED
    BY <2>1, <2>2
<1> DEFINE q == [pc |-> "create", skill |-> s, content |-> c]
<1>2. q \in RequestState
  BY DEF RequestState
<1>3. SoundRequest(q)
  BY DEF SoundRequest, HoldsSkill, HoldsDraft
<1> QED
  BY <1>1, <1>2, <1>3, ReadPreserves

LEMMA CommitCreatePreserves ==
    ASSUME IInv, NEW r \in Request, CommitCreate(r)
    PROVE  IInv'
<1> DEFINE q == reqs[r]
<1>0. q \in RequestState /\ q.pc = "create" /\ q.skill \in Skill /\ q.content \in Package
  BY RequestShape DEF CommitCreate, Resumes, IInv, TypeOK
<1>1. CASE skills[q.skill] # None
  <2>1. UNCHANGED <<storeVars, registryVars>>
    BY <1>1 DEF CommitCreate, storeVars
  <2> QED
    BY <2>1, ReturnPreserves DEF CommitCreate
<1>2. CASE skills[q.skill] = None
  <2>1. /\ skills' = [skills EXCEPT ![q.skill] = NewSkill]
        /\ drafts' = [drafts EXCEPT ![q.skill] = NewDraft(q.content)]
        /\ reqs' = [reqs EXCEPT ![r] = Idle]
        /\ UNCHANGED <<releases, states, managed, overrides, behind>>
    BY <1>2 DEF CommitCreate, Return, Suspend, registryVars
  <2>2. NewSkill \in SkillRow /\ NewSkill # None
    <3>1. NewSkill \in SkillRow
      BY DEF NewSkill, SkillRow
    <3> QED
      BY <3>1, NullAssumption DEF NullAssumption
  <2>3. SoundDraft(NewDraft(q.content)) /\ NewDraft(q.content) # None
    <3>1. NewDraft(q.content) \in DraftRow
      BY <1>0, PackageOperators DEF NewDraft, DraftRow
    <3> QED
      BY <3>1, NullAssumption DEF NullAssumption, NewDraft, SoundDraft
  <2>4. Idle \in RequestState
    BY DEF RequestState
  <2>5. TypeOK'
    BY <1>0, <2>1, <2>2, <2>3, <2>4 DEF IInv, TypeOK, StoreTypeOK, SoundDraft
  <2>6. RowsExist' /\ ReleasesValidated'
    BY <1>0, <2>1, <2>2, <2>3, StoredRows
       DEF IInv, TypeOK, StoreTypeOK, RowsExist, ReleasesValidated, Published
  <2>7. \A s \in Skill : (drafts[s] # None => SoundDraft(drafts[s]))'
    BY <1>0, <2>1, <2>3 DEF IInv, TypeOK, StoreTypeOK
  <2>8. \A s \in Skill : skills[s] # None => skills'[s] # None
    BY <1>0, <2>1, <2>2 DEF IInv, TypeOK, StoreTypeOK
  <2>9. \A t \in Request : SoundRequest(reqs[t])'
    <3> SUFFICES ASSUME NEW t \in Request PROVE SoundRequest(reqs[t])'
      OBVIOUS
    <3>1. CASE t = r
      BY <3>1, <2>1 DEF IInv, TypeOK, SoundRequest, Idle, HoldsSkill, HoldsDraft
    <3>2. CASE t # r
      <4>1. reqs'[t] = reqs[t] /\ reqs[t] \in RequestState /\ SoundRequest(reqs[t])
        BY <3>2, <2>1 DEF IInv, TypeOK
      <4> QED
        BY <4>1, <2>1, <2>8, RequestShape DEF SoundRequest
    <3> QED
      BY <3>1, <3>2
  <2> QED
    BY <2>5, <2>6, <2>7, <2>9 DEF IInv
<1> QED
  BY <1>1, <1>2

LEMMA SaveDraftPreserves ==
    ASSUME IInv, NEW r \in Request, NEW s \in Skill, NEW c \in Package, SaveDraft(r, s, c)
    PROVE  IInv'
<1> DEFINE q == [pc |-> "save", skill |-> s, content |-> c, loaded |-> drafts[s]]
<1>1. Suspend(r, q) /\ UNCHANGED <<storeVars, registryVars>> /\ drafts[s] # None
  BY DEF SaveDraft
<1>2. SoundDraft(drafts[s]) /\ skills[s] # None
  BY <1>1, StoredRows
<1>3. q \in RequestState
  BY <1>2 DEF RequestState, SoundDraft
<1>4. SoundRequest(q)
  BY <1>2 DEF SoundRequest, HoldsSkill, HoldsDraft
<1> QED
  BY <1>1, <1>3, <1>4, ReadPreserves

LEMMA CommitSavePreserves ==
    ASSUME IInv, NEW r \in Request, CommitSave(r)
    PROVE  IInv'
<1> DEFINE q == reqs[r]
<1>1. q \in RequestState /\ SoundRequest(q) /\ q.pc = "save"
  BY DEF CommitSave, Resumes, IInv, TypeOK
<1>2. q.skill \in Skill /\ q.content \in Package /\ skills[q.skill] # None /\ SoundDraft(q.loaded)
  BY <1>1, RequestShape DEF SoundRequest, HoldsSkill
<1>3. SoundDraft(drafts[q.skill])
  BY <1>2 DEF IInv, RowsExist
<1>4. SoundDraft(SavedDraft(drafts[q.skill], q.loaded, q.content))
  BY <1>2, <1>3, SavedDraftSound
<1> QED
  BY <1>2, <1>4, DraftCommitPreserves DEF CommitSave

LEMMA ValidateDraftPreserves ==
    ASSUME IInv, NEW r \in Request, NEW s \in Skill, ValidateDraft(r, s)
    PROVE  IInv'
<1> DEFINE q == [pc |-> "validate", skill |-> s, draft |-> drafts[s]]
<1>1. Suspend(r, q) /\ UNCHANGED <<storeVars, registryVars>> /\ drafts[s] # None
  BY DEF ValidateDraft
<1>2. SoundDraft(drafts[s]) /\ skills[s] # None
  BY <1>1, StoredRows
<1>3. q \in RequestState
  BY <1>2 DEF RequestState, SoundDraft
<1>4. SoundRequest(q)
  BY <1>2 DEF SoundRequest, HoldsSkill, HoldsDraft
<1> QED
  BY <1>1, <1>3, <1>4, ReadPreserves

LEMMA LoadForReportPreserves ==
    ASSUME IInv, NEW r \in Request, LoadForReport(r)
    PROVE  IInv'
<1> DEFINE q == reqs[r]
           n == [pc |-> "report", skill |-> q.skill, draft |-> q.draft, loaded |-> drafts[q.skill]]
<1>1. q \in RequestState /\ SoundRequest(q) /\ q.pc = "validate"
  BY DEF LoadForReport, Resumes, IInv, TypeOK
<1>2. q.skill \in Skill /\ skills[q.skill] # None /\ SoundDraft(q.draft)
  BY <1>1, RequestShape DEF SoundRequest, HoldsSkill, HoldsDraft
<1>3. SoundDraft(drafts[q.skill])
  BY <1>2 DEF IInv, RowsExist
<1>4. n \in RequestState
  BY <1>2, <1>3 DEF RequestState, SoundDraft
<1>5. SoundRequest(n)
  BY <1>2, <1>3 DEF SoundRequest, HoldsSkill, HoldsDraft
<1>6. \/ Suspend(r, n) /\ UNCHANGED <<storeVars, registryVars>>
      \/ Return(r) /\ UNCHANGED <<storeVars, registryVars>>
  BY DEF LoadForReport
<1> QED
  BY <1>4, <1>5, <1>6, ReadPreserves, ReturnPreserves

LEMMA CommitReportPreserves ==
    ASSUME IInv, NEW r \in Request, CommitReport(r)
    PROVE  IInv'
<1> DEFINE q == reqs[r]
<1>1. q \in RequestState /\ SoundRequest(q) /\ q.pc = "report"
  BY DEF CommitReport, Resumes, IInv, TypeOK
<1>2. q.skill \in Skill /\ skills[q.skill] # None /\ SoundDraft(q.loaded) /\ SoundDraft(q.draft)
  BY <1>1, RequestShape DEF SoundRequest, HoldsSkill, HoldsDraft
<1>3. SoundDraft(drafts[q.skill])
  BY <1>2 DEF IInv, RowsExist
<1>4. SoundDraft(ValidatedDraft(drafts[q.skill], q.loaded, q.draft))
  BY <1>2, <1>3, ValidatedDraftSound
<1> QED
  BY <1>2, <1>4, DraftCommitPreserves DEF CommitReport

LEMMA PublishPreserves ==
    ASSUME IInv, NEW r \in Request, NEW s \in Skill, NEW activate \in BOOLEAN,
           Publish(r, s, activate)
    PROVE  IInv'
<1> DEFINE q == [pc |-> "publish", skill |-> s, draft |-> drafts[s], activate |-> activate]
<1>1. /\ Suspend(r, q) /\ UNCHANGED <<storeVars, registryVars>>
      /\ drafts[s] # None /\ Publishable(drafts[s])
  BY DEF Publish
<1>2. SoundDraft(drafts[s]) /\ skills[s] # None
  BY <1>1, StoredRows
<1>3. q \in RequestState
  BY <1>2 DEF RequestState, SoundDraft
<1>4. SoundRequest(q)
  BY <1>1, <1>2 DEF SoundRequest, HoldsSkill, HoldsDraft
<1> QED
  BY <1>1, <1>3, <1>4, ReadPreserves

LEMMA LoadForReleasePreserves ==
    ASSUME IInv, NEW r \in Request, LoadForRelease(r)
    PROVE  IInv'
<1> DEFINE q == reqs[r]
           n == [pc |-> "release", skill |-> q.skill, draft |-> q.draft,
                 activate |-> q.activate, row |-> skills[q.skill]]
<1>1. q \in RequestState /\ SoundRequest(q) /\ q.pc = "publish"
  BY DEF LoadForRelease, Resumes, IInv, TypeOK
<1>2. /\ q.skill \in Skill /\ q.activate \in BOOLEAN
      /\ skills[q.skill] # None /\ SoundDraft(q.draft) /\ Publishable(q.draft)
  BY <1>1, RequestShape DEF SoundRequest, HoldsSkill, HoldsDraft
<1>3. n \in RequestState
  BY <1>2, StoredRows DEF RequestState, SoundDraft
<1>4. SoundRequest(n)
  BY <1>2 DEF SoundRequest, HoldsSkill, HoldsDraft
<1>5. \/ Suspend(r, n) /\ UNCHANGED <<storeVars, registryVars>>
      \/ Return(r) /\ UNCHANGED <<storeVars, registryVars>>
  BY DEF LoadForRelease
<1> QED
  BY <1>3, <1>4, <1>5, ReadPreserves, ReturnPreserves

\* What publish lets through is a package the validator accepted, under its
\* own checksum and version.
LEMMA PublishableIsValid ==
    ASSUME NEW q, q.skill \in Skill, SoundDraft(q.draft), Publishable(q.draft)
    PROVE  /\ NewRelease(q) \in ReleaseRow
           /\ NewRelease(q) # None
           /\ NewRelease(q).skill = q.skill
           /\ NewRelease(q).content.body \in ValidBody
           /\ NewRelease(q).checksum = Hash(NewRelease(q).content)
           /\ NewRelease(q).version = NewRelease(q).content.version
<1> DEFINE d == q.draft
<1>1. d.content \in Package /\ d.content.version \in Version /\ d.hash \in Digest
  BY DEF SoundDraft, DraftRow, Package
<1>2. d.validated = Hash(d.content) /\ d.hash = Hash(d.content)
  BY DEF Publishable, SoundDraft
<1>3. d.report = Validate(d.content, d.hash)
  BY <1>1, <1>2, NullAssumption DEF NullAssumption, SoundDraft, Hash
<1>4. d.content.body \in ValidBody
  <2>1. d.report.valid
    BY DEF Publishable
  <2>2. Validate(d.content, d.hash).valid = (d.content.body \in ValidBody)
    BY Zenon DEF Validate
  <2>3. Validate(d.content, d.hash).valid
    BY <1>3, <2>1, Zenon
  <2> QED
    BY <2>2, <2>3, Zenon
<1>5. NewRelease(q) \in ReleaseRow
  BY <1>1 DEF NewRelease, ReleaseRow
<1> QED
  BY <1>2, <1>4, <1>5, NullAssumption DEF NullAssumption, NewRelease

\* The rows the repository's commits write to managed_skills.
LEMMA SkillRowOperators ==
    ASSUME NEW stored \in SkillRow, NEW loaded \in SkillRow, NEW i \in ReleaseId
    PROVE  /\ PointedSkill(stored, loaded, i) \in SkillRow
           /\ PublishedSkill(stored, loaded) \in SkillRow
           /\ ArchivedSkill(stored, loaded) \in SkillRow
<1>1. PointedSkill(stored, loaded, i) \in SkillRow
  BY DEF PointedSkill, Written, SkillRow
<1>2. PublishedSkill(stored, loaded) \in SkillRow
  BY DEF PublishedSkill, Written, SkillRow
<1>3. ArchivedSkill(stored, loaded) \in SkillRow
  BY DEF ArchivedSkill, Written, SkillRow
<1> QED
  BY <1>1, <1>2, <1>3

LEMMA CommitReleasePreserves ==
    ASSUME IInv, NEW r \in Request, CommitRelease(r)
    PROVE  IInv'
<1> DEFINE q == reqs[r]
           taken == VersionTaken(q.skill, q.draft.content.version)
<1>1. q \in RequestState /\ SoundRequest(q) /\ q.pc = "release"
  BY DEF CommitRelease, Resumes, IInv, TypeOK
<1>2. /\ q.skill \in Skill /\ q.activate \in BOOLEAN /\ q.row \in SkillRow
      /\ skills[q.skill] # None /\ SoundDraft(q.draft) /\ Publishable(q.draft)
  BY <1>1, RequestShape DEF SoundRequest, HoldsSkill, HoldsDraft
<1>3. skills[q.skill] \in SkillRow
  BY <1>2, StoredRows
<1>4. CASE taken
  BY <1>4, ReturnPreserves DEF CommitRelease
<1>5. CASE ~taken
  <2>1. PICK i \in ReleaseId \ Published :
          /\ releases' = [releases EXCEPT ![i] = NewRelease(q)]
          /\ skills' = [skills EXCEPT ![q.skill] =
                IF q.activate THEN PointedSkill(@, q.row, i) ELSE PublishedSkill(@, q.row)]
          /\ UNCHANGED <<drafts, states, managed, overrides, behind>>
    BY <1>5 DEF CommitRelease, registryVars
  <2>2. PICK n \in {Idle, [pc |-> "refresh"]} : reqs' = [reqs EXCEPT ![r] = n]
    BY <1>5 DEF CommitRelease, ThenRefresh, Return, Suspend
  <2>3. /\ NewRelease(q) \in ReleaseRow /\ NewRelease(q) # None
        /\ NewRelease(q).skill = q.skill
        /\ NewRelease(q).content.body \in ValidBody
        /\ NewRelease(q).checksum = Hash(NewRelease(q).content)
        /\ NewRelease(q).version = NewRelease(q).content.version
    BY <1>2, PublishableIsValid
  <2>4. skills'[q.skill] \in SkillRow /\ skills' \in [Skill -> SkillRow \cup {None}]
    BY <1>2, <1>3, <2>1, SkillRowOperators DEF IInv, TypeOK, StoreTypeOK
  <2>5. \A s \in Skill : skills'[s] = None <=> skills[s] = None
    BY <1>2, <1>3, <2>1, <2>4, NullAssumption DEF NullAssumption, IInv, TypeOK, StoreTypeOK
  <2>6. releases' \in [ReleaseId -> ReleaseRow \cup {None}]
    BY <2>1, <2>3 DEF IInv, TypeOK, StoreTypeOK
  <2>7. n \in RequestState
    BY DEF RequestState
  <2>8. TypeOK'
    BY <2>1, <2>2, <2>4, <2>6, <2>7 DEF IInv, TypeOK, StoreTypeOK
  <2>9. \A j \in Published' : j = i \/ (j \in Published /\ releases'[j] = releases[j])
    BY <2>1 DEF IInv, TypeOK, StoreTypeOK, Published
  <2>10. releases'[i] = NewRelease(q)
    BY <2>1 DEF IInv, TypeOK, StoreTypeOK
  <2>11. ReleasesValidated'
    BY <2>3, <2>9, <2>10 DEF IInv, ReleasesValidated
  <2>12. RowsExist'
    BY <1>2, <2>1, <2>3, <2>5, <2>9, <2>10, StoredRows DEF IInv, RowsExist
  <2>13. \A t \in Request : SoundRequest(reqs[t])'
    <3> SUFFICES ASSUME NEW t \in Request PROVE SoundRequest(reqs[t])'
      OBVIOUS
    <3>1. CASE t = r
      BY <3>1, <2>2 DEF IInv, TypeOK, SoundRequest, Idle, HoldsSkill, HoldsDraft
    <3>2. CASE t # r
      <4>1. reqs'[t] = reqs[t] /\ reqs[t] \in RequestState /\ SoundRequest(reqs[t])
        BY <3>2, <2>2 DEF IInv, TypeOK
      <4> QED
        BY <4>1, <2>1, <2>5, RequestShape DEF SoundRequest
    <3> QED
      BY <3>1, <3>2
  <2>14. \A s \in Skill : (drafts[s] # None => SoundDraft(drafts[s]))'
    BY <2>1 DEF IInv
  <2> QED
    BY <2>8, <2>11, <2>12, <2>13, <2>14 DEF IInv
<1> QED
  BY <1>4, <1>5

LEMMA ActivatePreserves ==
    ASSUME IInv, NEW r \in Request, NEW i \in ReleaseId, Activate(r, i)
    PROVE  IInv'
<1> DEFINE q == [pc |-> "activate", skill |-> releases[i].skill, release |-> i,
                 row |-> skills[releases[i].skill]]
<1>1. Suspend(r, q) /\ UNCHANGED <<storeVars, registryVars>> /\ i \in Published
  BY DEF Activate
<1>2. releases[i].skill \in Skill /\ skills[releases[i].skill] # None
  BY <1>1, StoredRows
<1>3. q \in RequestState
  BY <1>2, StoredRows DEF RequestState
<1>4. SoundRequest(q)
  BY <1>2 DEF SoundRequest, HoldsSkill, HoldsDraft
<1> QED
  BY <1>1, <1>3, <1>4, ReadPreserves

LEMMA CommitActivatePreserves ==
    ASSUME IInv, NEW r \in Request, CommitActivate(r)
    PROVE  IInv'
<1> DEFINE q == reqs[r]
<1>1. q \in RequestState /\ SoundRequest(q) /\ q.pc = "activate"
  BY DEF CommitActivate, Resumes, IInv, TypeOK
<1>2. q.skill \in Skill /\ q.release \in ReleaseId /\ q.row \in SkillRow /\ skills[q.skill] # None
  BY <1>1, RequestShape DEF SoundRequest, HoldsSkill
<1>3. PointedSkill(skills[q.skill], q.row, q.release) \in SkillRow
  BY <1>2, StoredRows, SkillRowOperators
<1>4. /\ skills' \in [Skill -> SkillRow \cup {None}]
      /\ \A s \in Skill : skills'[s] = None <=> skills[s] = None
  BY <1>2, <1>3, NullAssumption
     DEF NullAssumption, CommitActivate, IInv, TypeOK, StoreTypeOK
<1> QED
  BY <1>4, SkillCommitPreserves DEF CommitActivate, ThenRefresh, IInv, TypeOK, StoreTypeOK

LEMMA ArchivePreserves ==
    ASSUME IInv, NEW r \in Request, NEW s \in Skill, Archive(r, s)
    PROVE  IInv'
<1> DEFINE q == [pc |-> "archive", skill |-> s]
<1>1. Suspend(r, q) /\ UNCHANGED <<storeVars, registryVars>> /\ skills[s] # None
  BY StoredRows DEF Archive
<1>2. q \in RequestState /\ SoundRequest(q)
  BY <1>1 DEF RequestState, SoundRequest, HoldsSkill, HoldsDraft
<1> QED
  BY <1>1, <1>2, ReadPreserves

LEMMA LoadForArchivePreserves ==
    ASSUME IInv, NEW r \in Request, LoadForArchive(r)
    PROVE  IInv'
<1> DEFINE q == reqs[r]
           n == [pc |-> "retire", skill |-> q.skill, row |-> skills[q.skill]]
<1>1. q \in RequestState /\ SoundRequest(q) /\ q.pc = "archive"
  BY DEF LoadForArchive, Resumes, IInv, TypeOK
<1>2. q.skill \in Skill /\ skills[q.skill] # None
  BY <1>1, RequestShape DEF SoundRequest, HoldsSkill
<1>3. n \in RequestState
  BY <1>2, StoredRows DEF RequestState
<1>4. SoundRequest(n)
  BY <1>2 DEF SoundRequest, HoldsSkill, HoldsDraft
<1> QED
  BY <1>3, <1>4, ReadPreserves DEF LoadForArchive

LEMMA CommitArchivePreserves ==
    ASSUME IInv, NEW r \in Request, CommitArchive(r)
    PROVE  IInv'
<1> DEFINE q == reqs[r]
<1>1. q \in RequestState /\ SoundRequest(q) /\ q.pc = "retire"
  BY DEF CommitArchive, Resumes, IInv, TypeOK
<1>2. q.skill \in Skill /\ q.row \in SkillRow /\ skills[q.skill] # None
  BY <1>1, RequestShape DEF SoundRequest, HoldsSkill
<1>3. ArchivedSkill(skills[q.skill], q.row) \in SkillRow
  <2>1. skills[q.skill] \in SkillRow
    BY <1>2, StoredRows
  <2> QED
    BY <1>2, <2>1 DEF ArchivedSkill, Written, SkillRow
<1>4. /\ skills' \in [Skill -> SkillRow \cup {None}]
      /\ \A s \in Skill : skills'[s] = None <=> skills[s] = None
  BY <1>2, <1>3, NullAssumption
     DEF NullAssumption, CommitArchive, IInv, TypeOK, StoreTypeOK
<1>5. [enabled |-> FALSE] \in StateRow
  BY DEF StateRow
<1>6. /\ states' \in [Id -> StateRow \cup {None}]
      /\ \A d \in Id : states[d] # None => states'[d] # None
  BY <1>5, NullAssumption DEF NullAssumption, CommitArchive, IInv, TypeOK, StoreTypeOK
<1> QED
  BY <1>4, <1>6, SkillCommitPreserves DEF CommitArchive, ThenRefresh

LEMMA SetEnabledPreserves ==
    ASSUME IInv, NEW r \in Request, NEW d \in Id, NEW enabled \in BOOLEAN,
           SetEnabled(r, d, enabled)
    PROVE  IInv'
<1> DEFINE q == [pc |-> "enable", id |-> d, enabled |-> enabled, loaded |-> states[d]]
<1>1. Suspend(r, q) /\ UNCHANGED <<storeVars, registryVars>> /\ (d \in Skill => skills[d] # None)
  BY DEF SetEnabled
<1>2. q \in RequestState
  BY DEF RequestState, IInv, TypeOK, StoreTypeOK
<1>3. SoundRequest(q)
  BY <1>1 DEF SoundRequest, HoldsSkill, HoldsDraft
<1> QED
  BY <1>1, <1>2, <1>3, ReadPreserves

LEMMA CommitEnabledPreserves ==
    ASSUME IInv, NEW r \in Request, CommitEnabled(r)
    PROVE  IInv'
<1> DEFINE q == reqs[r]
<1>1. q \in RequestState /\ SoundRequest(q) /\ q.pc = "enable"
  BY DEF CommitEnabled, Resumes, IInv, TypeOK
<1>2. /\ q.id \in Id /\ q.enabled \in BOOLEAN /\ q.loaded \in StateRow \cup {None}
      /\ q.id \in Skill => skills[q.id] # None
      /\ q.loaded # None => states[q.id] # None
  BY <1>1, RequestShape DEF SoundRequest
<1>3. CASE q.loaded = None /\ states[q.id] # None /\ Return(r) /\ UNCHANGED storeVars
  BY <1>3, ReturnPreserves DEF CommitEnabled
<1>4. CASE /\ q.loaded = None => states[q.id] = None
           /\ states' = [states EXCEPT ![q.id] =
                IF q.loaded = None
                THEN [enabled |-> q.enabled]
                ELSE [enabled |-> Written(q.enabled, q.loaded.enabled, @.enabled)]]
           /\ skills' = SwitchedSkills(q.id, q.enabled)
           /\ ThenRefresh(r)
           /\ UNCHANGED <<drafts, releases>>
  <2>1. \A s \in Skill : skills[s] # None =>
            /\ [skills[s] EXCEPT !.enabled = q.enabled] \in SkillRow
            /\ [skills[s] EXCEPT !.enabled = q.enabled] # None
    <3>1. \A row \in SkillRow : [row EXCEPT !.enabled = q.enabled] \in SkillRow
      BY <1>2 DEF SkillRow
    <3> QED
      BY <3>1, StoredRows, NullAssumption DEF NullAssumption
  <2>2. /\ skills' \in [Skill -> SkillRow \cup {None}]
        /\ \A s \in Skill : skills'[s] = None <=> skills[s] = None
    BY <1>2, <1>4, <2>1 DEF SwitchedSkills, IInv, TypeOK, StoreTypeOK
  <2>3. states[q.id] # None => states[q.id].enabled \in BOOLEAN
    BY <1>2 DEF IInv, TypeOK, StoreTypeOK, StateRow
  <2>4. PICK row \in StateRow : states' = [states EXCEPT ![q.id] = row]
    <3>1. CASE q.loaded = None
      <4>1. [enabled |-> q.enabled] \in StateRow
        BY <1>2 DEF StateRow
      <4> QED
        BY <1>4, <3>1, <4>1
    <3>2. CASE q.loaded # None
      <4>1. states[q.id].enabled \in BOOLEAN
        BY <1>2, <2>3, <3>2
      <4>2. [enabled |-> Written(q.enabled, q.loaded.enabled, states[q.id].enabled)] \in StateRow
        BY <1>2, <4>1 DEF StateRow, Written
      <4> QED
        BY <1>4, <3>2, <4>2
    <3> QED
      BY <3>1, <3>2
  <2>5. /\ states' \in [Id -> StateRow \cup {None}]
        /\ \A d \in Id : states[d] # None => states'[d] # None
    BY <1>2, <2>4, NullAssumption DEF NullAssumption, IInv, TypeOK, StoreTypeOK
  <2> QED
    BY <1>4, <2>2, <2>5, SkillCommitPreserves DEF CommitEnabled, ThenRefresh
<1> QED
  BY <1>3, <1>4 DEF CommitEnabled

\* What the refresh reads from managed_skills joined to skill_releases.
LEMMA ActiveReleasesType ==
    ASSUME IInv
    PROVE  ActiveReleases \in [Skill -> LoadedSkill \cup {None}]
<1> SUFFICES ASSUME NEW s \in Skill, Served(s)
             PROVE  [version |-> releases[skills[s].active].version,
                     content |-> releases[skills[s].active].content,
                     enabled |-> skills[s].enabled] \in LoadedSkill
  BY DEF ActiveReleases
<1>1. skills[s] \in SkillRow /\ releases[skills[s].active] \in ReleaseRow
  BY StoredRows DEF Served
<1> QED
  BY <1>1 DEF SkillRow, ReleaseRow, LoadedSkill

LEMMA RefreshPreserves ==
    ASSUME IInv, NEW r \in Request, Refresh(r)
    PROVE  IInv'
<1>1. CASE ReadActive(r)
  <2> DEFINE q == [pc |-> "overrides", active |-> ActiveReleases]
  <2>1. q \in RequestState
    BY ActiveReleasesType DEF RequestState
  <2>2. SoundRequest(q)
    BY DEF SoundRequest, HoldsSkill, HoldsDraft
  <2> QED
    BY <1>1, <2>1, <2>2, ReadPreserves DEF ReadActive
<1>2. CASE ReadOverrides(r)
  <2> DEFINE q == [pc |-> "install", active |-> reqs[r].active, enabled |-> states]
  <2>1. reqs[r].active \in [Skill -> LoadedSkill \cup {None}]
    BY <1>2, RequestShape DEF ReadOverrides, Resumes, IInv, TypeOK
  <2>2. q \in RequestState
    BY <2>1 DEF RequestState, IInv, TypeOK, StoreTypeOK
  <2>3. SoundRequest(q)
    BY DEF SoundRequest, HoldsSkill, HoldsDraft
  <2> QED
    BY <1>2, <2>2, <2>3, ReadPreserves DEF ReadOverrides
<1>3. CASE Install(r)
  <2>1. /\ reqs[r].active \in [Skill -> LoadedSkill \cup {None}]
        /\ reqs[r].enabled \in [Id -> StateRow \cup {None}]
    BY <1>3, RequestShape DEF Install, Resumes, IInv, TypeOK
  <2>2. Idle \in RequestState /\ SoundRequest(Idle)
    BY DEF RequestState, SoundRequest, Idle, HoldsSkill, HoldsDraft
  <2> QED
    BY <1>3, <2>1, <2>2, SuspendPreserves DEF Install, Return
<1>4. CASE RefreshFails(r)
  <2>1. Idle \in RequestState /\ SoundRequest(Idle)
    BY DEF RequestState, SoundRequest, Idle, HoldsSkill, HoldsDraft
  <2>2. /\ managed' \in [Skill -> LoadedSkill \cup {None}]
        /\ overrides' \in [Id -> StateRow \cup {None}]
        /\ behind' \in BOOLEAN
    BY <1>4 DEF RefreshFails, IInv, TypeOK
  <2> QED
    BY <1>4, <2>1, <2>2, SuspendPreserves DEF RefreshFails, Return
<1> QED
  BY <1>1, <1>2, <1>3, <1>4 DEF Refresh

LEMMA RestartPreserves ==
    ASSUME IInv, Restart
    PROVE  IInv'
<1> USE DEF IInv, Restart, storeVars
<1>1. Idle \in RequestState
  BY DEF RequestState
<1>2. TypeOK'
  BY <1>1, ActiveReleasesType DEF TypeOK, StoreTypeOK
<1>3. \A r \in Request : SoundRequest(reqs[r])'
  BY DEF SoundRequest, Idle, HoldsSkill, HoldsDraft
<1>4. RowsExist' /\ ReleasesValidated'
  BY DEF RowsExist, ReleasesValidated, Published
<1> QED
  BY <1>2, <1>3, <1>4

LEMMA StutterPreserves ==
    ASSUME IInv, UNCHANGED vars
    PROVE  IInv'
<1> USE DEF IInv, vars, storeVars, registryVars
<1>1. TypeOK'
  BY DEF TypeOK, StoreTypeOK
<1>2. RowsExist' /\ ReleasesValidated'
  BY DEF RowsExist, ReleasesValidated, Published
<1>3. \A r \in Request : SoundRequest(reqs[r])'
  BY DEF SoundRequest
<1> QED
  BY <1>1, <1>2, <1>3

LEMMA NextPreserves == IInv /\ [Next]_vars => IInv'
<1> SUFFICES ASSUME IInv, [Next]_vars PROVE IInv'
  OBVIOUS
<1>1. ASSUME NEW r \in Request, Edit(r) PROVE IInv'
  BY <1>1, CreatePreserves, ValidateDraftPreserves, SaveDraftPreserves,
     CommitCreatePreserves, CommitSavePreserves, LoadForReportPreserves,
     CommitReportPreserves DEF Edit
<1>2. ASSUME NEW r \in Request, Release(r) PROVE IInv'
  BY <1>2, PublishPreserves, ActivatePreserves, ArchivePreserves,
     LoadForReleasePreserves, CommitReleasePreserves, CommitActivatePreserves,
     LoadForArchivePreserves, CommitArchivePreserves DEF Release
<1>3. ASSUME NEW r \in Request, Switch(r) PROVE IInv'
  BY <1>3, SetEnabledPreserves, CommitEnabledPreserves DEF Switch
<1>4. ASSUME NEW r \in Request, Refresh(r) PROVE IInv'
  BY <1>4, RefreshPreserves
<1>5. CASE Restart
  BY <1>5, RestartPreserves
<1>6. CASE UNCHANGED vars
  BY <1>6, StutterPreserves
<1> QED
  BY <1>1, <1>2, <1>3, <1>4, <1>5, <1>6 DEF Next

LEMMA Invariance == Spec => []IInv
<1>1. Init => IInv
  BY InitInvariant
<1>2. IInv /\ [Next]_vars => IInv'
  BY NextPreserves
<1> QED
  BY <1>1, <1>2, PTL DEF Spec

-----------------------------------------------------------------------------
(* The theorems. *)

\* Every table, the registry and every suspended request hold values of their
\* types, whatever requests overlap and wherever the process restarts.
THEOREM TypeCorrect == Spec => []TypeOK
<1>1. IInv => TypeOK
  BY DEF IInv
<1> QED
  BY <1>1, Invariance, PTL

\* Whatever requests overlap, only packages the validator accepted are ever
\* released, each with its own checksum and version (service.publish against
\* repository.save_draft and save_validation).
THEOREM OnlyValidatedPackagesAreReleased == Spec => []ReleasesValidated
<1>1. IInv => ReleasesValidated
  BY DEF IInv
<1> QED
  BY <1>1, Invariance, PTL

=============================================================================
