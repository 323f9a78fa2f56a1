------------------------- MODULE SkillCatalogProofs -------------------------
(***************************************************************************)
(* The release catalog of SkillService, on top of SkillServiceProofs: the  *)
(* lifecycle of a skill agrees with its releases, the runtime serves only  *)
(* releases, and the store implements ReleaseCatalog.  None of these is    *)
(* inductive by itself, because a commit writes what an earlier read left  *)
(* in the session: CatalogInv adds what those locals can be relied on for. *)
(***************************************************************************)
EXTENDS SkillServiceProofs

Own(s) == {i \in Published : releases[i].skill = s}

\* Every loaded skill is a release of that skill.
FromReleases(loaded) ==
    \A s \in Skill : loaded[s] # None =>
        \E i \in Own(s) : /\ releases[i].version = loaded[s].version
                          /\ releases[i].content = loaded[s].content

\* A row read as published stays the row of a skill with releases, a release
\* found for activation stays the skill's own, and a registry map read for
\* the refresh stays a map of releases.
GroundedRequest(q) ==
    /\ q.pc \in {"release", "activate", "retire"} /\ q.row.status = "published" =>
          Own(q.skill) # {}
    /\ q.pc = "activate" => q.release \in Own(q.skill)
    /\ q.pc \in {"overrides", "install"} => FromReleases(q.active)

CatalogInv ==
    /\ LifecycleConsistent
    /\ FromReleases(managed)
    /\ \A r \in Request : GroundedRequest(reqs[r])

\* Releases are immutable and never deleted.
Grows == \A i \in Published : i \in Published' /\ releases'[i] = releases[i]

-----------------------------------------------------------------------------
(* What a growing catalog keeps. *)

LEMMA OwnGrows ==
    ASSUME Grows, NEW s
    PROVE  \A i \in Own(s) : i \in Own(s)'
  BY DEF Grows, Own

LEMMA LoadedStays ==
    ASSUME Grows, NEW loaded, FromReleases(loaded)
    PROVE  \A s \in Skill : loaded[s] # None =>
              \E i \in Own(s)' : /\ releases'[i].version = loaded[s].version
                                 /\ releases'[i].content = loaded[s].content
<1> SUFFICES ASSUME NEW s \in Skill, loaded[s] # None
             PROVE  \E i \in Own(s)' : /\ releases'[i].version = loaded[s].version
                                       /\ releases'[i].content = loaded[s].content
  OBVIOUS
<1>1. PICK i \in Own(s) : /\ releases[i].version = loaded[s].version
                          /\ releases[i].content = loaded[s].content
  BY DEF FromReleases
<1>2. i \in Own(s)' /\ releases'[i] = releases[i]
  BY <1>1, OwnGrows DEF Grows, Own
<1> QED
  BY <1>1, <1>2

LEMMA GroundedStays ==
    ASSUME Grows, NEW q, GroundedRequest(q)
    PROVE  /\ q.pc \in {"release", "activate", "retire"} /\ q.row.status = "published" =>
                 Own(q.skill)' # {}
           /\ q.pc = "activate" => q.release \in Own(q.skill)'
           /\ q.pc \in {"overrides", "install"} =>
                 \A s \in Skill : q.active[s] # None =>
                    \E i \in Own(s)' : /\ releases'[i].version = q.active[s].version
                                       /\ releases'[i].content = q.active[s].content
<1> DEFINE skill == q.skill
           active == q.active
<1>1. \A i \in Own(skill) : i \in Own(skill)'
  BY OwnGrows
<1>2. ASSUME FromReleases(active)
      PROVE  \A s \in Skill : active[s] # None =>
                \E i \in Own(s)' : /\ releases'[i].version = active[s].version
                                   /\ releases'[i].content = active[s].content
  BY <1>2, LoadedStays
<1> QED
  BY <1>1, <1>2 DEF GroundedRequest

-----------------------------------------------------------------------------
(* The invariant, for the kinds of step there are. *)

\* A skill row agrees with the skill's releases.
Agrees(row, own) ==
    /\ row.active # None => row.active \in own
    /\ row.status = "draft" => own = {}
    /\ row.status = "published" => own # {}

LEMMA LifecycleByRow ==
    LifecycleConsistent <=> \A s \in Skill : skills[s] # None => Agrees(skills[s], Own(s))
  BY DEF LifecycleConsistent, Agrees, Own

\* The columns that status and pointer of a committed row come from.
LEMMA WrittenColumns ==
    ASSUME NEW stored \in SkillRow, NEW loaded \in SkillRow, NEW i
    PROVE  /\ PointedSkill(stored, loaded, i).status =
                 Written("published", loaded.status, stored.status)
           /\ PointedSkill(stored, loaded, i).active = Written(i, loaded.active, stored.active)
           /\ PublishedSkill(stored, loaded).status =
                 Written("published", loaded.status, stored.status)
           /\ PublishedSkill(stored, loaded).active = stored.active
           /\ ArchivedSkill(stored, loaded).status =
                 Written("archived", loaded.status, stored.status)
           /\ ArchivedSkill(stored, loaded).active = stored.active
<1>1. stored = [status |-> stored.status, enabled |-> stored.enabled, active |-> stored.active]
  BY DEF SkillRow
<1> QED
  BY <1>1 DEF PointedSkill, PublishedSkill, ArchivedSkill

\* A step that only moves a request, or installs a map of releases.
LEMMA ReadKeepsCatalog ==
    ASSUME IInv, CatalogInv, NEW r \in Request, NEW q, GroundedRequest(q), Suspend(r, q),
           UNCHANGED <<skills, releases>>,
           managed' = managed \/ \E t \in Request : reqs[t].pc = "install" /\ managed' = reqs[t].active
    PROVE  CatalogInv'
<1>1. Published' = Published /\ \A s : Own(s)' = Own(s)
  BY DEF Published, Own
<1>2. LifecycleConsistent'
  BY <1>1 DEF CatalogInv, LifecycleConsistent, Published
<1>3. FromReleases(managed)'
  <2>1. FromReleases(managed')
    BY DEF CatalogInv, GroundedRequest
  <2> QED
    BY <1>1, <2>1 DEF FromReleases
<1>4. \A t \in Request : GroundedRequest(reqs[t])'
  <2> SUFFICES ASSUME NEW t \in Request PROVE GroundedRequest(reqs[t])'
    OBVIOUS
  <2>1. reqs'[t] = q \/ reqs'[t] = reqs[t]
    BY DEF Suspend, IInv, TypeOK
  <2>2. GroundedRequest(reqs'[t])
    BY <2>1 DEF CatalogInv
  <2> QED
    BY <1>1, <2>2 DEF GroundedRequest, FromReleases
<1> QED
  BY <1>2, <1>3, <1>4 DEF CatalogInv

LEMMA ReturnKeepsCatalog ==
    ASSUME IInv, CatalogInv, NEW r \in Request, Return(r), UNCHANGED <<skills, releases, managed>>
    PROVE  CatalogInv'
<1>1. GroundedRequest(Idle)
  BY DEF GroundedRequest, Idle
<1> QED
  BY <1>1, ReadKeepsCatalog DEF Return

\* A step that commits: the catalog grows and the rows still agree with it.
LEMMA CommitKeepsCatalog ==
    ASSUME IInv, CatalogInv, NEW r \in Request, NEW q \in {Idle, [pc |-> "refresh"]}, Suspend(r, q),
           Grows, managed' = managed,
           \A s \in Skill : skills'[s] # None => Agrees(skills'[s], Own(s)')
    PROVE  CatalogInv'
<1>1. LifecycleConsistent'
  BY LifecycleByRow DEF LifecycleConsistent, Agrees, Own
<1>2. FromReleases(managed)'
  <2>1. FromReleases(managed)
    BY DEF CatalogInv
  <2> QED
    BY <2>1, LoadedStays DEF FromReleases
<1>3. \A t \in Request : GroundedRequest(reqs[t])'
  <2> SUFFICES ASSUME NEW t \in Request PROVE GroundedRequest(reqs[t])'
    OBVIOUS
  <2>1. CASE reqs'[t] = q
    BY <2>1 DEF GroundedRequest, Idle
  <2>2. CASE reqs'[t] = reqs[t]
    BY <2>2, GroundedStays DEF GroundedRequest, CatalogInv, FromReleases
  <2> QED
    BY <2>1, <2>2 DEF Suspend, IInv, TypeOK
<1> QED
  BY <1>1, <1>2, <1>3 DEF CatalogInv

-----------------------------------------------------------------------------
(* The invariant, action by action. *)

LEMMA InitCatalog == Init => CatalogInv
<1> SUFFICES ASSUME Init PROVE CatalogInv
  OBVIOUS
<1>1. LifecycleConsistent /\ FromReleases(managed)
  BY DEF Init, StoreInit, LifecycleConsistent, FromReleases
<1>2. \A r \in Request : GroundedRequest(reqs[r])
  BY DEF Init, GroundedRequest, Idle
<1> QED
  BY <1>1, <1>2 DEF CatalogInv

\* Reading the tables of a skill that exists.
LEMMA ReadRow ==
    ASSUME IInv, CatalogInv, NEW s \in Skill, skills[s] # None, skills[s].status = "published"
    PROVE  Own(s) # {}
  BY LifecycleByRow DEF CatalogInv, Agrees

LEMMA EditKeepsCatalog ==
    ASSUME IInv, CatalogInv, NEW r \in Request, Edit(r)
    PROVE  CatalogInv'
<1>1. CASE CommitCreate(r) /\ skills[reqs[r].skill] = None
  <2> DEFINE k == reqs[r].skill
  <2>1. k \in Skill
    BY <1>1, RequestShape DEF CommitCreate, Resumes, IInv, TypeOK
  <2>2. /\ skills' = [skills EXCEPT ![k] = NewSkill]
        /\ Return(r) /\ UNCHANGED <<releases, managed>>
    BY <1>1 DEF CommitCreate, registryVars
  <2>3. Own(k) = {}
    BY <1>1 DEF IInv, RowsExist, Own
  <2>4. \A s : Own(s)' = Own(s)
    BY <2>2 DEF Own, Published
  <2>5. Agrees(NewSkill, Own(k))
    BY <2>3 DEF Agrees, NewSkill
  <2>6. \A s \in Skill : skills'[s] # None => Agrees(skills'[s], Own(s)')
    BY <2>1, <2>2, <2>4, <2>5, LifecycleByRow DEF CatalogInv, IInv, TypeOK, StoreTypeOK
  <2>7. Grows
    BY <2>2 DEF Grows, Published
  <2> QED
    BY <2>2, <2>6, <2>7, CommitKeepsCatalog DEF Return
<1>2. CASE CommitCreate(r) /\ skills[reqs[r].skill] # None
  BY <1>2, ReturnKeepsCatalog DEF CommitCreate, registryVars
<1>3. CASE CommitSave(r) \/ CommitReport(r)
  BY <1>3, ReturnKeepsCatalog DEF CommitSave, CommitReport, registryVars
<1>4. CASE \E s \in Skill : Create(r, s) \/ Clone(r, s) \/ ValidateDraft(r, s)
                            \/ \E c \in Package : SaveDraft(r, s, c)
  <2>1. PICK q : /\ Suspend(r, q) /\ UNCHANGED <<skills, releases, managed>>
                 /\ q.pc \in {"create", "validate", "save"}
    <3>1. PICK s \in Skill : \/ Create(r, s) \/ Clone(r, s) \/ ValidateDraft(r, s)
                             \/ \E c \in Package : SaveDraft(r, s, c)
      BY <1>4
    <3>2. UNCHANGED <<skills, releases, managed>>
      BY <3>1 DEF Create, Clone, ValidateDraft, SaveDraft, storeVars, registryVars
    <3>3. CASE Create(r, s)
      BY <3>2, <3>3 DEF Create
    <3>4. CASE Clone(r, s)
      BY <3>2, <3>4 DEF Clone
    <3>5. CASE ValidateDraft(r, s)
      BY <3>2, <3>5 DEF ValidateDraft
    <3>6. CASE \E c \in Package : SaveDraft(r, s, c)
      BY <3>2, <3>6 DEF SaveDraft
    <3> QED
      BY <3>1, <3>3, <3>4, <3>5, <3>6
  <2>2. GroundedRequest(q)
    BY <2>1 DEF GroundedRequest
  <2> QED
    BY <2>1, <2>2, ReadKeepsCatalog
<1>5. CASE LoadForReport(r)
  <2>1. UNCHANGED <<skills, releases, managed>>
    BY <1>5 DEF LoadForReport, storeVars, registryVars
  <2>2. \/ Return(r)
        \/ \E q : Suspend(r, q) /\ q.pc = "report"
    BY <1>5 DEF LoadForReport
  <2>3. \A q : q.pc = "report" => GroundedRequest(q)
    BY DEF GroundedRequest
  <2> QED
    BY <2>1, <2>2, <2>3, ReadKeepsCatalog, ReturnKeepsCatalog
<1> QED
  BY <1>1, <1>2, <1>3, <1>4, <1>5 DEF Edit

\* Publishing adds one entry of the skill, and the skill points there or where
\* it pointed.
LEMMA ReleaseAdds ==
    ASSUME IInv, NEW r \in Request, CommitRelease(r),
           ~VersionTaken(reqs[r].skill, reqs[r].draft.content.version)
    PROVE  LET q == reqs[r] IN
           /\ q.skill \in Skill /\ q.row \in SkillRow /\ skills[q.skill] \in SkillRow
           /\ \E i \in ReleaseId \ Published :
                 /\ Published' = Published \cup {i}
                 /\ releases'[i] = NewRelease(q)
                 /\ releases'[i].skill = q.skill
                 /\ skills' = [skills EXCEPT ![q.skill] =
                                 IF q.activate THEN PointedSkill(@, q.row, i)
                                               ELSE PublishedSkill(@, q.row)]
           /\ Grows
           /\ \E n \in {Idle, [pc |-> "refresh"]} : Suspend(r, n)
           /\ managed' = managed
<1> DEFINE q == reqs[r]
<1>1. q \in RequestState /\ SoundRequest(q) /\ q.pc = "release"
  BY DEF CommitRelease, Resumes, IInv, TypeOK
<1>2. /\ q.skill \in Skill /\ q.row \in SkillRow
      /\ skills[q.skill] # None /\ SoundDraft(q.draft) /\ Publishable(q.draft)
  BY <1>1, RequestShape DEF SoundRequest, HoldsSkill, HoldsDraft
<1>3. skills[q.skill] \in SkillRow
  BY <1>2, StoredRows
<1>4. PICK i \in ReleaseId \ Published :
        /\ releases' = [releases EXCEPT ![i] = NewRelease(q)]
        /\ skills' = [skills EXCEPT ![q.skill] =
              IF q.activate THEN PointedSkill(@, q.row, i) ELSE PublishedSkill(@, q.row)]
        /\ managed' = managed
  BY DEF CommitRelease, registryVars
<1>5. NewRelease(q).skill = q.skill /\ NewRelease(q) # None
  BY <1>2, PublishableIsValid
<1>6. /\ Published' = Published \cup {i}
      /\ releases'[i] = NewRelease(q)
      /\ Grows
  BY <1>4, <1>5 DEF Published, Grows, IInv, TypeOK, StoreTypeOK
<1>7. \E n \in {Idle, [pc |-> "refresh"]} : Suspend(r, n)
  BY DEF CommitRelease, ThenRefresh, Return
<1> QED
  BY <1>2, <1>3, <1>4, <1>5, <1>6, <1>7

LEMMA CommitReleaseKeepsCatalog ==
    ASSUME IInv, CatalogInv, NEW r \in Request, CommitRelease(r)
    PROVE  CatalogInv'
<1> DEFINE q == reqs[r]
<1>1. CASE VersionTaken(q.skill, q.draft.content.version)
  BY <1>1, ReturnKeepsCatalog DEF CommitRelease, storeVars, registryVars
<1>2. CASE ~VersionTaken(q.skill, q.draft.content.version)
  <2>1. /\ q.skill \in Skill /\ q.row \in SkillRow /\ skills[q.skill] \in SkillRow
        /\ Grows /\ managed' = managed
    BY <1>2, ReleaseAdds
  <2>2. PICK i \in ReleaseId \ Published :
          /\ Published' = Published \cup {i}
          /\ releases'[i].skill = q.skill
          /\ skills' = [skills EXCEPT ![q.skill] =
                          IF q.activate THEN PointedSkill(@, q.row, i)
                                        ELSE PublishedSkill(@, q.row)]
    BY <1>2, ReleaseAdds
  <2>3. PICK n \in {Idle, [pc |-> "refresh"]} : Suspend(r, n)
    BY <1>2, ReleaseAdds
  <2>4. PICK k \in Skill : k = q.skill
    BY <2>1
  <2>5. /\ Own(k)' = Own(k) \cup {i}
        /\ \A s \in Skill \ {k} : Own(s)' = Own(s) /\ skills'[s] = skills[s]
    <3>1. \A s \in Skill \ {k} : skills'[s] = skills[s]
      BY <2>2, <2>4 DEF IInv, TypeOK, StoreTypeOK
    <3>2. \A j \in Published' : j = i \/ (j \in Published /\ releases'[j] = releases[j])
      BY <2>1, <2>2 DEF Grows
    <3> QED
      BY <2>1, <2>2, <2>4, <3>1, <3>2 DEF Own, Grows
  <2>6. Agrees(skills[k], Own(k))
    BY <2>1, <2>4, LifecycleByRow, NullAssumption DEF CatalogInv, NullAssumption
  <2>7. Agrees(skills'[k], Own(k)')
    <3>1. q.row.status = "published" => Own(k) # {}
      BY <2>4 DEF CatalogInv, GroundedRequest, CommitRelease, Resumes
    <3>2. skills'[k] = IF q.activate THEN PointedSkill(skills[k], q.row, i)
                                     ELSE PublishedSkill(skills[k], q.row)
      BY <2>2, <2>4 DEF IInv, TypeOK, StoreTypeOK
    <3>3. /\ skills'[k].status = Written("published", q.row.status, skills[k].status)
          /\ \/ skills'[k].active = Written(i, q.row.active, skills[k].active)
             \/ skills'[k].active = skills[k].active
      BY <2>1, <2>4, <3>2, WrittenColumns
    <3>4. skills'[k].active # None => skills'[k].active \in Own(k)'
      BY <2>5, <2>6, <3>3 DEF Agrees, Written
    <3>5. skills'[k].status # "draft"
      BY <2>6, <3>1, <3>3 DEF Agrees, Written
    <3> QED
      BY <2>5, <3>4, <3>5 DEF Agrees
  <2>8. \A s \in Skill : skills'[s] # None => Agrees(skills'[s], Own(s)')
    <3> SUFFICES ASSUME NEW s \in Skill, skills'[s] # None PROVE Agrees(skills'[s], Own(s)')
      OBVIOUS
    <3>1. CASE s = k
      BY <2>7, <3>1
    <3>2. CASE s # k
      BY <2>5, <3>2, LifecycleByRow DEF CatalogInv
    <3> QED
      BY <3>1, <3>2
  <2> QED
    BY <2>1, <2>3, <2>8, CommitKeepsCatalog
<1> QED
  BY <1>1, <1>2

\* A commit that changes one skill's row and keeps its pointer or moves it to
\* a release of the skill, and leaves the releases alone.
LEMMA RowCommitKeepsCatalog ==
    ASSUME IInv, CatalogInv, NEW r \in Request, ThenRefresh(r), UNCHANGED <<releases, managed>>,
           NEW k \in Skill, NEW row, skills' = [skills EXCEPT ![k] = row],
           Agrees(row, Own(k))
    PROVE  CatalogInv'
<1>1. Grows /\ \A s : Own(s)' = Own(s)
  BY DEF Grows, Own, Published
<1>2. \A s \in Skill : skills'[s] # None => Agrees(skills'[s], Own(s)')
  <2> SUFFICES ASSUME NEW s \in Skill, skills'[s] # None PROVE Agrees(skills'[s], Own(s))
    BY <1>1
  <2>1. CASE s = k
    BY <2>1 DEF IInv, TypeOK, StoreTypeOK
  <2>2. CASE s # k
    BY <2>2, LifecycleByRow DEF CatalogInv, IInv, TypeOK, StoreTypeOK
  <2> QED
    BY <2>1, <2>2
<1> QED
  BY <1>1, <1>2, CommitKeepsCatalog DEF ThenRefresh

LEMMA CommitActivateKeepsCatalog ==
    ASSUME IInv, CatalogInv, NEW r \in Request, CommitActivate(r)
    PROVE  CatalogInv'
<1> DEFINE q == reqs[r]
           row == PointedSkill(skills[q.skill], q.row, q.release)
<1>1. q \in RequestState /\ SoundRequest(q) /\ GroundedRequest(q) /\ q.pc = "activate"
  BY DEF CommitActivate, Resumes, IInv, CatalogInv, TypeOK
<1>2. /\ q.skill \in Skill /\ q.row \in SkillRow /\ skills[q.skill] # None
      /\ q.release \in Own(q.skill)
      /\ q.row.status = "published" => Own(q.skill) # {}
  BY <1>1, RequestShape DEF SoundRequest, GroundedRequest, HoldsSkill
<1>3. skills[q.skill] \in SkillRow /\ Agrees(skills[q.skill], Own(q.skill))
  BY <1>2, StoredRows, LifecycleByRow DEF CatalogInv
<1>4. /\ row.status = Written("published", q.row.status, skills[q.skill].status)
      /\ row.active = Written(q.release, q.row.active, skills[q.skill].active)
  BY <1>2, <1>3, WrittenColumns
<1>5. skills' = [skills EXCEPT ![q.skill] = row]
  BY DEF CommitActivate
<1> HIDE DEF row
<1>6. Agrees(row, Own(q.skill))
  BY <1>2, <1>3, <1>4 DEF Agrees, Written
<1>7. ThenRefresh(r) /\ UNCHANGED <<releases, managed>>
  BY DEF CommitActivate, registryVars
<1> QED
  BY <1>2, <1>5, <1>6, <1>7, RowCommitKeepsCatalog

LEMMA CommitArchiveKeepsCatalog ==
    ASSUME IInv, CatalogInv, NEW r \in Request, CommitArchive(r)
    PROVE  CatalogInv'
<1> DEFINE q == reqs[r]
           row == ArchivedSkill(skills[q.skill], q.row)
<1>1. q \in RequestState /\ SoundRequest(q) /\ q.pc = "retire"
  BY DEF CommitArchive, Resumes, IInv, TypeOK
<1>2. q.skill \in Skill /\ q.row \in SkillRow /\ skills[q.skill] # None
  BY <1>1, RequestShape DEF SoundRequest, HoldsSkill
<1>3. skills[q.skill] \in SkillRow /\ Agrees(skills[q.skill], Own(q.skill))
  BY <1>2, StoredRows, LifecycleByRow DEF CatalogInv
<1>4. /\ row.status = Written("archived", q.row.status, skills[q.skill].status)
      /\ row.active = skills[q.skill].active
  BY <1>2, <1>3, WrittenColumns
<1>5. skills' = [skills EXCEPT ![q.skill] = row]
  BY DEF CommitArchive
<1> HIDE DEF row
<1>6. Agrees(row, Own(q.skill))
  BY <1>3, <1>4 DEF Agrees, Written
<1>7. ThenRefresh(r) /\ UNCHANGED <<releases, managed>>
  BY DEF CommitArchive, registryVars
<1> QED
  BY <1>2, <1>5, <1>6, <1>7, RowCommitKeepsCatalog

LEMMA ReleaseKeepsCatalog ==
    ASSUME IInv, CatalogInv, NEW r \in Request, Release(r)
    PROVE  CatalogInv'
<1>1. CASE \E s \in Skill, activate \in BOOLEAN : Publish(r, s, activate)
  <2>1. PICK q : Suspend(r, q) /\ UNCHANGED <<skills, releases, managed>> /\ q.pc = "publish"
    BY <1>1 DEF Publish, storeVars, registryVars
  <2>2. GroundedRequest(q)
    BY <2>1 DEF GroundedRequest
  <2> QED
    BY <2>1, <2>2, ReadKeepsCatalog
<1>2. CASE \E i \in ReleaseId : Activate(r, i)
  <2>1. PICK i \in ReleaseId : Activate(r, i)
    BY <1>2
  <2> DEFINE q == [pc |-> "activate", skill |-> releases[i].skill, release |-> i,
                   row |-> skills[releases[i].skill]]
  <2>2. Suspend(r, q) /\ UNCHANGED <<skills, releases, managed>> /\ i \in Published
    BY <2>1 DEF Activate, storeVars, registryVars
  <2>3. GroundedRequest(q)
    BY <2>2 DEF GroundedRequest, Own
  <2> QED
    BY <2>2, <2>3, ReadKeepsCatalog
<1>3. CASE \E s \in Skill : Archive(r, s)
  <2>1. PICK q : Suspend(r, q) /\ UNCHANGED <<skills, releases, managed>> /\ q.pc = "archive"
    BY <1>3 DEF Archive, storeVars, registryVars
  <2>2. GroundedRequest(q)
    BY <2>1 DEF GroundedRequest
  <2> QED
    BY <2>1, <2>2, ReadKeepsCatalog
<1>4. CASE LoadForRelease(r) \/ LoadForArchive(r)
  <2> DEFINE q == reqs[r]
  <2>1. q \in RequestState /\ SoundRequest(q) /\ q.pc \in {"publish", "archive"}
    BY <1>4 DEF LoadForRelease, LoadForArchive, Resumes, IInv, TypeOK
  <2>2. q.skill \in Skill /\ skills[q.skill] # None
    BY <2>1, RequestShape DEF SoundRequest, HoldsSkill
  <2>3. skills[q.skill].status = "published" => Own(q.skill) # {}
    BY <2>2, ReadRow
  <2>4. UNCHANGED <<skills, releases, managed>>
    BY <1>4 DEF LoadForRelease, LoadForArchive, storeVars, registryVars
  <2>5. \/ Return(r)
        \/ Suspend(r, [pc |-> "release", skill |-> q.skill, draft |-> q.draft,
                       activate |-> q.activate, row |-> skills[q.skill]])
        \/ Suspend(r, [pc |-> "retire", skill |-> q.skill, row |-> skills[q.skill]])
    BY <1>4 DEF LoadForRelease, LoadForArchive
  <2>6. /\ GroundedRequest([pc |-> "release", skill |-> q.skill, draft |-> q.draft,
                            activate |-> q.activate, row |-> skills[q.skill]])
        /\ GroundedRequest([pc |-> "retire", skill |-> q.skill, row |-> skills[q.skill]])
    BY <2>3 DEF GroundedRequest
  <2> QED
    BY <2>4, <2>5, <2>6, ReadKeepsCatalog, ReturnKeepsCatalog
<1> QED
  BY <1>1, <1>2, <1>3, <1>4, CommitReleaseKeepsCatalog, CommitActivateKeepsCatalog,
     CommitArchiveKeepsCatalog DEF Release

\* Switching a skill on or off leaves its lifecycle alone.
LEMMA SwitchedRows ==
    ASSUME IInv, NEW d, d \in Skill => skills[d] # None, NEW enabled
    PROVE  \A s \in Skill : SwitchedSkills(d, enabled)[s] # None =>
              /\ skills[s] # None
              /\ SwitchedSkills(d, enabled)[s].status = skills[s].status
              /\ SwitchedSkills(d, enabled)[s].active = skills[s].active
<1> SUFFICES ASSUME NEW s \in Skill, SwitchedSkills(d, enabled)[s] # None, skills[s] # None
             PROVE  /\ SwitchedSkills(d, enabled)[s].status = skills[s].status
                    /\ SwitchedSkills(d, enabled)[s].active = skills[s].active
  BY DEF SwitchedSkills
<1>1. skills[s] \in SkillRow
  BY StoredRows
<1> QED
  BY <1>1 DEF SwitchedSkills, SkillRow

LEMMA SwitchKeepsCatalog ==
    ASSUME IInv, CatalogInv, NEW r \in Request, Switch(r)
    PROVE  CatalogInv'
<1>1. CASE \E d \in Id, enabled \in BOOLEAN : SetEnabled(r, d, enabled)
  <2>1. PICK q : Suspend(r, q) /\ UNCHANGED <<skills, releases, managed>> /\ q.pc = "enable"
    BY <1>1 DEF SetEnabled, storeVars, registryVars
  <2>2. GroundedRequest(q)
    BY <2>1 DEF GroundedRequest
  <2> QED
    BY <2>1, <2>2, ReadKeepsCatalog
<1>2. CASE CommitEnabled(r) /\ Return(r) /\ UNCHANGED storeVars
  BY <1>2, ReturnKeepsCatalog DEF CommitEnabled, storeVars, registryVars
<1>3. CASE /\ CommitEnabled(r) /\ ThenRefresh(r) /\ UNCHANGED <<drafts, releases>>
           /\ skills' = SwitchedSkills(reqs[r].id, reqs[r].enabled)
  <2>1. Grows /\ \A s : Own(s)' = Own(s)
    BY <1>3 DEF Grows, Own, Published
  <2>2. \A s \in Skill : skills'[s] # None =>
           /\ skills[s] # None
           /\ skills'[s].status = skills[s].status
           /\ skills'[s].active = skills[s].active
    <3>1. reqs[r] \in RequestState /\ SoundRequest(reqs[r]) /\ reqs[r].pc = "enable"
      BY <1>3 DEF CommitEnabled, Resumes, IInv, TypeOK
    <3> QED
      BY <1>3, <3>1, SwitchedRows DEF SoundRequest
  <2>3. \A s \in Skill : skills'[s] # None => Agrees(skills'[s], Own(s)')
    BY <2>1, <2>2, LifecycleByRow DEF CatalogInv, Agrees
  <2>4. managed' = managed
    BY <1>3 DEF CommitEnabled, registryVars
  <2> QED
    BY <1>3, <2>1, <2>3, <2>4, CommitKeepsCatalog DEF ThenRefresh
<1> QED
  BY <1>1, <1>2, <1>3 DEF Switch, CommitEnabled

\* What the refresh reads from the store is a map of releases.
LEMMA ActiveReleasesAreReleases ==
    ASSUME CatalogInv
    PROVE  FromReleases(ActiveReleases)
<1> SUFFICES ASSUME NEW s \in Skill, Served(s)
             PROVE  \E i \in Own(s) :
                       /\ releases[i].version = releases[skills[s].active].version
                       /\ releases[i].content = releases[skills[s].active].content
  BY DEF FromReleases, ActiveReleases
<1>1. skills[s].active \in Own(s)
  <2>1. skills[s].active # None
    BY NullAssumption DEF Served, Published, NullAssumption
  <2> QED
    BY <2>1, LifecycleByRow DEF CatalogInv, Agrees, Served
<1> QED
  BY <1>1

LEMMA RefreshKeepsCatalog ==
    ASSUME IInv, CatalogInv, NEW r \in Request, Refresh(r)
    PROVE  CatalogInv'
<1>1. CASE ReadActive(r)
  <2> DEFINE q == [pc |-> "overrides", active |-> ActiveReleases]
  <2>1. GroundedRequest(q)
    BY ActiveReleasesAreReleases DEF GroundedRequest
  <2> QED
    BY <1>1, <2>1, ReadKeepsCatalog DEF ReadActive, storeVars, registryVars
<1>2. CASE ReadOverrides(r)
  <2> DEFINE q == [pc |-> "install", active |-> reqs[r].active, enabled |-> states]
  <2>1. FromReleases(reqs[r].active)
    BY <1>2 DEF CatalogInv, GroundedRequest, ReadOverrides, Resumes
  <2>2. GroundedRequest(q)
    BY <2>1 DEF GroundedRequest
  <2> QED
    BY <1>2, <2>2, ReadKeepsCatalog DEF ReadOverrides, storeVars, registryVars
<1>3. CASE Install(r)
  <2>1. GroundedRequest(Idle)
    BY DEF GroundedRequest, Idle
  <2> QED
    BY <1>3, <2>1, ReadKeepsCatalog DEF Install, Resumes, Return, storeVars
<1>4. CASE RefreshFails(r)
  BY <1>4, ReturnKeepsCatalog DEF RefreshFails, storeVars
<1> QED
  BY <1>1, <1>2, <1>3, <1>4 DEF Refresh

LEMMA RestartKeepsCatalog ==
    ASSUME IInv, CatalogInv, Restart
    PROVE  CatalogInv'
<1>1. UNCHANGED <<skills, releases>>
  BY DEF Restart, storeVars
<1>2. LifecycleConsistent'
  BY <1>1 DEF CatalogInv, LifecycleConsistent, Published
<1>3. FromReleases(managed)'
  <2>1. FromReleases(managed')
    BY ActiveReleasesAreReleases DEF Restart
  <2> QED
    BY <1>1, <2>1 DEF FromReleases, Own, Published
<1>4. \A r \in Request : GroundedRequest(reqs[r])'
  BY DEF Restart, GroundedRequest, Idle
<1> QED
  BY <1>2, <1>3, <1>4 DEF CatalogInv

LEMMA CatalogNext == IInv /\ CatalogInv /\ [Next]_vars => CatalogInv'
<1> SUFFICES ASSUME IInv, CatalogInv, [Next]_vars PROVE CatalogInv'
  OBVIOUS
<1>1. CASE UNCHANGED vars
  BY <1>1 DEF vars, storeVars, registryVars, CatalogInv, LifecycleConsistent, FromReleases,
              GroundedRequest, Own, Published
<1> QED
  BY <1>1, EditKeepsCatalog, ReleaseKeepsCatalog, SwitchKeepsCatalog, RefreshKeepsCatalog,
     RestartKeepsCatalog DEF Next

LEMMA CatalogInvariance == Spec => []CatalogInv
  BY InitCatalog, CatalogNext, Invariance, PTL DEF Spec

-----------------------------------------------------------------------------
(* The store implements ReleaseCatalog. *)

\* The release a skill points at, if any.
Pointer(row) == IF row # None /\ row.active # None THEN row.active ELSE None

LEMMA EntriesStay ==
    ASSUME Grows
    PROVE  \A i \in Published : EntryOf(i)' = EntryOf(i)
  BY DEF Grows, EntryOf

\* A skill whose pointer a step leaves alone has the same current entry.
LEMMA CurrentStays ==
    ASSUME CatalogInv, Grows, NEW s \in Skill, Pointer(skills'[s]) = Pointer(skills[s])
    PROVE  CurrentEntries'[s] = CurrentEntries[s]
<1>1. CASE skills[s] # None /\ skills[s].active # None
  <2>1. skills[s].active \in Published
    BY <1>1 DEF CatalogInv, LifecycleConsistent
  <2>2. skills'[s] # None /\ skills'[s].active # None /\ skills'[s].active = skills[s].active
    BY <1>1 DEF Pointer
  <2> QED
    BY <1>1, <2>1, <2>2 DEF CurrentEntries, EntryOf, Grows
<1>2. CASE ~(skills[s] # None /\ skills[s].active # None)
  <2>1. CASE skills'[s] # None /\ skills'[s].active # None
    BY <1>2, <2>1 DEF Pointer
  <2>2. CASE ~(skills'[s] # None /\ skills'[s].active # None)
    BY <1>2, <2>2 DEF CurrentEntries
  <2> QED
    BY <2>1, <2>2
<1> QED
  BY <1>1, <1>2

LEMMA CurrentIsAFunction ==
    /\ CurrentEntries = [s \in Skill |-> CurrentEntries[s]]
    /\ CurrentEntries' = [s \in Skill |-> CurrentEntries'[s]]
  BY DEF CurrentEntries

\* A step that adds no release and moves no pointer changes no entry.
LEMMA CatalogStays ==
    ASSUME CatalogInv, UNCHANGED releases,
           \A s \in Skill : Pointer(skills'[s]) = Pointer(skills[s])
    PROVE  UNCHANGED Catalog!vars
<1>1. Grows
  BY DEF Grows, Published
<1>2. PublishedEntries' = PublishedEntries
  BY DEF PublishedEntries, Published, EntryOf
<1>3. CurrentEntries' = CurrentEntries
  BY <1>1, CurrentStays, CurrentIsAFunction
<1> QED
  BY <1>2, <1>3 DEF Catalog!vars

LEMMA EntryType ==
    ASSUME IInv, NEW i \in Published
    PROVE  /\ EntryOf(i) \in Catalog!Entry
           /\ EntryOf(i).skill = releases[i].skill
           /\ EntryOf(i).version = releases[i].version
           /\ EntryOf(i).content = releases[i].content
<1>1. releases[i] \in ReleaseRow
  BY StoredRows
<1> QED
  BY <1>1 DEF EntryOf, Catalog!Entry, ReleaseRow

\* A pointer that moved to release i is the entry of that release.
LEMMA CurrentMoves ==
    ASSUME CatalogInv, Grows, NEW k \in Skill, NEW i \in ReleaseId,
           \A s \in Skill \ {k} : Pointer(skills'[s]) = Pointer(skills[s]),
           Pointer(skills'[k]) \in {i, Pointer(skills[k])}
    PROVE  CurrentEntries' \in {CurrentEntries, [CurrentEntries EXCEPT ![k] = EntryOf(i)']}
<1>1. \A s \in Skill \ {k} : CurrentEntries'[s] = CurrentEntries[s]
  BY CurrentStays
<1>2. CASE Pointer(skills'[k]) = Pointer(skills[k])
  <2>1. CurrentEntries'[k] = CurrentEntries[k]
    BY <1>2, CurrentStays
  <2> QED
    BY <1>1, <2>1, CurrentIsAFunction
<1>3. CASE Pointer(skills'[k]) = i
  <2>1. skills'[k] # None /\ skills'[k].active # None /\ skills'[k].active = i
    BY <1>3, NullAssumption DEF Pointer, NullAssumption
  <2>2. CurrentEntries'[k] = EntryOf(i)'
    BY <2>1 DEF CurrentEntries, EntryOf
  <2> QED
    BY <1>1, <2>2, CurrentIsAFunction
<1> QED
  BY <1>2, <1>3

LEMMA InitRefines == Init => Catalog!Init
  BY DEF Init, StoreInit, Catalog!Init, PublishedEntries, CurrentEntries, Published

LEMMA CommitReleaseRefines ==
    ASSUME IInv, IInv', CatalogInv, NEW r \in Request, CommitRelease(r)
    PROVE  Catalog!Next \/ UNCHANGED Catalog!vars
<1> DEFINE q == reqs[r]
<1>1. CASE VersionTaken(q.skill, q.draft.content.version)
  <2>1. UNCHANGED <<releases, skills>>
    BY <1>1 DEF CommitRelease, storeVars
  <2> QED
    BY <2>1, CatalogStays
<1>2. CASE ~VersionTaken(q.skill, q.draft.content.version)
  <2>1. /\ q.skill \in Skill /\ q.row \in SkillRow /\ skills[q.skill] \in SkillRow
        /\ Grows
    BY <1>2, ReleaseAdds
  <2>2. PICK i \in ReleaseId \ Published :
          /\ Published' = Published \cup {i}
          /\ releases'[i] = NewRelease(q)
          /\ releases'[i].skill = q.skill
          /\ skills' = [skills EXCEPT ![q.skill] =
                          IF q.activate THEN PointedSkill(@, q.row, i)
                                        ELSE PublishedSkill(@, q.row)]
    BY <1>2, ReleaseAdds
  <2>3. PICK k \in Skill : k = q.skill
    BY <2>1
  <2>4. PICK e : e = EntryOf(i)'
    OBVIOUS
  <2>5. /\ e \in Catalog!Entry
        /\ e.skill = k
        /\ e.version = q.draft.content.version
        /\ e.content = releases'[i].content
    <3>1. releases'[i] \in ReleaseRow
      BY <2>2 DEF IInv, TypeOK, StoreTypeOK, Published
    <3>2. e = [skill |-> releases'[i].skill, version |-> releases'[i].version,
               content |-> releases'[i].content]
      BY <2>4 DEF EntryOf
    <3>3. releases'[i].version = q.draft.content.version
      BY <2>2 DEF NewRelease
    <3> QED
      BY <2>2, <2>3, <3>1, <3>2, <3>3 DEF Catalog!Entry, ReleaseRow
  <2>6. e.content \in {c \in Package : c.body \in ValidBody}
    <3>1. releases'[i].content.body \in ValidBody
      BY <2>2 DEF IInv, ReleasesValidated
    <3> QED
      BY <2>5, <3>1 DEF Catalog!Entry
  <2>7. \A f \in PublishedEntries : f.skill = e.skill => f.version # e.version
    <3> SUFFICES ASSUME NEW j \in Published, EntryOf(j).skill = e.skill
                 PROVE  EntryOf(j).version # e.version
      BY DEF PublishedEntries
    <3> QED
      BY <1>2, <2>3, <2>5, EntryType DEF VersionTaken
  <2>8. PublishedEntries' = PublishedEntries \cup {e}
    <3>1. \A j \in Published : EntryOf(j)' = EntryOf(j)
      BY <2>1, EntriesStay
    <3> QED
      BY <2>2, <2>4, <3>1 DEF PublishedEntries
  <2>9. CurrentEntries' \in {CurrentEntries, [CurrentEntries EXCEPT ![e.skill] = e]}
    <3>1. \A s \in Skill \ {k} : skills'[s] = skills[s]
      BY <2>2, <2>3 DEF IInv, TypeOK, StoreTypeOK
    <3>2. skills'[k] = IF q.activate THEN PointedSkill(skills[k], q.row, i)
                                     ELSE PublishedSkill(skills[k], q.row)
      BY <2>2, <2>3 DEF IInv, TypeOK, StoreTypeOK
    <3>3. \/ skills'[k].active = Written(i, q.row.active, skills[k].active)
          \/ skills'[k].active = skills[k].active
      BY <2>1, <2>3, <3>2, WrittenColumns
    <3>4. skills'[k] # None /\ skills[k] # None /\ i # None
      <4>1. skills'[k] \in SkillRow
        BY <2>1, <2>3, <3>2, SkillRowOperators
      <4> QED
        BY <2>1, <2>3, <4>1, NullAssumption DEF NullAssumption
    <3>5. Pointer(skills'[k]) \in {i, Pointer(skills[k])}
      BY <3>3, <3>4 DEF Pointer, Written
    <3>6. \A s \in Skill \ {k} : Pointer(skills'[s]) = Pointer(skills[s])
      BY <3>1
    <3> QED
      BY <2>1, <2>4, <2>5, <3>5, <3>6, CurrentMoves
  <2>10. Catalog!Publish(e)
    BY <2>6, <2>7, <2>8, <2>9 DEF Catalog!Publish
  <2> QED
    BY <2>5, <2>10 DEF Catalog!Next
<1> QED
  BY <1>1, <1>2

LEMMA CommitActivateRefines ==
    ASSUME IInv, CatalogInv, NEW r \in Request, CommitActivate(r)
    PROVE  Catalog!Next \/ UNCHANGED Catalog!vars
<1> DEFINE q == reqs[r]
<1>1. q \in RequestState /\ SoundRequest(q) /\ GroundedRequest(q) /\ q.pc = "activate"
  BY DEF CommitActivate, Resumes, IInv, CatalogInv, TypeOK
<1>2. /\ q.skill \in Skill /\ q.row \in SkillRow /\ skills[q.skill] # None
      /\ q.release \in Own(q.skill)
  BY <1>1, RequestShape DEF SoundRequest, GroundedRequest, HoldsSkill
<1>3. PICK k \in Skill, i \in ReleaseId : k = q.skill /\ i = q.release /\ i \in Own(k)
  BY <1>2 DEF Own, Published
<1>4. i \in Published /\ releases[i].skill = k
  BY <1>3 DEF Own
<1>5. UNCHANGED releases /\ Grows
  BY DEF CommitActivate, Grows, Published
<1>6. \A s \in Skill \ {k} : skills'[s] = skills[s]
  BY <1>3 DEF CommitActivate, IInv, TypeOK, StoreTypeOK
<1>7. skills'[k] = PointedSkill(skills[k], q.row, i)
  BY <1>3 DEF CommitActivate, IInv, TypeOK, StoreTypeOK
<1>8. skills[k] \in SkillRow /\ skills'[k] \in SkillRow
  <2>1. skills[k] \in SkillRow
    BY <1>2, <1>3, StoredRows
  <2> QED
    BY <1>2, <1>7, <2>1, SkillRowOperators
<1>9. skills'[k].active = Written(i, q.row.active, skills[k].active)
  BY <1>2, <1>7, <1>8, WrittenColumns
<1>10. Pointer(skills'[k]) \in {i, Pointer(skills[k])}
  BY <1>4, <1>8, <1>9, NullAssumption DEF Pointer, Written, NullAssumption
<1>11. \A s \in Skill \ {k} : Pointer(skills'[s]) = Pointer(skills[s])
  BY <1>6
<1>12. CurrentEntries' \in {CurrentEntries, [CurrentEntries EXCEPT ![k] = EntryOf(i)']}
  BY <1>4, <1>5, <1>10, <1>11, CurrentMoves
<1>13. EntryOf(i)' = EntryOf(i) /\ PublishedEntries' = PublishedEntries
  BY <1>5 DEF EntryOf, PublishedEntries, Published
<1>14. /\ EntryOf(i) \in Catalog!Entry /\ EntryOf(i) \in PublishedEntries
       /\ EntryOf(i).skill = k
  BY <1>4, EntryType DEF PublishedEntries
<1>15. CASE CurrentEntries' = CurrentEntries
  BY <1>13, <1>15 DEF Catalog!vars
<1>16. CASE CurrentEntries' = [CurrentEntries EXCEPT ![k] = EntryOf(i)']
  <2>1. Catalog!Activate(EntryOf(i))
    BY <1>13, <1>14, <1>16 DEF Catalog!Activate
  <2> QED
    BY <1>14, <2>1 DEF Catalog!Next
<1> QED
  BY <1>12, <1>15, <1>16

\* Every other step leaves releases and pointers alone.
LEMMA OtherStepsStutter ==
    ASSUME IInv, [Next]_vars,
           \A r \in Request : ~CommitRelease(r) /\ ~CommitActivate(r)
    PROVE  /\ UNCHANGED releases
           /\ \A s \in Skill : Pointer(skills'[s]) = Pointer(skills[s])
<1>1. CASE UNCHANGED <<skills, releases>>
  BY <1>1
<1>2. ASSUME NEW r \in Request, CommitCreate(r)
      PROVE  /\ UNCHANGED releases
             /\ \A s \in Skill : Pointer(skills'[s]) = Pointer(skills[s])
  <2>1. UNCHANGED releases
    BY <1>2 DEF CommitCreate
  <2>2. reqs[r].skill \in Skill
    BY <1>2, RequestShape DEF CommitCreate, Resumes, IInv, TypeOK
  <2>3. Pointer(NewSkill) = Pointer(None)
    BY DEF Pointer, NewSkill
  <2> QED
    BY <1>2, <2>1, <2>2, <2>3 DEF CommitCreate, IInv, TypeOK, StoreTypeOK
<1>3. ASSUME NEW r \in Request, CommitArchive(r)
      PROVE  /\ UNCHANGED releases
             /\ \A s \in Skill : Pointer(skills'[s]) = Pointer(skills[s])
  <2> DEFINE q == reqs[r]
  <2>1. q \in RequestState /\ SoundRequest(q) /\ q.pc = "retire"
    BY <1>3 DEF CommitArchive, Resumes, IInv, TypeOK
  <2>2. q.skill \in Skill /\ q.row \in SkillRow /\ skills[q.skill] # None
    BY <2>1, RequestShape DEF SoundRequest, HoldsSkill
  <2>3. skills[q.skill] \in SkillRow
    BY <2>2, StoredRows
  <2> DEFINE row == ArchivedSkill(skills[q.skill], q.row)
  <2>4. row.active = skills[q.skill].active
    BY <2>2, <2>3, WrittenColumns
  <2>5. row # None
    <3>1. row \in SkillRow
      BY <2>2, <2>3 DEF ArchivedSkill, Written, SkillRow
    <3> QED
      BY <3>1, NullAssumption DEF NullAssumption
  <2>6. UNCHANGED releases /\ skills' = [skills EXCEPT ![q.skill] = row]
    BY <1>3 DEF CommitArchive
  <2> HIDE DEF row
  <2> QED
    BY <2>2, <2>4, <2>5, <2>6 DEF Pointer, IInv, TypeOK, StoreTypeOK
<1>4. ASSUME NEW r \in Request, CommitEnabled(r)
      PROVE  /\ UNCHANGED releases
             /\ \A s \in Skill : Pointer(skills'[s]) = Pointer(skills[s])
  <2>1. UNCHANGED releases
    BY <1>4 DEF CommitEnabled, storeVars
  <2>2. CASE UNCHANGED skills
    BY <2>1, <2>2
  <2>3. CASE skills' = SwitchedSkills(reqs[r].id, reqs[r].enabled)
    <3>1. reqs[r] \in RequestState /\ SoundRequest(reqs[r]) /\ reqs[r].pc = "enable"
      BY <1>4 DEF CommitEnabled, Resumes, IInv, TypeOK
    <3>2. \A s \in Skill : skills'[s] # None =>
             skills[s] # None /\ skills'[s].active = skills[s].active
      BY <2>3, <3>1, SwitchedRows DEF SoundRequest
    <3>3. \A s \in Skill : skills'[s] = None => skills[s] = None
      <4> SUFFICES ASSUME NEW s \in Skill, skills[s] # None PROVE skills'[s] # None
        OBVIOUS
      <4>1. skills[s] \in SkillRow
        BY StoredRows
      <4>2. reqs[r].enabled \in BOOLEAN
        BY <3>1, RequestShape
      <4>3. skills'[s] \in SkillRow
        BY <2>3, <4>1, <4>2 DEF SwitchedSkills, SkillRow
      <4> QED
        BY <4>3, NullAssumption DEF NullAssumption
    <3> QED
      BY <2>1, <3>2, <3>3 DEF Pointer
  <2> QED
    BY <1>4, <2>1, <2>2, <2>3 DEF CommitEnabled, storeVars
<1>5. CASE Restart \/ UNCHANGED vars
  BY <1>1, <1>5 DEF Restart, vars, storeVars
<1>6. ASSUME NEW r \in Request, Edit(r), ~CommitCreate(r) PROVE UNCHANGED <<skills, releases>>
  BY <1>6 DEF Edit, Create, Clone, ValidateDraft, SaveDraft, CommitSave, LoadForReport,
              CommitReport, storeVars
<1>7. ASSUME NEW r \in Request, Release(r), ~CommitArchive(r) PROVE UNCHANGED <<skills, releases>>
  BY <1>7 DEF Release, Publish, Activate, Archive, LoadForRelease, LoadForArchive, storeVars
<1>8. ASSUME NEW r \in Request, Switch(r), ~CommitEnabled(r) PROVE UNCHANGED <<skills, releases>>
  BY <1>8 DEF Switch, SetEnabled, storeVars
<1>9. ASSUME NEW r \in Request, Refresh(r) PROVE UNCHANGED <<skills, releases>>
  BY <1>9 DEF Refresh, ReadActive, ReadOverrides, Install, RefreshFails, storeVars
<1> QED
  BY <1>1, <1>2, <1>3, <1>4, <1>5, <1>6, <1>7, <1>8, <1>9 DEF Next

LEMMA StepRefines == IInv /\ IInv' /\ CatalogInv /\ [Next]_vars => [Catalog!Next]_(Catalog!vars)
  BY CommitReleaseRefines, CommitActivateRefines, OtherStepsStutter, CatalogStays

-----------------------------------------------------------------------------
(* The theorems. *)

\* Whatever requests overlap, a skill's active pointer names a release of that
\* skill and its lifecycle status agrees with its releases (repository.publish,
\* activate_release and archive, each writing over a row it read earlier).
THEOREM LifecycleHolds == Spec => []LifecycleConsistent
<1>1. CatalogInv => LifecycleConsistent
  BY DEF CatalogInv
<1> QED
  BY <1>1, CatalogInvariance, PTL

\* Whatever requests overlap, the registry holds only released packages: never
\* a draft, never a mixture of two releases (service.refresh_registry).
THEOREM OnlyReleasesAreServed == Spec => []RuntimeServesReleases
<1>1. CatalogInv => RuntimeServesReleases
  BY DEF CatalogInv, FromReleases, RuntimeServesReleases, Own
<1> QED
  BY <1>1, CatalogInvariance, PTL

\* The store implements the abstract release catalog: releases are immutable,
\* a version is released once, pointers move only to a skill's own entries.
THEOREM StoreImplementsCatalog == Spec => ImplementsCatalog
<1>1. IInv /\ IInv' /\ CatalogInv /\ [Next]_vars => [Catalog!Next]_(Catalog!vars)
  BY StepRefines
<1> QED
  BY <1>1, Invariance, CatalogInvariance, InitRefines, PTL DEF Spec, ImplementsCatalog, Catalog!Spec

=============================================================================
