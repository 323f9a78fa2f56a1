------------------------- MODULE SkillSerialProofs -------------------------
(***************************************************************************)
(* What SkillService promises a single administrator, for every number of  *)
(* skills and packages: with one request in flight at a time the registry  *)
(* is what the store says, both enabled flags agree, a stored validation   *)
(* belongs to the stored content and every edit is a new revision.  TLC    *)
(* shows that overlapping requests break each of them, so OneAtATime is a  *)
(* hypothesis of the theorems; the registry needs NothingArchived as well, *)
(* because publishing over an archived skill revives it unannounced.       *)
(***************************************************************************)
EXTENDS SkillCatalogProofs

OneAtATime == \A r, o \in Request : r = o
NothingArchived == "archive" \notin Ops

\* What the only request in flight read is what the store still holds.
CurrentRequest(q) ==
    /\ q.pc \in {"save", "report"} => q.loaded = drafts[q.skill]
    /\ q.pc \in {"validate", "report"} => q.draft = drafts[q.skill]
    /\ q.pc \in {"release", "activate", "retire"} => q.row = skills[q.skill]
    /\ q.pc = "enable" => q.loaded = states[q.id]

SerialInv ==
    /\ \A r \in Request : CurrentRequest(reqs[r])
    /\ \A s \in Skill : states[s] # None => skills[s] # None
    /\ EnabledFlagsAgree
    /\ ValidationIsCurrent

\* The registry lags behind the store only while a refresh is under way, or
\* after one that failed.
Refreshing == {"refresh", "overrides", "install"}
Settled == behind \/ (managed = ActiveReleases /\ overrides = states)

RefreshedRequest(q) ==
    /\ q.pc \notin {"archive", "retire"}
    /\ q.pc \in {"overrides", "install"} => q.active = ActiveReleases
    /\ q.pc = "install" => q.enabled = states

RegistryInv ==
    /\ \A s \in Skill : skills[s] # None => skills[s].status # "archived"
    /\ \A r \in Request : RefreshedRequest(reqs[r])
    /\ (\A r \in Request : reqs[r].pc \notin Refreshing) => Settled

-----------------------------------------------------------------------------
(* The drafts, the flags and the request in flight. *)

LEMMA OnlyRequest ==
    ASSUME OneAtATime, IInv, NEW r \in Request, NEW q, Suspend(r, q)
    PROVE  \A t \in Request : reqs'[t] = q
  BY DEF OneAtATime, Suspend, IInv, TypeOK

\* A step that reads, or that changes nothing but the registry.
LEMMA ReadStaysSerial ==
    ASSUME OneAtATime, IInv, SerialInv, NEW r \in Request,
           NEW q, CurrentRequest(q), Suspend(r, q), UNCHANGED storeVars
    PROVE  SerialInv'
<1> USE DEF storeVars
<1>1. \A t \in Request : CurrentRequest(reqs[t])'
  BY OnlyRequest DEF CurrentRequest
<1>2. EnabledFlagsAgree' /\ \A s \in Skill : (states[s] # None => skills[s] # None)'
  BY DEF SerialInv, EnabledFlagsAgree
<1>3. ValidationIsCurrent'
  BY DEF SerialInv, ValidationIsCurrent
<1> QED
  BY <1>1, <1>2, <1>3 DEF SerialInv

\* A commit leaves the request with nothing it has read.
LEMMA CommitStaysSerial ==
    ASSUME OneAtATime, IInv, SerialInv, NEW r \in Request,
           Return(r) \/ ThenRefresh(r),
           EnabledFlagsAgree', ValidationIsCurrent',
           \A s \in Skill : states'[s] # None => skills'[s] # None
    PROVE  SerialInv'
<1>1. \A t \in Request : reqs'[t].pc \in {"idle", "refresh"}
  <2>1. CASE Return(r)
    BY <2>1, OnlyRequest DEF Return, Idle
  <2>2. CASE ThenRefresh(r)
    BY <2>2, OnlyRequest DEF ThenRefresh
  <2> QED
    BY <2>1, <2>2
<1>2. \A t \in Request : CurrentRequest(reqs[t])'
  BY <1>1 DEF CurrentRequest
<1> QED
  BY <1>2 DEF SerialInv

LEMMA InitSerial == Init => SerialInv
<1> SUFFICES ASSUME Init PROVE SerialInv
  OBVIOUS
<1>1. \A r \in Request : CurrentRequest(reqs[r])
  BY DEF Init, Idle, CurrentRequest
<1> QED
  BY <1>1 DEF Init, StoreInit, SerialInv, EnabledFlagsAgree, ValidationIsCurrent, Id

LEMMA IdleIsCurrent == CurrentRequest(Idle) /\ CurrentRequest([pc |-> "refresh"])
  BY DEF CurrentRequest, Idle

\* The steps of creating, saving and validating a draft.
LEMMA EditStaysSerial ==
    ASSUME OneAtATime, IInv, SerialInv, NEW r \in Request, Edit(r)
    PROVE  SerialInv'
<1> DEFINE q == reqs[r]
<1>1. q \in RequestState /\ SoundRequest(q) /\ CurrentRequest(q)
  BY DEF IInv, TypeOK, SerialInv
<1>2. ASSUME NEW s \in Skill, Create(r, s) PROVE SerialInv'
  BY <1>2, ReadStaysSerial DEF Create, CurrentRequest
<1>3. ASSUME NEW s \in Skill, Clone(r, s) PROVE SerialInv'
  <2>1. PICK c : Suspend(r, [pc |-> "create", skill |-> s, content |-> CloneOf(c)])
    BY <1>3 DEF Clone
  <2> QED
    BY <1>3, <2>1, ReadStaysSerial DEF Clone, CurrentRequest
<1>4. ASSUME NEW s \in Skill, ValidateDraft(r, s) PROVE SerialInv'
  BY <1>4, ReadStaysSerial DEF ValidateDraft, CurrentRequest
<1>5. ASSUME NEW s \in Skill, NEW c \in Package, SaveDraft(r, s, c) PROVE SerialInv'
  BY <1>5, ReadStaysSerial DEF SaveDraft, CurrentRequest
<1>6. CASE CommitCreate(r)
  <2>1. q.skill \in Skill
    BY <1>1, <1>6, RequestShape DEF CommitCreate, Resumes
  <2>2. CASE skills[q.skill] = None
    <3>1. /\ skills' = [skills EXCEPT ![q.skill] = NewSkill]
          /\ drafts' = [drafts EXCEPT ![q.skill] = NewDraft(q.content)]
          /\ states' = states
      BY <1>6, <2>2 DEF CommitCreate
    <3>2. \A s \in Skill : skills'[s] = skills[s] \/ (skills[s] = None /\ skills'[s] = NewSkill)
      BY <2>1, <2>2, <3>1 DEF IInv, TypeOK, StoreTypeOK
    <3>3. NewSkill # None
      <4>1. NewSkill \in SkillRow
        BY DEF NewSkill, SkillRow
      <4> QED
        BY <4>1, NullAssumption DEF NullAssumption
    <3>4. EnabledFlagsAgree' /\ \A s \in Skill : states'[s] # None => skills'[s] # None
      BY <3>1, <3>2, <3>3 DEF SerialInv, EnabledFlagsAgree
    <3>5. NewDraft(q.content).validated = None
      BY DEF NewDraft
    <3>6. ValidationIsCurrent'
      BY <2>1, <3>1, <3>5 DEF SerialInv, ValidationIsCurrent, IInv, TypeOK, StoreTypeOK
    <3> QED
      BY <1>6, <3>4, <3>6, CommitStaysSerial DEF CommitCreate
  <2>3. CASE skills[q.skill] # None
    BY <1>6, <2>3, ReadStaysSerial, IdleIsCurrent DEF CommitCreate, Return, storeVars
  <2> QED
    BY <2>2, <2>3
<1>7. ASSUME NEW d, d.validated # None => d.validated = d.hash, NEW s \in Skill,
             drafts' = [drafts EXCEPT ![s] = d],
             UNCHANGED <<skills, releases, states>>, Return(r)
      PROVE  SerialInv'
  <2>1. ValidationIsCurrent'
    BY <1>7 DEF SerialInv, ValidationIsCurrent, IInv, TypeOK, StoreTypeOK
  <2>2. EnabledFlagsAgree' /\ \A t \in Skill : states'[t] # None => skills'[t] # None
    BY <1>7 DEF SerialInv, EnabledFlagsAgree
  <2> QED
    BY <1>7, <2>1, <2>2, CommitStaysSerial
<1>8. CASE CommitSave(r)
  <2>1. q.skill \in Skill /\ q.loaded = drafts[q.skill]
    BY <1>1, <1>8, RequestShape DEF CommitSave, Resumes, CurrentRequest, HoldsSkill
  <2> DEFINE d == SavedDraft(drafts[q.skill], q.loaded, q.content)
  <2>2. d.validated = None
    BY <2>1 DEF SavedDraft, Written
  <2>3. drafts' = [drafts EXCEPT ![q.skill] = d]
    BY <1>8 DEF CommitSave
  <2> HIDE DEF d
  <2> QED
    BY <1>7, <1>8, <2>1, <2>2, <2>3 DEF CommitSave
<1>9. CASE LoadForReport(r)
  BY <1>1, <1>9, ReadStaysSerial, IdleIsCurrent
     DEF LoadForReport, Resumes, CurrentRequest, Return
<1>10. CASE CommitReport(r)
  <2>1. /\ q.skill \in Skill /\ q.loaded = drafts[q.skill] /\ q.draft = drafts[q.skill]
        /\ q.loaded \in DraftRow
    BY <1>1, <1>10, RequestShape DEF CommitReport, Resumes, CurrentRequest, HoldsSkill
  <2> DEFINE d == ValidatedDraft(drafts[q.skill], q.loaded, q.draft)
  <2>2. d.validated = d.hash
    BY <2>1 DEF ValidatedDraft, Written, DraftRow
  <2>3. drafts' = [drafts EXCEPT ![q.skill] = d]
    BY <1>10 DEF CommitReport
  <2> HIDE DEF d
  <2> QED
    BY <1>7, <1>10, <2>1, <2>2, <2>3 DEF CommitReport
<1> QED
  BY <1>2, <1>3, <1>4, <1>5, <1>6, <1>8, <1>9, <1>10 DEF Edit

\* A step that commits one skill row and keeps its enabled flag.
LEMMA RowCommitStaysSerial ==
    ASSUME OneAtATime, IInv, SerialInv, NEW r \in Request,
           NEW s \in Skill, skills[s] # None, NEW row \in SkillRow,
           row.enabled = skills[s].enabled,
           skills' = [skills EXCEPT ![s] = row],
           UNCHANGED <<drafts, states>>, Return(r) \/ ThenRefresh(r)
    PROVE  SerialInv'
<1>1. row # None
  BY NullAssumption DEF NullAssumption
<1>2. EnabledFlagsAgree' /\ \A t \in Skill : states'[t] # None => skills'[t] # None
  BY <1>1 DEF SerialInv, EnabledFlagsAgree, IInv, TypeOK, StoreTypeOK
<1>3. ValidationIsCurrent'
  BY DEF SerialInv, ValidationIsCurrent
<1> QED
  BY <1>2, <1>3, CommitStaysSerial

\* The enabled flag in a committed row.
LEMMA EnabledColumn ==
    ASSUME NEW stored \in SkillRow, NEW loaded \in SkillRow, NEW i
    PROVE  /\ PointedSkill(stored, loaded, i).enabled = stored.enabled
           /\ PublishedSkill(stored, loaded).enabled = stored.enabled
           /\ loaded = stored => ArchivedSkill(stored, loaded).enabled = FALSE
<1>1. stored = [status |-> stored.status, enabled |-> stored.enabled, active |-> stored.active]
  BY DEF SkillRow
<1> QED
  BY <1>1 DEF PointedSkill, PublishedSkill, ArchivedSkill, Written

\* The steps of publishing, activating and archiving.
LEMMA ReleaseStaysSerial ==
    ASSUME OneAtATime, IInv, SerialInv, NEW r \in Request, Release(r)
    PROVE  SerialInv'
<1> DEFINE q == reqs[r]
<1>1. q \in RequestState /\ SoundRequest(q) /\ CurrentRequest(q)
  BY DEF IInv, TypeOK, SerialInv
<1>2. ASSUME NEW s \in Skill, NEW activate \in BOOLEAN, Publish(r, s, activate)
      PROVE  SerialInv'
  BY <1>2, ReadStaysSerial DEF Publish, CurrentRequest
<1>3. ASSUME NEW i \in ReleaseId, Activate(r, i) PROVE SerialInv'
  BY <1>3, ReadStaysSerial DEF Activate, CurrentRequest
<1>4. ASSUME NEW s \in Skill, Archive(r, s) PROVE SerialInv'
  BY <1>4, ReadStaysSerial DEF Archive, CurrentRequest
<1>5. CASE LoadForRelease(r)
  BY <1>5, ReadStaysSerial, IdleIsCurrent DEF LoadForRelease, CurrentRequest, Return
<1>6. CASE CommitRelease(r)
  <2>1. q.skill \in Skill /\ q.row \in SkillRow /\ skills[q.skill] # None
    BY <1>1, <1>6, RequestShape DEF CommitRelease, Resumes, SoundRequest, HoldsSkill
  <2>2. skills[q.skill] \in SkillRow
    BY <2>1, StoredRows
  <2>3. CASE Return(r) /\ UNCHANGED storeVars
    BY <2>3, ReadStaysSerial, IdleIsCurrent DEF Return
  <2>4. ASSUME NEW i \in ReleaseId,
               skills' = [skills EXCEPT ![q.skill] =
                            IF q.activate THEN PointedSkill(@, q.row, i)
                                          ELSE PublishedSkill(@, q.row)],
               Return(r) \/ ThenRefresh(r), UNCHANGED <<drafts, states>>
        PROVE  SerialInv'
    <3> DEFINE row == IF q.activate THEN PointedSkill(skills[q.skill], q.row, i)
                                    ELSE PublishedSkill(skills[q.skill], q.row)
    <3>1. row \in SkillRow
      BY <2>1, <2>2, SkillRowOperators
    <3>2. row.enabled = skills[q.skill].enabled
      BY <2>1, <2>2, EnabledColumn
    <3>3. skills' = [skills EXCEPT ![q.skill] = row]
      BY <2>4
    <3> HIDE DEF row
    <3> QED
      BY <2>1, <2>4, <3>1, <3>2, <3>3, RowCommitStaysSerial
  <2> QED
    BY <1>6, <2>3, <2>4 DEF CommitRelease
<1>7. CASE CommitActivate(r)
  <2>1. q.skill \in Skill /\ q.row \in SkillRow /\ q.release \in ReleaseId /\ skills[q.skill] # None
    BY <1>1, <1>7, RequestShape DEF CommitActivate, Resumes, SoundRequest, HoldsSkill
  <2> DEFINE row == PointedSkill(skills[q.skill], q.row, q.release)
  <2>2. row \in SkillRow /\ row.enabled = skills[q.skill].enabled
    <3>1. skills[q.skill] \in SkillRow
      BY <2>1, StoredRows
    <3>2. row \in SkillRow
      BY <2>1, <3>1, SkillRowOperators
    <3>3. row.enabled = skills[q.skill].enabled
      BY <2>1, <3>1, EnabledColumn
    <3> QED
      BY <3>2, <3>3
  <2>3. skills' = [skills EXCEPT ![q.skill] = row]
    BY <1>7 DEF CommitActivate
  <2> HIDE DEF row
  <2> QED
    BY <1>7, <2>1, <2>2, <2>3, RowCommitStaysSerial DEF CommitActivate
<1>8. CASE LoadForArchive(r)
  BY <1>8, ReadStaysSerial DEF LoadForArchive, CurrentRequest
<1>9. CASE CommitArchive(r)
  <2>1. q.skill \in Skill /\ q.row \in SkillRow /\ skills[q.skill] # None /\ q.row = skills[q.skill]
    BY <1>1, <1>9, RequestShape DEF CommitArchive, Resumes, SoundRequest, HoldsSkill, CurrentRequest
  <2> DEFINE row == ArchivedSkill(skills[q.skill], q.row)
  <2>2. row \in SkillRow /\ row.enabled = FALSE
    BY <2>1, EnabledColumn DEF ArchivedSkill, Written, SkillRow
  <2>3. row # None
    BY <2>2, NullAssumption DEF NullAssumption
  <2>4. /\ skills' = [skills EXCEPT ![q.skill] = row]
        /\ states' = [states EXCEPT ![q.skill] = [enabled |-> FALSE]]
        /\ drafts' = drafts
    BY <1>9 DEF CommitArchive
  <2> HIDE DEF row
  <2>5. EnabledFlagsAgree' /\ \A t \in Skill : states'[t] # None => skills'[t] # None
    BY <2>1, <2>2, <2>3, <2>4 DEF SerialInv, EnabledFlagsAgree, IInv, TypeOK, StoreTypeOK, Id
  <2>6. ValidationIsCurrent'
    BY <2>4 DEF SerialInv, ValidationIsCurrent
  <2> QED
    BY <1>9, <2>5, <2>6, CommitStaysSerial DEF CommitArchive
<1> QED
  BY <1>2, <1>3, <1>4, <1>5, <1>6, <1>7, <1>8, <1>9 DEF Release

\* The state row a switch writes when it read the row that is stored.
LEMMA SwitchWrites ==
    ASSUME OneAtATime, IInv, SerialInv, NEW r \in Request, CommitEnabled(r)
    PROVE  LET q == reqs[r] IN
           /\ q.id \in Id
           /\ q.id \in Skill => skills[q.id] # None
           /\ q.enabled \in BOOLEAN
           /\ \/ Return(r) /\ UNCHANGED storeVars
              \/ /\ states' = [states EXCEPT ![q.id] = [enabled |-> q.enabled]]
                 /\ skills' = SwitchedSkills(q.id, q.enabled)
                 /\ ThenRefresh(r)
                 /\ UNCHANGED <<drafts, releases>>
<1> DEFINE q == reqs[r]
<1>1. /\ q.id \in Id
      /\ q.id \in Skill => skills[q.id] # None
      /\ q.enabled \in BOOLEAN
      /\ q.loaded = states[q.id]
  <2>1. q \in RequestState /\ SoundRequest(q) /\ CurrentRequest(q) /\ q.pc = "enable"
    BY DEF IInv, TypeOK, SerialInv, CommitEnabled, Resumes
  <2> QED
    BY <2>1, RequestShape DEF SoundRequest, CurrentRequest
<1>2. [enabled |-> Written(q.enabled, q.loaded.enabled, states[q.id].enabled)] = [enabled |-> q.enabled]
  BY <1>1 DEF Written
<1> QED
  BY <1>1, <1>2 DEF CommitEnabled

LEMMA SwitchStaysSerial ==
    ASSUME OneAtATime, IInv, SerialInv, NEW r \in Request, Switch(r)
    PROVE  SerialInv'
<1> DEFINE q == reqs[r]
<1>1. ASSUME NEW d \in Id, NEW enabled \in BOOLEAN, SetEnabled(r, d, enabled)
      PROVE  SerialInv'
  BY <1>1, ReadStaysSerial DEF SetEnabled, CurrentRequest
<1>2. CASE CommitEnabled(r)
  <2>1. CASE Return(r) /\ UNCHANGED storeVars
    BY <2>1, ReadStaysSerial, IdleIsCurrent DEF Return
  <2>2. CASE /\ states' = [states EXCEPT ![q.id] = [enabled |-> q.enabled]]
             /\ skills' = SwitchedSkills(q.id, q.enabled)
             /\ ThenRefresh(r)
             /\ UNCHANGED <<drafts, releases>>
    <3>1. q.id \in Id /\ (q.id \in Skill => skills[q.id] # None) /\ q.enabled \in BOOLEAN
      BY <1>2, SwitchWrites
    <3>2. \A s \in Skill : skills[s] # None =>
             /\ [skills[s] EXCEPT !.enabled = q.enabled] # None
             /\ [skills[s] EXCEPT !.enabled = q.enabled].enabled = q.enabled
      <4>1. \A row \in SkillRow : /\ [row EXCEPT !.enabled = q.enabled] \in SkillRow
                                  /\ [row EXCEPT !.enabled = q.enabled].enabled = q.enabled
        BY <3>1 DEF SkillRow
      <4> QED
        BY <4>1, StoredRows, NullAssumption DEF NullAssumption
    <3>3. \A s \in Skill : /\ s # q.id => states'[s] = states[s] /\ skills'[s] = skills[s]
                           /\ s = q.id => /\ states'[s] = [enabled |-> q.enabled]
                                          /\ skills'[s] = [skills[s] EXCEPT !.enabled = q.enabled]
      BY <2>2, <3>1 DEF SwitchedSkills, IInv, TypeOK, StoreTypeOK, Id
    <3>4. EnabledFlagsAgree' /\ \A s \in Skill : states'[s] # None => skills'[s] # None
      <4> SUFFICES ASSUME NEW s \in Skill
                   PROVE  /\ states'[s] # None => skills'[s] # None
                          /\ skills'[s] # None /\ states'[s] # None =>
                                skills'[s].enabled = states'[s].enabled
        BY DEF EnabledFlagsAgree
      <4>1. CASE s = q.id
        <5>1. states'[s] = [enabled |-> q.enabled] /\ skills'[s].enabled = q.enabled /\ skills'[s] # None
          BY <3>1, <3>2, <3>3, <4>1
        <5> QED
          BY <5>1
      <4>2. CASE s # q.id
        BY <3>3, <4>2 DEF SerialInv, EnabledFlagsAgree
      <4> QED
        BY <4>1, <4>2
    <3>5. ValidationIsCurrent'
      BY <2>2 DEF SerialInv, ValidationIsCurrent
    <3> QED
      BY <2>2, <3>4, <3>5, CommitStaysSerial
  <2> QED
    BY <1>2, <2>1, <2>2, SwitchWrites
<1> QED
  BY <1>1, <1>2 DEF Switch

LEMMA RefreshStaysSerial ==
    ASSUME OneAtATime, IInv, SerialInv, NEW r \in Request, Refresh(r)
    PROVE  SerialInv'
<1>1. CASE ReadActive(r)
  BY <1>1, ReadStaysSerial DEF ReadActive, CurrentRequest
<1>2. CASE ReadOverrides(r)
  BY <1>2, ReadStaysSerial DEF ReadOverrides, CurrentRequest
<1>3. CASE Install(r) \/ RefreshFails(r)
  BY <1>3, ReadStaysSerial, IdleIsCurrent DEF Install, RefreshFails, Return
<1> QED
  BY <1>1, <1>2, <1>3 DEF Refresh

LEMMA RestartStaysSerial ==
    ASSUME SerialInv, Restart \/ UNCHANGED vars
    PROVE  SerialInv'
<1>1. UNCHANGED storeVars
  BY DEF Restart, vars
<1>2. \A r \in Request : CurrentRequest(reqs[r])'
  <2>1. CASE Restart
    BY <2>1 DEF Restart, CurrentRequest, Idle
  <2>2. CASE UNCHANGED vars
    BY <2>2 DEF vars, storeVars, CurrentRequest, SerialInv
  <2> QED
    BY <2>1, <2>2
<1>3. /\ EnabledFlagsAgree' /\ ValidationIsCurrent'
      /\ \A s \in Skill : states'[s] # None => skills'[s] # None
  BY <1>1 DEF storeVars, SerialInv, EnabledFlagsAgree, ValidationIsCurrent
<1> QED
  BY <1>2, <1>3 DEF SerialInv

LEMMA SerialNext ==
    ASSUME OneAtATime
    PROVE  IInv /\ SerialInv /\ [Next]_vars => SerialInv'
  BY EditStaysSerial, ReleaseStaysSerial, SwitchStaysSerial, RefreshStaysSerial,
     RestartStaysSerial DEF Next

LEMMA SerialInvariance ==
    ASSUME OneAtATime
    PROVE  Spec => []SerialInv
<1>1. Init => SerialInv
  BY InitSerial
<1>2. IInv /\ SerialInv /\ [Next]_vars => SerialInv'
  BY SerialNext
<1> QED
  BY <1>1, <1>2, Invariance, PTL DEF Spec

-----------------------------------------------------------------------------
(* The registry. *)

LEMMA RegistryInit == Init => RegistryInv
<1> SUFFICES ASSUME Init PROVE RegistryInv
  OBVIOUS
<1>1. ActiveReleases = managed
  BY DEF Init, StoreInit, ActiveReleases, Served
<1>2. states = overrides
  BY DEF Init, StoreInit
<1>3. \A r \in Request : RefreshedRequest(reqs[r])
  BY DEF Init, Idle, RefreshedRequest
<1> QED
  BY <1>1, <1>2, <1>3 DEF RegistryInv, Settled, Init, StoreInit

LEMMA SettledBefore ==
    ASSUME OneAtATime, RegistryInv, NEW r \in Request, reqs[r].pc \notin Refreshing
    PROVE  Settled
  BY DEF OneAtATime, RegistryInv

\* A step that neither touches what the registry shows nor refreshes it.
LEMMA AsideKeepsRegistry ==
    ASSUME OneAtATime, IInv, RegistryInv, NEW r \in Request, reqs[r].pc \notin Refreshing,
           NEW q, q.pc \notin Refreshing \cup {"archive", "retire"}, Suspend(r, q),
           ActiveReleases' = ActiveReleases, UNCHANGED <<states, registryVars>>,
           \A s \in Skill : skills'[s] # None => skills'[s].status # "archived"
    PROVE  RegistryInv'
<1>1. Settled'
  BY SettledBefore DEF Settled, registryVars
<1>2. \A t \in Request : RefreshedRequest(reqs[t])'
  BY OnlyRequest DEF RefreshedRequest, Refreshing
<1> QED
  BY <1>1, <1>2 DEF RegistryInv

LEMMA ReadKeepsRegistry ==
    ASSUME OneAtATime, IInv, RegistryInv, NEW r \in Request, reqs[r].pc \notin Refreshing,
           NEW q, q.pc \notin Refreshing \cup {"archive", "retire"}, Suspend(r, q),
           UNCHANGED <<skills, releases, states, registryVars>>
    PROVE  RegistryInv'
<1>1. ActiveReleases' = ActiveReleases
  BY DEF ActiveReleases, Served, Published
<1>2. \A s \in Skill : skills'[s] # None => skills'[s].status # "archived"
  BY DEF RegistryInv
<1> QED
  BY <1>1, <1>2, AsideKeepsRegistry

\* A commit that goes on to refresh.
LEMMA CommitStartsRefresh ==
    ASSUME OneAtATime, IInv, RegistryInv, NEW r \in Request, ThenRefresh(r),
           \A s \in Skill : skills'[s] # None => skills'[s].status # "archived"
    PROVE  RegistryInv'
<1>1. \A t \in Request : reqs'[t] = [pc |-> "refresh"]
  BY OnlyRequest DEF ThenRefresh
<1>2. \A t \in Request : RefreshedRequest(reqs[t])' /\ reqs'[t].pc \in Refreshing
  BY <1>1 DEF RefreshedRequest, Refreshing
<1>3. (\A t \in Request : reqs[t].pc \notin Refreshing)' => Settled'
  BY <1>2
<1> QED
  BY <1>2, <1>3 DEF RegistryInv

LEMMA CreateKeepsRegistry ==
    ASSUME OneAtATime, IInv, CatalogInv, RegistryInv, NEW r \in Request, CommitCreate(r)
    PROVE  RegistryInv'
<1> DEFINE q == reqs[r]
<1>1. q.skill \in Skill /\ q.pc = "create"
  BY RequestShape DEF CommitCreate, Resumes, IInv, TypeOK
<1>2. /\ \A s \in Skill : skills'[s] = skills[s] \/ (skills[s] = None /\ skills'[s] = NewSkill)
      /\ releases' = releases /\ Suspend(r, Idle) /\ UNCHANGED <<states, registryVars>>
  BY <1>1 DEF CommitCreate, Return, IInv, TypeOK, StoreTypeOK
<1>3. NewSkill.status = "draft"
  BY DEF NewSkill
<1>4. \A s \in Skill : Served(s)' <=> Served(s)
  BY <1>2, <1>3 DEF Served, Published
<1>5. ActiveReleases' = ActiveReleases
  BY <1>2, <1>3, <1>4 DEF ActiveReleases, Served
<1>6. \A s \in Skill : skills'[s] # None => skills'[s].status # "archived"
  BY <1>2, <1>3 DEF RegistryInv
<1> QED
  BY <1>1, <1>2, <1>5, <1>6, AsideKeepsRegistry DEF Idle, Refreshing

\* Releasing without activating changes nothing the registry shows: a skill
\* that was a draft has no active release, one that was published is untouched.
LEMMA QuietReleaseKeepsActive ==
    ASSUME OneAtATime, IInv, CatalogInv, RegistryInv,
           NEW k \in Skill, skills[k] # None, NEW loaded, loaded = skills[k],
           NEW i \in ReleaseId \ Published, NEW row,
           releases' = [releases EXCEPT ![i] = row], row # None,
           skills' = [skills EXCEPT ![k] = PublishedSkill(@, loaded)]
    PROVE  /\ ActiveReleases' = ActiveReleases
           /\ \A s \in Skill : skills'[s] # None => skills'[s].status # "archived"
<1>1. skills[k] \in SkillRow /\ skills[k].status # "archived"
  BY StoredRows DEF RegistryInv
<1>2. /\ PublishedSkill(skills[k], loaded).status = "published"
      /\ PublishedSkill(skills[k], loaded).active = skills[k].active
      /\ PublishedSkill(skills[k], loaded).enabled = skills[k].enabled
  <2>1. /\ PublishedSkill(skills[k], loaded).status =
              Written("published", loaded.status, skills[k].status)
        /\ PublishedSkill(skills[k], loaded).active = skills[k].active
    BY <1>1, WrittenColumns
  <2>2. PublishedSkill(skills[k], loaded).enabled = skills[k].enabled
    BY <1>1, EnabledColumn
  <2> QED
    BY <2>1, <2>2 DEF Written
<1>3. \A s \in Skill : /\ s # k => skills'[s] = skills[s]
                       /\ s = k => skills'[s] = PublishedSkill(skills[k], loaded)
  BY DEF IInv, TypeOK, StoreTypeOK
<1>4. /\ Published' = Published \cup {i}
      /\ \A j \in Published : releases'[j] = releases[j]
  BY DEF Published, IInv, TypeOK, StoreTypeOK
<1>5. \A s \in Skill : skills[s] # None =>
         /\ skills[s].active = None \/ skills[s].active \in Published
         /\ skills[s].status = "draft" => skills[s].active = None
  BY DEF CatalogInv, LifecycleConsistent
<1>6. None \notin Published'
  BY NullAssumption DEF NullAssumption, Published
<1>7. PublishedSkill(skills[k], loaded) # None
  <2>1. PublishedSkill(skills[k], loaded) \in SkillRow
    BY <1>1 DEF PublishedSkill, Written, SkillRow
  <2> QED
    BY <2>1, NullAssumption DEF NullAssumption
<1>8. \A s \in Skill : Served(s)' <=> Served(s)
  <2> SUFFICES ASSUME NEW s \in Skill PROVE Served(s)' <=> Served(s)
    OBVIOUS
  <2>1. CASE s = k
    <3>1. Served(s) <=> skills[k].active # None
      BY <1>1, <1>4, <1>5, <1>6, <2>1 DEF Served, SkillRow
    <3>2. Served(s)' <=> skills[k].active # None
      BY <1>2, <1>3, <1>4, <1>5, <1>6, <1>7, <2>1 DEF Served
    <3> QED
      BY <3>1, <3>2
  <2>2. CASE s # k
    BY <1>3, <1>4, <1>5, <1>6, <2>2 DEF Served
  <2> QED
    BY <2>1, <2>2
<1>9. \A s \in Skill : Served(s) =>
         /\ skills'[s].active = skills[s].active
         /\ skills'[s].enabled = skills[s].enabled
         /\ releases'[skills[s].active] = releases[skills[s].active]
  BY <1>2, <1>3, <1>4 DEF Served
<1>10. ActiveReleases' = ActiveReleases
  BY <1>8, <1>9 DEF ActiveReleases
<1>11. \A s \in Skill : skills'[s] # None => skills'[s].status # "archived"
  BY <1>2, <1>3 DEF RegistryInv
<1> QED
  BY <1>10, <1>11

LEMMA CommitReleaseKeepsRegistry ==
    ASSUME OneAtATime, IInv, CatalogInv, SerialInv, RegistryInv,
           NEW r \in Request, CommitRelease(r)
    PROVE  RegistryInv'
<1> DEFINE q == reqs[r]
<1>1. /\ q \in RequestState /\ SoundRequest(q) /\ CurrentRequest(q) /\ q.pc = "release"
  BY DEF CommitRelease, Resumes, IInv, TypeOK, SerialInv
<1>2. /\ q.skill \in Skill /\ skills[q.skill] # None /\ q.row = skills[q.skill]
      /\ q.row \in SkillRow /\ q.pc \notin Refreshing
  BY <1>1, RequestShape DEF SoundRequest, CurrentRequest, HoldsSkill, Refreshing
<1>3. CASE VersionTaken(q.skill, q.draft.content.version)
  BY <1>2, <1>3, ReadKeepsRegistry
     DEF CommitRelease, Return, Idle, Refreshing, storeVars
<1>4. CASE ~VersionTaken(q.skill, q.draft.content.version)
  <2>1. PICK i \in ReleaseId \ Published :
           /\ releases' = [releases EXCEPT ![i] = NewRelease(q)]
           /\ skills' = [skills EXCEPT ![q.skill] =
                 IF q.activate THEN PointedSkill(@, q.row, i) ELSE PublishedSkill(@, q.row)]
    BY <1>4 DEF CommitRelease
  <2>2. /\ IF q.activate THEN ThenRefresh(r) ELSE Return(r)
        /\ UNCHANGED <<drafts, states, registryVars>>
    BY <1>4 DEF CommitRelease
  <2>3. CASE q.activate
    <3>1. skills[q.skill] \in SkillRow /\ skills[q.skill].status # "archived"
      BY <1>2, StoredRows DEF RegistryInv
    <3>2. PointedSkill(skills[q.skill], q.row, i).status # "archived"
      <4>1. PointedSkill(skills[q.skill], q.row, i).status =
              Written("published", q.row.status, skills[q.skill].status)
        BY <1>2, <3>1, WrittenColumns
      <4> QED
        BY <3>1, <4>1 DEF Written
    <3>3. \A s \in Skill : skills'[s] # None => skills'[s].status # "archived"
      BY <1>2, <2>1, <2>3, <3>2 DEF RegistryInv, IInv, TypeOK, StoreTypeOK
    <3> QED
      BY <2>2, <2>3, <3>3, CommitStartsRefresh
  <2>4. CASE ~q.activate
    <3>1. NewRelease(q) # None
      <4>1. SoundDraft(q.draft) /\ Publishable(q.draft)
        BY <1>1 DEF SoundRequest, HoldsDraft
      <4> QED
        BY <1>2, <4>1, PublishableIsValid
    <3>2. skills' = [skills EXCEPT ![q.skill] = PublishedSkill(@, q.row)]
      BY <2>1, <2>4
    <3>3. /\ ActiveReleases' = ActiveReleases
          /\ \A s \in Skill : skills'[s] # None => skills'[s].status # "archived"
      BY <1>2, <2>1, <3>1, <3>2, QuietReleaseKeepsActive
    <3> QED
      BY <1>2, <2>2, <2>4, <3>3, AsideKeepsRegistry DEF Return, Idle, Refreshing
  <2> QED
    BY <2>3, <2>4
<1> QED
  BY <1>3, <1>4

LEMMA EditKeepsRegistry ==
    ASSUME OneAtATime, IInv, CatalogInv, RegistryInv, NEW r \in Request, Edit(r)
    PROVE  RegistryInv'
<1>1. CASE CommitCreate(r)
  BY <1>1, CreateKeepsRegistry
<1>2. CASE ~CommitCreate(r)
  <2>1. /\ reqs[r].pc \notin Refreshing
        /\ UNCHANGED <<skills, releases, states, registryVars>>
    <3> DEFINE P == reqs[r].pc \notin Refreshing /\ UNCHANGED <<skills, releases, states, registryVars>>
    <3>1. ASSUME NEW s \in Skill, Create(r, s) \/ Clone(r, s) \/ ValidateDraft(r, s)
          PROVE  P
      BY <3>1 DEF Create, Clone, ValidateDraft, Begins, Idle, Refreshing, storeVars
    <3>2. ASSUME NEW s \in Skill, NEW c \in Package, SaveDraft(r, s, c) PROVE P
      BY <3>2 DEF SaveDraft, Begins, Idle, Refreshing, storeVars
    <3>3. ASSUME CommitSave(r) \/ LoadForReport(r) \/ CommitReport(r) PROVE P
      BY <3>3 DEF CommitSave, LoadForReport, CommitReport, Resumes, Refreshing, storeVars
    <3> QED
      BY <1>2, <3>1, <3>2, <3>3 DEF Edit
  <2>2. PICK q : q.pc \notin Refreshing \cup {"archive", "retire"} /\ Suspend(r, q)
    <3>1. ASSUME NEW s \in Skill, Create(r, s) \/ Clone(r, s) \/ ValidateDraft(r, s)
          PROVE  \E q : q.pc \notin Refreshing \cup {"archive", "retire"} /\ Suspend(r, q)
      BY <3>1 DEF Create, Clone, ValidateDraft, Refreshing
    <3>2. ASSUME NEW s \in Skill, NEW c \in Package, SaveDraft(r, s, c)
          PROVE  \E q : q.pc \notin Refreshing \cup {"archive", "retire"} /\ Suspend(r, q)
      BY <3>2 DEF SaveDraft, Refreshing
    <3>3. ASSUME CommitSave(r) \/ LoadForReport(r) \/ CommitReport(r)
          PROVE  \E q : q.pc \notin Refreshing \cup {"archive", "retire"} /\ Suspend(r, q)
      BY <3>3 DEF CommitSave, LoadForReport, CommitReport, Return, Idle, Refreshing
    <3> QED
      BY <1>2, <3>1, <3>2, <3>3 DEF Edit
  <2> QED
    BY <2>1, <2>2, ReadKeepsRegistry
<1> QED
  BY <1>1, <1>2

LEMMA ReleaseKeepsRegistry ==
    ASSUME OneAtATime, NothingArchived, IInv, CatalogInv, SerialInv, RegistryInv,
           NEW r \in Request, Release(r)
    PROVE  RegistryInv'
<1>1. CASE CommitRelease(r)
  BY <1>1, CommitReleaseKeepsRegistry
<1>2. CASE CommitActivate(r)
  <2> DEFINE q == reqs[r]
  <2>1. q \in RequestState /\ SoundRequest(q) /\ CurrentRequest(q) /\ q.pc = "activate"
    BY <1>2 DEF CommitActivate, Resumes, IInv, TypeOK, SerialInv
  <2>2. q.skill \in Skill /\ q.row \in SkillRow /\ skills[q.skill] # None
    BY <2>1, RequestShape DEF SoundRequest, HoldsSkill
  <2>3. skills[q.skill] \in SkillRow /\ skills[q.skill].status # "archived"
    BY <2>2, StoredRows DEF RegistryInv
  <2>4. PointedSkill(skills[q.skill], q.row, q.release).status # "archived"
    <3>1. PointedSkill(skills[q.skill], q.row, q.release).status =
            Written("published", q.row.status, skills[q.skill].status)
      BY <2>2, <2>3, WrittenColumns
    <3> QED
      BY <2>3, <3>1 DEF Written
  <2>5. \A s \in Skill : skills'[s] # None => skills'[s].status # "archived"
    BY <1>2, <2>2, <2>4 DEF CommitActivate, RegistryInv, IInv, TypeOK, StoreTypeOK
  <2> QED
    BY <1>2, <2>5, CommitStartsRefresh DEF CommitActivate
<1>3. ASSUME NEW s \in Skill, Archive(r, s) PROVE FALSE
  BY <1>3 DEF Archive, Begins, NothingArchived
<1>4. CASE LoadForArchive(r) \/ CommitArchive(r)
  BY <1>4 DEF LoadForArchive, CommitArchive, Resumes, RegistryInv, RefreshedRequest
<1>5. ASSUME NEW s \in Skill, NEW activate \in BOOLEAN, Publish(r, s, activate)
      PROVE  RegistryInv'
  BY <1>5, ReadKeepsRegistry DEF Publish, Begins, Idle, Refreshing, storeVars
<1>6. ASSUME NEW i \in ReleaseId, Activate(r, i) PROVE RegistryInv'
  BY <1>6, ReadKeepsRegistry DEF Activate, Begins, Idle, Refreshing, storeVars
<1>7. CASE LoadForRelease(r)
  BY <1>7, ReadKeepsRegistry DEF LoadForRelease, Resumes, Return, Idle, Refreshing, storeVars
<1> QED
  BY <1>1, <1>2, <1>3, <1>4, <1>5, <1>6, <1>7 DEF Release

LEMMA SwitchKeepsRegistry ==
    ASSUME OneAtATime, IInv, SerialInv, RegistryInv, NEW r \in Request, Switch(r)
    PROVE  RegistryInv'
<1> DEFINE q == reqs[r]
<1>1. ASSUME NEW d \in Id, NEW enabled \in BOOLEAN, SetEnabled(r, d, enabled)
      PROVE  RegistryInv'
  BY <1>1, ReadKeepsRegistry DEF SetEnabled, Begins, Idle, Refreshing, storeVars
<1>2. CASE CommitEnabled(r)
  <2>1. q.pc = "enable" /\ UNCHANGED registryVars
    BY <1>2 DEF CommitEnabled, Resumes
  <2>2. CASE Return(r) /\ UNCHANGED storeVars
    BY <2>1, <2>2, ReadKeepsRegistry DEF Return, Idle, Refreshing, storeVars
  <2>3. CASE /\ states' = [states EXCEPT ![q.id] = [enabled |-> q.enabled]]
             /\ skills' = SwitchedSkills(q.id, q.enabled)
             /\ ThenRefresh(r)
             /\ UNCHANGED <<drafts, releases>>
    <3>1. q.id \in Skill => skills[q.id] # None
      BY <1>2, SwitchWrites
    <3>2. \A s \in Skill : skills[s] # None =>
             [skills[s] EXCEPT !.enabled = q.enabled].status = skills[s].status
      <4>1. \A row \in SkillRow : [row EXCEPT !.enabled = q.enabled].status = row.status
        BY DEF SkillRow
      <4> QED
        BY <4>1, StoredRows
    <3>3. \A s \in Skill : /\ s # q.id => skills'[s] = skills[s]
                           /\ s = q.id => skills'[s] = [skills[s] EXCEPT !.enabled = q.enabled]
      BY <2>3 DEF SwitchedSkills
    <3>4. \A s \in Skill : skills'[s] # None => skills'[s].status # "archived"
      BY <3>1, <3>2, <3>3 DEF RegistryInv
    <3> QED
      BY <2>3, <3>4, CommitStartsRefresh
  <2> QED
    BY <1>2, <2>2, <2>3, SwitchWrites
<1> QED
  BY <1>1, <1>2 DEF Switch

\* The two reads and the replacement: nothing else runs in between.
LEMMA RefreshKeepsRegistry ==
    ASSUME OneAtATime, IInv, RegistryInv, NEW r \in Request, Refresh(r)
    PROVE  RegistryInv'
<1> DEFINE q == reqs[r]
<1>1. RefreshedRequest(q) /\ UNCHANGED storeVars
  BY DEF RegistryInv, Refresh, ReadActive, ReadOverrides, Install, RefreshFails
<1>2. ActiveReleases' = ActiveReleases /\ states' = states /\ skills' = skills
  BY <1>1 DEF storeVars, ActiveReleases, Served, Published
<1>3. \A s \in Skill : skills'[s] # None => skills'[s].status # "archived"
  BY <1>2 DEF RegistryInv
<1>4. CASE ReadActive(r)
  <2> DEFINE n == [pc |-> "overrides", active |-> ActiveReleases]
  <2>1. PICK m : m = n
    OBVIOUS
  <2>2. \A t \in Request : reqs'[t] = m
    BY <1>4, <2>1, OnlyRequest DEF ReadActive
  <2>3. \A t \in Request : RefreshedRequest(reqs[t])'
    BY <1>2, <2>1, <2>2 DEF RefreshedRequest
  <2>4. (\A t \in Request : reqs[t].pc \notin Refreshing)' => Settled'
    BY <2>1, <2>2 DEF Refreshing
  <2> QED
    BY <1>3, <2>3, <2>4 DEF RegistryInv
<1>5. CASE ReadOverrides(r)
  <2> DEFINE n == [pc |-> "install", active |-> q.active, enabled |-> states]
  <2>1. PICK m : m = n
    OBVIOUS
  <2>2. \A t \in Request : reqs'[t] = m
    BY <1>5, <2>1, OnlyRequest DEF ReadOverrides
  <2>3. q.active = ActiveReleases
    BY <1>1, <1>5 DEF ReadOverrides, Resumes, RefreshedRequest
  <2>4. \A t \in Request : RefreshedRequest(reqs[t])'
    BY <1>2, <2>1, <2>2, <2>3 DEF RefreshedRequest
  <2>5. (\A t \in Request : reqs[t].pc \notin Refreshing)' => Settled'
    BY <2>1, <2>2 DEF Refreshing
  <2> QED
    BY <1>3, <2>4, <2>5 DEF RegistryInv
<1>6. ASSUME Settled', Return(r) PROVE RegistryInv'
  <2>1. \A t \in Request : RefreshedRequest(reqs[t])'
    BY <1>6, OnlyRequest DEF Return, Idle, RefreshedRequest
  <2> QED
    BY <1>3, <1>6, <2>1 DEF RegistryInv
<1>7. CASE Install(r)
  <2>1. q.active = ActiveReleases /\ q.enabled = states
    BY <1>1, <1>7 DEF Install, Resumes, RefreshedRequest
  <2>2. Settled'
    BY <1>2, <1>7, <2>1 DEF Install, Settled
  <2> QED
    BY <1>6, <1>7, <2>2 DEF Install
<1>8. CASE RefreshFails(r)
  BY <1>6, <1>8 DEF RefreshFails, Settled
<1> QED
  BY <1>4, <1>5, <1>7, <1>8 DEF Refresh

LEMMA RestartKeepsRegistry ==
    ASSUME RegistryInv, Restart \/ UNCHANGED vars
    PROVE  RegistryInv'
<1>1. UNCHANGED storeVars
  BY DEF Restart, vars
<1>2. ActiveReleases' = ActiveReleases /\ states' = states /\ skills' = skills
  BY <1>1 DEF storeVars, ActiveReleases, Served, Published
<1>3. CASE Restart
  <2>1. Settled'
    BY <1>2, <1>3 DEF Restart, Settled
  <2>2. \A r \in Request : RefreshedRequest(reqs[r])'
    BY <1>3 DEF Restart, Idle, RefreshedRequest
  <2> QED
    BY <1>2, <2>1, <2>2 DEF RegistryInv
<1>4. CASE UNCHANGED vars
  BY <1>2, <1>4 DEF vars, registryVars, RegistryInv, Settled, RefreshedRequest
<1> QED
  BY <1>3, <1>4

LEMMA RegistryNext ==
    ASSUME OneAtATime, NothingArchived
    PROVE  IInv /\ CatalogInv /\ SerialInv /\ RegistryInv /\ [Next]_vars => RegistryInv'
  BY EditKeepsRegistry, ReleaseKeepsRegistry, SwitchKeepsRegistry, RefreshKeepsRegistry,
     RestartKeepsRegistry DEF Next

-----------------------------------------------------------------------------
(* The theorems. *)

\* With one request at a time the enabled flag the admin pages list is the one
\* the runtime obeys (repository.set_enabled and archive write both rows).
THEOREM FlagsAgreeSerially ==
    ASSUME OneAtATime
    PROVE  Spec => []EnabledFlagsAgree
<1>1. SerialInv => EnabledFlagsAgree
  BY DEF SerialInv
<1> QED
  BY <1>1, SerialInvariance, PTL

\* With one request at a time a validation result that is still stored belongs
\* to the stored content (repository.save_draft clears what it replaces).
THEOREM ValidationCurrentSerially ==
    ASSUME OneAtATime
    PROVE  Spec => []ValidationIsCurrent
<1>1. SerialInv => ValidationIsCurrent
  BY DEF SerialInv
<1> QED
  BY <1>1, SerialInvariance, PTL

\* With one request at a time every change of a draft's content is a new
\* revision of it (repository.save_draft counts, save_validation does not).
THEOREM RevisionsCountSerially ==
    ASSUME OneAtATime
    PROVE  Spec => RevisionCountsEdits
<1> DEFINE Counted == \A s \in Skill :
              drafts[s] # None /\ drafts'[s] # drafts[s] =>
                 \/ drafts'[s].revision = drafts[s].revision + 1
                 \/ /\ drafts'[s].revision = drafts[s].revision
                    /\ drafts'[s].content = drafts[s].content
<1>1. ASSUME IInv, SerialInv, [Next]_vars PROVE [Counted]_drafts
  <2>1. ASSUME NEW r \in Request, CommitCreate(r) PROVE Counted
    <3>1. reqs[r].skill \in Skill
      BY <1>1, <2>1, RequestShape DEF CommitCreate, Resumes, IInv, TypeOK
    <3>2. skills[reqs[r].skill] = None => drafts[reqs[r].skill] = None
      BY <1>1, <3>1 DEF IInv, RowsExist
    <3> QED
      BY <1>1, <2>1, <3>1, <3>2 DEF CommitCreate, IInv, TypeOK, StoreTypeOK
  <2>2. ASSUME NEW r \in Request, CommitSave(r) PROVE Counted
    <3> DEFINE q == reqs[r]
               d == SavedDraft(drafts[q.skill], q.loaded, q.content)
    <3>1. q \in RequestState /\ CurrentRequest(q) /\ q.pc = "save"
      BY <1>1, <2>2 DEF CommitSave, Resumes, IInv, TypeOK, SerialInv
    <3>2. q.skill \in Skill /\ q.loaded \in DraftRow /\ q.loaded = drafts[q.skill]
      BY <1>1, <3>1, RequestShape DEF CurrentRequest, HoldsSkill
    <3>3. d.revision = drafts[q.skill].revision + 1
      BY <3>2 DEF SavedDraft, Written, DraftRow
    <3>4. drafts' = [drafts EXCEPT ![q.skill] = d]
      BY <2>2 DEF CommitSave
    <3> HIDE DEF d
    <3> QED
      BY <1>1, <3>2, <3>3, <3>4 DEF IInv, TypeOK, StoreTypeOK
  <2>3. ASSUME NEW r \in Request, CommitReport(r) PROVE Counted
    <3> DEFINE q == reqs[r]
               d == ValidatedDraft(drafts[q.skill], q.loaded, q.draft)
    <3>1. q \in RequestState /\ CurrentRequest(q) /\ q.pc = "report"
      BY <1>1, <2>3 DEF CommitReport, Resumes, IInv, TypeOK, SerialInv
    <3>2. q.skill \in Skill /\ drafts[q.skill] \in DraftRow
      BY <1>1, <3>1, RequestShape DEF CurrentRequest, HoldsSkill
    <3>3. d.revision = drafts[q.skill].revision /\ d.content = drafts[q.skill].content
      BY <3>2 DEF ValidatedDraft, DraftRow
    <3>4. drafts' = [drafts EXCEPT ![q.skill] = d]
      BY <2>3 DEF CommitReport
    <3> HIDE DEF d
    <3> QED
      BY <1>1, <3>2, <3>3, <3>4 DEF IInv, TypeOK, StoreTypeOK
  <2>4. \/ \E r \in Request : CommitCreate(r) \/ CommitSave(r) \/ CommitReport(r)
        \/ drafts' = drafts
    BY <1>1 DEF Next, vars, storeVars, Restart, Edit, Release, Switch, Refresh,
         Create, Clone, SaveDraft, ValidateDraft, LoadForReport, Publish, LoadForRelease,
         CommitRelease, Activate, CommitActivate, Archive, LoadForArchive, CommitArchive,
         SetEnabled, CommitEnabled, ReadActive, ReadOverrides, Install, RefreshFails
  <2> QED
    BY <2>1, <2>2, <2>3, <2>4
<1>2. IInv /\ SerialInv /\ [Next]_vars => [Counted]_drafts
  BY <1>1
<1> QED
  BY <1>2, Invariance, SerialInvariance, PTL DEF Spec, RevisionCountsEdits

\* With one request at a time, and no skill archived, the registry is what the
\* store says whenever no request is in flight, unless the last refresh failed
\* (service.refresh_registry after every commit that changes what is served).
THEOREM RegistryMatchesSerially ==
    ASSUME OneAtATime, NothingArchived
    PROVE  Spec => []RegistryMatchesStore
<1>1. Init => RegistryInv
  BY RegistryInit
<1>2. IInv /\ CatalogInv /\ SerialInv /\ RegistryInv /\ [Next]_vars => RegistryInv'
  BY RegistryNext
<1>3. RegistryInv => RegistryMatchesStore
  BY DEF RegistryInv, RegistryMatchesStore, Quiescent, Settled, Idle, Refreshing
<1> QED
  BY <1>1, <1>2, <1>3, Invariance, CatalogInvariance, SerialInvariance, PTL DEF Spec

=============================================================================
