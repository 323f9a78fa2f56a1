---------------------------- MODULE SkillService ----------------------------
(***************************************************************************)
(* Skill management (skills/service.py over skills/repository.py) and the  *)
(* runtime registry (skills/registry.py) on one asyncio event loop.        *)
(*                                                                         *)
(* A request is a coroutine.  It is suspended at the awaits between its    *)
(* database reads and its commits, and reqs[r] holds the locals it goes on *)
(* with: other requests run in between.  A request that an early return or *)
(* a 4xx ends before it changed anything leaves no trace, so the guard of  *)
(* the action that starts it carries those conditions, a client's          *)
(* expected_revision being the revision the first read found.              *)
(***************************************************************************)
EXTENDS SkillStore

CONSTANTS
    Request,        \* coroutines that may be in flight at once
    Ops,            \* the operations clients call, and the faults that happen
    MaxRevision,    \* bound: no save is started on a draft at this revision
    BuiltinPackage  \* the package each builtin was loaded from

ASSUME ServiceAssumption ==
    /\ MaxRevision \in Nat
    /\ BuiltinPackage \in [Builtin -> Package]

VARIABLES
    managed,    \* SkillRegistry._managed_skills
    overrides,  \* SkillRegistry._enabled_overrides
    behind,     \* history: the last refresh of the registry failed
    reqs        \* the coroutines in flight

registryVars == <<managed, overrides, behind>>
vars == <<storeVars, registryVars, reqs>>

Idle == [pc |-> "idle"]

\* A coroutine, by the await it is suspended at, with the locals still live.
RequestState ==
       {Idle}
  \cup [pc : {"create"}, skill : Skill, content : Package]
  \cup [pc : {"save"}, skill : Skill, content : Package, loaded : DraftRow]
  \cup [pc : {"validate"}, skill : Skill, draft : DraftRow]
  \cup [pc : {"report"}, skill : Skill, draft : DraftRow, loaded : DraftRow]
  \cup [pc : {"publish"}, skill : Skill, draft : DraftRow, activate : BOOLEAN]
  \cup [pc : {"release"}, skill : Skill, draft : DraftRow, activate : BOOLEAN, row : SkillRow]
  \cup [pc : {"activate"}, skill : Skill, release : ReleaseId, row : SkillRow]
  \cup [pc : {"archive"}, skill : Skill]
  \cup [pc : {"retire"}, skill : Skill, row : SkillRow]
  \cup [pc : {"enable"}, id : Id, enabled : BOOLEAN, loaded : StateRow \cup {None}]
  \cup {[pc |-> "refresh"]}
  \cup [pc : {"overrides"}, active : [Skill -> LoadedSkill \cup {None}]]
  \cup [pc : {"install"}, active : [Skill -> LoadedSkill \cup {None}],
        enabled : [Id -> StateRow \cup {None}]]

TypeOK ==
    /\ StoreTypeOK
    /\ managed \in [Skill -> LoadedSkill \cup {None}]
    /\ overrides \in [Id -> StateRow \cup {None}]
    /\ behind \in BOOLEAN
    /\ reqs \in [Request -> RequestState]

Init ==
    /\ StoreInit
    /\ managed = [s \in Skill |-> None]
    /\ overrides = [d \in Id |-> None]
    /\ behind = FALSE
    /\ reqs = [r \in Request |-> Idle]

Begins(r, op) == reqs[r] = Idle /\ op \in Ops
Suspend(r, q) == reqs' = [reqs EXCEPT ![r] = q]
Resumes(r, pc) == reqs[r].pc = pc
Return(r) == Suspend(r, Idle)

\* Mutant: the operation answers without refreshing the registry.
NoRefresh(r) == Return(r)

ThenRefresh(r) == Suspend(r, [pc |-> "refresh"])

-----------------------------------------------------------------------------
\* create: get_skill finds nothing; create_skill is still to come.
Create(r, s) ==
    /\ Begins(r, "create")
    /\ skills[s] = None
    /\ Suspend(r, [pc |-> "create", skill |-> s, content |-> Starter])
    /\ UNCHANGED <<storeVars, registryVars>>

\* clone: the source is a builtin's package, a draft or one of the source
\* skill's releases, and the new id is free.
Clone(r, s) ==
    /\ Begins(r, "clone")
    /\ skills[s] = None
    /\ \E source \in {BuiltinPackage[b] : b \in Builtin}
                \cup {drafts[t].content : t \in {u \in Skill : drafts[u] # None}}
                \cup {releases[i].content : i \in Published} :
          Suspend(r, [pc |-> "create", skill |-> s, content |-> CloneOf(source)])
    /\ UNCHANGED <<storeVars, registryVars>>

\* create_skill: both rows, or an IntegrityError when the id has been taken.
CommitCreate(r) ==
    LET q == reqs[r] IN
    /\ Resumes(r, "create")
    /\ IF skills[q.skill] = None
       THEN /\ skills' = [skills EXCEPT ![q.skill] = NewSkill]
            /\ drafts' = [drafts EXCEPT ![q.skill] = NewDraft(q.content)]
       ELSE UNCHANGED <<skills, drafts>>
    /\ Return(r)
    /\ UNCHANGED <<releases, states, registryVars>>

\* save_draft: the revision the session loaded is the expected one.
SaveDraft(r, s, c) ==
    /\ Begins(r, "save")
    /\ drafts[s] # None
    /\ drafts[s].revision < MaxRevision
    /\ Suspend(r, [pc |-> "save", skill |-> s, content |-> c, loaded |-> drafts[s]])
    /\ UNCHANGED <<storeVars, registryVars>>

CommitSave(r) ==
    LET q == reqs[r] IN
    /\ Resumes(r, "save")
    /\ drafts' = [drafts EXCEPT ![q.skill] = SavedDraft(@, q.loaded, q.content)]
    /\ Return(r)
    /\ UNCHANGED <<skills, releases, states, registryVars>>

\* validate_draft: the draft it validates, of the expected revision.
ValidateDraft(r, s) ==
    /\ Begins(r, "validate")
    /\ drafts[s] # None
    /\ Suspend(r, [pc |-> "validate", skill |-> s, draft |-> drafts[s]])
    /\ UNCHANGED <<storeVars, registryVars>>

\* save_validation loads the draft again and gives up, with no error to the
\* client, when a save has moved the revision.
LoadForReport(r) ==
    LET q == reqs[r] IN
    /\ Resumes(r, "validate")
    /\ IF drafts[q.skill].revision = q.draft.revision
       THEN Suspend(r, [pc |-> "report", skill |-> q.skill, draft |-> q.draft,
                        loaded |-> drafts[q.skill]])
       ELSE Return(r)
    /\ UNCHANGED <<storeVars, registryVars>>

CommitReport(r) ==
    LET q == reqs[r] IN
    /\ Resumes(r, "report")
    /\ drafts' = [drafts EXCEPT ![q.skill] = ValidatedDraft(@, q.loaded, q.draft)]
    /\ Return(r)
    /\ UNCHANGED <<skills, releases, states, registryVars>>

-----------------------------------------------------------------------------
\* publish, on the draft row it read: validated as it stands, without errors,
\* and at a version the skill has not released.
\* Mutant: any earlier valid report will do.
PublishableOnReport(d) == d.report # None /\ d.report.valid

Publishable(d) ==
    /\ d.validated = d.hash
    /\ d.report # None
    /\ d.report.valid

Publish(r, s, activate) ==
    /\ Begins(r, "publish")
    /\ drafts[s] # None
    /\ Publishable(drafts[s])
    /\ ~VersionTaken(s, drafts[s].content.version)
    /\ Suspend(r, [pc |-> "publish", skill |-> s, draft |-> drafts[s], activate |-> activate])
    /\ UNCHANGED <<storeVars, registryVars>>

\* SkillRepository.publish up to its commit: the skill row and a second look
\* for the version.
LoadForRelease(r) ==
    LET q == reqs[r] IN
    /\ Resumes(r, "publish")
    /\ IF VersionTaken(q.skill, q.draft.content.version)
       THEN Return(r)
       ELSE Suspend(r, [pc |-> "release", skill |-> q.skill, draft |-> q.draft,
                        activate |-> q.activate, row |-> skills[q.skill]])
    /\ UNCHANGED <<storeVars, registryVars>>

\* Mutant: the report is stored where the checksum belongs.
MisfiledRelease(q) == [skill |-> q.skill, version |-> q.draft.content.version,
                       content |-> q.draft.content, checksum |-> q.draft.report]

NewRelease(q) == [skill |-> q.skill, version |-> q.draft.content.version,
                  content |-> q.draft.content, checksum |-> q.draft.hash]

\* The insert and the skill update commit together; the unique constraint
\* rejects both when the version was released since.
CommitRelease(r) ==
    LET q == reqs[r] IN
    /\ Resumes(r, "release")
    /\ \/ /\ VersionTaken(q.skill, q.draft.content.version)
          /\ Return(r)
          /\ UNCHANGED storeVars
       \/ /\ ~VersionTaken(q.skill, q.draft.content.version)
          /\ \E i \in ReleaseId \ Published :
                /\ releases' = [releases EXCEPT ![i] = NewRelease(q)]
                /\ skills' = [skills EXCEPT ![q.skill] =
                                IF q.activate THEN PointedSkill(@, q.row, i)
                                              ELSE PublishedSkill(@, q.row)]
          /\ IF q.activate THEN ThenRefresh(r) ELSE Return(r)
          /\ UNCHANGED <<drafts, states>>
    /\ UNCHANGED registryVars

\* activate_release, for roll-forward and rollback alike.
Activate(r, i) ==
    /\ Begins(r, "activate")
    /\ i \in Published
    /\ Suspend(r, [pc |-> "activate", skill |-> releases[i].skill, release |-> i,
                   row |-> skills[releases[i].skill]])
    /\ UNCHANGED <<storeVars, registryVars>>

CommitActivate(r) ==
    LET q == reqs[r] IN
    /\ Resumes(r, "activate")
    /\ skills' = [skills EXCEPT ![q.skill] = PointedSkill(@, q.row, q.release)]
    /\ ThenRefresh(r)
    /\ UNCHANGED <<drafts, releases, states, registryVars>>

\* archive: the service has checked the draft's revision; the repository then
\* loads the skill row and commits without looking at the draft again.
Archive(r, s) ==
    /\ Begins(r, "archive")
    /\ drafts[s] # None
    /\ Suspend(r, [pc |-> "archive", skill |-> s])
    /\ UNCHANGED <<storeVars, registryVars>>

LoadForArchive(r) ==
    LET q == reqs[r] IN
    /\ Resumes(r, "archive")
    /\ Suspend(r, [pc |-> "retire", skill |-> q.skill, row |-> skills[q.skill]])
    /\ UNCHANGED <<storeVars, registryVars>>

\* The skill update is flushed first; the runtime state is read under the
\* write lock and set in the same transaction.
CommitArchive(r) ==
    LET q == reqs[r] IN
    /\ Resumes(r, "retire")
    /\ skills' = [skills EXCEPT ![q.skill] = ArchivedSkill(@, q.row)]
    /\ states' = [states EXCEPT ![q.skill] = [enabled |-> FALSE]]
    /\ ThenRefresh(r)
    /\ UNCHANGED <<drafts, releases, registryVars>>

\* set_enabled, for a builtin or a managed skill: the state row, if any.
SetEnabled(r, d, enabled) ==
    /\ Begins(r, "enable")
    /\ d \in Skill => skills[d] # None
    /\ Suspend(r, [pc |-> "enable", id |-> d, enabled |-> enabled, loaded |-> states[d]])
    /\ UNCHANGED <<storeVars, registryVars>>

\* Mutant: only the runtime state is switched.
SkillsUntouched(d, enabled) == skills

\* The managed skill's own enabled column follows; a builtin has none.
SwitchedSkills(d, enabled) ==
    [s \in Skill |-> IF s = d THEN [skills[s] EXCEPT !.enabled = enabled] ELSE skills[s]]

\* A state row another request inserted meanwhile is an IntegrityError.
\* Otherwise the state is flushed first and the skill row read under the lock.
CommitEnabled(r) ==
    LET q == reqs[r] IN
    /\ Resumes(r, "enable")
    /\ \/ /\ q.loaded = None
          /\ states[q.id] # None
          /\ Return(r)
          /\ UNCHANGED storeVars
       \/ /\ q.loaded = None => states[q.id] = None
          /\ states' = [states EXCEPT ![q.id] =
                IF q.loaded = None
                THEN [enabled |-> q.enabled]
                ELSE [enabled |-> Written(q.enabled, q.loaded.enabled, @.enabled)]]
          /\ skills' = SwitchedSkills(q.id, q.enabled)
          /\ ThenRefresh(r)
          /\ UNCHANGED <<drafts, releases>>
    /\ UNCHANGED registryVars

-----------------------------------------------------------------------------
\* refresh_registry: two reads, each at its own await, then one synchronous
\* replacement of both dictionaries.
ReadActive(r) ==
    /\ Resumes(r, "refresh")
    /\ Suspend(r, [pc |-> "overrides", active |-> ActiveReleases])
    /\ UNCHANGED <<storeVars, registryVars>>

ReadOverrides(r) ==
    /\ Resumes(r, "overrides")
    /\ Suspend(r, [pc |-> "install", active |-> reqs[r].active, enabled |-> states])
    /\ UNCHANGED <<storeVars, registryVars>>

Install(r) ==
    /\ Resumes(r, "install")
    /\ managed' = reqs[r].active
    /\ overrides' = reqs[r].enabled
    /\ behind' = FALSE
    /\ Return(r)
    /\ UNCHANGED storeVars

\* One of the reads fails: the request fails with it, what it committed stays,
\* and nothing refreshes the registry again.
RefreshFails(r) ==
    /\ "fail" \in Ops
    /\ reqs[r].pc \in {"refresh", "overrides"}
    /\ behind' = TRUE
    /\ Return(r)
    /\ UNCHANGED <<storeVars, managed, overrides>>

\* The process dies and starts again: the store keeps its commits, requests
\* in flight are gone, and lifespan refreshes the registry before it serves.
Restart ==
    /\ reqs' = [r \in Request |-> Idle]
    /\ managed' = ActiveReleases
    /\ overrides' = states
    /\ behind' = FALSE
    /\ UNCHANGED storeVars

-----------------------------------------------------------------------------
Edit(r) ==
    \/ \E s \in Skill : Create(r, s) \/ Clone(r, s) \/ ValidateDraft(r, s)
    \/ \E s \in Skill, c \in Package : SaveDraft(r, s, c)
    \/ CommitCreate(r) \/ CommitSave(r) \/ LoadForReport(r) \/ CommitReport(r)

Release(r) ==
    \/ \E s \in Skill, activate \in BOOLEAN : Publish(r, s, activate)
    \/ \E i \in ReleaseId : Activate(r, i)
    \/ \E s \in Skill : Archive(r, s)
    \/ LoadForRelease(r) \/ CommitRelease(r) \/ CommitActivate(r)
    \/ LoadForArchive(r) \/ CommitArchive(r)

Switch(r) ==
    \/ \E d \in Id, enabled \in BOOLEAN : SetEnabled(r, d, enabled)
    \/ CommitEnabled(r)

Refresh(r) == ReadActive(r) \/ ReadOverrides(r) \/ Install(r) \/ RefreshFails(r)

Next ==
    \/ \E r \in Request : Edit(r) \/ Release(r) \/ Switch(r) \/ Refresh(r)
    \/ Restart

Spec == Init /\ [][Next]_vars


-----------------------------------------------------------------------------
(* What holds whatever requests overlap. *)

\* Everything ever released is a package the validator accepted, stored with
\* its own checksum and version: publish's test of validated_hash against
\* content_hash is enough although saves and validations write their columns
\* after reading stale rows.
ReleasesValidated ==
    \A i \in Published :
        /\ releases[i].content.body \in ValidBody
        /\ releases[i].checksum = Hash(releases[i].content)
        /\ releases[i].version = releases[i].content.version

\* A skill's active pointer names a release of that skill, and its lifecycle
\* status agrees with its releases: none while it is a draft, some once it is
\* published.
LifecycleConsistent ==
    \A s \in Skill : skills[s] # None =>
        LET own == {i \in Published : releases[i].skill = s} IN
        /\ skills[s].active # None => skills[s].active \in own
        /\ skills[s].status = "draft" => own = {}
        /\ skills[s].status = "published" => own # {}

\* The runtime serves only released packages: no draft, and no mixture of two
\* releases, reaches the registry.
RuntimeServesReleases ==
    \A s \in Skill : managed[s] # None =>
        \E i \in Published :
            /\ releases[i].skill = s
            /\ releases[i].version = managed[s].version
            /\ releases[i].content = managed[s].content

\* The abstract catalog of this state.
EntryOf(i) == [skill |-> releases[i].skill, version |-> releases[i].version,
               content |-> releases[i].content]
PublishedEntries == {EntryOf(i) : i \in Published}
CurrentEntries ==
    [s \in Skill |-> IF skills[s] # None /\ skills[s].active # None
                     THEN EntryOf(skills[s].active) ELSE None]

Catalog == INSTANCE ReleaseCatalog
    WITH Acceptable <- {c \in Package : c.body \in ValidBody},
         catalog <- PublishedEntries, current <- CurrentEntries

\* The store implements the abstract catalog: releases are immutable, a
\* version is released once, and pointers move only to own entries.
ImplementsCatalog == Catalog!Spec

-----------------------------------------------------------------------------
(* What the code promises a single administrator: with one request at a    *)
(* time each of these holds, and overlapping requests break them.          *)

Quiescent == \A r \in Request : reqs[r] = Idle

\* When no request is in flight the registry is what the store says, unless
\* the last refresh failed: the next one makes up for all that were missed.
RegistryMatchesStore ==
    Quiescent /\ ~behind => managed = ActiveReleases /\ overrides = states

\* The enabled flag the admin pages list (managed_skills) is the one the
\* runtime obeys (skill_runtime_states).
EnabledFlagsAgree ==
    \A s \in Skill :
        skills[s] # None /\ states[s] # None => skills[s].enabled = states[s].enabled

\* A validation result that is still stored belongs to the stored content.
ValidationIsCurrent ==
    \A s \in Skill :
        drafts[s] # None /\ drafts[s].validated # None => drafts[s].validated = drafts[s].hash

\* Every change of a draft's content is a new revision of it, so the client
\* holding the old revision is told of it.
RevisionCountsEdits ==
    [][\A s \in Skill :
         drafts[s] # None /\ drafts'[s] # drafts[s] =>
             \/ drafts'[s].revision = drafts[s].revision + 1
             \/ /\ drafts'[s].revision = drafts[s].revision
                /\ drafts'[s].content = drafts[s].content
      ]_drafts

\* An archived skill stays archived: publishing and activating check it.
ArchivedStaysArchived ==
    [][\A s \in Skill :
         skills[s] # None /\ skills[s].status = "archived" => skills'[s].status = "archived"
      ]_skills

=============================================================================
