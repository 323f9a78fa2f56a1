----------------------------- MODULE SkillStore -----------------------------
(***************************************************************************)
(* The skill tables of the SQLite store (persistence/models.py) and what   *)
(* one commit of a SkillRepository session writes to a row.                *)
(*                                                                         *)
(* A session is one SELECT followed by one commit.  SELECTs run outside a  *)
(* transaction; the first flushed statement takes SQLite's write lock and  *)
(* the commit releases it, so everything flushed by a session is written   *)
(* in one step.  An UPDATE goes by primary key with no version check, and  *)
(* SQLAlchemy puts into it only the columns whose assigned value differs   *)
(* from the value the session LOADED (operator Written).                   *)
(***************************************************************************)
EXTENDS Naturals

CONSTANTS
    Skill,          \* ids of managed skills
    Builtin,        \* ids of skills loaded from files, never in managed_skills
    Version,        \* SemVer versions
    InitialVersion, \* the version of a starter or cloned package, "0.0.0"
    Body,           \* what a package holds besides its version
    ValidBody,      \* the bodies SkillValidator reports no error for
    StarterBody,    \* the body of SkillDraftContent.starter
    ReleaseId,      \* uuid4 primary keys of skill_releases
    None            \* SQL NULL, or "no such row"

ASSUME StoreAssumption ==
    /\ InitialVersion \in Version
    /\ StarterBody \in Body
    /\ ValidBody \subseteq Body
    /\ Skill \cap Builtin = {}

Id == Skill \cup Builtin

Package == [version : Version, body : Body]
Digest == [sha256 : Package]
Hash(c) == [sha256 |-> c]

Starter == [version |-> InitialVersion, body |-> StarterBody]
CloneOf(c) == [c EXCEPT !.version = InitialVersion]

Report == [valid : BOOLEAN, hash : Digest]
Validate(c, hash) == [valid |-> c.body \in ValidBody, hash |-> hash]

SkillRow == [status : {"draft", "published", "archived"},
             enabled : BOOLEAN,
             active : ReleaseId \cup {None}]

DraftRow == [revision : Nat,
             content : Package,
             hash : Digest,
             validated : Digest \cup {None},
             report : Report \cup {None}]

ReleaseRow == [skill : Skill, version : Version, content : Package, checksum : Digest]

StateRow == [enabled : BOOLEAN]

LoadedSkill == [version : Version, content : Package, enabled : BOOLEAN]

\* NULL is no value of any column, and no row.
ASSUME NullAssumption ==
    /\ None \notin ReleaseId
    /\ None \notin Digest
    /\ None \notin Report
    /\ None \notin SkillRow
    /\ None \notin DraftRow
    /\ None \notin ReleaseRow
    /\ None \notin StateRow
    /\ None \notin LoadedSkill

\* The value a column holds after an UPDATE by a session that loaded `loaded`
\* and assigned `assigned`, the row now holding `stored`.
Written(assigned, loaded, stored) == IF assigned = loaded THEN stored ELSE assigned

NewSkill == [status |-> "draft", enabled |-> TRUE, active |-> None]

NewDraft(c) == [revision |-> 1, content |-> c, hash |-> Hash(c),
                validated |-> None, report |-> None]

\* Mutant: the save keeps the validation result of the content it replaces.
SavedKeepingReport(stored, loaded, c) ==
    [stored EXCEPT !.revision = loaded.revision + 1, !.content = c, !.hash = Hash(c)]

\* Mutant: the save does not count a revision.
SavedUncounted(stored, loaded, c) ==
    [stored EXCEPT !.content = c, !.hash = Hash(c), !.validated = None, !.report = None]

SavedDraft(stored, loaded, c) ==
    [revision  |-> Written(loaded.revision + 1, loaded.revision, stored.revision),
     content   |-> Written(c, loaded.content, stored.content),
     hash      |-> Written(Hash(c), loaded.hash, stored.hash),
     validated |-> Written(None, loaded.validated, stored.validated),
     report    |-> Written(None, loaded.report, stored.report)]

ValidatedDraft(stored, loaded, seen) ==
    [stored EXCEPT
       !.validated = Written(seen.hash, loaded.validated, stored.validated),
       !.report = Written(Validate(seen.content, seen.hash), loaded.report, stored.report)]

\* The columns publish(activate = TRUE) and activate_release write.
PointedSkill(stored, loaded, release) ==
    [stored EXCEPT
       !.status = Written("published", loaded.status, stored.status),
       !.active = Written(release, loaded.active, stored.active)]

\* Mutant: publishing without activation leaves the lifecycle status alone.
PublishedKeepingStatus(stored, loaded) == stored

PublishedSkill(stored, loaded) ==
    [stored EXCEPT !.status = Written("published", loaded.status, stored.status)]

\* Mutant: archiving forgets which release was active.
ArchivedUnpointed(stored, loaded) ==
    [stored EXCEPT !.status = "archived", !.enabled = FALSE, !.active = None]

ArchivedSkill(stored, loaded) ==
    [stored EXCEPT
       !.status = Written("archived", loaded.status, stored.status),
       !.enabled = Written(FALSE, loaded.enabled, stored.enabled)]

-----------------------------------------------------------------------------
VARIABLES
    skills,     \* managed_skills, by id
    drafts,     \* skill_drafts, by skill id
    releases,   \* skill_releases, by primary key
    states      \* skill_runtime_states, by skill id

storeVars == <<skills, drafts, releases, states>>

StoreTypeOK ==
    /\ skills \in [Skill -> SkillRow \cup {None}]
    /\ drafts \in [Skill -> DraftRow \cup {None}]
    /\ releases \in [ReleaseId -> ReleaseRow \cup {None}]
    /\ states \in [Id -> StateRow \cup {None}]

StoreInit ==
    /\ skills = [s \in Skill |-> None]
    /\ drafts = [s \in Skill |-> None]
    /\ releases = [i \in ReleaseId |-> None]
    /\ states = [d \in Id |-> None]

Published == {i \in ReleaseId : releases[i] # None}

\* The UNIQUE(skill_id, version) constraint would reject this version.
VersionTaken(s, v) ==
    \E i \in Published : releases[i].skill = s /\ releases[i].version = v

\* SkillRepository.active_releases, as refresh_registry turns it into
\* LoadedSkills: what the runtime is meant to serve.
Served(s) ==
    /\ skills[s] # None
    /\ skills[s].status = "published"
    /\ skills[s].active \in Published

\* Mutant: the registry is loaded from the drafts of the served skills.
ActiveDrafts ==
    [s \in Skill |->
        IF Served(s)
        THEN [version |-> drafts[s].content.version, content |-> drafts[s].content,
              enabled |-> skills[s].enabled]
        ELSE None]

ActiveReleases ==
    [s \in Skill |->
        IF Served(s)
        THEN [version |-> releases[skills[s].active].version,
              content |-> releases[skills[s].active].content,
              enabled |-> skills[s].enabled]
        ELSE None]

=============================================================================
