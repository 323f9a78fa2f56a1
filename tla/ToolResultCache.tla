--------------------------- MODULE ToolResultCache ---------------------------
(***************************************************************************)
(* The persistent cache of script results (tools/result_cache.py over      *)
(* ToolResultCacheRepository): one row per cache key, each with the time   *)
(* it stops being served.  A key is a digest of the scope, the skill       *)
(* version, the script and its normalised arguments; of a result the       *)
(* cache tells only whether the script succeeded.                          *)
(***************************************************************************)
EXTENDS Integers

CONSTANTS
    Key,            \* cache keys
    Ttl,            \* manifest.cache.ttl_seconds
    ErrorTtl,       \* manifest.cache.error_ttl_seconds
    MaxTime,        \* bound: the clock stops here
    None

ASSUME CacheAssumption ==
    /\ Ttl \in Nat
    /\ ErrorTtl \in Nat
    /\ MaxTime \in Nat

VARIABLES
    now,            \* utc_now()
    table           \* tool_result_cache, by cache key

cacheVars == <<now, table>>

Row == [ok : BOOLEAN, created : 0..MaxTime, expires : Nat]

\* "No row" is not a row.
ASSUME NullAssumption == None \notin Row

CacheTypeOK ==
    /\ now \in 0..MaxTime
    /\ table \in [Key -> Row \cup {None}]

CacheInit ==
    /\ now = 0
    /\ table = [k \in Key |-> None]

TtlOf(ok) == IF ok THEN Ttl ELSE ErrorTtl

\* Mutant: rows are served whatever their age.
AnyRow(row) == row # None

\* resolve: the row may answer a call made now.
Live(row) == row # None /\ now < row.expires

\* What upsert leaves in the row, whether it was inserted or overwritten.
NewRow(ok, expires) == [ok |-> ok, created |-> now, expires |-> expires]

\* upsert, from the row its SELECT found to its commit: a row inserted
\* meanwhile makes the insert fail, and the caller goes on without it.
Upserted(k, found, ok, expires) ==
    IF found = None /\ table[k] # None
    THEN table
    ELSE [table EXCEPT ![k] = NewRow(ok, expires)]

\* Time passes.
Tick ==
    /\ now < MaxTime
    /\ now' = now + 1
    /\ UNCHANGED table

\* Another run stores a result of its own, its expiry computed now or a
\* moment ago.
StoredElsewhere(k) ==
    /\ \E ok \in BOOLEAN, since \in 0..now :
          /\ TtlOf(ok) > 0
          /\ table' = [table EXCEPT ![k] = NewRow(ok, since + TtlOf(ok))]
    /\ UNCHANGED now

=============================================================================
