---------------------------- MODULE CatalogSet ----------------------------
(***************************************************************************)
(* AdbcCatalogSet (src/src/storage/adbc_catalog_set.cpp): the lazily       *)
(* loaded cache of one level of an attached database, its schemas or the   *)
(* tables of one schema, under two mutexes.  load_lock is held by one      *)
(* caller through a whole LoadEntries; entry_lock only inside one look-up, *)
(* scan, insertion or clear, each of which is one action here.             *)
(*                                                                         *)
(* LoadEntries asks the driver once (GetObjects) and then inserts what it  *)
(* was told, one entry at a time.  The schemas are collected in a set, the *)
(* tables in a vector that may name one table several times; and a table   *)
(* whose columns cannot be made ends the load with an exception, which     *)
(* leaves what was inserted in a set that is not loaded.  An entry is the  *)
(* generation of a name: inserting a name again replaces the object, and   *)
(* whoever holds the old pointer holds a dangling one.                     *)
(***************************************************************************)
EXTENDS Naturals

CONSTANTS
  Caller,         \* statements that use the catalog at the same time
  Name, Fold,     \* names, and the folding of case_insensitive_map_t
  InitialRemote,  \* at each level, names the remote database has at the start
  Fallback,       \* the schemas of a driver that named none: {main}
  MaxTimes,       \* bound: how often the driver's answer holds one table name
  MaxThrows,      \* bound: loads that end with an exception
  MaxClears       \* bound: calls of adbc_clear_cache

Level == {"schemas", "tables"}

ASSUME CatalogSetAssumption ==
  /\ InitialRemote \in [Level -> SUBSET Name] /\ Fallback \subseteq Name
  /\ Name \subseteq DOMAIN Fold
  /\ MaxTimes \in Nat /\ MaxThrows \in Nat /\ MaxClears \in Nat

VARIABLES
  \* AdbcCatalogSet
  level,       \* which set this is: AdbcSchemaSet, or the AdbcTableSet of a schema
  entries,     \* [Name -> generation], 0 for a name that is not a key
  entry_map,   \* folded name -> name
  is_loaded,
  load_lock,   \* callers that are inside TryLoadEntries' critical section
  \* the callers
  pc,
  schema_name, \* names whose CREATE SCHEMA each statement is executing
  todo,        \* how often LoadEntries has still to insert each name
  refs,        \* CatalogEntry pointers a statement holds: <<name, generation>>
  \* the remote database
  remote,
  \* history
  generation,  \* objects made so far under each name
  clears,      \* calls of ClearEntries so far
  throws,      \* loads that have ended with an exception
  answered,    \* names the last GetObjects returned, and when:
  answered_at, \* the value of clears
  overlapped   \* a clear has run in the middle of a statement, or two
               \* CREATE SCHEMA side by side

cache   == <<level, entries, entry_map, is_loaded>>
history == <<clears, throws, answered, answered_at, overlapped>>
vars == <<level, entries, entry_map, is_loaded, load_lock, pc, schema_name, todo, refs, remote,
          generation, clears, throws, answered, answered_at, overlapped>>

Key == {Fold[n] : n \in Name}
Cached == {n \in Name : entries[n] # 0}
Nothing == [n \in Name |-> 0]

Init ==
  /\ level \in Level
  /\ entries = Nothing
  /\ entry_map = [x \in {} |-> x]
  /\ is_loaded = FALSE
  /\ load_lock = {}
  /\ pc = [t \in Caller |-> "idle"]
  /\ schema_name = [t \in Caller |-> {}]
  /\ todo = [t \in Caller |-> Nothing]
  /\ refs = [t \in Caller |-> {}]
  /\ remote = InitialRemote[level]
  /\ generation = Nothing
  /\ clears = 0 /\ throws = 0 /\ answered = {} /\ answered_at = 0 /\ overlapped = FALSE

Goto(t, place) == pc' = [pc EXCEPT ![t] = place]

\* A statement asks for an entry, for all of them, or for a new schema; which
\* matters only once the set is loaded.
Begin(t) ==
  /\ pc[t] = "idle"
  /\ Goto(t, "trying")
  /\ UNCHANGED <<cache, load_lock, schema_name, todo, refs, remote, generation, history>>

-----------------------------------------------------------------------------
(* TryLoadEntries.                                                         *)

\* The first test of is_loaded, without the lock.
TryLoadEntries(t) ==
  /\ pc[t] = "trying"
  /\ Goto(t, IF is_loaded THEN "ready" ELSE "locking")
  /\ UNCHANGED <<cache, load_lock, schema_name, todo, refs, remote, generation, history>>

LockLoad_NoRecheck(t) ==
  /\ pc[t] = "locking"
  /\ load_lock = {}
  /\ Goto(t, "loading") /\ load_lock' = {t}
  /\ UNCHANGED <<cache, schema_name, todo, refs, remote, generation, history>>

\* load_lock is taken and is_loaded tested again.
LockLoad(t) ==
  /\ pc[t] = "locking"
  /\ load_lock = {}
  /\ IF is_loaded THEN Goto(t, "ready") /\ UNCHANGED load_lock
                  ELSE Goto(t, "loading") /\ load_lock' = {t}
  /\ UNCHANGED <<cache, schema_name, todo, refs, remote, generation, history>>

\* GetObjects answers with each name so many times.
LoadEntries(t, times) ==
  /\ pc[t] = "loading"
  /\ todo' = [todo EXCEPT ![t] = times]
  /\ answered' = {n \in Name : times[n] # 0}
  /\ answered_at' = clears
  /\ Goto(t, "inserting")
  /\ UNCHANGED <<cache, load_lock, schema_name, refs, remote, generation,
                 clears, throws, overlapped>>

Once(names) == [n \in Name |-> IF n \in names THEN 1 ELSE 0]

\* AdbcSchemaSet: an exception or an error in the middle of the stream is
\* swallowed, the answer is just smaller; and it is never empty.
LoadSchemas(t) ==
  /\ level = "schemas"
  /\ \E names \in SUBSET remote : LoadEntries(t, Once(IF names = {} THEN Fallback ELSE names))

\* AdbcTableSet: likewise, a table whose schema the driver refuses being left
\* out too.  Schemas of one name in several catalogs, or the schema main and
\* one without a name, each add their tables to the vector.
LoadTables(t) ==
  /\ level = "tables"
  /\ \E times \in [Name -> 0 .. MaxTimes] :
       /\ \A n \in Name \ remote : times[n] = 0
       /\ LoadEntries(t, times)

\* CreateEntry under entry_lock: both maps, replacing what was there.
CreateEntry(n) ==
  /\ generation' = [generation EXCEPT ![n] = @ + 1]
  /\ entries' = [entries EXCEPT ![n] = generation'[n]]
  /\ entry_map' = [k \in DOMAIN entry_map \cup {Fold[n]} |->
                     IF k = Fold[n] THEN n ELSE entry_map[k]]

InsertLoaded(t) ==
  /\ pc[t] = "inserting"
  /\ \E n \in Name :
       /\ todo[t][n] # 0
       /\ CreateEntry(n)
       /\ todo' = [todo EXCEPT ![t][n] = @ - 1]
  /\ UNCHANGED <<level, is_loaded, load_lock, pc, schema_name, refs, remote, history>>

LoadThrows_MarksLoaded(t) ==
  /\ level = "tables" /\ throws < MaxThrows
  /\ pc[t] = "inserting" /\ todo[t] # Nothing
  /\ throws' = throws + 1
  /\ is_loaded' = TRUE
  /\ load_lock' = load_lock \ {t}
  /\ todo' = [todo EXCEPT ![t] = Nothing]
  /\ Goto(t, "idle")
  /\ UNCHANGED <<level, entries, entry_map, schema_name, refs, remote, generation,
                 clears, answered, answered_at, overlapped>>

\* AddColumn refuses a column of the next table (two that differ in case only):
\* the exception leaves LoadEntries, which does not catch it, releases
\* load_lock and ends the statement.
LoadThrows(t) ==
  /\ level = "tables" /\ throws < MaxThrows
  /\ pc[t] = "inserting" /\ todo[t] # Nothing
  /\ throws' = throws + 1
  /\ load_lock' = load_lock \ {t}
  /\ todo' = [todo EXCEPT ![t] = Nothing]
  /\ Goto(t, "idle")
  /\ UNCHANGED <<cache, schema_name, refs, remote, generation,
                 clears, answered, answered_at, overlapped>>

FinishLoad_Early(t) ==
  /\ pc[t] = "inserting"
  /\ is_loaded' = TRUE
  /\ load_lock' = load_lock \ {t}
  /\ Goto(t, "ready")
  /\ UNCHANGED <<level, entries, entry_map, schema_name, todo, refs, remote, generation, history>>

FinishLoad_KeepsLock(t) ==
  /\ pc[t] = "inserting"
  /\ todo[t] = Nothing
  /\ is_loaded' = TRUE
  /\ Goto(t, "ready")
  /\ UNCHANGED <<level, entries, entry_map, load_lock, schema_name, todo, refs, remote, generation, history>>

\* LoadEntries has returned: is_loaded is set and load_lock given back.
FinishLoad(t) ==
  /\ pc[t] = "inserting"
  /\ todo[t] = Nothing
  /\ is_loaded' = TRUE
  /\ load_lock' = load_lock \ {t}
  /\ Goto(t, "ready")
  /\ UNCHANGED <<level, entries, entry_map, schema_name, todo, refs, remote, generation, history>>

-----------------------------------------------------------------------------
(* After TryLoadEntries.                                                   *)

\* What GetEntry finds under a name: nothing or one entry.
Found(n) ==
  {<<m, entries[m]>> : m \in {m \in Cached : Fold[n] \in DOMAIN entry_map
                                             /\ entry_map[Fold[n]] = m}}

GetEntry(t, n) ==
  /\ pc[t] = "ready"
  /\ refs' = [refs EXCEPT ![t] = Found(n)]
  /\ Goto(t, "using")
  /\ UNCHANGED <<cache, load_lock, schema_name, todo, remote, generation, history>>

\* Scan: the callback sees every entry while entry_lock is held, and keeps
\* pointers to them.
Scan(t) ==
  /\ pc[t] = "ready"
  /\ refs' = [refs EXCEPT ![t] = {<<n, entries[n]>> : n \in Cached}]
  /\ Goto(t, "using")
  /\ UNCHANGED <<cache, load_lock, schema_name, todo, remote, generation, history>>

Overtakes ==
  overlapped' = (overlapped \/ \E u \in Caller : pc[u] \in {"creating", "storing"})

CreateSchema_Unchecked(t, n) ==
  /\ level = "schemas"
  /\ pc[t] = "ready"
  /\ schema_name' = [schema_name EXCEPT ![t] = {n}]
  /\ Goto(t, "creating")
  /\ Overtakes
  /\ UNCHANGED <<cache, load_lock, todo, refs, remote, generation,
                 clears, throws, answered, answered_at>>

\* AdbcCatalog::CreateSchema: an entry that exists ends it (nullptr with IF
\* NOT EXISTS, otherwise an exception).
CreateSchema(t, n) ==
  /\ level = "schemas"
  /\ pc[t] = "ready"
  /\ IF Found(n) = {}
       THEN Goto(t, "creating") /\ schema_name' = [schema_name EXCEPT ![t] = {n}]
       ELSE Goto(t, "using") /\ UNCHANGED schema_name
  /\ Overtakes
  /\ UNCHANGED <<cache, load_lock, todo, refs, remote, generation,
                 clears, throws, answered, answered_at>>

\* AdbcSchemaSet::CreateSchema runs the statement at the remote database,
\* which takes it with IF NOT EXISTS even where it has the schema ...
ExecuteCreateSchema(t) ==
  /\ pc[t] = "creating"
  /\ remote' = remote \cup schema_name[t]
  /\ Goto(t, "storing")
  /\ UNCHANGED <<cache, load_lock, schema_name, todo, refs, generation, history>>

\* ... or refuses it, ...
ExecuteCreateSchemaThrows(t) ==
  /\ pc[t] = "creating"
  /\ Goto(t, "using")
  /\ schema_name' = [schema_name EXCEPT ![t] = {}]
  /\ UNCHANGED <<cache, load_lock, todo, refs, remote, generation, history>>

\* ... and caches the entry, whose pointer the statement gets.
StoreSchema(t) ==
  /\ pc[t] = "storing"
  /\ \E n \in schema_name[t] :
       /\ CreateEntry(n)
       /\ refs' = [refs EXCEPT ![t] = {<<n, generation'[n]>>}]
  /\ schema_name' = [schema_name EXCEPT ![t] = {}]
  /\ Goto(t, "using")
  /\ UNCHANGED <<level, is_loaded, load_lock, todo, remote, history>>

\* The statement ends and lets its pointers go.
End(t) ==
  /\ pc[t] = "using"
  /\ refs' = [refs EXCEPT ![t] = {}]
  /\ Goto(t, "idle")
  /\ UNCHANGED <<cache, load_lock, schema_name, todo, remote, generation, history>>

Interrupts == overlapped' = (overlapped \/ \E t \in Caller : pc[t] # "idle")

ClearEntries_KeepsLoaded ==
  /\ clears < MaxClears
  /\ entries' = Nothing
  /\ entry_map' = [x \in {} |-> x]
  /\ clears' = clears + 1
  /\ Interrupts
  /\ UNCHANGED <<level, is_loaded, load_lock, pc, schema_name, todo, refs, remote,
                 generation, throws, answered, answered_at>>

\* adbc_clear_cache, from any session at any time: ClearEntries under
\* entry_lock only.
ClearEntries ==
  /\ clears < MaxClears
  /\ entries' = Nothing
  /\ entry_map' = [x \in {} |-> x]
  /\ is_loaded' = FALSE
  /\ clears' = clears + 1
  /\ Interrupts
  /\ UNCHANGED <<level, load_lock, pc, schema_name, todo, refs, remote,
                 generation, throws, answered, answered_at>>

-----------------------------------------------------------------------------
Proceed(t) ==
  \/ TryLoadEntries(t) \/ LockLoad(t) \/ LoadSchemas(t) \/ LoadTables(t)
  \/ InsertLoaded(t) \/ LoadThrows(t) \/ FinishLoad(t)
  \/ \E n \in Name : GetEntry(t, n) \/ CreateSchema(t, n)
  \/ Scan(t)
  \/ ExecuteCreateSchema(t) \/ ExecuteCreateSchemaThrows(t) \/ StoreSchema(t)
  \/ End(t)

Next ==
  \/ \E t \in Caller : Begin(t) \/ Proceed(t)
  \/ ClearEntries

Spec == Init /\ [][Next]_vars

\* A statement that has begun goes on; a mutex that is given back again and
\* again is granted in the end to each that waits for it.
FairSpec ==
  Spec /\ \A t \in Caller : WF_vars(Proceed(t)) /\ SF_vars(LockLoad(t))

-----------------------------------------------------------------------------
(* Invariants.                                                             *)

TypeOK ==
  /\ level \in Level
  /\ entries \in [Name -> Nat]
  /\ DOMAIN entry_map \subseteq Key
  /\ \A k \in DOMAIN entry_map : entry_map[k] \in Name
  /\ is_loaded \in BOOLEAN
  /\ load_lock \subseteq Caller
  /\ pc \in [Caller -> {"idle", "trying", "locking", "loading", "inserting", "ready",
                        "creating", "storing", "using"}]
  /\ schema_name \in [Caller -> SUBSET Name]
  /\ todo \in [Caller -> [Name -> Nat]]
  /\ \A t \in Caller : todo[t] # Nothing => pc[t] = "inserting"
  /\ refs \in [Caller -> SUBSET (Name \X Nat)]
  /\ remote \subseteq Name
  /\ generation \in [Name -> Nat]
  /\ clears \in Nat /\ throws \in Nat /\ answered \subseteq Name /\ answered_at \in Nat
  /\ overlapped \in BOOLEAN

\* The two maps agree: every key of entry_map leads to a cached entry that is
\* spelled like it, and every cached entry's spelling leads somewhere.  So the
\* second end() test of GetEntry (adbc_catalog_set.cpp:34) never succeeds.
MapsAgree ==
  /\ \A k \in DOMAIN entry_map : entry_map[k] \in Cached /\ Fold[entry_map[k]] = k
  /\ \A n \in Cached : Fold[n] \in DOMAIN entry_map

\* At most one caller is between the second test of is_loaded and the setting
\* of it, however many ask for the first time at once.
OneLoadAtATime ==
  /\ \A t, u \in load_lock : t = u
  /\ \A t \in Caller : pc[t] \in {"loading", "inserting"} <=> t \in load_lock

\* A set that calls itself loaded answers for every name the driver told it
\* of: no caller gets past TryLoadEntries to a half-filled set, be it one that
\* another caller is filling or one whose load ended with an exception.  A
\* clear in the middle of a load breaks this (see ClearForgets).
LoadedIsComplete ==
  is_loaded /\ ~overlapped => \A n \in answered : Found(n) # {}

\* A pointer that a statement took from the cache is still the cache's: the
\* object is not replaced or destroyed under it by any load, scan or single
\* CREATE SCHEMA.  A load does replace entries, when a name comes twice or an
\* earlier load left some, but only while nobody holds a pointer.
PointersStayValid ==
  ~overlapped => \A t \in Caller : \A r \in refs[t] : entries[r[1]] = r[2]

\* adbc_clear_cache.cpp:44: "Clear the cached schema and table metadata" - a
\* set that calls itself loaded was loaded from an answer the driver gave
\* after the last clear.
ClearForgets == is_loaded => answered_at = clears

\* The same where no clear ran in the middle of a statement.
QuietClearForgets == ~overlapped => ClearForgets

-----------------------------------------------------------------------------
(* Behaviour.                                                              *)

\* Once a set is loaded what is cached stays the same object, without a clear
\* or two CREATE SCHEMA at once: a caller that was waiting for load_lock loads
\* no second time, and CREATE SCHEMA only adds.
LoadedOnlyGrows ==
  [][is_loaded /\ clears' = clears /\ ~overlapped' =>
       \A n \in Name : entries[n] # 0 => entries'[n] = entries[n]]_vars

\* Every statement that waits for the catalog gets its answer.
StatementsEnd == \A t \in Caller : pc[t] # "idle" ~> pc[t] = "idle"

=============================================================================
