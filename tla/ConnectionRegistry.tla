------------------------ MODULE ConnectionRegistry ------------------------
(***************************************************************************)
(* The wrappers of adbc_connection.hpp, who shares them, and the process-  *)
(* wide ConnectionRegistry that turns them into BIGINT handles.            *)
(*                                                                         *)
(* A wrapper of a connection owns the wrapper of its database, so the two  *)
(* are one member c of Connection: database[c] and connection[c] say what  *)
(* the driver manager was asked to do with each.  The handle of a          *)
(* connection is the address of its wrapper: an address is free again once *)
(* the wrapper is deleted.                                                 *)
(*                                                                         *)
(* A Caller is one bound plan or one scalar function call: adbc_connect,   *)
(* adbc_disconnect, ATTACH, DETACH or anything that looks a handle up and  *)
(* keeps the shared_ptr (bind data, statement) while it works.  shared_ptr *)
(* counts are not stored: a reference exists where a variable holds c, and *)
(* the thread that gives the last one up runs the destructors.             *)
(*                                                                         *)
(* A lookup that finds nothing throws and changes nothing, so it is no     *)
(* action.  Neither is "Connection has been closed" (adbc_connection.cpp:  *)
(* 12): RegisteredAreOpen shows that no lookup reaches it.                 *)
(***************************************************************************)
EXTENDS Naturals

CONSTANTS
  Caller,       \* plans and function calls that may be under way at once
  Catalog,      \* names of attached databases
  Connection,   \* bound: connection wrappers ever created
  Address,      \* bound: places the allocator may return for one
  None          \* nullptr, end(), "no such"

ASSUME NoneAssumption ==
  None \notin Caller \cup Catalog \cup Connection \cup Address

VARIABLES
  database,          \* [Connection -> Phase] AdbcDatabase of the wrapper
  connection,        \* [Connection -> Phase] AdbcConnection of the wrapper
  address,           \* where the connection wrapper lives, None without one
  connections,       \* [Address -> Connection or None] the registry's map
  attached,          \* [Catalog -> Connection or None] AdbcCatalog::connection
  connection_handle, \* [Catalog -> Address or None]
  pc,                \* where each caller is
  held,              \* the shared_ptr a caller holds
  target,            \* the catalog an ATTACH or a DETACH is about
  statement,         \* callers with an open AdbcStatement
  handle,            \* the BIGINT that Add returned for a connection
  retired            \* connections that adbc_disconnect has removed

wrappers == <<database, connection, address>>
catalogs == <<attached, connection_handle>>
history  == <<handle, retired>>
vars == <<database, connection, address, connections, attached, connection_handle,
          pc, held, target, statement, handle, retired>>

\* "none": AdbcXxxNew not called.  "new": called.  "ready": AdbcXxxInit
\* succeeded, which sets initialized.  "released": AdbcXxxRelease called.
Phase == {"none", "new", "ready", "released"}

Init ==
  /\ database = [c \in Connection |-> "none"]
  /\ connection = [c \in Connection |-> "none"]
  /\ address = [c \in Connection |-> None]
  /\ connections = [a \in Address |-> None]
  /\ attached = [k \in Catalog |-> None]
  /\ connection_handle = [k \in Catalog |-> None]
  /\ pc = [s \in Caller |-> "idle"]
  /\ held = [s \in Caller |-> None]
  /\ target = [s \in Caller |-> None]
  /\ statement = {}
  /\ handle = [c \in Connection |-> None]
  /\ retired = {}

Goto(s, place) == pc' = [pc EXCEPT ![s] = place]

-----------------------------------------------------------------------------
(* References.                                                             *)

Registered(c) == \E a \in Address : connections[a] = c

Shared_RegistryIsWeak(c, s) ==
  \/ \E k \in Catalog : attached[k] = c
  \/ \E t \in Caller \ {s} : held[t] = c

Shared_CatalogIsWeak(c, s) ==
  \/ Registered(c)
  \/ \E t \in Caller \ {s} : held[t] = c

\* Somebody else than s holds a shared_ptr to c.
Shared(c, s) ==
  \/ Registered(c)
  \/ \E k \in Catalog : attached[k] = c
  \/ \E t \in Caller \ {s} : held[t] = c

-----------------------------------------------------------------------------
(* CreateConnectionFromOptions, called by adbc_connect (k = None) or by    *)
(* ATTACH of catalog k.  Missing options throw before anything exists.     *)

\* A free catalog name: the engine admits one ATTACH or DETACH per name.
Unclaimed(k) == \A s \in Caller : target[s] # k

\* make_shared<AdbcDatabaseWrapper>, Init.
DatabaseInit(s, c, k) ==
  /\ pc[s] = "idle"
  /\ database[c] = "none"
  /\ k # None => attached[k] = None /\ Unclaimed(k)
  /\ database' = [database EXCEPT ![c] = "new"]
  /\ held' = [held EXCEPT ![s] = c]
  /\ target' = [target EXCEPT ![s] = k]
  /\ Goto(s, "database")
  /\ UNCHANGED <<connection, address, connections, catalogs, statement, history>>

\* SetLoadFlags and the options, Initialize; make_shared of the connection
\* wrapper at a free address, Init.
ConnectionInit(s, a) ==
  /\ pc[s] = "database"
  /\ \A c \in Connection : address[c] # a
  /\ database' = [database EXCEPT ![held[s]] = "ready"]
  /\ address' = [address EXCEPT ![held[s]] = a]
  /\ connection' = [connection EXCEPT ![held[s]] = "new"]
  /\ Goto(s, "connection")
  /\ UNCHANGED <<connections, catalogs, held, target, statement, history>>

\* Initialize of the connection.
ConnectionInitialize(s) ==
  /\ pc[s] = "connection"
  /\ connection' = [connection EXCEPT ![held[s]] = "ready"]
  /\ Goto(s, "created")
  /\ UNCHANGED <<database, address, connections, catalogs, held, target, statement, history>>

\* A driver call fails: an option or Initialize of the database, New of the
\* connection (the database is ready by then), or Initialize of the
\* connection.  The exception drops the wrapper.
CreateThrows(s) ==
  /\ \/ /\ pc[s] = "database"
        /\ UNCHANGED database
     \/ /\ pc[s] = "database"
        /\ database' = [database EXCEPT ![held[s]] = "ready"]
     \/ /\ pc[s] = "connection"
        /\ UNCHANGED database
  /\ target' = [target EXCEPT ![s] = None]
  /\ Goto(s, "dropping")
  /\ UNCHANGED <<connection, address, connections, catalogs, held, statement, history>>

\* ConnectionRegistry::Add under its mutex.
Add(c) ==
  /\ connections' = [connections EXCEPT ![address[c]] = c]
  /\ handle' = [handle EXCEPT ![c] = address[c]]

\* adbc_connect: the registry gets the only reference.
Connect(s) ==
  /\ pc[s] = "created" /\ target[s] = None
  /\ Add(held[s])
  /\ held' = [held EXCEPT ![s] = None]
  /\ Goto(s, "idle")
  /\ UNCHANGED <<wrappers, catalogs, target, statement, retired>>

\* AdbcCatalog::AdbcCatalog: the catalog keeps a reference, the registry gets
\* a second one.
Attach(s) ==
  /\ pc[s] = "created" /\ target[s] # None
  /\ Add(held[s])
  /\ attached' = [attached EXCEPT ![target[s]] = held[s]]
  /\ connection_handle' = [connection_handle EXCEPT ![target[s]] = address[held[s]]]
  /\ held' = [held EXCEPT ![s] = None]
  /\ target' = [target EXCEPT ![s] = None]
  /\ Goto(s, "idle")
  /\ UNCHANGED <<wrappers, statement, retired>>

-----------------------------------------------------------------------------
(* Using a connection.                                                     *)

\* GetValidatedConnection with any BIGINT: the bind of a table function, or
\* adbc_execute, adbc_commit, adbc_rollback, adbc_set_autocommit.
GetValidatedConnection(s, a) ==
  /\ pc[s] = "idle"
  /\ connections[a] # None
  /\ held' = [held EXCEPT ![s] = connections[a]]
  /\ Goto(s, "bound")
  /\ UNCHANGED <<wrappers, connections, catalogs, target, statement, history>>

\* AdbcTableEntry::GetScanFunction: a table of catalog k is scanned through
\* the handle the catalog registered.
GetScanFunction(s, k) ==
  /\ attached[k] # None /\ Unclaimed(k)
  /\ GetValidatedConnection(s, connection_handle[k])

\* AdbcStatementWrapper::Init; the statement shares the connection.
StatementInit(s) ==
  /\ pc[s] = "bound"
  /\ statement' = statement \cup {s}
  /\ Goto(s, "running")
  /\ UNCHANGED <<wrappers, connections, catalogs, held, target, history>>

\* The statement's wrapper goes with the state that owned it.
StatementRelease(s) ==
  /\ pc[s] = "running"
  /\ statement' = statement \ {s}
  /\ Goto(s, "bound")
  /\ UNCHANGED <<wrappers, connections, catalogs, held, target, history>>

\* Bind data, or the local of a scalar function, goes out of scope.
Unbind(s) ==
  /\ pc[s] = "bound"
  /\ Goto(s, "dropping")
  /\ UNCHANGED <<wrappers, connections, catalogs, held, target, statement, history>>

-----------------------------------------------------------------------------
(* Giving a connection up.                                                 *)

Disconnect_Unchecked(s, a) ==
  /\ pc[s] = "idle"
  /\ held' = [held EXCEPT ![s] = connections[a]]
  /\ retired' = retired \cup {connections[a]}
  /\ connections' = [connections EXCEPT ![a] = None]
  /\ Goto(s, "dropping")
  /\ UNCHANGED <<wrappers, catalogs, target, statement, handle>>

Disconnect_Closes(s, a) ==
  /\ pc[s] = "idle"
  /\ connections[a] # None
  /\ held' = [held EXCEPT ![s] = connections[a]]
  /\ retired' = retired \cup {connections[a]}
  /\ connections' = [connections EXCEPT ![a] = None]
  /\ Goto(s, "closing")
  /\ UNCHANGED <<wrappers, catalogs, target, statement, handle>>

\* adbc_disconnect: ConnectionRegistry::Remove under its mutex; the reference
\* is the caller's until its scope ends.
Disconnect(s, a) ==
  /\ pc[s] = "idle"
  /\ connections[a] # None
  /\ held' = [held EXCEPT ![s] = connections[a]]
  /\ retired' = retired \cup {connections[a]}
  /\ connections' = [connections EXCEPT ![a] = None]
  /\ Goto(s, "dropping")
  /\ UNCHANGED <<wrappers, catalogs, target, statement, handle>>

\* AdbcCatalog::~AdbcCatalog: Remove of whatever the handle denotes by now,
\* nothing when a user has disconnected it already ...
DestroyCatalog(s, k) ==
  /\ pc[s] = "idle"
  /\ attached[k] # None /\ Unclaimed(k)
  /\ target' = [target EXCEPT ![s] = k]
  /\ held' = [held EXCEPT ![s] = connections[connection_handle[k]]]
  /\ connections' = [connections EXCEPT ![connection_handle[k]] = None]
  /\ Goto(s, IF connections[connection_handle[k]] = None THEN "unregistered" ELSE "dropping")
  /\ UNCHANGED <<wrappers, catalogs, statement, history>>

\* ... then the member connection.
DestroyCatalogMembers(s) ==
  /\ pc[s] = "unregistered"
  /\ held' = [held EXCEPT ![s] = attached[target[s]]]
  /\ attached' = [attached EXCEPT ![target[s]] = None]
  /\ connection_handle' = [connection_handle EXCEPT ![target[s]] = None]
  /\ target' = [target EXCEPT ![s] = None]
  /\ Goto(s, "dropping")
  /\ UNCHANGED <<wrappers, connections, statement, history>>

\* Where a caller goes on once its reference is gone.
Resume(s) == Goto(s, IF target[s] = None THEN "idle" ELSE "unregistered")

DropReference_Leak(s) ==
  /\ pc[s] = "dropping"
  /\ held' = [held EXCEPT ![s] = None]
  /\ Resume(s)
  /\ UNCHANGED <<wrappers, connections, catalogs, target, statement, history>>

\* ~shared_ptr: the last reference starts the destructor.
DropReference(s) ==
  /\ pc[s] = "dropping"
  /\ \/ /\ Shared(held[s], s)
        /\ held' = [held EXCEPT ![s] = None]
        /\ Resume(s)
     \/ /\ ~Shared(held[s], s)
        /\ Goto(s, "closing")
        /\ UNCHANGED held
  /\ UNCHANGED <<wrappers, connections, catalogs, target, statement, history>>

\* Release of either wrapper does nothing unless initialized is set.
Released(phase) == IF phase = "ready" THEN "released" ELSE phase

ConnectionRelease_DatabaseFirst(s) ==
  /\ pc[s] = "closing"
  /\ database' = [database EXCEPT ![held[s]] = Released(@)]
  /\ Goto(s, "closing_database")
  /\ UNCHANGED <<connection, address, connections, catalogs, held, target, statement, history>>

\* ~AdbcConnectionWrapper ...
ConnectionRelease(s) ==
  /\ pc[s] = "closing"
  /\ connection' = [connection EXCEPT ![held[s]] = Released(@)]
  /\ Goto(s, "closing_database")
  /\ UNCHANGED <<database, address, connections, catalogs, held, target, statement, history>>

\* ... whose member is the last reference to the database; then the memory is
\* the allocator's again.
DatabaseRelease(s) ==
  /\ pc[s] = "closing_database"
  /\ database' = [database EXCEPT ![held[s]] = Released(@)]
  /\ address' = [address EXCEPT ![held[s]] = None]
  /\ held' = [held EXCEPT ![s] = None]
  /\ Resume(s)
  /\ UNCHANGED <<connection, connections, catalogs, target, statement, history>>

-----------------------------------------------------------------------------
Start(s) ==
  \/ \E c \in Connection, k \in Catalog \cup {None} : DatabaseInit(s, c, k)
  \/ \E a \in Address : GetValidatedConnection(s, a) \/ Disconnect(s, a)
  \/ \E k \in Catalog : GetScanFunction(s, k) \/ DestroyCatalog(s, k)
  \/ StatementInit(s)

Continue(s) ==
  \/ \E a \in Address : ConnectionInit(s, a)
  \/ ConnectionInitialize(s) \/ CreateThrows(s) \/ Connect(s) \/ Attach(s)
  \/ StatementRelease(s)
  \/ DestroyCatalogMembers(s)
  \/ DropReference(s) \/ ConnectionRelease(s) \/ DatabaseRelease(s)

Next == \E s \in Caller : Start(s) \/ Continue(s) \/ Unbind(s)

Spec == Init /\ [][Next]_vars

\* A call that has begun goes on; a plan is closed in the end, however often
\* it was executed in between.  Nobody has to start anything.
FairSpec ==
  /\ Spec
  /\ \A s \in Caller : WF_vars(Continue(s)) /\ SF_vars(Unbind(s))

-----------------------------------------------------------------------------
(* Invariants.                                                             *)

TypeOK ==
  /\ database \in [Connection -> Phase]
  /\ connection \in [Connection -> Phase]
  /\ address \in [Connection -> Address \cup {None}]
  /\ connections \in [Address -> Connection \cup {None}]
  /\ attached \in [Catalog -> Connection \cup {None}]
  /\ connection_handle \in [Catalog -> Address \cup {None}]
  /\ pc \in [Caller -> {"idle", "database", "connection", "created", "bound", "running",
                        "dropping", "closing", "closing_database", "unregistered"}]
  /\ held \in [Caller -> Connection \cup {None}]
  /\ target \in [Caller -> Catalog \cup {None}]
  /\ statement \subseteq Caller
  /\ handle \in [Connection -> Address \cup {None}]
  /\ retired \subseteq Connection

Open(c) == database[c] = "ready" /\ connection[c] = "ready"

\* A handle in the registry is the address of a connection that is open: the
\* map never holds a wrapper that failed to initialize or was closed.
RegisteredAreOpen ==
  \A a \in Address :
    connections[a] # None => address[connections[a]] = a /\ Open(connections[a])

\* A plan, a running statement and an attached catalog find the connection
\* they hold open, whoever disconnects its handle meanwhile.
NoUseAfterRelease ==
  /\ \A s \in Caller : pc[s] \in {"bound", "running"} => Open(held[s])
  /\ \A k \in Catalog : attached[k] # None => Open(attached[k])

\* The driver manager is told to release in the order it requires: statements
\* first, then the connection, then its database.
ReleasedInOrder ==
  /\ \A s \in statement : connection[held[s]] = "ready"
  /\ \A c \in Connection : connection[c] = "ready" => database[c] = "ready"

\* What was initialized and not released has an owner that will release it.
OpenedAreOwned ==
  \A c \in Connection :
    database[c] = "ready" \/ connection[c] = "ready" =>
      Registered(c) \/ (\E k \in Catalog : attached[k] = c) \/ (\E s \in Caller : held[s] = c)

\* The handle a catalog registered never comes to denote another connection:
\* a scan of its tables, and the Remove in its destructor, reach its own.
CatalogHandleIsItsOwn ==
  \A k \in Catalog :
    attached[k] # None => /\ connection_handle[k] # None
                          /\ connections[connection_handle[k]] \in {attached[k], None}

-----------------------------------------------------------------------------
(* Behaviour.                                                              *)

\* Add never overwrites: a registration ends by Remove only.
RegistrationsAreNotOverwritten ==
  [][\A a \in Address : connections[a] # None => connections'[a] \in {connections[a], None}]_vars

\* A connection that was disconnected and belongs to no catalog is closed as
\* soon as the plans that still hold it are gone.
DisconnectedAreClosed ==
  \A c \in Connection :
    (c \in retired /\ \A k \in Catalog : attached[k] # c) ~> connection[c] = "released"

\* test/sql/adbc_connect.test:53: "connection is invalid after disconnect".
InvalidAfterDisconnect ==
  \A c \in retired : connections[handle[c]] = None

=============================================================================
