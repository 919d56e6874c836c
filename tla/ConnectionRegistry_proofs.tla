--------------------- MODULE ConnectionRegistry_proofs ---------------------
(***************************************************************************)
(* Theorems about ConnectionRegistry, for any number of callers, catalogs, *)
(* connections and addresses.                                              *)
(***************************************************************************)
EXTENDS ConnectionRegistry, TLAPS

-----------------------------------------------------------------------------
(* The inductive invariant, in parts.                                      *)

\* What a caller holds and which state the wrapper is in, place by place.
Places ==
  \A s \in Caller :
    /\ pc[s] = "idle" => held[s] = None /\ target[s] = None
    /\ pc[s] = "unregistered" => held[s] = None /\ target[s] # None
    /\ pc[s] \notin {"idle", "unregistered"} => held[s] # None
    /\ held[s] # None => database[held[s]] # "none"
    /\ pc[s] = "database" => database[held[s]] = "new" /\ address[held[s]] = None
    /\ pc[s] = "connection" => database[held[s]] = "ready" /\ address[held[s]] # None
    /\ pc[s] \in {"created", "bound", "running"} =>
         Open(held[s]) /\ address[held[s]] # None
    /\ pc[s] = "closing_database" => connection[held[s]] # "ready"
    /\ s \in statement <=> pc[s] = "running"

\* A wrapper under construction or destruction has exactly one reference.
Sole ==
  \A s \in Caller :
    pc[s] \in {"database", "connection", "created", "closing", "closing_database"}
      => ~Shared(held[s], s)

\* Two wrappers are never in one place, and an open connection has a place
\* and an open database.
Placement ==
  /\ \A c, d \in Connection : address[c] = address[d] /\ address[c] # None => c = d
  /\ \A c \in Connection : connection[c] = "ready" =>
       address[c] # None /\ database[c] = "ready"
  /\ \A c \in Connection : database[c] = "none" =>
       address[c] = None /\ connection[c] = "none"

\* An attached catalog holds an open connection and knows its address.
Attachments ==
  \A k \in Catalog :
    attached[k] # None => /\ Open(attached[k])
                          /\ connection_handle[k] # None
                          /\ address[attached[k]] = connection_handle[k]

\* One caller at a time is busy with a catalog, creating it or taking it down.
Targets ==
  /\ \A s, t \in Caller : target[s] = target[t] /\ target[s] # None => s = t
  /\ \A s \in Caller : target[s] # None =>
       IF pc[s] \in {"database", "connection", "created"}
         THEN attached[target[s]] = None
         ELSE attached[target[s]] # None

IInv ==
  /\ TypeOK /\ Places /\ Sole /\ Placement /\ Attachments /\ Targets
  /\ RegisteredAreOpen /\ OpenedAreOwned

-----------------------------------------------------------------------------
(* The invariant holds initially, and each part survives every step.       *)

\* Nothing exists at first.
LEMMA InitIInv == Init => IInv
  BY NoneAssumption DEF Init, IInv, TypeOK, Places, Sole, Placement, Attachments, Targets,
     RegisteredAreOpen, OpenedAreOwned, Open, Registered, Shared, Phase


\* The place of a wrapper that is being added is free in the registry: a
\* connection registered there would be the same one, and it is not shared.
LEMMA AddIsFresh ==
  ASSUME IInv, NEW s \in Caller, pc[s] = "created"
  PROVE  /\ held[s] \in Connection /\ address[held[s]] \in Address
         /\ connections[address[held[s]]] = None
<1>1. held[s] \in Connection /\ address[held[s]] \in Address
  BY NoneAssumption DEF IInv, TypeOK, Places
<1>2. SUFFICES ASSUME connections[address[held[s]]] # None  PROVE FALSE
  BY <1>1
<1>3. /\ connections[address[held[s]]] \in Connection
      /\ address[connections[address[held[s]]]] = address[held[s]]
  BY <1>1, <1>2 DEF IInv, TypeOK, RegisteredAreOpen
<1>4. connections[address[held[s]]] = held[s]
  BY <1>1, <1>3, NoneAssumption DEF IInv, Placement
<1>5. QED  BY <1>1, <1>4 DEF IInv, Sole, Shared, Registered

\* Every step keeps the types.
LEMMA TypesStep ==
  ASSUME IInv, [Next]_vars
  PROVE  TypeOK'
<1>1. CASE UNCHANGED vars
  BY <1>1 DEF vars,
           IInv, TypeOK, Phase, Places, RegisteredAreOpen, Attachments, Targets
<1>2. ASSUME NEW s \in Caller, NEW c \in Connection, NEW k \in Catalog \cup {None},
             DatabaseInit(s, c, k)
      PROVE  TypeOK'
  BY <1>2, NoneAssumption DEF
           IInv, TypeOK, Phase, Places, RegisteredAreOpen, Attachments, Targets,
           DatabaseInit, Goto, Unclaimed, catalogs, history
<1>3. ASSUME NEW s \in Caller, NEW a \in Address,
             ConnectionInit(s, a)
      PROVE  TypeOK'
  BY <1>3, NoneAssumption DEF
           IInv, TypeOK, Phase, Places, RegisteredAreOpen, Attachments, Targets,
           ConnectionInit, Goto, catalogs, history
<1>4. ASSUME NEW s \in Caller,
             ConnectionInitialize(s)
      PROVE  TypeOK'
  BY <1>4, NoneAssumption DEF
           IInv, TypeOK, Phase, Places, RegisteredAreOpen, Attachments, Targets,
           ConnectionInitialize, Goto, catalogs, history
<1>5. ASSUME NEW s \in Caller,
             CreateThrows(s)
      PROVE  TypeOK'
  BY <1>5, NoneAssumption DEF
           IInv, TypeOK, Phase, Places, RegisteredAreOpen, Attachments, Targets,
           CreateThrows, Goto, catalogs, history
<1>6. ASSUME NEW s \in Caller,
             Connect(s)
      PROVE  TypeOK'
  BY <1>6, NoneAssumption DEF
           IInv, TypeOK, Phase, Places, RegisteredAreOpen, Attachments, Targets,
           Connect, Add, Goto, wrappers, catalogs
<1>7. ASSUME NEW s \in Caller,
             Attach(s)
      PROVE  TypeOK'
  BY <1>7, NoneAssumption DEF
           IInv, TypeOK, Phase, Places, RegisteredAreOpen, Attachments, Targets,
           Attach, Add, Goto, wrappers
<1>8. ASSUME NEW s \in Caller, NEW a \in Address,
             GetValidatedConnection(s, a)
      PROVE  TypeOK'
  BY <1>8, NoneAssumption DEF
           IInv, TypeOK, Phase, Places, RegisteredAreOpen, Attachments, Targets,
           GetValidatedConnection, Goto, wrappers, catalogs, history
<1>9. ASSUME NEW s \in Caller,
             StatementInit(s)
      PROVE  TypeOK'
  BY <1>9, NoneAssumption DEF
           IInv, TypeOK, Phase, Places, RegisteredAreOpen, Attachments, Targets,
           StatementInit, Goto, wrappers, catalogs, history
<1>10. ASSUME NEW s \in Caller,
             StatementRelease(s)
      PROVE  TypeOK'
  BY <1>10, NoneAssumption DEF
           IInv, TypeOK, Phase, Places, RegisteredAreOpen, Attachments, Targets,
           StatementRelease, Goto, wrappers, catalogs, history
<1>11. ASSUME NEW s \in Caller,
             Unbind(s)
      PROVE  TypeOK'
  BY <1>11, NoneAssumption DEF
           IInv, TypeOK, Phase, Places, RegisteredAreOpen, Attachments, Targets,
           Unbind, Goto, wrappers, catalogs, history
<1>12. ASSUME NEW s \in Caller, NEW a \in Address,
             Disconnect(s, a)
      PROVE  TypeOK'
  BY <1>12, NoneAssumption DEF
           IInv, TypeOK, Phase, Places, RegisteredAreOpen, Attachments, Targets,
           Disconnect, Goto, wrappers, catalogs
<1>13. ASSUME NEW s \in Caller, NEW k \in Catalog,
             DestroyCatalog(s, k)
      PROVE  TypeOK'
  BY <1>13, NoneAssumption DEF
           IInv, TypeOK, Phase, Places, RegisteredAreOpen, Attachments, Targets,
           DestroyCatalog, Unclaimed, Goto, wrappers, catalogs, history
<1>14. ASSUME NEW s \in Caller,
             DestroyCatalogMembers(s)
      PROVE  TypeOK'
  BY <1>14, NoneAssumption DEF
           IInv, TypeOK, Phase, Places, RegisteredAreOpen, Attachments, Targets,
           DestroyCatalogMembers, Goto, wrappers, history
<1>15. ASSUME NEW s \in Caller,
             DropReference(s)
      PROVE  TypeOK'
  BY <1>15, NoneAssumption DEF
           IInv, TypeOK, Phase, Places, RegisteredAreOpen, Attachments, Targets,
           DropReference, Resume, Goto, wrappers, catalogs, history
<1>16. ASSUME NEW s \in Caller,
             ConnectionRelease(s)
      PROVE  TypeOK'
  BY <1>16, NoneAssumption DEF
           IInv, TypeOK, Phase, Places, RegisteredAreOpen, Attachments, Targets,
           ConnectionRelease, Released, Goto, catalogs, history
<1>17. ASSUME NEW s \in Caller,
             DatabaseRelease(s)
      PROVE  TypeOK'
  BY <1>17, NoneAssumption DEF
           IInv, TypeOK, Phase, Places, RegisteredAreOpen, Attachments, Targets,
           DatabaseRelease, Released, Resume, Goto, catalogs, history
<1>18. ASSUME NEW s \in Caller, NEW k \in Catalog, GetScanFunction(s, k)
      PROVE  TypeOK'
  <2>1. connection_handle[k] \in Address
    BY <1>18 DEF IInv, TypeOK, Attachments, GetScanFunction
  <2>2. QED  BY <1>18, <2>1, <1>8 DEF GetScanFunction
<1>19. QED
  BY <1>1, <1>2, <1>3, <1>4, <1>5, <1>6, <1>7, <1>8, <1>9,
     <1>10, <1>11, <1>12, <1>13, <1>14, <1>15, <1>16, <1>17, <1>18
     DEF Next, Start, Continue

\* Every step leaves each caller with what its place requires.
LEMMA PlacesStep ==
  ASSUME IInv, [Next]_vars
  PROVE  Places'
<1>1. CASE UNCHANGED vars
  BY <1>1 DEF vars,
           IInv, Places, Open, TypeOK, Sole, RegisteredAreOpen, Attachments, Placement,
           Shared, Registered, Phase
<1>2. ASSUME NEW s \in Caller, NEW c \in Connection, NEW k \in Catalog \cup {None},
             DatabaseInit(s, c, k)
      PROVE  Places'
  BY <1>2, NoneAssumption DEF
           IInv, Places, Open, TypeOK, Sole, RegisteredAreOpen, Attachments, Placement,
           Shared, Registered, Phase, DatabaseInit, Goto, Unclaimed, catalogs, history
<1>3. ASSUME NEW s \in Caller, NEW a \in Address,
             ConnectionInit(s, a)
      PROVE  Places'
  BY <1>3, NoneAssumption DEF
           IInv, Places, Open, TypeOK, Sole, RegisteredAreOpen, Attachments, Placement,
           Shared, Registered, Phase, ConnectionInit, Goto, catalogs, history
<1>4. ASSUME NEW s \in Caller,
             ConnectionInitialize(s)
      PROVE  Places'
  BY <1>4, NoneAssumption DEF
           IInv, Places, Open, TypeOK, Sole, RegisteredAreOpen, Attachments, Placement,
           Shared, Registered, Phase, ConnectionInitialize, Goto, catalogs, history
<1>5. ASSUME NEW s \in Caller,
             CreateThrows(s)
      PROVE  Places'
  BY <1>5, NoneAssumption DEF
           IInv, Places, Open, TypeOK, Sole, RegisteredAreOpen, Attachments, Placement,
           Shared, Registered, Phase, CreateThrows, Goto, catalogs, history
<1>6. ASSUME NEW s \in Caller,
             Connect(s)
      PROVE  Places'
  BY <1>6, NoneAssumption DEF
           IInv, Places, Open, TypeOK, Sole, RegisteredAreOpen, Attachments, Placement,
           Shared, Registered, Phase, Connect, Add, Goto, wrappers, catalogs
<1>7. ASSUME NEW s \in Caller,
             Attach(s)
      PROVE  Places'
  BY <1>7, NoneAssumption DEF
           IInv, Places, Open, TypeOK, Sole, RegisteredAreOpen, Attachments, Placement,
           Shared, Registered, Phase, Attach, Add, Goto, wrappers
<1>8. ASSUME NEW s \in Caller, NEW a \in Address,
             GetValidatedConnection(s, a)
      PROVE  Places'
  BY <1>8, NoneAssumption DEF
           IInv, Places, Open, TypeOK, Sole, RegisteredAreOpen, Attachments, Placement,
           Shared, Registered, Phase, GetValidatedConnection, Goto, wrappers, catalogs,
           history
<1>9. ASSUME NEW s \in Caller,
             StatementInit(s)
      PROVE  Places'
  BY <1>9, NoneAssumption DEF
           IInv, Places, Open, TypeOK, Sole, RegisteredAreOpen, Attachments, Placement,
           Shared, Registered, Phase, StatementInit, Goto, wrappers, catalogs, history
<1>10. ASSUME NEW s \in Caller,
             StatementRelease(s)
      PROVE  Places'
  BY <1>10, NoneAssumption DEF
           IInv, Places, Open, TypeOK, Sole, RegisteredAreOpen, Attachments, Placement,
           Shared, Registered, Phase, StatementRelease, Goto, wrappers, catalogs,
           history
<1>11. ASSUME NEW s \in Caller,
             Unbind(s)
      PROVE  Places'
  BY <1>11, NoneAssumption DEF
           IInv, Places, Open, TypeOK, Sole, RegisteredAreOpen, Attachments, Placement,
           Shared, Registered, Phase, Unbind, Goto, wrappers, catalogs, history
<1>12. ASSUME NEW s \in Caller, NEW a \in Address,
             Disconnect(s, a)
      PROVE  Places'
  BY <1>12, NoneAssumption DEF
           IInv, Places, Open, TypeOK, Sole, RegisteredAreOpen, Attachments, Placement,
           Shared, Registered, Phase, Disconnect, Goto, wrappers, catalogs
<1>13. ASSUME NEW s \in Caller, NEW k \in Catalog,
             DestroyCatalog(s, k)
      PROVE  Places'
  BY <1>13, NoneAssumption DEF
           IInv, Places, Open, TypeOK, Sole, RegisteredAreOpen, Attachments, Placement,
           Shared, Registered, Phase, DestroyCatalog, Unclaimed, Goto, wrappers,
           catalogs, history
<1>14. ASSUME NEW s \in Caller,
             DestroyCatalogMembers(s)
      PROVE  Places'
  BY <1>14, NoneAssumption DEF
           IInv, Places, Open, TypeOK, Attachments, Targets,
           DestroyCatalogMembers, Goto, wrappers, history
<1>15. ASSUME NEW s \in Caller,
             DropReference(s)
      PROVE  Places'
  BY <1>15, NoneAssumption DEF
           IInv, Places, Open, TypeOK, Sole, RegisteredAreOpen, Attachments, Placement,
           Shared, Registered, Phase, DropReference, Resume, Goto, wrappers, catalogs,
           history
<1>16. ASSUME NEW s \in Caller,
             ConnectionRelease(s)
      PROVE  Places'
  BY <1>16, NoneAssumption DEF
           IInv, Places, Open, TypeOK, Sole, RegisteredAreOpen, Attachments, Placement,
           Shared, Registered, Phase, ConnectionRelease, Released, Goto, catalogs,
           history
<1>17. ASSUME NEW s \in Caller,
             DatabaseRelease(s)
      PROVE  Places'
  BY <1>17, NoneAssumption DEF
           IInv, Places, Open, TypeOK, Sole, RegisteredAreOpen, Attachments, Placement,
           Shared, Registered, Phase, DatabaseRelease, Released, Resume, Goto,
           catalogs, history
<1>18. ASSUME NEW s \in Caller, NEW k \in Catalog, GetScanFunction(s, k)
      PROVE  Places'
  <2>1. connection_handle[k] \in Address
    BY <1>18 DEF IInv, TypeOK, Attachments, GetScanFunction
  <2>2. QED  BY <1>18, <2>1, <1>8 DEF GetScanFunction
<1>19. QED
  BY <1>1, <1>2, <1>3, <1>4, <1>5, <1>6, <1>7, <1>8, <1>9,
     <1>10, <1>11, <1>12, <1>13, <1>14, <1>15, <1>16, <1>17, <1>18
     DEF Next, Start, Continue

\* No step lets a second reference to a wrapper under construction or
\* destruction appear.
LEMMA SoleStep ==
  ASSUME IInv, [Next]_vars
  PROVE  Sole'
<1>1. CASE UNCHANGED vars
  BY <1>1 DEF vars,
           IInv, Sole, Shared, Registered, TypeOK, Places, RegisteredAreOpen,
           Attachments, Open
<1>2. ASSUME NEW s \in Caller, NEW c \in Connection, NEW k \in Catalog \cup {None},
             DatabaseInit(s, c, k)
      PROVE  Sole'
  BY <1>2, NoneAssumption DEF
           IInv, Sole, Shared, Registered, TypeOK, Places, RegisteredAreOpen,
           Attachments, Open, DatabaseInit, Goto, Unclaimed, catalogs, history
<1>3. ASSUME NEW s \in Caller, NEW a \in Address,
             ConnectionInit(s, a)
      PROVE  Sole'
  BY <1>3, NoneAssumption DEF
           IInv, Sole, Shared, Registered, TypeOK, Places, RegisteredAreOpen,
           Attachments, Open, ConnectionInit, Goto, catalogs, history
<1>4. ASSUME NEW s \in Caller,
             ConnectionInitialize(s)
      PROVE  Sole'
  BY <1>4, NoneAssumption DEF
           IInv, Sole, Shared, Registered, TypeOK, Places, RegisteredAreOpen,
           Attachments, Open, ConnectionInitialize, Goto, catalogs, history
<1>5. ASSUME NEW s \in Caller,
             CreateThrows(s)
      PROVE  Sole'
  BY <1>5, NoneAssumption DEF
           IInv, Sole, Shared, Registered, TypeOK, Places, RegisteredAreOpen,
           Attachments, Open, CreateThrows, Goto, catalogs, history
<1>6. ASSUME NEW s \in Caller,
             Connect(s)
      PROVE  Sole'
  BY <1>6, NoneAssumption DEF
           IInv, Sole, Shared, Registered, TypeOK, Places, RegisteredAreOpen,
           Attachments, Open, Connect, Add, Goto, wrappers, catalogs
<1>7. ASSUME NEW s \in Caller,
             Attach(s)
      PROVE  Sole'
  BY <1>7, NoneAssumption DEF
           IInv, Sole, Shared, Registered, TypeOK, Places, RegisteredAreOpen,
           Attachments, Open, Attach, Add, Goto, wrappers
<1>8. ASSUME NEW s \in Caller, NEW a \in Address,
             GetValidatedConnection(s, a)
      PROVE  Sole'
  BY <1>8, NoneAssumption DEF
           IInv, Sole, Shared, Registered, TypeOK, Places, RegisteredAreOpen,
           Attachments, Open, GetValidatedConnection, Goto, wrappers, catalogs, history
<1>9. ASSUME NEW s \in Caller,
             StatementInit(s)
      PROVE  Sole'
  BY <1>9, NoneAssumption DEF
           IInv, Sole, Shared, Registered, TypeOK, Places, RegisteredAreOpen,
           Attachments, Open, StatementInit, Goto, wrappers, catalogs, history
<1>10. ASSUME NEW s \in Caller,
             StatementRelease(s)
      PROVE  Sole'
  BY <1>10, NoneAssumption DEF
           IInv, Sole, Shared, Registered, TypeOK, Places, RegisteredAreOpen,
           Attachments, Open, StatementRelease, Goto, wrappers, catalogs, history
<1>11. ASSUME NEW s \in Caller,
             Unbind(s)
      PROVE  Sole'
  BY <1>11, NoneAssumption DEF
           IInv, Sole, Shared, Registered, TypeOK, Places, RegisteredAreOpen,
           Attachments, Open, Unbind, Goto, wrappers, catalogs, history
<1>12. ASSUME NEW s \in Caller, NEW a \in Address,
             Disconnect(s, a)
      PROVE  Sole'
  BY <1>12, NoneAssumption DEF
           IInv, Sole, Shared, Registered, TypeOK, Places, RegisteredAreOpen,
           Attachments, Open, Disconnect, Goto, wrappers, catalogs
<1>13. ASSUME NEW s \in Caller, NEW k \in Catalog,
             DestroyCatalog(s, k)
      PROVE  Sole'
  BY <1>13, NoneAssumption DEF
           IInv, Sole, Shared, Registered, TypeOK, Places, RegisteredAreOpen,
           Attachments, Open, DestroyCatalog, Unclaimed, Goto, wrappers, catalogs,
           history
<1>14. ASSUME NEW s \in Caller,
             DestroyCatalogMembers(s)
      PROVE  Sole'
  BY <1>14, NoneAssumption DEF
           IInv, Sole, Shared, Registered, TypeOK, Places, RegisteredAreOpen,
           Attachments, Open, DestroyCatalogMembers, Goto, wrappers, history
<1>15. ASSUME NEW s \in Caller,
             DropReference(s)
      PROVE  Sole'
  BY <1>15, NoneAssumption DEF
           IInv, Sole, Shared, Registered, TypeOK, Places, RegisteredAreOpen,
           Attachments, Open, DropReference, Resume, Goto, wrappers, catalogs, history
<1>16. ASSUME NEW s \in Caller,
             ConnectionRelease(s)
      PROVE  Sole'
  BY <1>16, NoneAssumption DEF
           IInv, Sole, Shared, Registered, TypeOK, Places, RegisteredAreOpen,
           Attachments, Open, ConnectionRelease, Released, Goto, catalogs, history
<1>17. ASSUME NEW s \in Caller,
             DatabaseRelease(s)
      PROVE  Sole'
  BY <1>17, NoneAssumption DEF
           IInv, Sole, Shared, Registered, TypeOK, Places, RegisteredAreOpen,
           Attachments, Open, DatabaseRelease, Released, Resume, Goto, catalogs,
           history
<1>18. ASSUME NEW s \in Caller, NEW k \in Catalog, GetScanFunction(s, k)
      PROVE  Sole'
  <2>1. connection_handle[k] \in Address
    BY <1>18 DEF IInv, TypeOK, Attachments, GetScanFunction
  <2>2. QED  BY <1>18, <2>1, <1>8 DEF GetScanFunction
<1>19. QED
  BY <1>1, <1>2, <1>3, <1>4, <1>5, <1>6, <1>7, <1>8, <1>9,
     <1>10, <1>11, <1>12, <1>13, <1>14, <1>15, <1>16, <1>17, <1>18
     DEF Next, Start, Continue

\* The allocator gives no place twice, and closing goes in order.
LEMMA PlacementStep ==
  ASSUME IInv, [Next]_vars
  PROVE  Placement'
<1>1. CASE UNCHANGED vars
  BY <1>1 DEF vars,
           IInv, Placement, TypeOK, Places, Phase, Open
<1>2. ASSUME NEW s \in Caller, NEW c \in Connection, NEW k \in Catalog \cup {None},
             DatabaseInit(s, c, k)
      PROVE  Placement'
  BY <1>2, NoneAssumption DEF
           IInv, Placement, TypeOK, Places, Phase, Open, DatabaseInit, Goto, Unclaimed,
           catalogs, history
<1>3. ASSUME NEW s \in Caller, NEW a \in Address,
             ConnectionInit(s, a)
      PROVE  Placement'
  BY <1>3, NoneAssumption DEF
           IInv, Placement, TypeOK, Places, Phase, Open, ConnectionInit, Goto,
           catalogs, history
<1>4. ASSUME NEW s \in Caller,
             ConnectionInitialize(s)
      PROVE  Placement'
  BY <1>4, NoneAssumption DEF
           IInv, Placement, TypeOK, Places, Phase, Open, ConnectionInitialize, Goto,
           catalogs, history
<1>5. ASSUME NEW s \in Caller,
             CreateThrows(s)
      PROVE  Placement'
  BY <1>5, NoneAssumption DEF
           IInv, Placement, TypeOK, Places, Phase, Open, CreateThrows, Goto, catalogs,
           history
<1>6. ASSUME NEW s \in Caller,
             Connect(s)
      PROVE  Placement'
  BY <1>6, NoneAssumption DEF
           IInv, Placement, TypeOK, Places, Phase, Open, Connect, Add, Goto, wrappers,
           catalogs
<1>7. ASSUME NEW s \in Caller,
             Attach(s)
      PROVE  Placement'
  BY <1>7, NoneAssumption DEF
           IInv, Placement, TypeOK, Places, Phase, Open, Attach, Add, Goto, wrappers
<1>8. ASSUME NEW s \in Caller, NEW a \in Address,
             GetValidatedConnection(s, a)
      PROVE  Placement'
  BY <1>8, NoneAssumption DEF
           IInv, Placement, TypeOK, Places, Phase, Open, GetValidatedConnection, Goto,
           wrappers, catalogs, history
<1>9. ASSUME NEW s \in Caller,
             StatementInit(s)
      PROVE  Placement'
  BY <1>9, NoneAssumption DEF
           IInv, Placement, TypeOK, Places, Phase, Open, StatementInit, Goto, wrappers,
           catalogs, history
<1>10. ASSUME NEW s \in Caller,
             StatementRelease(s)
      PROVE  Placement'
  BY <1>10, NoneAssumption DEF
           IInv, Placement, TypeOK, Places, Phase, Open, StatementRelease, Goto,
           wrappers, catalogs, history
<1>11. ASSUME NEW s \in Caller,
             Unbind(s)
      PROVE  Placement'
  BY <1>11, NoneAssumption DEF
           IInv, Placement, TypeOK, Places, Phase, Open, Unbind, Goto, wrappers,
           catalogs, history
<1>12. ASSUME NEW s \in Caller, NEW a \in Address,
             Disconnect(s, a)
      PROVE  Placement'
  BY <1>12, NoneAssumption DEF
           IInv, Placement, TypeOK, Places, Phase, Open, Disconnect, Goto, wrappers,
           catalogs
<1>13. ASSUME NEW s \in Caller, NEW k \in Catalog,
             DestroyCatalog(s, k)
      PROVE  Placement'
  BY <1>13, NoneAssumption DEF
           IInv, Placement, TypeOK, Places, Phase, Open, DestroyCatalog, Unclaimed,
           Goto, wrappers, catalogs, history
<1>14. ASSUME NEW s \in Caller,
             DestroyCatalogMembers(s)
      PROVE  Placement'
  BY <1>14, NoneAssumption DEF
           IInv, Placement, TypeOK, Places, Phase, Open, DestroyCatalogMembers, Goto,
           wrappers, history
<1>15. ASSUME NEW s \in Caller,
             DropReference(s)
      PROVE  Placement'
  BY <1>15, NoneAssumption DEF
           IInv, Placement, TypeOK, Places, Phase, Open, DropReference, Resume, Goto,
           wrappers, catalogs, history
<1>16. ASSUME NEW s \in Caller,
             ConnectionRelease(s)
      PROVE  Placement'
  BY <1>16, NoneAssumption DEF
           IInv, Placement, TypeOK, Places, Phase, Open, ConnectionRelease, Released,
           Goto, catalogs, history
<1>17. ASSUME NEW s \in Caller,
             DatabaseRelease(s)
      PROVE  Placement'
  BY <1>17, NoneAssumption DEF
           IInv, Placement, TypeOK, Places, Phase, Open, DatabaseRelease, Released,
           Resume, Goto, catalogs, history
<1>18. ASSUME NEW s \in Caller, NEW k \in Catalog, GetScanFunction(s, k)
      PROVE  Placement'
  <2>1. connection_handle[k] \in Address
    BY <1>18 DEF IInv, TypeOK, Attachments, GetScanFunction
  <2>2. QED  BY <1>18, <2>1, <1>8 DEF GetScanFunction
<1>19. QED
  BY <1>1, <1>2, <1>3, <1>4, <1>5, <1>6, <1>7, <1>8, <1>9,
     <1>10, <1>11, <1>12, <1>13, <1>14, <1>15, <1>16, <1>17, <1>18
     DEF Next, Start, Continue

\* A catalog's connection stays open and in its place.
LEMMA AttachmentsStep ==
  ASSUME IInv, [Next]_vars
  PROVE  Attachments'
<1>1. CASE UNCHANGED vars
  BY <1>1 DEF vars,
           IInv, Attachments, Open, TypeOK, Places, Sole, Shared, Targets
<1>2. ASSUME NEW s \in Caller, NEW c \in Connection, NEW k \in Catalog \cup {None},
             DatabaseInit(s, c, k)
      PROVE  Attachments'
  BY <1>2, NoneAssumption DEF
           IInv, Attachments, Open, TypeOK, Places, Sole, Shared, Targets,
           DatabaseInit, Goto, Unclaimed, catalogs, history
<1>3. ASSUME NEW s \in Caller, NEW a \in Address,
             ConnectionInit(s, a)
      PROVE  Attachments'
  BY <1>3, NoneAssumption DEF
           IInv, Attachments, Open, TypeOK, Places, Sole, Shared, Targets,
           ConnectionInit, Goto, catalogs, history
<1>4. ASSUME NEW s \in Caller,
             ConnectionInitialize(s)
      PROVE  Attachments'
  BY <1>4, NoneAssumption DEF
           IInv, Attachments, Open, TypeOK, Places, Sole, Shared, Targets,
           ConnectionInitialize, Goto, catalogs, history
<1>5. ASSUME NEW s \in Caller,
             CreateThrows(s)
      PROVE  Attachments'
  BY <1>5, NoneAssumption DEF
           IInv, Attachments, Open, TypeOK, Places, Sole, Shared, Targets,
           CreateThrows, Goto, catalogs, history
<1>6. ASSUME NEW s \in Caller,
             Connect(s)
      PROVE  Attachments'
  BY <1>6, NoneAssumption DEF
           IInv, Attachments, Open, TypeOK, Places, Sole, Shared, Targets, Connect,
           Add, Goto, wrappers, catalogs
<1>7. ASSUME NEW s \in Caller,
             Attach(s)
      PROVE  Attachments'
  BY <1>7, NoneAssumption DEF
           IInv, Attachments, Open, TypeOK, Places, Sole, Shared, Targets, Attach, Add,
           Goto, wrappers
<1>8. ASSUME NEW s \in Caller, NEW a \in Address,
             GetValidatedConnection(s, a)
      PROVE  Attachments'
  BY <1>8, NoneAssumption DEF
           IInv, Attachments, Open, TypeOK, Places, Sole, Shared, Targets,
           GetValidatedConnection, Goto, wrappers, catalogs, history
<1>9. ASSUME NEW s \in Caller,
             StatementInit(s)
      PROVE  Attachments'
  BY <1>9, NoneAssumption DEF
           IInv, Attachments, Open, TypeOK, Places, Sole, Shared, Targets,
           StatementInit, Goto, wrappers, catalogs, history
<1>10. ASSUME NEW s \in Caller,
             StatementRelease(s)
      PROVE  Attachments'
  BY <1>10, NoneAssumption DEF
           IInv, Attachments, Open, TypeOK, Places, Sole, Shared, Targets,
           StatementRelease, Goto, wrappers, catalogs, history
<1>11. ASSUME NEW s \in Caller,
             Unbind(s)
      PROVE  Attachments'
  BY <1>11, NoneAssumption DEF
           IInv, Attachments, Open, TypeOK, Places, Sole, Shared, Targets, Unbind,
           Goto, wrappers, catalogs, history
<1>12. ASSUME NEW s \in Caller, NEW a \in Address,
             Disconnect(s, a)
      PROVE  Attachments'
  BY <1>12, NoneAssumption DEF
           IInv, Attachments, Open, TypeOK, Places, Sole, Shared, Targets, Disconnect,
           Goto, wrappers, catalogs
<1>13. ASSUME NEW s \in Caller, NEW k \in Catalog,
             DestroyCatalog(s, k)
      PROVE  Attachments'
  BY <1>13, NoneAssumption DEF
           IInv, Attachments, Open, TypeOK, Places, Sole, Shared, Targets,
           DestroyCatalog, Unclaimed, Goto, wrappers, catalogs, history
<1>14. ASSUME NEW s \in Caller,
             DestroyCatalogMembers(s)
      PROVE  Attachments'
  BY <1>14, NoneAssumption DEF
           IInv, Attachments, Open, TypeOK, Places, Sole, Shared, Targets,
           DestroyCatalogMembers, Goto, wrappers, history
<1>15. ASSUME NEW s \in Caller,
             DropReference(s)
      PROVE  Attachments'
  BY <1>15, NoneAssumption DEF
           IInv, Attachments, Open, TypeOK, Places, Sole, Shared, Targets,
           DropReference, Resume, Goto, wrappers, catalogs, history
<1>16. ASSUME NEW s \in Caller,
             ConnectionRelease(s)
      PROVE  Attachments'
  BY <1>16, NoneAssumption DEF
           IInv, Attachments, Open, TypeOK, Places, Sole, Shared, Targets,
           ConnectionRelease, Released, Goto, catalogs, history
<1>17. ASSUME NEW s \in Caller,
             DatabaseRelease(s)
      PROVE  Attachments'
  BY <1>17, NoneAssumption DEF
           IInv, Attachments, Open, TypeOK, Places, Sole, Shared, Targets,
           DatabaseRelease, Released, Resume, Goto, catalogs, history
<1>18. ASSUME NEW s \in Caller, NEW k \in Catalog, GetScanFunction(s, k)
      PROVE  Attachments'
  <2>1. connection_handle[k] \in Address
    BY <1>18 DEF IInv, TypeOK, Attachments, GetScanFunction
  <2>2. QED  BY <1>18, <2>1, <1>8 DEF GetScanFunction
<1>19. QED
  BY <1>1, <1>2, <1>3, <1>4, <1>5, <1>6, <1>7, <1>8, <1>9,
     <1>10, <1>11, <1>12, <1>13, <1>14, <1>15, <1>16, <1>17, <1>18
     DEF Next, Start, Continue

\* No two callers work on one catalog.
LEMMA TargetsStep ==
  ASSUME IInv, [Next]_vars
  PROVE  Targets'
<1>1. CASE UNCHANGED vars
  BY <1>1 DEF vars,
           IInv, Targets, TypeOK, Places
<1>2. ASSUME NEW s \in Caller, NEW c \in Connection, NEW k \in Catalog \cup {None},
             DatabaseInit(s, c, k)
      PROVE  Targets'
  BY <1>2, NoneAssumption DEF
           IInv, Targets, TypeOK, Places, DatabaseInit, Goto, Unclaimed, catalogs,
           history
<1>3. ASSUME NEW s \in Caller, NEW a \in Address,
             ConnectionInit(s, a)
      PROVE  Targets'
  BY <1>3, NoneAssumption DEF
           IInv, Targets, TypeOK, Places, ConnectionInit, Goto, catalogs, history
<1>4. ASSUME NEW s \in Caller,
             ConnectionInitialize(s)
      PROVE  Targets'
  BY <1>4, NoneAssumption DEF
           IInv, Targets, TypeOK, Places, ConnectionInitialize, Goto, catalogs, history
<1>5. ASSUME NEW s \in Caller,
             CreateThrows(s)
      PROVE  Targets'
  BY <1>5, NoneAssumption DEF
           IInv, Targets, TypeOK, Places, CreateThrows, Goto, catalogs, history
<1>6. ASSUME NEW s \in Caller,
             Connect(s)
      PROVE  Targets'
  BY <1>6, NoneAssumption DEF
           IInv, Targets, TypeOK, Places, Connect, Add, Goto, wrappers, catalogs
<1>7. ASSUME NEW s \in Caller,
             Attach(s)
      PROVE  Targets'
  BY <1>7, NoneAssumption DEF
           IInv, Targets, TypeOK, Places, Attach, Add, Goto, wrappers
<1>8. ASSUME NEW s \in Caller, NEW a \in Address,
             GetValidatedConnection(s, a)
      PROVE  Targets'
  BY <1>8, NoneAssumption DEF
           IInv, Targets, TypeOK, Places, GetValidatedConnection, Goto, wrappers,
           catalogs, history
<1>9. ASSUME NEW s \in Caller,
             StatementInit(s)
      PROVE  Targets'
  BY <1>9, NoneAssumption DEF
           IInv, Targets, TypeOK, Places, StatementInit, Goto, wrappers, catalogs,
           history
<1>10. ASSUME NEW s \in Caller,
             StatementRelease(s)
      PROVE  Targets'
  BY <1>10, NoneAssumption DEF
           IInv, Targets, TypeOK, Places, StatementRelease, Goto, wrappers, catalogs,
           history
<1>11. ASSUME NEW s \in Caller,
             Unbind(s)
      PROVE  Targets'
  BY <1>11, NoneAssumption DEF
           IInv, Targets, TypeOK, Places, Unbind, Goto, wrappers, catalogs, history
<1>12. ASSUME NEW s \in Caller, NEW a \in Address,
             Disconnect(s, a)
      PROVE  Targets'
  BY <1>12, NoneAssumption DEF
           IInv, Targets, TypeOK, Places, Disconnect, Goto, wrappers, catalogs
<1>13. ASSUME NEW s \in Caller, NEW k \in Catalog,
             DestroyCatalog(s, k)
      PROVE  Targets'
  BY <1>13, NoneAssumption DEF
           IInv, Targets, TypeOK, Places, DestroyCatalog, Unclaimed, Goto, wrappers,
           catalogs, history
<1>14. ASSUME NEW s \in Caller,
             DestroyCatalogMembers(s)
      PROVE  Targets'
  BY <1>14, NoneAssumption DEF
           IInv, Targets, TypeOK, Places, DestroyCatalogMembers, Goto, wrappers,
           history
<1>15. ASSUME NEW s \in Caller,
             DropReference(s)
      PROVE  Targets'
  BY <1>15, NoneAssumption DEF
           IInv, Targets, TypeOK, Places, DropReference, Resume, Goto, wrappers,
           catalogs, history
<1>16. ASSUME NEW s \in Caller,
             ConnectionRelease(s)
      PROVE  Targets'
  BY <1>16, NoneAssumption DEF
           IInv, Targets, TypeOK, Places, ConnectionRelease, Released, Goto, catalogs,
           history
<1>17. ASSUME NEW s \in Caller,
             DatabaseRelease(s)
      PROVE  Targets'
  BY <1>17, NoneAssumption DEF
           IInv, Targets, TypeOK, Places, DatabaseRelease, Released, Resume, Goto,
           catalogs, history
<1>18. ASSUME NEW s \in Caller, NEW k \in Catalog, GetScanFunction(s, k)
      PROVE  Targets'
  <2>1. connection_handle[k] \in Address
    BY <1>18 DEF IInv, TypeOK, Attachments, GetScanFunction
  <2>2. QED  BY <1>18, <2>1, <1>8 DEF GetScanFunction
<1>19. QED
  BY <1>1, <1>2, <1>3, <1>4, <1>5, <1>6, <1>7, <1>8, <1>9,
     <1>10, <1>11, <1>12, <1>13, <1>14, <1>15, <1>16, <1>17, <1>18
     DEF Next, Start, Continue

\* What the registry holds stays open.
LEMMA RegisteredStep ==
  ASSUME IInv, [Next]_vars
  PROVE  RegisteredAreOpen'
<1>1. CASE UNCHANGED vars
  BY <1>1 DEF vars,
           IInv, RegisteredAreOpen, Open, TypeOK, Places, Sole, Shared, Registered
<1>2. ASSUME NEW s \in Caller, NEW c \in Connection, NEW k \in Catalog \cup {None},
             DatabaseInit(s, c, k)
      PROVE  RegisteredAreOpen'
  BY <1>2, NoneAssumption DEF
           IInv, RegisteredAreOpen, Open, TypeOK, Places, Sole, Shared, Registered,
           DatabaseInit, Goto, Unclaimed, catalogs, history
<1>3. ASSUME NEW s \in Caller, NEW a \in Address,
             ConnectionInit(s, a)
      PROVE  RegisteredAreOpen'
  BY <1>3, NoneAssumption DEF
           IInv, RegisteredAreOpen, Open, TypeOK, Places, Sole, Shared, Registered,
           ConnectionInit, Goto, catalogs, history
<1>4. ASSUME NEW s \in Caller,
             ConnectionInitialize(s)
      PROVE  RegisteredAreOpen'
  BY <1>4, NoneAssumption DEF
           IInv, RegisteredAreOpen, Open, TypeOK, Places, Sole, Shared, Registered,
           ConnectionInitialize, Goto, catalogs, history
<1>5. ASSUME NEW s \in Caller,
             CreateThrows(s)
      PROVE  RegisteredAreOpen'
  BY <1>5, NoneAssumption DEF
           IInv, RegisteredAreOpen, Open, TypeOK, Places, Sole, Shared, Registered,
           CreateThrows, Goto, catalogs, history
<1>6. ASSUME NEW s \in Caller,
             Connect(s)
      PROVE  RegisteredAreOpen'
  BY <1>6, NoneAssumption DEF
           IInv, RegisteredAreOpen, Open, TypeOK, Places, Sole, Shared, Registered,
           Connect, Add, Goto, wrappers, catalogs
<1>7. ASSUME NEW s \in Caller,
             Attach(s)
      PROVE  RegisteredAreOpen'
  BY <1>7, NoneAssumption DEF
           IInv, RegisteredAreOpen, Open, TypeOK, Places, Sole, Shared, Registered,
           Attach, Add, Goto, wrappers
<1>8. ASSUME NEW s \in Caller, NEW a \in Address,
             GetValidatedConnection(s, a)
      PROVE  RegisteredAreOpen'
  BY <1>8, NoneAssumption DEF
           IInv, RegisteredAreOpen, Open, TypeOK, Places, Sole, Shared, Registered,
           GetValidatedConnection, Goto, wrappers, catalogs, history
<1>9. ASSUME NEW s \in Caller,
             StatementInit(s)
      PROVE  RegisteredAreOpen'
  BY <1>9, NoneAssumption DEF
           IInv, RegisteredAreOpen, Open, TypeOK, Places, Sole, Shared, Registered,
           StatementInit, Goto, wrappers, catalogs, history
<1>10. ASSUME NEW s \in Caller,
             StatementRelease(s)
      PROVE  RegisteredAreOpen'
  BY <1>10, NoneAssumption DEF
           IInv, RegisteredAreOpen, Open, TypeOK, Places, Sole, Shared, Registered,
           StatementRelease, Goto, wrappers, catalogs, history
<1>11. ASSUME NEW s \in Caller,
             Unbind(s)
      PROVE  RegisteredAreOpen'
  BY <1>11, NoneAssumption DEF
           IInv, RegisteredAreOpen, Open, TypeOK, Places, Sole, Shared, Registered,
           Unbind, Goto, wrappers, catalogs, history
<1>12. ASSUME NEW s \in Caller, NEW a \in Address,
             Disconnect(s, a)
      PROVE  RegisteredAreOpen'
  BY <1>12, NoneAssumption DEF
           IInv, RegisteredAreOpen, Open, TypeOK, Places, Sole, Shared, Registered,
           Disconnect, Goto, wrappers, catalogs
<1>13. ASSUME NEW s \in Caller, NEW k \in Catalog,
             DestroyCatalog(s, k)
      PROVE  RegisteredAreOpen'
  BY <1>13, NoneAssumption DEF
           IInv, RegisteredAreOpen, Open, TypeOK, Places, Sole, Shared, Registered,
           DestroyCatalog, Unclaimed, Goto, wrappers, catalogs, history
<1>14. ASSUME NEW s \in Caller,
             DestroyCatalogMembers(s)
      PROVE  RegisteredAreOpen'
  BY <1>14, NoneAssumption DEF
           IInv, RegisteredAreOpen, Open, TypeOK, Places, Sole, Shared, Registered,
           DestroyCatalogMembers, Goto, wrappers, history
<1>15. ASSUME NEW s \in Caller,
             DropReference(s)
      PROVE  RegisteredAreOpen'
  BY <1>15, NoneAssumption DEF
           IInv, RegisteredAreOpen, Open, TypeOK, Places, Sole, Shared, Registered,
           DropReference, Resume, Goto, wrappers, catalogs, history
<1>16. ASSUME NEW s \in Caller,
             ConnectionRelease(s)
      PROVE  RegisteredAreOpen'
  BY <1>16, NoneAssumption DEF
           IInv, RegisteredAreOpen, Open, TypeOK, Places, Sole, Shared, Registered,
           ConnectionRelease, Released, Goto, catalogs, history
<1>17. ASSUME NEW s \in Caller,
             DatabaseRelease(s)
      PROVE  RegisteredAreOpen'
  BY <1>17, NoneAssumption DEF
           IInv, RegisteredAreOpen, Open, TypeOK, Places, Sole, Shared, Registered,
           DatabaseRelease, Released, Resume, Goto, catalogs, history
<1>18. ASSUME NEW s \in Caller, NEW k \in Catalog, GetScanFunction(s, k)
      PROVE  RegisteredAreOpen'
  <2>1. connection_handle[k] \in Address
    BY <1>18 DEF IInv, TypeOK, Attachments, GetScanFunction
  <2>2. QED  BY <1>18, <2>1, <1>8 DEF GetScanFunction
<1>19. QED
  BY <1>1, <1>2, <1>3, <1>4, <1>5, <1>6, <1>7, <1>8, <1>9,
     <1>10, <1>11, <1>12, <1>13, <1>14, <1>15, <1>16, <1>17, <1>18
     DEF Next, Start, Continue

\* What is open keeps an owner.
LEMMA OwnedStep ==
  ASSUME IInv, [Next]_vars
  PROVE  OpenedAreOwned'
<1>1. CASE UNCHANGED vars
  BY <1>1 DEF vars,
           IInv, OpenedAreOwned, Registered, TypeOK, Places, Sole, Shared
<1>2. ASSUME NEW s \in Caller, NEW c \in Connection, NEW k \in Catalog \cup {None},
             DatabaseInit(s, c, k)
      PROVE  OpenedAreOwned'
  BY <1>2, NoneAssumption DEF
           IInv, OpenedAreOwned, Registered, TypeOK, Places, Sole, Shared,
           DatabaseInit, Goto, Unclaimed, catalogs, history
<1>3. ASSUME NEW s \in Caller, NEW a \in Address,
             ConnectionInit(s, a)
      PROVE  OpenedAreOwned'
  BY <1>3, NoneAssumption DEF
           IInv, OpenedAreOwned, Registered, TypeOK, Places, Sole, Shared,
           ConnectionInit, Goto, catalogs, history
<1>4. ASSUME NEW s \in Caller,
             ConnectionInitialize(s)
      PROVE  OpenedAreOwned'
  BY <1>4, NoneAssumption DEF
           IInv, OpenedAreOwned, Registered, TypeOK, Places, Sole, Shared,
           ConnectionInitialize, Goto, catalogs, history
<1>5. ASSUME NEW s \in Caller,
             CreateThrows(s)
      PROVE  OpenedAreOwned'
  BY <1>5, NoneAssumption DEF
           IInv, OpenedAreOwned, Registered, TypeOK, Places, Sole, Shared,
           CreateThrows, Goto, catalogs, history
<1>6. ASSUME NEW s \in Caller,
             Connect(s)
      PROVE  OpenedAreOwned'
  <2>1. /\ held[s] \in Connection /\ address[held[s]] \in Address
        /\ connections[address[held[s]]] = None
    BY <1>6, AddIsFresh DEF Connect
  <2>2. \A c \in Connection : Registered(c) => Registered(c)'
    BY <1>6, <2>1, NoneAssumption DEF Connect, Add, Registered, IInv, TypeOK
  <2>3. \E a \in Address : connections'[a] = held[s]
    BY <1>6, <2>1 DEF Connect, Add, Registered, IInv, TypeOK
  <2>4. QED
    BY <1>6, <2>1, <2>2, <2>3, NoneAssumption DEF Connect, Add, OpenedAreOwned, IInv, TypeOK,
       Registered, Targets, Goto, wrappers, catalogs
<1>7. ASSUME NEW s \in Caller,
             Attach(s)
      PROVE  OpenedAreOwned'
  <2>1. /\ held[s] \in Connection /\ address[held[s]] \in Address
        /\ connections[address[held[s]]] = None
    BY <1>7, AddIsFresh DEF Attach
  <2>2. \A c \in Connection : Registered(c) => Registered(c)'
    BY <1>7, <2>1, NoneAssumption DEF Attach, Add, Registered, IInv, TypeOK
  <2>3. \E a \in Address : connections'[a] = held[s]
    BY <1>7, <2>1 DEF Attach, Add, Registered, IInv, TypeOK
  <2>4. QED
    BY <1>7, <2>1, <2>2, <2>3, NoneAssumption DEF Attach, Add, OpenedAreOwned, IInv, TypeOK,
       Registered, Targets, Goto, wrappers
<1>8. ASSUME NEW s \in Caller, NEW a \in Address,
             GetValidatedConnection(s, a)
      PROVE  OpenedAreOwned'
  BY <1>8, NoneAssumption DEF
           IInv, OpenedAreOwned, Registered, TypeOK, Places, Sole, Shared,
           GetValidatedConnection, Goto, wrappers, catalogs, history
<1>9. ASSUME NEW s \in Caller,
             StatementInit(s)
      PROVE  OpenedAreOwned'
  BY <1>9, NoneAssumption DEF
           IInv, OpenedAreOwned, Registered, TypeOK, Places, Sole, Shared,
           StatementInit, Goto, wrappers, catalogs, history
<1>10. ASSUME NEW s \in Caller,
             StatementRelease(s)
      PROVE  OpenedAreOwned'
  BY <1>10, NoneAssumption DEF
           IInv, OpenedAreOwned, Registered, TypeOK, Places, Sole, Shared,
           StatementRelease, Goto, wrappers, catalogs, history
<1>11. ASSUME NEW s \in Caller,
             Unbind(s)
      PROVE  OpenedAreOwned'
  BY <1>11, NoneAssumption DEF
           IInv, OpenedAreOwned, Registered, TypeOK, Places, Sole, Shared, Unbind,
           Goto, wrappers, catalogs, history
<1>12. ASSUME NEW s \in Caller, NEW a \in Address,
             Disconnect(s, a)
      PROVE  OpenedAreOwned'
  BY <1>12, NoneAssumption DEF
           IInv, OpenedAreOwned, Registered, TypeOK, Places, Sole, Shared, Disconnect,
           Goto, wrappers, catalogs
<1>13. ASSUME NEW s \in Caller, NEW k \in Catalog,
             DestroyCatalog(s, k)
      PROVE  OpenedAreOwned'
  BY <1>13, NoneAssumption DEF
           IInv, OpenedAreOwned, Registered, TypeOK, Places, Sole, Shared,
           DestroyCatalog, Unclaimed, Goto, wrappers, catalogs, history
<1>14. ASSUME NEW s \in Caller,
             DestroyCatalogMembers(s)
      PROVE  OpenedAreOwned'
  BY <1>14, NoneAssumption DEF
           IInv, OpenedAreOwned, Registered, TypeOK, Places, Sole, Shared,
           DestroyCatalogMembers, Goto, wrappers, history
<1>15. ASSUME NEW s \in Caller,
             DropReference(s)
      PROVE  OpenedAreOwned'
  BY <1>15, NoneAssumption DEF
           IInv, OpenedAreOwned, Registered, TypeOK, Places, Sole, Shared,
           DropReference, Resume, Goto, wrappers, catalogs, history
<1>16. ASSUME NEW s \in Caller,
             ConnectionRelease(s)
      PROVE  OpenedAreOwned'
  BY <1>16, NoneAssumption DEF
           IInv, OpenedAreOwned, Registered, TypeOK, Places, Sole, Shared,
           ConnectionRelease, Released, Goto, catalogs, history
<1>17. ASSUME NEW s \in Caller,
             DatabaseRelease(s)
      PROVE  OpenedAreOwned'
  BY <1>17, NoneAssumption DEF
           IInv, OpenedAreOwned, Registered, TypeOK, Places, Sole, Shared,
           DatabaseRelease, Released, Resume, Goto, catalogs, history
<1>18. ASSUME NEW s \in Caller, NEW k \in Catalog, GetScanFunction(s, k)
      PROVE  OpenedAreOwned'
  <2>1. connection_handle[k] \in Address
    BY <1>18 DEF IInv, TypeOK, Attachments, GetScanFunction
  <2>2. QED  BY <1>18, <2>1, <1>8 DEF GetScanFunction
<1>19. QED
  BY <1>1, <1>2, <1>3, <1>4, <1>5, <1>6, <1>7, <1>8, <1>9,
     <1>10, <1>11, <1>12, <1>13, <1>14, <1>15, <1>16, <1>17, <1>18
     DEF Next, Start, Continue

-----------------------------------------------------------------------------
(* Theorems.                                                               *)

\* The invariant holds in every reachable state.
THEOREM Invariance == Spec => []IInv
<1>1. Init => IInv  BY InitIInv
<1>2. IInv /\ [Next]_vars => IInv'
  BY TypesStep, PlacesStep, SoleStep, PlacementStep, AttachmentsStep, TargetsStep,
     RegisteredStep, OwnedStep DEF IInv
<1>3. QED  BY <1>1, <1>2, PTL DEF Spec

\* The state keeps its types, for every number of callers and connections.
THEOREM TypeCorrect == Spec => []TypeOK
<1>1. IInv => TypeOK  BY DEF IInv
<1>2. QED  BY <1>1, Invariance, PTL

\* Every handle in the registry is the address of an open connection, so the
\* "has been closed" test of GetValidatedConnection never fails.
THEOREM RegistryHoldsOpen == Spec => []RegisteredAreOpen
<1>1. IInv => RegisteredAreOpen  BY DEF IInv
<1>2. QED  BY <1>1, Invariance, PTL

\* No plan, statement or catalog is left with a closed connection, whatever
\* is disconnected or detached meanwhile.
THEOREM InUseIsOpen == Spec => []NoUseAfterRelease
<1>1. IInv => NoUseAfterRelease
  BY DEF IInv, Places, Attachments, NoUseAfterRelease
<1>2. QED  BY <1>1, Invariance, PTL

\* Statements are released before their connection, a connection before its
\* database.
THEOREM ReleaseOrder == Spec => []ReleasedInOrder
<1>1. IInv => ReleasedInOrder
  BY DEF IInv, TypeOK, Places, Placement, ReleasedInOrder, Open
<1>2. QED  BY <1>1, Invariance, PTL

\* Everything initialized has an owner.
THEOREM NothingOpenIsLost == Spec => []OpenedAreOwned
<1>1. IInv => OpenedAreOwned  BY DEF IInv
<1>2. QED  BY <1>1, Invariance, PTL

\* However addresses are reused, the handle of an attached catalog denotes its
\* connection or nothing: the catalog's own reference keeps the address taken.
THEOREM CatalogOwnsItsHandle == Spec => []CatalogHandleIsItsOwn
<1>1. IInv => CatalogHandleIsItsOwn
  <2>. SUFFICES ASSUME IInv, NEW k \in Catalog, attached[k] # None,
                       connections[connection_handle[k]] # None
                PROVE  /\ connection_handle[k] # None
                       /\ connections[connection_handle[k]] = attached[k]
    BY DEF CatalogHandleIsItsOwn, IInv, Attachments
  <2>1. /\ connection_handle[k] \in Address
        /\ address[attached[k]] = connection_handle[k]
        /\ attached[k] \in Connection
        /\ connections[connection_handle[k]] \in Connection
    BY DEF IInv, TypeOK, Attachments
  <2>2. address[connections[connection_handle[k]]] = connection_handle[k]
    BY <2>1 DEF IInv, RegisteredAreOpen
  <2>3. QED  BY <2>1, <2>2, NoneAssumption DEF IInv, Placement
<1>2. QED  BY <1>1, Invariance, PTL

\* Add never overwrites a registration: the wrapper being added is in no other
\* connection's place and is not registered yet.
THEOREM NoOverwriting == Spec => RegistrationsAreNotOverwritten
<1>1. ASSUME IInv, [Next]_vars
      PROVE  \A a \in Address : connections[a] # None => connections'[a] \in {connections[a], None}
  <2>. TAKE a \in Address
  <2>. HAVE connections[a] # None
  <2>1. ASSUME NEW s \in Caller, pc[s] = "created", Add(held[s])
        PROVE  connections'[a] = connections[a]
    BY <1>1, <2>1, AddIsFresh DEF Add, IInv, TypeOK
  <2>2. ASSUME NEW s \in Caller, NEW b \in Address, Disconnect(s, b)
        PROVE  connections'[a] \in {connections[a], None}
    BY <1>1, <2>2 DEF Disconnect, IInv, TypeOK
  <2>3. ASSUME NEW s \in Caller, NEW k \in Catalog, DestroyCatalog(s, k)
        PROVE  connections'[a] \in {connections[a], None}
    BY <1>1, <2>3 DEF DestroyCatalog, IInv, TypeOK
  <2>4. CASE UNCHANGED connections
    BY <2>4
  <2>5. QED
    BY <1>1, <2>1, <2>2, <2>3, <2>4 DEF Next, Start, Continue, vars, Connect, Attach, DatabaseInit,
       ConnectionInit, ConnectionInitialize, CreateThrows, GetValidatedConnection,
       GetScanFunction, StatementInit, StatementRelease, Unbind, DestroyCatalogMembers,
       DropReference, ConnectionRelease, DatabaseRelease
<1>2. QED  BY <1>1, Invariance, PTL DEF Spec, RegistrationsAreNotOverwritten

=============================================================================
