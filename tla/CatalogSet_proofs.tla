------------------------- MODULE CatalogSet_proofs -------------------------
(***************************************************************************)
(* Theorems about CatalogSet, for any number of statements and of clears,  *)
(* any names and any folding of them.                                      *)
(***************************************************************************)
EXTENDS CatalogSet, TLAPS

-----------------------------------------------------------------------------
(* The inductive invariant, in parts.                                      *)

\* What a statement's place says of its variables and of the set.
Places ==
  \A t \in Caller :
    /\ pc[t] \notin {"creating", "storing"} => schema_name[t] = {}
    /\ pc[t] # "using" => refs[t] = {}
    /\ \A r \in refs[t] : r[2] # 0
    /\ pc[t] \in {"loading", "inserting"} => ~is_loaded
    /\ pc[t] \in {"ready", "creating", "storing", "using"} => is_loaded \/ overlapped

\* A load that nothing cut into: what was told is cached or still to insert.
Loads ==
  ~overlapped =>
    /\ is_loaded => /\ answered_at = clears
                    /\ \A n \in answered : Fold[n] \in DOMAIN entry_map
    /\ \A t \in Caller : pc[t] = "inserting" =>
         /\ answered_at = clears
         /\ \A n \in answered : todo[t][n] = 0 => Fold[n] \in DOMAIN entry_map

\* A CREATE SCHEMA that nothing overlaps is alone and its name is still free.
Creates ==
  ~overlapped =>
    /\ \A t \in Caller : \A n \in schema_name[t] : Fold[n] \notin DOMAIN entry_map
    /\ \A t, u \in Caller :
         pc[t] \in {"creating", "storing"} /\ pc[u] \in {"creating", "storing"} => t = u

IInv ==
  /\ TypeOK /\ OneLoadAtATime /\ MapsAgree
  /\ Places /\ Loads /\ Creates /\ PointersStayValid

-----------------------------------------------------------------------------
(* Lemmas.                                                                 *)

\* GetEntry finds something exactly where the case-insensitive map has the
\* name: its second test for end() is never true.
LEMMA FoundIffMapped ==
  ASSUME TypeOK, MapsAgree, NEW n \in Name
  PROVE  Found(n) # {} <=> Fold[n] \in DOMAIN entry_map
<1>1. Fold[n] \in DOMAIN entry_map => <<entry_map[Fold[n]], entries[entry_map[Fold[n]]]>> \in Found(n)
  BY DEF MapsAgree, Found
<1>2. Found(n) # {} => Fold[n] \in DOMAIN entry_map
  BY DEF Found
<1>3. QED  BY <1>1, <1>2

\* Either load has been told some names, each so many times.
LEMMA LoadIsTold ==
  ASSUME NEW t \in Caller, LoadSchemas(t) \/ LoadTables(t)
  PROVE  \E times \in [Name -> Nat] : LoadEntries(t, times)
<1>1. CASE LoadSchemas(t)
  <2>1. PICK names \in SUBSET remote :
               LoadEntries(t, Once(IF names = {} THEN Fallback ELSE names))
    BY <1>1 DEF LoadSchemas
  <2>2. \A set : Once(set) \in [Name -> Nat]
    BY DEF Once
  <2>3. QED  BY <2>1, <2>2
<1>2. CASE LoadTables(t)
  <2>1. PICK times \in [Name -> 0 .. MaxTimes] : LoadEntries(t, times)
    BY <1>2 DEF LoadTables
  <2>2. times \in [Name -> Nat]
    OBVIOUS
  <2>3. QED  BY <2>1, <2>2
<1>3. QED  BY <1>1, <1>2

\* Nothing is cached at first.
LEMMA InitIInv == Init => IInv
<1>1. Init => DOMAIN entry_map = {}
  BY DEF Init
<1>2. ASSUME Init  PROVE TypeOK
  <2>1. {} \in SUBSET (Name \X Nat) /\ {} \in SUBSET Name /\ Nothing \in [Name -> Nat]
    BY DEF Nothing
  <2>2. /\ refs \in [Caller -> SUBSET (Name \X Nat)]
        /\ schema_name \in [Caller -> SUBSET Name] /\ todo \in [Caller -> [Name -> Nat]]
    BY <1>2, <2>1, Zenon DEF Init
  <2>3. level \in Level /\ remote \subseteq Name
    BY <1>2, CatalogSetAssumption DEF Init
  <2>4. QED
    BY <1>1, <1>2, <2>1, <2>2, <2>3 DEF Init, TypeOK
<1>3. Init => OneLoadAtATime /\ MapsAgree
  BY <1>1, CatalogSetAssumption DEF Init, OneLoadAtATime, MapsAgree, Cached, Nothing
<1>4. Init => Places /\ Loads /\ Creates /\ PointersStayValid
  BY <1>1 DEF Init, Places, Loads, Creates, PointersStayValid
<1>5. QED  BY <1>2, <1>3, <1>4 DEF IInv

\* CreateEntry keeps the two maps together and touches one name.
LEMMA CreateEntryEffect ==
  ASSUME TypeOK, MapsAgree, NEW n \in Name, CreateEntry(n)
  PROVE  /\ entries' \in [Name -> Nat] /\ generation' \in [Name -> Nat]
         /\ entries'[n] # 0 /\ entries'[n] = generation'[n]
         /\ \A m \in Name : m # n => entries'[m] = entries[m]
         /\ DOMAIN entry_map' = DOMAIN entry_map \cup {Fold[n]}
         /\ entry_map'[Fold[n]] = n
         /\ \A k \in DOMAIN entry_map : k # Fold[n] => entry_map'[k] = entry_map[k]
         /\ DOMAIN entry_map' \subseteq Key
         /\ \A k \in DOMAIN entry_map' : entry_map'[k] \in Name
         /\ MapsAgree'
<1>1. /\ entries' \in [Name -> Nat] /\ generation' \in [Name -> Nat]
      /\ entries'[n] # 0 /\ entries'[n] = generation'[n]
      /\ \A m \in Name : m # n => entries'[m] = entries[m]
  BY DEF TypeOK, CreateEntry
<1>2. /\ DOMAIN entry_map' = DOMAIN entry_map \cup {Fold[n]}
      /\ entry_map'[Fold[n]] = n
      /\ \A k \in DOMAIN entry_map : k # Fold[n] => entry_map'[k] = entry_map[k]
  BY DEF CreateEntry
<1>3. /\ DOMAIN entry_map' \subseteq Key
      /\ \A k \in DOMAIN entry_map' : entry_map'[k] \in Name
  BY <1>2 DEF TypeOK, Key
<1>4. MapsAgree'
  BY <1>1, <1>2 DEF MapsAgree, Cached, TypeOK
<1>5. QED  BY <1>1, <1>2, <1>3, <1>4

-----------------------------------------------------------------------------
(* The invariant holds initially, and each part survives every step.       *)

\* Every step keeps the types.
LEMMA TypesStep ==
  ASSUME IInv, [Next]_vars
  PROVE  TypeOK'
<1>1. CASE UNCHANGED vars
  BY <1>1 DEF vars,
           IInv, TypeOK, Places, Nothing
<1>2. ASSUME NEW t \in Caller,
             Begin(t)
      PROVE  TypeOK'
  BY <1>2, CatalogSetAssumption DEF
           IInv, TypeOK, Places, Nothing, Begin, Goto, cache, history
<1>3. ASSUME NEW t \in Caller,
             TryLoadEntries(t)
      PROVE  TypeOK'
  BY <1>3, CatalogSetAssumption DEF
           IInv, TypeOK, Places, Nothing, TryLoadEntries, Goto, cache, history
<1>4. ASSUME NEW t \in Caller,
             LockLoad(t)
      PROVE  TypeOK'
  BY <1>4, CatalogSetAssumption DEF
           IInv, TypeOK, Places, Nothing, LockLoad, Goto, cache, history
<1>5. ASSUME NEW t \in Caller, NEW times \in [Name -> Nat],
             LoadEntries(t, times)
      PROVE  TypeOK'
  <2>1. answered' \subseteq Name
    BY <1>5 DEF LoadEntries
  <2>2. QED
    BY <1>5, <2>1 DEF IInv, TypeOK, LoadEntries, Goto, cache
<1>6. ASSUME NEW t \in Caller,
             InsertLoaded(t)
      PROVE  TypeOK'
  <2>1. PICK n \in Name : todo[t][n] # 0 /\ CreateEntry(n)
                        /\ todo' = [todo EXCEPT ![t][n] = @ - 1]
    BY <1>6 DEF InsertLoaded
  <2>2. n \in Name /\ pc[t] = "inserting"
    BY <1>6, <2>1 DEF InsertLoaded, IInv, TypeOK
  <2>3. /\ entries' \in [Name -> Nat] /\ generation' \in [Name -> Nat]
        /\ DOMAIN entry_map' \subseteq Key
        /\ \A k \in DOMAIN entry_map' : entry_map'[k] \in Name
    BY <2>1, <2>2, CreateEntryEffect DEF IInv
  <2>4. todo[t] \in [Name -> Nat] /\ todo[t][n] - 1 \in Nat
    <3>1. todo \in [Caller -> [Name -> Nat]]
      BY DEF IInv, TypeOK
    <3>2. todo[t][n] \in Nat /\ todo[t][n] # 0
      BY <2>1, <3>1
    <3>3. QED  BY <3>1, <3>2
  <2>5. /\ todo' \in [Caller -> [Name -> Nat]]
        /\ \A u \in Caller : u # t => todo'[u] = todo[u]
    BY <2>1, <2>2, <2>4 DEF IInv, TypeOK
  <2>6. \A u \in Caller : todo'[u] # Nothing => pc[u] = "inserting"
    BY <2>2, <2>5 DEF IInv, TypeOK
  <2>7. QED
    BY <1>6, <2>2, <2>3, <2>5, <2>6 DEF IInv, TypeOK, InsertLoaded, history
<1>7. ASSUME NEW t \in Caller,
             LoadThrows(t)
      PROVE  TypeOK'
  BY <1>7, CatalogSetAssumption DEF
           IInv, TypeOK, Places, Nothing, LoadThrows, Goto, cache
<1>8. ASSUME NEW t \in Caller,
             FinishLoad(t)
      PROVE  TypeOK'
  BY <1>8, CatalogSetAssumption DEF
           IInv, TypeOK, Places, Nothing, FinishLoad, Goto, history
<1>9. ASSUME NEW t \in Caller, NEW n \in Name,
             GetEntry(t, n)
      PROVE  TypeOK'
  BY <1>9, CatalogSetAssumption DEF
           IInv, TypeOK, Places, Nothing, GetEntry, Goto, Found, Cached, cache, history
<1>10. ASSUME NEW t \in Caller,
             Scan(t)
      PROVE  TypeOK'
  BY <1>10, CatalogSetAssumption DEF
           IInv, TypeOK, Places, Nothing, Scan, Goto, Cached, cache, history
<1>11. ASSUME NEW t \in Caller, NEW n \in Name,
             CreateSchema(t, n)
      PROVE  TypeOK'
  <2>1. schema_name' \in [Caller -> SUBSET Name] /\ overlapped' \in BOOLEAN
    BY <1>11 DEF CreateSchema, Overtakes, IInv, TypeOK
  <2>2. \A u \in Caller : todo[u] # Nothing => pc'[u] = "inserting"
    BY <1>11 DEF CreateSchema, Goto, IInv, TypeOK
  <2>3. QED
    BY <1>11, <2>1, <2>2 DEF IInv, TypeOK, CreateSchema, Goto, cache
<1>12. ASSUME NEW t \in Caller,
             ExecuteCreateSchema(t)
      PROVE  TypeOK'
  BY <1>12, CatalogSetAssumption DEF
           IInv, TypeOK, Places, Nothing, ExecuteCreateSchema, Goto, cache, history
<1>13. ASSUME NEW t \in Caller,
             ExecuteCreateSchemaThrows(t)
      PROVE  TypeOK'
  BY <1>13, CatalogSetAssumption DEF
           IInv, TypeOK, Places, Nothing, ExecuteCreateSchemaThrows, Goto, cache,
           history
<1>14. ASSUME NEW t \in Caller,
             StoreSchema(t)
      PROVE  TypeOK'
  <2>1. PICK n \in schema_name[t] : CreateEntry(n)
                                   /\ refs' = [refs EXCEPT ![t] = {<<n, generation'[n]>>}]
    BY <1>14 DEF StoreSchema
  <2>2. n \in Name /\ pc[t] = "storing"
    BY <1>14, <2>1 DEF StoreSchema, IInv, TypeOK
  <2>3. /\ entries' \in [Name -> Nat] /\ generation' \in [Name -> Nat]
        /\ DOMAIN entry_map' \subseteq Key
        /\ \A k \in DOMAIN entry_map' : entry_map'[k] \in Name
    BY <2>1, <2>2, CreateEntryEffect DEF IInv
  <2>4. QED
    BY <1>14, <2>1, <2>2, <2>3 DEF IInv, TypeOK, StoreSchema, Goto, history
<1>15. ASSUME NEW t \in Caller,
             End(t)
      PROVE  TypeOK'
  BY <1>15, CatalogSetAssumption DEF
           IInv, TypeOK, Places, Nothing, End, Goto, cache, history
<1>16. CASE ClearEntries
  <2>1. DOMAIN entry_map' = {}
    BY <1>16 DEF ClearEntries
  <2>2. overlapped' \in BOOLEAN
    BY <1>16 DEF ClearEntries, Interrupts, IInv, TypeOK
  <2>3. entries' \in [Name -> Nat] /\ clears' \in Nat
    BY <1>16 DEF ClearEntries, IInv, TypeOK, Nothing
  <2>4. QED
    BY <1>16, <2>1, <2>2, <2>3 DEF IInv, TypeOK, ClearEntries
<1>17. QED
  BY <1>1, <1>2, <1>3, <1>4, <1>5, <1>6, <1>7, <1>8, <1>9,
     <1>10, <1>11, <1>12, <1>13, <1>14, <1>15, <1>16, LoadIsTold
     DEF Next, Proceed

\* A caller enters the critical section of load_lock only when it is empty.
LEMMA OneLoadStep ==
  ASSUME IInv, [Next]_vars
  PROVE  OneLoadAtATime'
<1>1. CASE UNCHANGED vars
  BY <1>1 DEF vars,
           IInv, OneLoadAtATime, TypeOK, Nothing
<1>2. ASSUME NEW t \in Caller,
             Begin(t)
      PROVE  OneLoadAtATime'
  BY <1>2, CatalogSetAssumption DEF
           IInv, OneLoadAtATime, TypeOK, Nothing, Begin, Goto, cache, history
<1>3. ASSUME NEW t \in Caller,
             TryLoadEntries(t)
      PROVE  OneLoadAtATime'
  BY <1>3, CatalogSetAssumption DEF
           IInv, OneLoadAtATime, TypeOK, Nothing, TryLoadEntries, Goto, cache, history
<1>4. ASSUME NEW t \in Caller,
             LockLoad(t)
      PROVE  OneLoadAtATime'
  BY <1>4, CatalogSetAssumption DEF
           IInv, OneLoadAtATime, TypeOK, Nothing, LockLoad, Goto, cache, history
<1>5. ASSUME NEW t \in Caller, NEW times \in [Name -> Nat],
             LoadEntries(t, times)
      PROVE  OneLoadAtATime'
  BY <1>5, CatalogSetAssumption DEF
           IInv, OneLoadAtATime, TypeOK, Nothing, LoadEntries, Goto, cache
<1>6. ASSUME NEW t \in Caller,
             InsertLoaded(t)
      PROVE  OneLoadAtATime'
  <2>1. PICK n \in Name : todo[t][n] # 0 /\ CreateEntry(n)
                        /\ todo' = [todo EXCEPT ![t][n] = @ - 1]
    BY <1>6 DEF InsertLoaded
  <2>2. n \in Name /\ pc[t] = "inserting"
    BY <1>6, <2>1 DEF InsertLoaded, IInv, TypeOK
  <2>3. QED
    BY <1>6, <2>1, <2>2, CreateEntryEffect DEF
           IInv, OneLoadAtATime, TypeOK, Nothing, InsertLoaded, history
<1>7. ASSUME NEW t \in Caller,
             LoadThrows(t)
      PROVE  OneLoadAtATime'
  BY <1>7, CatalogSetAssumption DEF
           IInv, OneLoadAtATime, TypeOK, Nothing, LoadThrows, Goto, cache
<1>8. ASSUME NEW t \in Caller,
             FinishLoad(t)
      PROVE  OneLoadAtATime'
  BY <1>8, CatalogSetAssumption DEF
           IInv, OneLoadAtATime, TypeOK, Nothing, FinishLoad, Goto, history
<1>9. ASSUME NEW t \in Caller, NEW n \in Name,
             GetEntry(t, n)
      PROVE  OneLoadAtATime'
  BY <1>9, CatalogSetAssumption DEF
           IInv, OneLoadAtATime, TypeOK, Nothing, GetEntry, Goto, Found, Cached, cache,
           history
<1>10. ASSUME NEW t \in Caller,
             Scan(t)
      PROVE  OneLoadAtATime'
  BY <1>10, CatalogSetAssumption DEF
           IInv, OneLoadAtATime, TypeOK, Nothing, Scan, Goto, Cached, cache, history
<1>11. ASSUME NEW t \in Caller, NEW n \in Name,
             CreateSchema(t, n)
      PROVE  OneLoadAtATime'
  BY <1>11, CatalogSetAssumption DEF
           IInv, OneLoadAtATime, TypeOK, Nothing, CreateSchema, Overtakes, Goto, cache
<1>12. ASSUME NEW t \in Caller,
             ExecuteCreateSchema(t)
      PROVE  OneLoadAtATime'
  BY <1>12, CatalogSetAssumption DEF
           IInv, OneLoadAtATime, TypeOK, Nothing, ExecuteCreateSchema, Goto, cache,
           history
<1>13. ASSUME NEW t \in Caller,
             ExecuteCreateSchemaThrows(t)
      PROVE  OneLoadAtATime'
  BY <1>13, CatalogSetAssumption DEF
           IInv, OneLoadAtATime, TypeOK, Nothing, ExecuteCreateSchemaThrows, Goto,
           cache, history
<1>14. ASSUME NEW t \in Caller,
             StoreSchema(t)
      PROVE  OneLoadAtATime'
  <2>1. PICK n \in schema_name[t] : CreateEntry(n)
                                   /\ refs' = [refs EXCEPT ![t] = {<<n, generation'[n]>>}]
    BY <1>14 DEF StoreSchema
  <2>2. n \in Name /\ pc[t] = "storing"
    BY <1>14, <2>1 DEF StoreSchema, IInv, TypeOK
  <2>3. QED
    BY <1>14, <2>1, <2>2, CreateEntryEffect DEF
           IInv, OneLoadAtATime, TypeOK, Nothing, StoreSchema, Goto, history
<1>15. ASSUME NEW t \in Caller,
             End(t)
      PROVE  OneLoadAtATime'
  BY <1>15, CatalogSetAssumption DEF
           IInv, OneLoadAtATime, TypeOK, Nothing, End, Goto, cache, history
<1>16. CASE ClearEntries
  BY <1>16, CatalogSetAssumption DEF
           IInv, OneLoadAtATime, TypeOK, Nothing, ClearEntries, Interrupts
<1>17. QED
  BY <1>1, <1>2, <1>3, <1>4, <1>5, <1>6, <1>7, <1>8, <1>9,
     <1>10, <1>11, <1>12, <1>13, <1>14, <1>15, <1>16, LoadIsTold
     DEF Next, Proceed

\* Every step that writes one map writes the other.
LEMMA MapsStep ==
  ASSUME IInv, [Next]_vars
  PROVE  MapsAgree'
<1>1. CASE UNCHANGED vars
  BY <1>1 DEF vars,
           IInv, MapsAgree, Cached, TypeOK, Nothing
<1>2. ASSUME NEW t \in Caller,
             Begin(t)
      PROVE  MapsAgree'
  BY <1>2, CatalogSetAssumption DEF
           IInv, MapsAgree, Cached, TypeOK, Nothing, Begin, Goto, cache, history
<1>3. ASSUME NEW t \in Caller,
             TryLoadEntries(t)
      PROVE  MapsAgree'
  BY <1>3, CatalogSetAssumption DEF
           IInv, MapsAgree, Cached, TypeOK, Nothing, TryLoadEntries, Goto, cache,
           history
<1>4. ASSUME NEW t \in Caller,
             LockLoad(t)
      PROVE  MapsAgree'
  BY <1>4, CatalogSetAssumption DEF
           IInv, MapsAgree, Cached, TypeOK, Nothing, LockLoad, Goto, cache, history
<1>5. ASSUME NEW t \in Caller, NEW times \in [Name -> Nat],
             LoadEntries(t, times)
      PROVE  MapsAgree'
  BY <1>5, CatalogSetAssumption DEF
           IInv, MapsAgree, Cached, TypeOK, Nothing, LoadEntries, Goto, cache
<1>6. ASSUME NEW t \in Caller,
             InsertLoaded(t)
      PROVE  MapsAgree'
  <2>1. PICK n \in Name : todo[t][n] # 0 /\ CreateEntry(n)
                        /\ todo' = [todo EXCEPT ![t][n] = @ - 1]
    BY <1>6 DEF InsertLoaded
  <2>2. n \in Name /\ pc[t] = "inserting"
    BY <1>6, <2>1 DEF InsertLoaded, IInv, TypeOK
  <2>3. QED  BY <2>1, <2>2, CreateEntryEffect DEF IInv
<1>7. ASSUME NEW t \in Caller,
             LoadThrows(t)
      PROVE  MapsAgree'
  BY <1>7, CatalogSetAssumption DEF
           IInv, MapsAgree, Cached, TypeOK, Nothing, LoadThrows, Goto, cache
<1>8. ASSUME NEW t \in Caller,
             FinishLoad(t)
      PROVE  MapsAgree'
  BY <1>8, CatalogSetAssumption DEF
           IInv, MapsAgree, Cached, TypeOK, Nothing, FinishLoad, Goto, history
<1>9. ASSUME NEW t \in Caller, NEW n \in Name,
             GetEntry(t, n)
      PROVE  MapsAgree'
  BY <1>9, CatalogSetAssumption DEF
           IInv, MapsAgree, Cached, TypeOK, Nothing, GetEntry, Goto, Found, cache,
           history
<1>10. ASSUME NEW t \in Caller,
             Scan(t)
      PROVE  MapsAgree'
  BY <1>10, CatalogSetAssumption DEF
           IInv, MapsAgree, Cached, TypeOK, Nothing, Scan, Goto, cache, history
<1>11. ASSUME NEW t \in Caller, NEW n \in Name,
             CreateSchema(t, n)
      PROVE  MapsAgree'
  BY <1>11, CatalogSetAssumption DEF
           IInv, MapsAgree, Cached, TypeOK, Nothing, CreateSchema, Overtakes, Goto,
           cache
<1>12. ASSUME NEW t \in Caller,
             ExecuteCreateSchema(t)
      PROVE  MapsAgree'
  BY <1>12, CatalogSetAssumption DEF
           IInv, MapsAgree, Cached, TypeOK, Nothing, ExecuteCreateSchema, Goto, cache,
           history
<1>13. ASSUME NEW t \in Caller,
             ExecuteCreateSchemaThrows(t)
      PROVE  MapsAgree'
  BY <1>13, CatalogSetAssumption DEF
           IInv, MapsAgree, Cached, TypeOK, Nothing, ExecuteCreateSchemaThrows, Goto,
           cache, history
<1>14. ASSUME NEW t \in Caller,
             StoreSchema(t)
      PROVE  MapsAgree'
  <2>1. PICK n \in schema_name[t] : CreateEntry(n)
                                   /\ refs' = [refs EXCEPT ![t] = {<<n, generation'[n]>>}]
    BY <1>14 DEF StoreSchema
  <2>2. n \in Name /\ pc[t] = "storing"
    BY <1>14, <2>1 DEF StoreSchema, IInv, TypeOK
  <2>3. QED  BY <2>1, <2>2, CreateEntryEffect DEF IInv
<1>15. ASSUME NEW t \in Caller,
             End(t)
      PROVE  MapsAgree'
  BY <1>15, CatalogSetAssumption DEF
           IInv, MapsAgree, Cached, TypeOK, Nothing, End, Goto, cache, history
<1>16. CASE ClearEntries
  BY <1>16, CatalogSetAssumption DEF
           IInv, MapsAgree, Cached, TypeOK, Nothing, ClearEntries, Interrupts
<1>17. QED
  BY <1>1, <1>2, <1>3, <1>4, <1>5, <1>6, <1>7, <1>8, <1>9,
     <1>10, <1>11, <1>12, <1>13, <1>14, <1>15, <1>16, LoadIsTold
     DEF Next, Proceed

\* Every step leaves a statement with what its place requires.
LEMMA PlacesStep ==
  ASSUME IInv, [Next]_vars
  PROVE  Places'
<1>1. CASE UNCHANGED vars
  BY <1>1 DEF vars,
           IInv, Places, TypeOK, OneLoadAtATime, Nothing
<1>2. ASSUME NEW t \in Caller,
             Begin(t)
      PROVE  Places'
  BY <1>2, CatalogSetAssumption DEF
           IInv, Places, TypeOK, OneLoadAtATime, Nothing, Begin, Goto, cache, history
<1>3. ASSUME NEW t \in Caller,
             TryLoadEntries(t)
      PROVE  Places'
  BY <1>3, CatalogSetAssumption DEF
           IInv, Places, TypeOK, OneLoadAtATime, Nothing, TryLoadEntries, Goto, cache,
           history
<1>4. ASSUME NEW t \in Caller,
             LockLoad(t)
      PROVE  Places'
  BY <1>4, CatalogSetAssumption DEF
           IInv, Places, TypeOK, OneLoadAtATime, Nothing, LockLoad, Goto, cache,
           history
<1>5. ASSUME NEW t \in Caller, NEW times \in [Name -> Nat],
             LoadEntries(t, times)
      PROVE  Places'
  BY <1>5, CatalogSetAssumption DEF
           IInv, Places, TypeOK, OneLoadAtATime, Nothing, LoadEntries, Goto, cache
<1>6. ASSUME NEW t \in Caller,
             InsertLoaded(t)
      PROVE  Places'
  <2>1. PICK n \in Name : todo[t][n] # 0 /\ CreateEntry(n)
                        /\ todo' = [todo EXCEPT ![t][n] = @ - 1]
    BY <1>6 DEF InsertLoaded
  <2>2. n \in Name /\ pc[t] = "inserting"
    BY <1>6, <2>1 DEF InsertLoaded, IInv, TypeOK
  <2>3. QED
    BY <1>6, <2>1, <2>2, CreateEntryEffect DEF
           IInv, Places, TypeOK, OneLoadAtATime, Nothing, InsertLoaded, history
<1>7. ASSUME NEW t \in Caller,
             LoadThrows(t)
      PROVE  Places'
  BY <1>7, CatalogSetAssumption DEF
           IInv, Places, TypeOK, OneLoadAtATime, Nothing, LoadThrows, Goto, cache
<1>8. ASSUME NEW t \in Caller,
             FinishLoad(t)
      PROVE  Places'
  BY <1>8, CatalogSetAssumption DEF
           IInv, Places, TypeOK, OneLoadAtATime, Nothing, FinishLoad, Goto, history
<1>9. ASSUME NEW t \in Caller, NEW n \in Name,
             GetEntry(t, n)
      PROVE  Places'
  BY <1>9, CatalogSetAssumption DEF
           IInv, Places, TypeOK, OneLoadAtATime, Nothing, GetEntry, Goto, Found,
           Cached, cache, history
<1>10. ASSUME NEW t \in Caller,
             Scan(t)
      PROVE  Places'
  BY <1>10, CatalogSetAssumption DEF
           IInv, Places, TypeOK, OneLoadAtATime, Nothing, Scan, Goto, Cached, cache,
           history
<1>11. ASSUME NEW t \in Caller, NEW n \in Name,
             CreateSchema(t, n)
      PROVE  Places'
  BY <1>11, CatalogSetAssumption DEF
           IInv, Places, TypeOK, OneLoadAtATime, Nothing, CreateSchema, Overtakes,
           Goto, cache
<1>12. ASSUME NEW t \in Caller,
             ExecuteCreateSchema(t)
      PROVE  Places'
  BY <1>12, CatalogSetAssumption DEF
           IInv, Places, TypeOK, OneLoadAtATime, Nothing, ExecuteCreateSchema, Goto,
           cache, history
<1>13. ASSUME NEW t \in Caller,
             ExecuteCreateSchemaThrows(t)
      PROVE  Places'
  BY <1>13, CatalogSetAssumption DEF
           IInv, Places, TypeOK, OneLoadAtATime, Nothing, ExecuteCreateSchemaThrows,
           Goto, cache, history
<1>14. ASSUME NEW t \in Caller,
             StoreSchema(t)
      PROVE  Places'
  <2>1. PICK n \in schema_name[t] : CreateEntry(n)
                                   /\ refs' = [refs EXCEPT ![t] = {<<n, generation'[n]>>}]
    BY <1>14 DEF StoreSchema
  <2>2. n \in Name /\ pc[t] = "storing"
    BY <1>14, <2>1 DEF StoreSchema, IInv, TypeOK
  <2>3. generation'[n] # 0
    BY <2>1, <2>2, CreateEntryEffect DEF IInv
  <2>4. \A r \in refs'[t] : r[2] # 0
    BY <2>1, <2>3 DEF IInv, TypeOK
  <2>5. \A u \in Caller : u # t => refs'[u] = refs[u] /\ pc'[u] = pc[u]
    BY <1>14, <2>1 DEF IInv, TypeOK, StoreSchema, Goto
  <2>6. pc'[t] = "using" /\ schema_name' = [schema_name EXCEPT ![t] = {}]
        /\ UNCHANGED <<is_loaded, overlapped>>
    BY <1>14 DEF IInv, TypeOK, StoreSchema, Goto, history
  <2>7. QED
    BY <2>2, <2>4, <2>5, <2>6 DEF IInv, TypeOK, Places
<1>15. ASSUME NEW t \in Caller,
             End(t)
      PROVE  Places'
  BY <1>15, CatalogSetAssumption DEF
           IInv, Places, TypeOK, OneLoadAtATime, Nothing, End, Goto, cache, history
<1>16. CASE ClearEntries
  BY <1>16, CatalogSetAssumption DEF
           IInv, Places, TypeOK, OneLoadAtATime, Nothing, ClearEntries, Interrupts
<1>17. QED
  BY <1>1, <1>2, <1>3, <1>4, <1>5, <1>6, <1>7, <1>8, <1>9,
     <1>10, <1>11, <1>12, <1>13, <1>14, <1>15, <1>16, LoadIsTold
     DEF Next, Proceed

\* A load that nothing cuts into inserts what it was told.
LEMMA LoadsStep ==
  ASSUME IInv, [Next]_vars
  PROVE  Loads'
<1>1. CASE UNCHANGED vars
  BY <1>1 DEF vars,
           IInv, Loads, TypeOK, OneLoadAtATime, Places, MapsAgree, Cached, Nothing
<1>2. ASSUME NEW t \in Caller,
             Begin(t)
      PROVE  Loads'
  BY <1>2, CatalogSetAssumption DEF
           IInv, Loads, TypeOK, OneLoadAtATime, Places, MapsAgree, Cached, Nothing,
           Begin, Goto, cache, history
<1>3. ASSUME NEW t \in Caller,
             TryLoadEntries(t)
      PROVE  Loads'
  BY <1>3, CatalogSetAssumption DEF
           IInv, Loads, TypeOK, OneLoadAtATime, Places, MapsAgree, Cached, Nothing,
           TryLoadEntries, Goto, cache, history
<1>4. ASSUME NEW t \in Caller,
             LockLoad(t)
      PROVE  Loads'
  BY <1>4, CatalogSetAssumption DEF
           IInv, Loads, TypeOK, OneLoadAtATime, Places, MapsAgree, Cached, Nothing,
           LockLoad, Goto, cache, history
<1>5. ASSUME NEW t \in Caller, NEW times \in [Name -> Nat],
             LoadEntries(t, times)
      PROVE  Loads'
  <2>1. todo'[t] = times /\ \A n \in answered' : times[n] # 0
    BY <1>5 DEF LoadEntries, IInv, TypeOK
  <2>2. \A u \in Caller : (pc[u] # "inserting" /\ pc[u] # "loading") \/ u = t
    BY <1>5 DEF LoadEntries, IInv, OneLoadAtATime
  <2>3. pc[t] = "loading" /\ ~is_loaded
    BY <1>5 DEF LoadEntries, IInv, Places
  <2>4. QED
    BY <1>5, <2>1, <2>2, <2>3 DEF IInv, TypeOK, Loads, LoadEntries, Goto, cache
<1>6. ASSUME NEW t \in Caller,
             InsertLoaded(t)
      PROVE  Loads'
  <2>1. PICK n \in Name : todo[t][n] # 0 /\ CreateEntry(n)
                        /\ todo' = [todo EXCEPT ![t][n] = @ - 1]
    BY <1>6 DEF InsertLoaded
  <2>2. n \in Name /\ pc[t] = "inserting"
    BY <1>6, <2>1 DEF InsertLoaded, IInv, TypeOK
  <2>3. /\ \A m \in Name : m # n => entries'[m] = entries[m]
        /\ DOMAIN entry_map' = DOMAIN entry_map \cup {Fold[n]}
    BY <2>1, <2>2, CreateEntryEffect DEF IInv
  <2>4. \A u \in Caller : pc[u] = "inserting" => u = t
    BY <2>2 DEF IInv, OneLoadAtATime
  <2>5. ~is_loaded /\ answered \subseteq Name
    BY <2>2 DEF IInv, Places, TypeOK
  <2>6. \A m \in Name : m # n => todo'[t][m] = todo[t][m]
    BY <2>1 DEF IInv, TypeOK
  <2>7. QED
    BY <1>6, <2>2, <2>3, <2>4, <2>5, <2>6 DEF IInv, Loads, InsertLoaded, history
<1>7. ASSUME NEW t \in Caller,
             LoadThrows(t)
      PROVE  Loads'
  BY <1>7, CatalogSetAssumption DEF
           IInv, Loads, TypeOK, OneLoadAtATime, Places, MapsAgree, Cached, Nothing,
           LoadThrows, Goto, cache
<1>8. ASSUME NEW t \in Caller,
             FinishLoad(t)
      PROVE  Loads'
  BY <1>8, CatalogSetAssumption DEF
           IInv, Loads, TypeOK, OneLoadAtATime, Places, MapsAgree, Cached, Nothing,
           FinishLoad, Goto, history
<1>9. ASSUME NEW t \in Caller, NEW n \in Name,
             GetEntry(t, n)
      PROVE  Loads'
  BY <1>9, CatalogSetAssumption DEF
           IInv, Loads, TypeOK, OneLoadAtATime, Places, MapsAgree, Cached, Nothing,
           GetEntry, Goto, Found, cache, history
<1>10. ASSUME NEW t \in Caller,
             Scan(t)
      PROVE  Loads'
  BY <1>10, CatalogSetAssumption DEF
           IInv, Loads, TypeOK, OneLoadAtATime, Places, MapsAgree, Cached, Nothing,
           Scan, Goto, cache, history
<1>11. ASSUME NEW t \in Caller, NEW n \in Name,
             CreateSchema(t, n)
      PROVE  Loads'
  BY <1>11, CatalogSetAssumption DEF
           IInv, Loads, TypeOK, OneLoadAtATime, Places, MapsAgree, Cached, Nothing,
           CreateSchema, Overtakes, Goto, cache
<1>12. ASSUME NEW t \in Caller,
             ExecuteCreateSchema(t)
      PROVE  Loads'
  BY <1>12, CatalogSetAssumption DEF
           IInv, Loads, TypeOK, OneLoadAtATime, Places, MapsAgree, Cached, Nothing,
           ExecuteCreateSchema, Goto, cache, history
<1>13. ASSUME NEW t \in Caller,
             ExecuteCreateSchemaThrows(t)
      PROVE  Loads'
  BY <1>13, CatalogSetAssumption DEF
           IInv, Loads, TypeOK, OneLoadAtATime, Places, MapsAgree, Cached, Nothing,
           ExecuteCreateSchemaThrows, Goto, cache, history
<1>14. ASSUME NEW t \in Caller,
             StoreSchema(t)
      PROVE  Loads'
  <2>1. PICK n \in schema_name[t] : CreateEntry(n)
                                   /\ refs' = [refs EXCEPT ![t] = {<<n, generation'[n]>>}]
    BY <1>14 DEF StoreSchema
  <2>2. n \in Name /\ pc[t] = "storing"
    BY <1>14, <2>1 DEF StoreSchema, IInv, TypeOK
  <2>3. DOMAIN entry_map' = DOMAIN entry_map \cup {Fold[n]}
    BY <2>1, <2>2, CreateEntryEffect DEF IInv
  <2>4. is_loaded \/ overlapped
    BY <2>2 DEF IInv, Places
  <2>5. \A u \in Caller : pc'[u] = "inserting" => pc[u] = "inserting"
    BY <1>14 DEF StoreSchema, Goto, IInv, TypeOK
  <2>6. \A u \in Caller : pc[u] = "inserting" => ~is_loaded
    BY DEF IInv, Places
  <2>7. QED
    BY <1>14, <2>3, <2>4, <2>5, <2>6 DEF IInv, Loads, StoreSchema, history
<1>15. ASSUME NEW t \in Caller,
             End(t)
      PROVE  Loads'
  BY <1>15, CatalogSetAssumption DEF
           IInv, Loads, TypeOK, OneLoadAtATime, Places, MapsAgree, Cached, Nothing,
           End, Goto, cache, history
<1>16. CASE ClearEntries
  BY <1>16, CatalogSetAssumption DEF
           IInv, Loads, TypeOK, OneLoadAtATime, Places, MapsAgree, Cached, Nothing,
           ClearEntries, Interrupts
<1>17. QED
  BY <1>1, <1>2, <1>3, <1>4, <1>5, <1>6, <1>7, <1>8, <1>9,
     <1>10, <1>11, <1>12, <1>13, <1>14, <1>15, <1>16, LoadIsTold
     DEF Next, Proceed

\* A name that CREATE SCHEMA found free stays free until it is stored.
LEMMA CreatesStep ==
  ASSUME IInv, [Next]_vars
  PROVE  Creates'
<1>1. CASE UNCHANGED vars
  BY <1>1 DEF vars,
           IInv, Creates, TypeOK, Places, OneLoadAtATime, Nothing
<1>2. ASSUME NEW t \in Caller,
             Begin(t)
      PROVE  Creates'
  BY <1>2, CatalogSetAssumption DEF
           IInv, Creates, TypeOK, Places, OneLoadAtATime, Nothing, Begin, Goto, cache,
           history
<1>3. ASSUME NEW t \in Caller,
             TryLoadEntries(t)
      PROVE  Creates'
  BY <1>3, CatalogSetAssumption DEF
           IInv, Creates, TypeOK, Places, OneLoadAtATime, Nothing, TryLoadEntries,
           Goto, cache, history
<1>4. ASSUME NEW t \in Caller,
             LockLoad(t)
      PROVE  Creates'
  BY <1>4, CatalogSetAssumption DEF
           IInv, Creates, TypeOK, Places, OneLoadAtATime, Nothing, LockLoad, Goto,
           cache, history
<1>5. ASSUME NEW t \in Caller, NEW times \in [Name -> Nat],
             LoadEntries(t, times)
      PROVE  Creates'
  BY <1>5, CatalogSetAssumption DEF
           IInv, Creates, TypeOK, Places, OneLoadAtATime, Nothing, LoadEntries, Goto,
           cache
<1>6. ASSUME NEW t \in Caller,
             InsertLoaded(t)
      PROVE  Creates'
  <2>1. PICK n \in Name : todo[t][n] # 0 /\ CreateEntry(n)
                        /\ todo' = [todo EXCEPT ![t][n] = @ - 1]
    BY <1>6 DEF InsertLoaded
  <2>2. n \in Name /\ pc[t] = "inserting"
    BY <1>6, <2>1 DEF InsertLoaded, IInv, TypeOK
  <2>3. QED
    BY <1>6, <2>1, <2>2, CreateEntryEffect DEF
           IInv, Creates, TypeOK, Places, OneLoadAtATime, Nothing, InsertLoaded,
           history
<1>7. ASSUME NEW t \in Caller,
             LoadThrows(t)
      PROVE  Creates'
  BY <1>7, CatalogSetAssumption DEF
           IInv, Creates, TypeOK, Places, OneLoadAtATime, Nothing, LoadThrows, Goto,
           cache
<1>8. ASSUME NEW t \in Caller,
             FinishLoad(t)
      PROVE  Creates'
  BY <1>8, CatalogSetAssumption DEF
           IInv, Creates, TypeOK, Places, OneLoadAtATime, Nothing, FinishLoad, Goto,
           history
<1>9. ASSUME NEW t \in Caller, NEW n \in Name,
             GetEntry(t, n)
      PROVE  Creates'
  BY <1>9, CatalogSetAssumption DEF
           IInv, Creates, TypeOK, Places, OneLoadAtATime, Nothing, GetEntry, Goto,
           Found, Cached, cache, history
<1>10. ASSUME NEW t \in Caller,
             Scan(t)
      PROVE  Creates'
  BY <1>10, CatalogSetAssumption DEF
           IInv, Creates, TypeOK, Places, OneLoadAtATime, Nothing, Scan, Goto, Cached,
           cache, history
<1>11. ASSUME NEW t \in Caller, NEW n \in Name,
             CreateSchema(t, n)
      PROVE  Creates'
  <2>1. Found(n) = {} => Fold[n] \notin DOMAIN entry_map
    BY FoundIffMapped DEF IInv
  <2>2. CASE Found(n) = {}
    BY <1>11, <2>1, <2>2 DEF IInv, Creates, TypeOK, Places, CreateSchema, Overtakes, Goto, cache
  <2>3. CASE Found(n) # {}
    BY <1>11, <2>3 DEF IInv, Creates, TypeOK, Places, CreateSchema, Overtakes, Goto, cache
  <2>4. QED  BY <2>2, <2>3
<1>12. ASSUME NEW t \in Caller,
             ExecuteCreateSchema(t)
      PROVE  Creates'
  BY <1>12, CatalogSetAssumption DEF
           IInv, Creates, TypeOK, Places, OneLoadAtATime, Nothing, ExecuteCreateSchema,
           Goto, cache, history
<1>13. ASSUME NEW t \in Caller,
             ExecuteCreateSchemaThrows(t)
      PROVE  Creates'
  BY <1>13, CatalogSetAssumption DEF
           IInv, Creates, TypeOK, Places, OneLoadAtATime, Nothing,
           ExecuteCreateSchemaThrows, Goto, cache, history
<1>14. ASSUME NEW t \in Caller,
             StoreSchema(t)
      PROVE  Creates'
  <2>1. PICK n \in schema_name[t] : CreateEntry(n)
                                   /\ refs' = [refs EXCEPT ![t] = {<<n, generation'[n]>>}]
    BY <1>14 DEF StoreSchema
  <2>2. n \in Name /\ pc[t] = "storing"
    BY <1>14, <2>1 DEF StoreSchema, IInv, TypeOK
  <2>3. QED
    BY <1>14, <2>1, <2>2, CreateEntryEffect DEF
           IInv, Creates, TypeOK, Places, OneLoadAtATime, Nothing, StoreSchema, Goto,
           history
<1>15. ASSUME NEW t \in Caller,
             End(t)
      PROVE  Creates'
  BY <1>15, CatalogSetAssumption DEF
           IInv, Creates, TypeOK, Places, OneLoadAtATime, Nothing, End, Goto, cache,
           history
<1>16. CASE ClearEntries
  BY <1>16, CatalogSetAssumption DEF
           IInv, Creates, TypeOK, Places, OneLoadAtATime, Nothing, ClearEntries,
           Interrupts
<1>17. QED
  BY <1>1, <1>2, <1>3, <1>4, <1>5, <1>6, <1>7, <1>8, <1>9,
     <1>10, <1>11, <1>12, <1>13, <1>14, <1>15, <1>16, LoadIsTold
     DEF Next, Proceed

\* No step that overlaps no other replaces an object that is cached.
LEMMA PointersStep ==
  ASSUME IInv, [Next]_vars
  PROVE  PointersStayValid'
<1>1. CASE UNCHANGED vars
  BY <1>1 DEF vars,
           IInv, PointersStayValid, TypeOK, Places, Loads, Creates, MapsAgree, Cached,
           Nothing
<1>2. ASSUME NEW t \in Caller,
             Begin(t)
      PROVE  PointersStayValid'
  BY <1>2, CatalogSetAssumption DEF
           IInv, PointersStayValid, TypeOK, Places, Loads, Creates, MapsAgree, Cached,
           Nothing, Begin, Goto, cache, history
<1>3. ASSUME NEW t \in Caller,
             TryLoadEntries(t)
      PROVE  PointersStayValid'
  BY <1>3, CatalogSetAssumption DEF
           IInv, PointersStayValid, TypeOK, Places, Loads, Creates, MapsAgree, Cached,
           Nothing, TryLoadEntries, Goto, cache, history
<1>4. ASSUME NEW t \in Caller,
             LockLoad(t)
      PROVE  PointersStayValid'
  BY <1>4, CatalogSetAssumption DEF
           IInv, PointersStayValid, TypeOK, Places, Loads, Creates, MapsAgree, Cached,
           Nothing, LockLoad, Goto, cache, history
<1>5. ASSUME NEW t \in Caller, NEW times \in [Name -> Nat],
             LoadEntries(t, times)
      PROVE  PointersStayValid'
  BY <1>5, CatalogSetAssumption DEF
           IInv, PointersStayValid, TypeOK, Places, Loads, Creates, MapsAgree, Cached,
           Nothing, LoadEntries, Goto, cache
<1>6. ASSUME NEW t \in Caller,
             InsertLoaded(t)
      PROVE  PointersStayValid'
  <2>1. ~is_loaded /\ refs' = refs /\ overlapped' = overlapped
    BY <1>6 DEF InsertLoaded, IInv, Places, history
  <2>2. ~overlapped => \A u \in Caller : refs[u] = {}
    BY <2>1 DEF IInv, Places
  <2>3. QED
    BY <2>1, <2>2 DEF PointersStayValid
<1>7. ASSUME NEW t \in Caller,
             LoadThrows(t)
      PROVE  PointersStayValid'
  BY <1>7, CatalogSetAssumption DEF
           IInv, PointersStayValid, TypeOK, Places, Loads, Creates, MapsAgree, Cached,
           Nothing, LoadThrows, Goto, cache
<1>8. ASSUME NEW t \in Caller,
             FinishLoad(t)
      PROVE  PointersStayValid'
  BY <1>8, CatalogSetAssumption DEF
           IInv, PointersStayValid, TypeOK, Places, Loads, Creates, MapsAgree, Cached,
           Nothing, FinishLoad, Goto, history
<1>9. ASSUME NEW t \in Caller, NEW n \in Name,
             GetEntry(t, n)
      PROVE  PointersStayValid'
  BY <1>9, CatalogSetAssumption DEF
           IInv, PointersStayValid, TypeOK, Places, Loads, Creates, MapsAgree, Cached,
           Nothing, GetEntry, Goto, Found, cache, history
<1>10. ASSUME NEW t \in Caller,
             Scan(t)
      PROVE  PointersStayValid'
  BY <1>10, CatalogSetAssumption DEF
           IInv, PointersStayValid, TypeOK, Places, Loads, Creates, MapsAgree, Cached,
           Nothing, Scan, Goto, cache, history
<1>11. ASSUME NEW t \in Caller, NEW n \in Name,
             CreateSchema(t, n)
      PROVE  PointersStayValid'
  BY <1>11, CatalogSetAssumption DEF
           IInv, PointersStayValid, TypeOK, Places, Loads, Creates, MapsAgree, Cached,
           Nothing, CreateSchema, Overtakes, Goto, cache
<1>12. ASSUME NEW t \in Caller,
             ExecuteCreateSchema(t)
      PROVE  PointersStayValid'
  BY <1>12, CatalogSetAssumption DEF
           IInv, PointersStayValid, TypeOK, Places, Loads, Creates, MapsAgree, Cached,
           Nothing, ExecuteCreateSchema, Goto, cache, history
<1>13. ASSUME NEW t \in Caller,
             ExecuteCreateSchemaThrows(t)
      PROVE  PointersStayValid'
  BY <1>13, CatalogSetAssumption DEF
           IInv, PointersStayValid, TypeOK, Places, Loads, Creates, MapsAgree, Cached,
           Nothing, ExecuteCreateSchemaThrows, Goto, cache, history
<1>14. ASSUME NEW t \in Caller,
             StoreSchema(t)
      PROVE  PointersStayValid'
  <2>1. PICK n \in schema_name[t] : CreateEntry(n)
                                   /\ refs' = [refs EXCEPT ![t] = {<<n, generation'[n]>>}]
    BY <1>14 DEF StoreSchema
  <2>2. n \in Name /\ pc[t] = "storing"
    BY <1>14, <2>1 DEF StoreSchema, IInv, TypeOK
  <2>3. /\ \A m \in Name : m # n => entries'[m] = entries[m]
        /\ entries'[n] = generation'[n]
    BY <2>1, <2>2, CreateEntryEffect DEF IInv
  <2>4. ~overlapped => entries[n] = 0
    BY <2>1, <2>2 DEF IInv, Creates, MapsAgree, Cached, TypeOK
  <2>5. ASSUME ~overlapped', NEW u \in Caller, NEW r \in refs'[u]
        PROVE  entries'[r[1]] = r[2]
    <3>1. ~overlapped
      BY <1>14, <2>5 DEF StoreSchema, history
    <3>2. CASE u = t
      <4>1. r = <<n, generation'[n]>>
        BY <2>1, <2>5, <3>2 DEF IInv, TypeOK
      <4>2. QED  BY <2>3, <4>1
    <3>3. CASE u # t
      <4>1. r \in refs[u]
        BY <2>1, <2>5, <3>3 DEF IInv, TypeOK
      <4>2. r[1] \in Name /\ r[2] # 0 /\ entries[r[1]] = r[2]
        BY <3>1, <4>1 DEF IInv, TypeOK, PointersStayValid, Places
      <4>3. QED  BY <2>3, <2>4, <3>1, <4>2
    <3>4. QED  BY <3>2, <3>3
  <2>6. QED  BY <2>5 DEF PointersStayValid
<1>15. ASSUME NEW t \in Caller,
             End(t)
      PROVE  PointersStayValid'
  BY <1>15, CatalogSetAssumption DEF
           IInv, PointersStayValid, TypeOK, Places, Loads, Creates, MapsAgree, Cached,
           Nothing, End, Goto, cache, history
<1>16. CASE ClearEntries
  BY <1>16, CatalogSetAssumption DEF
           IInv, PointersStayValid, TypeOK, Places, Loads, Creates, MapsAgree, Cached,
           Nothing, ClearEntries, Interrupts
<1>17. QED
  BY <1>1, <1>2, <1>3, <1>4, <1>5, <1>6, <1>7, <1>8, <1>9,
     <1>10, <1>11, <1>12, <1>13, <1>14, <1>15, <1>16, LoadIsTold
     DEF Next, Proceed

-----------------------------------------------------------------------------
(* Theorems.                                                               *)

\* The invariant holds in every reachable state.
THEOREM Invariance == Spec => []IInv
<1>1. Init => IInv  BY InitIInv
<1>2. IInv /\ [Next]_vars => IInv'
  BY TypesStep, OneLoadStep, MapsStep, PlacesStep, LoadsStep, CreatesStep, PointersStep DEF IInv
<1>3. QED  BY <1>1, <1>2, PTL DEF Spec

\* The state keeps its types, whatever names the driver returns.
THEOREM TypeCorrect == Spec => []TypeOK
<1>1. IInv => TypeOK  BY DEF IInv
<1>2. QED  BY <1>1, Invariance, PTL

\* The case-insensitive and the case-sensitive map never disagree, clears in
\* the middle of a load included.
THEOREM TheMapsAgree == Spec => []MapsAgree
<1>1. IInv => MapsAgree  BY DEF IInv
<1>2. QED  BY <1>1, Invariance, PTL

\* Double-checked loading: never two loads at once.
THEOREM LoadsExclude == Spec => []OneLoadAtATime
<1>1. IInv => OneLoadAtATime  BY DEF IInv
<1>2. QED  BY <1>1, Invariance, PTL

\* Nobody sees a half-loaded set, unless a clear cut into a load.
THEOREM LoadedMeansComplete == Spec => []LoadedIsComplete
<1>1. IInv => LoadedIsComplete
  BY FoundIffMapped DEF IInv, TypeOK, Loads, LoadedIsComplete
<1>2. QED  BY <1>1, Invariance, PTL

\* What is cached after a clear was asked for after it, unless the clear cut
\* into a statement.
THEOREM QuietClear == Spec => []QuietClearForgets
<1>1. IInv => QuietClearForgets
  BY DEF IInv, Loads, QuietClearForgets, ClearForgets
<1>2. QED  BY <1>1, Invariance, PTL

\* Pointers given out stay valid, unless a clear or a second CREATE SCHEMA cut
\* into the statement that holds them.
THEOREM NoDanglingPointer == Spec => []PointersStayValid
<1>1. IInv => PointersStayValid  BY DEF IInv
<1>2. QED  BY <1>1, Invariance, PTL

\* Once a set is loaded its entries stay the same objects: nobody loads it
\* again, since a load runs only while is_loaded is false, and CREATE SCHEMA
\* found its name free.
THEOREM OnlyGrows == Spec => LoadedOnlyGrows
<1>1. ASSUME IInv, [Next]_vars, is_loaded, clears' = clears, ~overlapped',
             NEW m \in Name, entries[m] # 0
      PROVE  entries'[m] = entries[m]
  <2>1. ASSUME NEW t \in Caller, InsertLoaded(t)  PROVE FALSE
    BY <1>1, <2>1 DEF InsertLoaded, IInv, Places
  <2>2. ASSUME NEW t \in Caller, StoreSchema(t)  PROVE entries'[m] = entries[m]
    <3>1. PICK n \in schema_name[t] : CreateEntry(n)
      BY <2>2 DEF StoreSchema
    <3>2. n \in Name /\ ~overlapped
      BY <1>1, <2>2, <3>1 DEF StoreSchema, IInv, TypeOK, history
    <3>3. n # m
      BY <1>1, <3>1, <3>2 DEF IInv, Creates, MapsAgree, Cached
    <3>4. QED  BY <1>1, <3>1, <3>2, <3>3, CreateEntryEffect DEF IInv
  <2>3. CASE ClearEntries
    BY <1>1, <2>3 DEF ClearEntries, IInv, TypeOK
  <2>4. CASE UNCHANGED entries
    BY <2>4
  <2>5. QED
    BY <1>1, <2>1, <2>2, <2>3, <2>4, LoadIsTold DEF Next, Proceed, vars, cache, Begin,
       TryLoadEntries, LockLoad, LoadEntries, LoadThrows, FinishLoad, GetEntry, Scan,
       CreateSchema, ExecuteCreateSchema, ExecuteCreateSchemaThrows, End
<1>2. IInv /\ [Next]_vars =>
        (is_loaded /\ clears' = clears /\ ~overlapped' =>
           \A n \in Name : entries[n] # 0 => entries'[n] = entries[n])
  BY <1>1
<1>3. QED  BY <1>2, Invariance, PTL DEF Spec, LoadedOnlyGrows

=============================================================================
