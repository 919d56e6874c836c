--------------------------- MODULE NestedResults ---------------------------
(***************************************************************************)
(* The answers of a driver to GetInfo, GetObjects, GetTableTypes and       *)
(* GetTableSchema as Arrow arrays, and the rows and the catalog entries    *)
(* that adbc_catalog.cpp, adbc_schema_set.cpp and adbc_table_set.cpp make  *)
(* of them.                                                                *)
(*                                                                         *)
(* A remote database is a tree of catalogs, schemas, tables and columns    *)
(* with the lists GetInfo and GetTableTypes answer with.  GetObjects       *)
(* answers with the tree flattened level by level: the children of entry i *)
(* of a level are those between offsets i and i + 1 of the next.  A column *)
(* is nullable or not, and its driver reports that in either, both or none *)
(* of two fields.                                                          *)
(***************************************************************************)
EXTENDS Integers, Sequences, SequencesExt, TLC, Subsequences

Null == "NULL"   \* a null slot of a string array, an SQL NULL, an absent filter
NullNumber == -1 \* a null slot of an array of numbers and an SQL NULL among numbers

-----------------------------------------------------------------------------
(* The driver's side.                                                      *)

\* list<struct>: the offsets and the structs of all lists, one after another.
ListArray(lists) ==
  [offsets |-> [i \in 1 .. Len(lists) + 1 |-> Len(FlattenSeq(SubSeq(lists, 1, i - 1)))],
   items   |-> FlattenSeq(lists)]

Names(s) == [i \in DOMAIN s |-> s[i].name]

ColumnStruct(x) ==
  [name |-> x.name, ordinal |-> x.ordinal, remarks |-> x.remarks, type |-> x.type,
   is_nullable |-> CASE "string" \notin x.reports -> Null
                     [] x.nullable -> "YES"
                     [] OTHER -> "NO",
   nullable    |-> CASE "number" \notin x.reports -> NullNumber
                     [] x.nullable -> 1
                     [] OTHER -> 0]

ObjectsArray(catalogs) ==
  LET schemas == ListArray([i \in DOMAIN catalogs |-> catalogs[i].schemas])
      tables  == ListArray([i \in DOMAIN schemas.items |-> schemas.items[i].tables])
      columns == ListArray([i \in DOMAIN tables.items |-> tables.items[i].columns])
  IN [catalog_names   |-> Names(catalogs),       schema_offsets |-> schemas.offsets,
      schema_names    |-> Names(schemas.items),  table_offsets  |-> tables.offsets,
      table_names     |-> Names(tables.items),
      table_types     |-> [i \in DOMAIN tables.items |-> tables.items[i].type],
      column_offsets  |-> columns.offsets,
      columns         |-> [i \in DOMAIN columns.items |-> ColumnStruct(columns.items[i])]]

\* A dense union: the type of each value and its place in the child of its type.
InfoArray(infos) ==
  LET OfType(type, n) == Keep(SubSeq(infos, 1, n), {v \in ToSet(infos) : v.type = type})
  IN [codes    |-> [i \in DOMAIN infos |-> infos[i].code],
      types    |-> [i \in DOMAIN infos |-> infos[i].type],
      offsets  |-> [i \in DOMAIN infos |-> Len(OfType(infos[i].type, i - 1))],
      children |-> [type \in 0 .. 5 |->
                     LET values == OfType(type, Len(infos))
                     IN  [i \in DOMAIN values |-> values[i].value]]]

\* GetObjects keeps what the given names match, at every level.
Matches(name, filter) == filter = Null \/ name = filter

Named(s, filter) == Keep(s, {x \in ToSet(s) : Matches(x.name, filter)})

MatchingColumns(t, column) == [t EXCEPT !.columns = Named(t.columns, column)]

MatchingTables(s, table, column) ==
  [s EXCEPT !.tables = LET kept == Named(s.tables, table)
                       IN  [i \in DOMAIN kept |-> MatchingColumns(kept[i], column)]]

MatchingSchemas(c, schema, table, column) ==
  [c EXCEPT !.schemas = LET kept == Named(c.schemas, schema)
                        IN  [i \in DOMAIN kept |-> MatchingTables(kept[i], table, column)]]

Matching(catalogs, catalog, schema, table, column) ==
  LET kept == Named(catalogs, catalog)
  IN  [i \in DOMAIN kept |-> MatchingSchemas(kept[i], schema, table, column)]

-----------------------------------------------------------------------------
(* Reading the arrays.                                                     *)

\* ExtractString and ExtractArrowString: a null is the empty string ...
ExtractString(x) == IF x = Null THEN "" ELSE x

\* ... which some columns of the result turn into NULL again.
OrNull(x) == IF x = "" THEN Null ELSE x

\* for (i = first; i < last; i++), collecting; Arrow counts from 0.
Collect(first, last, op(_)) == FlattenSeq([i \in 1 .. last - first |-> op(first + i)])

\* The entries of one level that belong to entry i of the level above.
Children(offsets, i, op(_)) == Collect(offsets[i], offsets[i + 1], op)

TableRow(c, s, batch, t) ==
  [catalog_name |-> OrNull(ExtractString(batch.catalog_names[c])),
   schema_name  |-> OrNull(ExtractString(batch.schema_names[s])),
   table_name   |-> ExtractString(batch.table_names[t]),
   table_type   |-> ExtractString(batch.table_types[t])]

ExtractTables_RestartsSchemas(batch) ==
  Collect(0, Len(batch.catalog_names), LAMBDA c :
    Collect(0, batch.schema_offsets[c + 1], LAMBDA s :
      Children(batch.table_offsets, s, LAMBDA t : <<TableRow(c, s, batch, t)>>)))

ExtractTables(batch) ==
  Collect(0, Len(batch.catalog_names), LAMBDA c :
    Children(batch.schema_offsets, c, LAMBDA s :
      Children(batch.table_offsets, s, LAMBDA t : <<TableRow(c, s, batch, t)>>)))

\* The string the driver gives decides, without one the number: 1 is nullable,
\* 0 is not and 2, unknown, counts as not; without either a column is nullable.
Nullable(x) ==
  \/ x.is_nullable = "YES"
  \/ x.is_nullable = Null /\ x.nullable \in {1, NullNumber}

ColumnRow(c, s, batch, t, x) ==
  [catalog_name |-> OrNull(ExtractString(batch.catalog_names[c])),
   schema_name  |-> OrNull(ExtractString(batch.schema_names[s])),
   table_name   |-> ExtractString(batch.table_names[t]),
   column_name  |-> ExtractString(x.name),
   ordinal_position |-> IF x.ordinal > 0 THEN x.ordinal ELSE NullNumber,
   remarks      |-> OrNull(ExtractString(x.remarks)),
   type_name    |-> OrNull(ExtractString(x.type)),
   is_nullable  |-> Nullable(x)]

ExtractColumns(batch) ==
  Collect(0, Len(batch.catalog_names), LAMBDA c :
    Children(batch.schema_offsets, c, LAMBDA s :
      Children(batch.table_offsets, s, LAMBDA t :
        Children(batch.column_offsets, t, LAMBDA x :
          <<ColumnRow(c, s, batch, t, batch.columns[x])>>))))

InfoNames ==
  0 :> "vendor_name" @@ 1 :> "vendor_version" @@ 2 :> "vendor_arrow_version"
  @@ 100 :> "driver_name" @@ 101 :> "driver_version" @@ 102 :> "driver_arrow_version"
  @@ 103 :> "driver_adbc_version"

GetInfoName(code) ==
  IF code \in DOMAIN InfoNames THEN InfoNames[code] ELSE "info_" \o ToString(code)

UnionText(type, value) ==
  CASE type = 0        -> value
    [] type = 1        -> IF value THEN "true" ELSE "false"
    [] type \in {2, 3} -> ToString(value)
    [] type = 4        -> "[string_list]"
    [] OTHER           -> "[map]"

ExtractUnionValue(union, i) ==
  LET type == union.types[i]
  IN  UnionText(type, union.children[type][union.offsets[i] + 1])

ExtractInfo(batch) ==
  [i \in DOMAIN batch.codes |->
     [info_name |-> GetInfoName(batch.codes[i]), info_value |-> ExtractUnionValue(batch, i)]]

ExtractTableTypes(batch) ==
  [i \in DOMAIN batch.table_types |-> [table_type |-> ExtractString(batch.table_types[i])]]

\* The fields of the one ArrowSchema; an absent name is empty.
ExtractSchemaFields(batch) ==
  [i \in DOMAIN batch.fields |->
     [field_name |-> ExtractString(batch.fields[i].name), field_type |-> batch.fields[i].type,
      nullable   |-> batch.fields[i].nullable]]

-----------------------------------------------------------------------------
(* The catalog entries of an attached database.                            *)

\* AdbcSchemaSet::LoadEntries: the names that occur in any catalog, or "main".
LoadSchemas(batches) ==
  LET names == {ExtractString(name) : name \in UNION {ToSet(b.schema_names) : b \in ToSet(batches)}}
  IN  IF names \subseteq {""} THEN {"main"} ELSE names \ {""}

\* AdbcTableSet::LoadEntries: "main" also stands for a schema without a name.
Belongs_Exactly(name, schema) == name = schema

Belongs(name, schema) == name = schema \/ (schema = "main" /\ name = "")

TablesInSchema(batch, schema) ==
  Collect(0, Len(batch.catalog_names), LAMBDA c :
    Children(batch.schema_offsets, c, LAMBDA s :
      IF Belongs(ExtractString(batch.schema_names[s]), schema)
      THEN Children(batch.table_offsets, s, LAMBDA t : <<ExtractString(batch.table_names[t])>>)
      ELSE <<>>))

LoadTables(batches, schema) ==
  (UNION {ToSet(TablesInSchema(b, schema)) : b \in ToSet(batches)}) \ {""}

=============================================================================
