------------------------- MODULE MetadataFunctions -------------------------
(***************************************************************************)
(* MetadataScan with the driver's answers and the rows of NestedResults:   *)
(* what a finished scan shows is compared with the remote database itself, *)
(* and so are the entries an attached database loads from the same answers. *)
(***************************************************************************)
EXTENDS MetadataScan, NestedResults

-----------------------------------------------------------------------------
(* The constants of MetadataScan.                                          *)

\* Objects come in one batch, or catalog by catalog with an empty batch last.
Batches(catalogs) ==
  {<<ObjectsArray(catalogs)>>,
   [i \in 1 .. Len(catalogs) + 1 |->
      ObjectsArray(IF i > Len(catalogs) THEN <<>> ELSE <<catalogs[i]>>)]}

\* The arguments as adbc_tables and adbc_columns pass them to GetObjects.
TablesAnswer(d, q) == Batches(Matching(d.catalogs, q.catalog, q.schema, q.table, Null))

ColumnsAnswer(d, q) == Batches(Matching(d.catalogs, q.catalog, q.schema, q.table, q.column))

InfoAnswer(d) == {<<InfoArray(d.infos)>>}

TableTypesAnswer(d) == {<<[table_types |-> d.table_types]>>}

SchemaAnswer(d) == {<<[fields |-> d.fields]>>}

Answer(d, q) ==
  CASE q.function = "adbc_info"        -> InfoAnswer(d)
    [] q.function = "adbc_tables"      -> TablesAnswer(d, q)
    [] q.function = "adbc_table_types" -> TableTypesAnswer(d)
    [] q.function = "adbc_columns"     -> ColumnsAnswer(d, q)
    [] q.function = "adbc_schema"      -> SchemaAnswer(d)

Extract(q, batch) ==
  CASE q.function = "adbc_info"        -> ExtractInfo(batch)
    [] q.function = "adbc_tables"      -> ExtractTables(batch)
    [] q.function = "adbc_table_types" -> ExtractTableTypes(batch)
    [] q.function = "adbc_columns"     -> ExtractColumns(batch)
    [] q.function = "adbc_schema"      -> ExtractSchemaFields(batch)

-----------------------------------------------------------------------------
(* What a remote database holds, and what a driver may be asked.           *)

\* A table and a column have names, a catalog and a schema need not; a column
\* has a place among its table's, counted from 1, or none.
AColumn == [name : STRING \ {Null}, ordinal : (Nat \ {0}) \cup {NullNumber}, remarks : STRING,
            type : STRING, nullable : BOOLEAN, reports : SUBSET {"string", "number"}]
ATable == [name : STRING \ {Null}, type : STRING \ {Null}, columns : Seq(AColumn)]
ASchema == [name : STRING, tables : Seq(ATable)]
ACatalog == [name : STRING, schemas : Seq(ASchema)]

\* The name and the text of an info are those of its code and of its value.
IsInfo(v) ==
  v.type \in 0 .. 5 /\ v.name = GetInfoName(v.code) /\ v.text = UnionText(v.type, v.value)

TableFunction == {"adbc_info", "adbc_tables", "adbc_table_types", "adbc_columns", "adbc_schema"}

ASSUME FunctionsAssumption ==
  /\ \A d \in Remote :
       /\ d.catalogs \in Seq(ACatalog) /\ d.table_types \in Seq(STRING \ {Null})
       /\ d.infos \in Seq(ToSet(d.infos)) /\ \A v \in ToSet(d.infos) : IsInfo(v)
       /\ d.fields \in Seq(ToSet(d.fields))
  /\ \A q \in Request :
       /\ q.function \in TableFunction
       /\ \A d \in Remote : Answers(d, q) = Answer(d, q)
       /\ \A batch \in Batch(q) : RowsOf(q, batch) = Extract(q, batch)

-----------------------------------------------------------------------------
(* What the rows should be: read off the tree, without arrays.             *)

Over(s, op(_)) == FlattenSeq([i \in DOMAIN s |-> op(s[i])])

Shown(name) == IF name \in {"", Null} THEN Null ELSE name

TablesOf(d, q) ==
  Over(d.catalogs, LAMBDA c : Over(c.schemas, LAMBDA s : Over(s.tables, LAMBDA t :
    IF Matches(c.name, q.catalog) /\ Matches(s.name, q.schema) /\ Matches(t.name, q.table)
    THEN <<[catalog_name |-> Shown(c.name), schema_name |-> Shown(s.name),
            table_name |-> t.name, table_type |-> t.type]>>
    ELSE <<>>)))

ColumnsOf(d, q) ==
  Over(d.catalogs, LAMBDA c : Over(c.schemas, LAMBDA s : Over(s.tables, LAMBDA t :
    Over(t.columns, LAMBDA x :
      IF /\ Matches(c.name, q.catalog) /\ Matches(s.name, q.schema)
         /\ Matches(t.name, q.table) /\ Matches(x.name, q.column)
      THEN <<[catalog_name |-> Shown(c.name), schema_name |-> Shown(s.name),
              table_name |-> t.name, column_name |-> x.name, ordinal_position |-> x.ordinal,
              remarks |-> Shown(x.remarks), type_name |-> Shown(x.type),
              is_nullable |-> x.nullable \/ x.reports = {}]>>
      ELSE <<>>))))

Expected(d, q) ==
  CASE q.function = "adbc_tables"      -> TablesOf(d, q)
    [] q.function = "adbc_columns"     -> ColumnsOf(d, q)
    [] q.function = "adbc_table_types" ->
         Over(d.table_types, LAMBDA type : <<[table_type |-> type]>>)
    [] q.function = "adbc_schema"      ->
         Over(d.fields, LAMBDA f :
           <<[field_name |-> IF f.name = Null THEN "" ELSE f.name, field_type |-> f.type,
              nullable |-> f.nullable]>>)
    [] q.function = "adbc_info"        ->
         Over(d.infos, LAMBDA v : <<[info_name |-> v.name, info_value |-> v.text]>>)

-----------------------------------------------------------------------------
\* A finished scan has shown every object of the remote database that the
\* arguments ask for, once, under the names of the schema and the catalog that
\* contain it - as they were when the driver was asked, whatever the shape of
\* the tree and however it was cut into batches.
FinishedIsComplete == pc = "finished" => output = Expected(answered, request)

Everything == [catalog |-> Null, schema |-> Null, table |-> Null, column |-> Null]

\* The tables of an attached database, each with its schema.
Attached(batches) ==
  UNION {{s} \X LoadTables(batches, s) : s \in LoadSchemas(batches)}

\* An attached database lists the tables that adbc_tables lists, each under its
\* own schema, those without a schema under main, but not a table whose name is
\* empty.  Remote databases that have schemas with and schemas without a name are
\* left out: there the tables without a schema are not listed.
AttachedSeesTheSame ==
  LET names  == {Shown(s.name) : s \in UNION {ToSet(c.schemas) : c \in ToSet(remote.catalogs)}}
      listed == {<<IF r.schema_name = Null THEN "main" ELSE r.schema_name, r.table_name>> :
                   r \in {row \in ToSet(TablesOf(remote, Everything)) : row.table_name # ""}}
  IN  (Null \notin names \/ names \subseteq {Null, "main"}) =>
        \A batches \in Batches(remote.catalogs) : Attached(batches) = listed

=============================================================================
