---------------------------- MODULE MCMetadata ----------------------------
(* Instances of MetadataFunctions for TLC: trees whose levels have none,    *)
(* one and two entries at different places, names that are null, empty and *)
(* shared, and every way to report what a column is.                       *)
EXTENDS MetadataFunctions

Column(name, ordinal, nullable, reports) ==
  [name |-> name, ordinal |-> ordinal, remarks |-> IF nullable THEN Null ELSE "note",
   type |-> IF ordinal = NullNumber THEN Null ELSE "int", nullable |-> nullable,
   reports |-> reports]

Table(name, columns) == [name |-> name, type |-> "table", columns |-> columns]

Catalog(name, schemas) == [name |-> name, schemas |-> schemas]
Schema(name, tables) == [name |-> name, tables |-> tables]

Ids == Column("id", 1, FALSE, {"string"})
Numbers == Column("n", 2, TRUE, {"number"})
Plain == Column("p", NullNumber, FALSE, {})
Both == Column("id", 1, TRUE, {"string", "number"})
Strict == Column("n", 2, FALSE, {"number"})

T1 == Table("t", <<Ids, Numbers>>)
T2 == Table("u", <<>>)
T3 == Table("v", <<Plain, Both, Strict>>)
T4 == Table("", <<>>)

Trees ==
  {<<>>,
   <<Catalog(Null, <<Schema(Null, <<T1, T3>>)>>)>>,
   <<Catalog("c", <<Schema("s", <<T1>>), Schema("main", <<T2, T3>>)>>),
     Catalog("s", <<>>),
     Catalog("d", <<Schema("s", <<T3>>), Schema("c", <<>>)>>)>>,
   <<Catalog("", <<Schema("", <<T2>>), Schema("main", <<T1>>)>>)>>,
   <<Catalog("c", <<Schema("e", <<T4>>)>>), Catalog("d", <<Schema("s", <<T3, T1>>)>>)>>,
   <<Catalog("c", <<Schema("s", <<T1>>), Schema(Null, <<T2>>)>>)>>}

Info(code, name, type, value, text) ==
  [code |-> code, name |-> name, type |-> type, value |-> value, text |-> text]

Infos ==
  {<<>>,
   <<Info(0, "vendor_name", 0, "db", "db"), Info(103, "driver_adbc_version", 2, 1001000, "1001000"),
     Info(100, "driver_name", 0, "drv", "drv"), Info(7, "info_7", 1, TRUE, "true"),
     Info(8, "info_8", 4, <<>>, "[string_list]"), Info(9, "info_9", 1, FALSE, "false")>>}

Lists == {<<>>, <<"table", "view", "index">>}

Field(name, type, nullable) == [name |-> name, type |-> type, nullable |-> nullable]

MCRemote ==
  {[catalogs |-> tree, infos |-> <<>>, table_types |-> <<>>, fields |-> <<>>] : tree \in Trees}
    \cup {[catalogs |-> <<>>, infos |-> infos, table_types |-> types,
           fields |-> <<Field("id", "BIGINT", FALSE), Field(Null, "VARCHAR", TRUE)>>] :
            infos \in Infos, types \in Lists}

Call(function, catalog, schema, table, column) ==
  [function |-> function, catalog |-> catalog, schema |-> schema, table |-> table,
   column |-> column]

MCRequest ==
  {Call(f, Null, Null, Null, Null) : f \in {"adbc_info", "adbc_table_types"}}
    \cup {Call("adbc_schema", Null, Null, "t", Null)}
    \cup {Call("adbc_tables", c, s, Null, Null) : c \in {Null, "c"}, s \in {Null, "s"}}
    \cup {Call("adbc_columns", Null, s, t, Null) : s \in {Null, "s"}, t \in {Null, "v"}}
    \cup {Call("adbc_tables", Null, Null, "t", Null), Call("adbc_columns", "c", Null, Null, "id")}

MCBatches == [q \in MCRequest |-> UNION {UNION {ToSet(a) : a \in Answer(d, q)} : d \in MCRemote}]
MCBatch(q) == MCBatches[q]
MCRow == UNION {UNION {ToSet(Extract(q, b)) : b \in MCBatch(q)} : q \in MCRequest}
=============================================================================
