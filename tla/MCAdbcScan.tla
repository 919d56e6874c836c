----------------------------- MODULE MCAdbcScan -----------------------------
(* Instances of AdbcScan for TLC: a table of one or two columns, in either *)
(* order, one of which may change its type.                                *)
EXTENDS AdbcScan
MCInt == [a |-> "int", b |-> "int"]
MCSchema == [cols : {<<"a">>, <<"a", "b">>, <<"b", "a">>}, types : {MCInt}]
              \cup {[cols |-> <<"a", "b">>, types |-> [MCInt EXCEPT !.a = "dec"]]}
MCColumn == {"a", "b"}
MCType == {"int", "dec"}
MCScans == ScanKind
MCAdbcScanOnly == {"adbc_scan"}
MCRowsAffected == {-1, 2}
=============================================================================
