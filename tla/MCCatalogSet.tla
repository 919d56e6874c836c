--------------------------- MODULE MCCatalogSet ---------------------------
(* Instances of CatalogSet for TLC: three names, two of them the same but  *)
(* for their case.                                                         *)
EXTENDS CatalogSet
MCName == {"main", "sales", "Sales"}
MCFold == [main |-> "main", sales |-> "sales", Sales |-> "sales"]
MCRemote == [schemas |-> {"main", "sales"}, tables |-> {"sales", "Sales"}]
MCFallback == {"main"}
=============================================================================
