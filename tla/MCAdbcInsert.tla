--------------------------- MODULE MCAdbcInsert ---------------------------
(* Instances of AdbcInsert for TLC: a few source rows in chunks of 0..3.   *)
EXTENDS AdbcInsert
MCChunkSizes == 0 .. 3
=============================================================================
