--------------------------- MODULE MCColumnValues ---------------------------
(* ColumnValues for every type, with a bound of four bytes or none.  Two files where a commit may  *)
(* have one that is too long.  An earlier release's columns are those whose statistics its         *)
(* migration looks at, and one it leaves alone.                                                    *)
EXTENDS ColumnValues

MCTypes == DOMAIN Values
MCReleases == {"FLOAT", "DOUBLE", "INTEGER", "TIMESTAMP", "TIMESTAMP_MS", "TIMESTAMP_SEC", "TIMESTAMP_TZ"}
MCMaxFiles == [t \in DOMAIN Values |-> IF t = "VARCHAR" THEN 2 ELSE 1]
=============================================================================
