----------------------------- MODULE MCCatalog -----------------------------
(* Instances of Catalog for TLC.  A page holds two rows, the system tables *)
(* have one column each and fill the first page of both heaps, so that     *)
(* every table is on a later page and the second's columns open a third    *)
(* one.  The name `long' does not fit a column and is kept as `long_cut'.  *)
EXTENDS Catalog

CONSTANTS a, b, long, long_cut, master_tables, master_columns

StoredDef(n) == IF n = long THEN long_cut ELSE n
Systems == <<master_tables, master_columns>>
OneColumnEach == <<1, 1>>
=============================================================================
