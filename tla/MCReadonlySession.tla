------------------------- MODULE MCReadonlySession -------------------------
(* A small instance of ReadonlySession for TLC. *)
EXTENDS ReadonlySession

Sql(sets, max, lifts) == [kind |-> "sql", sets |-> sets, max |-> max, lifts |-> lifts]
Schema(schema, table) == [kind |-> "schema", schema |-> schema, table |-> table]

(* Results below, at and above the bound, with and without rows, SQL that  *)
(* sets statement_timeout; every form of a table name.                     *)
EveryJob ==
  { Sql(<<1, NoRows, 3, 2>>, 2, FALSE), Sql(<<NoRows>>, 1, FALSE), Sql(<<NoRows, 0>>, 1, TRUE),
    Schema(FALSE, ""), Schema(FALSE, "t"), Schema(TRUE, "t"), Schema(FALSE, "s.t"),
    Schema(FALSE, ".t"), Schema(FALSE, "s.") }
=============================================================================
