--------------------------- MODULE MCSqlValidator ----------------------------
(***************************************************************************)
(* The sources of which TLC makes the drafts of SqlValidator.              *)
(***************************************************************************)
EXTENDS SqlValidator

CONSTANTS orders, pg_shadow, information_schema, temp

From(schema, name) == [schema |-> schema, name |-> name, call |-> FALSE]

MCSources ==
  {From(None, orders), From(None, pg_shadow), From(None, information_schema),
   From(None, temp), From("public", temp), From("system", orders),
   [schema |-> None, name |-> orders, call |-> TRUE]}
==============================================================================
