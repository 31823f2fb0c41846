---- MODULE MCQuery ----
(***************************************************************************)
(* Queries, alone and as the source of an INSERT with upsert clauses:      *)
(* compound selects, subqueries in expressions and in FROM, joins,         *)
(* aliases, and the clauses of a SELECT core; and DELETE, whose ORDER BY   *)
(* and LIMIT are rejected without the option for them. The recursion limit *)
(* 3 is met by a query in a FROM item or in an expression. A list of       *)
(* upsert clauses is not bounded by it: MaxStack is.                       *)
(***************************************************************************)
EXTENDS Lockstep

QueryAlphabet ==
  { "SEMI", "SELECT", "VALUES", "ID", "LP", "RP", "COMMA", "DOT", "STAR", "AS",
    "FROM", "JOIN", "JOIN_KW", "ON", "USING", "NOT", "IN", "INDEXED", "BY",
    "WHERE", "GROUP", "HAVING", "ORDER", "ASC", "NULLS", "FIRST", "LIMIT",
    "OFFSET", "UNION", "ALL", "INSERT", "INTO", "CONFLICT", "DO",
    "NOTHING", "DELETE" }
====
