---- MODULE MCOperators ----
(***************************************************************************)
(* Expressions: every operator form, one operator of each precedence       *)
(* level, and qualified names, in DETACH expr. NULL is left out: see       *)
(* MCNotNull.                                                              *)
(***************************************************************************)
EXTENDS Lockstep

OperatorAlphabet ==
  { "SEMI", "EXPLAIN", "QUERY", "PLAN", "DETACH", "ID", "JOIN_KW", "REG", "LP",
    "RP", "COMMA", "DOT", "OR", "AND", "NOT", "IS", "DISTINCT", "FROM",
    "LIKE_KW", "ESCAPE", "BETWEEN", "IN", "ISNULL", "LT", "BITAND", "PLUS",
    "STAR", "CONCAT", "COLLATE", "BITNOT" }
====
