---- MODULE MCTerms ----
(***************************************************************************)
(* The primary expressions: names that are keywords, CASE, CAST, RAISE,    *)
(* vectors, register references, signed type sizes, and calls with FILTER, *)
(* OVER, named windows and frames. Most of these words can also be names.  *)
(***************************************************************************)
EXTENDS Lockstep

TermAlphabet ==
  { "SEMI", "DETACH", "ID", "STRING", "INTEGER", "VARIABLE", "REG", "CTIME_KW",
    "LP", "RP", "COMMA", "STAR", "PLUS", "CASE", "WHEN", "THEN", "ELSE", "END",
    "CAST", "AS", "DISTINCT", "RAISE", "IGNORE", "ABORT", "SELECT", "FILTER",
    "WHERE", "OVER", "WINDOW", "PARTITION", "ORDER", "BY", "DESC", "ROWS",
    "BETWEEN", "AND", "UNBOUNDED", "PRECEDING", "FOLLOWING", "CURRENT", "ROW",
    "EXCLUDE", "NO", "OTHERS", "TIES" }
====
