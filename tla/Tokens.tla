---- MODULE Tokens ----
(***************************************************************************)
(* The token kinds of a run and the classes parse functions test them      *)
(* with (token/keywords.go). A kind has the name of its constant, except   *)
(* "REG": a VARIABLE whose text is a register reference #NNN, and "BADQ":  *)
(* a QNUMBER with a misplaced digit separator.                             *)
(***************************************************************************)
EXTENDS Integers, Sequences, FiniteSets, TLC

CONSTANTS Alphabet,            \* the kinds inputs are built from, besides EOF and ILLEGAL
          UpdateDeleteLimit    \* Options.UpdateDeleteLimit, and SQLite compiled to match

ASSUME AlphabetAssumption == "" \notin Alphabet
ASSUME UpdateDeleteLimitAssumption == UpdateDeleteLimit \in BOOLEAN

Kinds == Alphabet \cup {"EOF", "ILLEGAL"}

FallbackSet ==
  { "ABORT", "ACTION", "AFTER", "ANALYZE", "ASC", "ATTACH", "BEFORE", "BEGIN", "BY",
    "CASCADE", "CAST", "COLUMNKW", "CONFLICT", "DATABASE", "DEFERRED", "DESC",
    "DETACH", "DO", "EACH", "END", "EXCLUSIVE", "EXPLAIN", "FAIL", "FOR", "IGNORE",
    "IMMEDIATE", "INITIALLY", "INSTEAD", "LIKE_KW", "MATCH", "NO", "PLAN", "QUERY",
    "KEY", "OF", "OFFSET", "PRAGMA", "RAISE", "RECURSIVE", "RELEASE", "REPLACE",
    "RESTRICT", "ROW", "ROWS", "ROLLBACK", "SAVEPOINT", "TEMP", "TRIGGER", "VACUUM",
    "VIEW", "VIRTUAL", "WITH", "WITHOUT", "NULLS", "FIRST", "LAST", "CURRENT",
    "FOLLOWING", "PARTITION", "PRECEDING", "RANGE", "UNBOUNDED", "EXCLUDE", "GROUPS",
    "OTHERS", "TIES", "GENERATED", "ALWAYS", "MATERIALIZED", "REINDEX", "RENAME",
    "CTIME_KW", "IF" }

(* The predicates, each as the set of the kinds that satisfy it.           *)
PlainID == {"ID"} \cup FallbackSet
IDS     == PlainID \cup {"STRING"}
IDJ     == PlainID \cup {"INDEXED", "JOIN_KW"}
Name    == IDJ \cup {"STRING"}
====
