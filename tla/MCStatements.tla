---- MODULE MCStatements ----
(***************************************************************************)
(* Every other statement, with the option for the ORDER BY and LIMIT of an *)
(* UPDATE or DELETE: INSERT with its upsert clauses, UPDATE and DELETE,    *)
(* alone, after WITH and in the body of a trigger; tables with their       *)
(* columns and constraints, indexes, views, virtual tables, DROP and ALTER *)
(* TABLE; PRAGMA, VACUUM, ANALYZE and REINDEX; transactions and ATTACH.    *)
(* Expressions are one level deep here. Nested WITHs, upsert clauses and   *)
(* the parentheses in the arguments of a virtual table are not bounded by  *)
(* the recursion limit: MaxStack cuts them.                                *)
(***************************************************************************)
EXTENDS Lockstep

StatementAlphabet ==
  { "SEMI", "WITH", "AS", "INSERT", "REPLACE", "INTO", "DEFAULT", "VALUES",
    "SELECT", "STAR", "LP", "RP", "COMMA", "ID", "OR", "ABORT", "ON",
    "CONFLICT", "DO", "NOTHING", "UPDATE", "SET", "EQ", "WHERE", "RETURNING",
    "DELETE", "FROM", "CREATE", "TRIGGER", "BEFORE", "OF", "WHEN", "BEGIN",
    "END", "MATERIALIZED", "TEMP", "TABLE", "INDEX", "VIEW", "VIRTUAL", "USING",
    "IF", "NOT", "EXISTS", "STRING", "DOT", "WITHOUT", "CONSTRAINT", "PRIMARY",
    "KEY", "AUTOINCR", "ASC", "UNIQUE", "CHECK", "FOREIGN", "REFERENCES",
    "IGNORE", "INDEXED", "BY", "NULL", "CASCADE", "RESTRICT", "NO", "ACTION",
    "MATCH", "DEFERRABLE", "INITIALLY", "DEFERRED", "PLUS", "MINUS", "INTEGER",
    "GENERATED", "ALWAYS", "COLLATE", "IN", "DROP", "ALTER", "RENAME", "TO",
    "ADD", "COLUMNKW", "PRAGMA", "VACUUM", "ANALYZE", "REINDEX", "TRANSACTION",
    "COMMIT", "ROLLBACK", "SAVEPOINT", "RELEASE", "ATTACH", "DATABASE",
    "DETACH", "ORDER", "LIMIT", "OFFSET" }
====
