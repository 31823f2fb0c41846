---- MODULE MCDisagreements ----
(***************************************************************************)
(* Where meyer does not do what its documentation says: an alphabet for    *)
(* each disagreement, as small as it allows.                               *)
(***************************************************************************)
EXTENDS Lockstep

(* A WITH inside the query of a common table expression. parser.go:253-255 *)
(* says of enter and leave: "Nothing else in the grammar can nest without  *)
(* passing through one of them." parseSelect calls parseWith before any    *)
(* call of enter, so this does.                                            *)
NestedWithAlphabet == { "SEMI", "SELECT", "STAR", "WITH", "ID", "AS", "LP", "RP" }

(* Numbers with a misplaced digit separator. parse_expr.go:432-433 says    *)
(* that the grammar action rejects one, and parser.go:235-239 that an      *)
(* error raised by a grammar action does not stop SQLite's parser before   *)
(* it has handled the token it was given. meyer stops at once, and reports *)
(* the number where SQLite reports the syntax error behind it.             *)
SeparatorAlphabet == { "SEMI", "DETACH", "ID", "BADQ", "LP", "RP" }

(* NOT x NOT NULL. The comment on the ladder of parseExpr,                 *)
(* parse_expr.go:11-23, says that it is "transcribed from the              *)
(* %left/%right/%nonassoc block of parse.y", where NOT is %right, and that *)
(* a left-associative operator parses its right operand at the next level. *)
(* parsePrefix parses the operand of NOT at the next level too, and the    *)
(* postfix NOT NULL, which has the precedence of NOT, is not in reach of   *)
(* it.                                                                     *)
NotNullAlphabet == { "SEMI", "DETACH", "ID", "NOT", "NULL", "IN" }

(* A keyword that begins an expression of its own, in front of ".*".       *)
(* README.md:126-128: "meyer must accept exactly what SQLite's parser      *)
(* accepts".                                                               *)
KeywordStarAlphabet == { "SEMI", "SELECT", "ID", "CTIME_KW", "DOT", "STAR" }
====
