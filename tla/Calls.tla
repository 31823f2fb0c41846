---- MODULE Calls ----
(***************************************************************************)
(* How a parse function of meyer is written down. What the function does   *)
(* next depends on the kind of one token of the lookahead, so it is a      *)
(* table from that kind to a sequence of symbols:                          *)
(*                                                                         *)
(*   - a token kind, or the name of a class: p.expect of it, p.expectName; *)
(*   - "advance": p.advance;                                               *)
(*   - "enter", "leave", "defer", "fail", "syntaxError";                   *)
(*   - the name of a node of package ast, where the function builds it;    *)
(*   - the name of a table: the call of a function, or the rest of one     *)
(*     after its next look at the lookahead.                               *)
(*                                                                         *)
(* Tables are combined with ??, where the left one wins, as in a switch.   *)
(***************************************************************************)
EXTENDS Tokens

Overlay(f, g) == [x \in DOMAIN f \cup DOMAIN g |-> IF x \in DOMAIN f THEN f[x] ELSE g[x]]
f ?? g == Overlay(f, g)

On(kinds, seq) == [t \in kinds \cap Kinds |-> seq]
Else(seq)      == [t \in Kinds |-> seq]

(* if p.accept(k) { seq }                                                  *)
Opt(k, seq) == On({k}, <<k>> \o seq) ?? Else(<<>>)

(* The alternatives of a switch that advances over its case.               *)
OneOf(kinds) == On(kinds, <<"advance">>)

SyntaxError == Else(<<"syntaxError">>)

(* The parse functions that build nodes of package ast, by the node; one   *)
(* that has variants has a name for each.                                  *)
Nodes ==
  { "Explain", "ExplainPlan", "Begin", "Commit", "Rollback", "RollbackTo", "Savepoint",
    "Release", "Attach", "Detach",
    "Size", "Size2", "ParenExpr", "Ident", "QualifiedRef2", "QualifiedRef3", "Literal",
    "BindParam", "Register", "CollateExpr", "CastExpr", "FuncCall", "VectorExpr",
    "BinaryExpr", "LikeExpr", "LikeEscape", "NullCheckExpr", "IsExpr", "IsNotExpr",
    "IsDistinctExpr", "IsNotDistinctExpr", "NotExpr", "BitNotExpr", "SignExpr",
    "BetweenExpr", "InExpr", "InSelect", "InTable", "SubqueryExpr", "ExistsExpr",
    "CaseExpr", "CaseWhen", "RaiseExpr", "Over", "OverName", "Filter",
    "SelectWith", "Select", "Union", "UnionAll", "CompoundOp", "SelectQuery",
    "ValuesClause", "ResultColumn", "Star", "TableStar", "AliasAs", "Alias", "Table",
    "TableFunction", "TableSelect", "TableList", "JoinOperator", "On", "Using",
    "IndexedBy", "NotIndexed", "OrderingTerm", "Asc", "Desc", "NullsFirst", "NullsLast",
    "GroupBy", "Having", "Limit", "LimitOffset", "LimitComma", "Where", "Materialized",
    "NotMaterialized", "CTE", "IndexedColumn", "NamedWindow", "WindowDef", "Frame",
    "FrameBetween", "BoundUnbounded", "BoundExpr", "BoundCurrentRow", "Exclude",
    "Insert", "ConflictAction", "Returning", "SetPair", "Update", "Delete",
    "CreateTrigger", "CreateTable", "ColumnDef", "ConstraintName", "TableConstraint",
    "ColumnConstraint", "TableOption", "DeferClause", "ForeignKeyArg", "CreateIndex",
    "CreateView", "CreateVirtualTable", "Drop", "AlterTable", "Pragma", "Vacuum",
    "Analyze", "Reindex" }

(* atSelect.                                                               *)
SelectStarts == {"SELECT", "VALUES", "WITH"}
====
