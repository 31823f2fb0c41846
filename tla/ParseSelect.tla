---- MODULE ParseSelect ----
(***************************************************************************)
(* parser/parse_select.go: queries, the FROM clause, WITH and windows.     *)
(* parseExpr0 is parseExpr(precLowest).                                    *)
(***************************************************************************)
EXTENDS Calls

parseSelectStmtOrDML ==
  On({"WITH"}, <<"parseWith", "afterWith">>) ?? Else(<<"parseSelect">>)
afterWith ==
  On({"SELECT", "VALUES"}, <<"parseSelectNoWith", "SelectWith">>)
  ?? On({"INSERT", "REPLACE"}, <<"parseInsert">>)
  ?? On({"UPDATE"}, <<"parseUpdate">>)
  ?? On({"DELETE"}, <<"parseDelete">>)
  ?? SyntaxError

parseSelect ==
  On({"WITH"}, <<"parseWith", "parseSelectNoWith", "SelectWith">>)
  ?? Else(<<"parseSelectNoWith", "Select">>)

parseSelectNoWith == Else(<<"enter", "parseOneSelect", "compound", "leave">>)
compound ==
  On({"UNION"}, <<"UNION", "unionAll", "parseOneSelect", "compound">>)
  ?? On({"EXCEPT", "INTERSECT"}, <<"advance", "CompoundOp", "parseOneSelect", "compound">>)
  ?? Else(<<>>)
unionAll == On({"ALL"}, <<"ALL", "UnionAll">>) ?? Else(<<"Union">>)

parseOneSelect ==
  On({"VALUES"}, <<"parseValues">>)
  ?? Else(<<"SELECT", "distinct", "parseResultColumns", "fromOpt", "whereOpt", "groupByOpt",
            "havingOpt", "windowOpt", "orderByOpt", "parseLimit", "SelectQuery">>)
distinct   == OneOf({"DISTINCT", "ALL"}) ?? Else(<<>>)
fromOpt    == Opt("FROM", <<"parseFromList">>)
whereOpt   == Opt("WHERE", <<"parseExpr0", "Where">>)
groupByOpt == Opt("GROUP", <<"BY", "parseExprList", "GroupBy">>)
havingOpt  == Opt("HAVING", <<"parseExpr0", "Having">>)
windowOpt  == Opt("WINDOW", <<"parseWindowDefnList">>)
orderByOpt == Opt("ORDER", <<"BY", "parseSortList">>)

parseValues == Else(<<"VALUES", "valuesRows", "ValuesClause">>)
valuesRows  == Else(<<"LP", "parseExprList", "RP", "moreRows">>)
moreRows    == Opt("COMMA", <<"valuesRows">>)

(* A result column that starts with a name is told by p.peek(2) to be      *)
(* tbl.*, once p.peek(1) is a dot.                                         *)
parseResultColumns ==
  On({"STAR"}, <<"STAR", "Star", "moreColumns">>)
  ?? On(Name, <<"columnDot">>)
  ?? Else(<<"columnExpr">>)
columnDot  == On({"DOT"}, <<"columnStar">>) ?? Else(<<"columnExpr">>)
(* Mutant of columnStar: a name and a dot are taken for tbl.*.             *)
columnStarAtDot == Else(<<"nm", "DOT", "STAR", "TableStar", "moreColumns">>)
columnStar == On({"STAR"}, <<"nm", "DOT", "STAR", "TableStar", "moreColumns">>) ?? Else(<<"columnExpr">>)
columnExpr == Else(<<"parseExpr0", "parseAlias", "ResultColumn", "moreColumns">>)
moreColumns == Opt("COMMA", <<"parseResultColumns">>)

(* Mutant of parseAlias: any name is an alias.                             *)
parseAnyAlias ==
  On({"AS"}, <<"AS", "nm", "AliasAs">>) ?? On(Name, <<"advance", "Alias">>) ?? Else(<<>>)

parseAlias ==
  On({"AS"}, <<"AS", "nm", "AliasAs">>) ?? On(IDS, <<"advance", "Alias">>) ?? Else(<<>>)

---------------------------------------------------------------------------
(* FROM.                                                                   *)

parseFromList   == Else(<<"parseTableRef", "tryJoinOperator">>)
tryJoinOperator ==
  On({"COMMA", "JOIN"}, <<"advance", "JoinOperator", "parseTableRef", "tryJoinOperator">>)
  ?? On({"JOIN_KW"}, <<"JOIN_KW", "joinWord2", "JOIN", "JoinOperator", "parseTableRef",
                       "tryJoinOperator">>)
  ?? Else(<<>>)
joinWord2 == On({"JOIN"}, <<>>) ?? Else(<<"nm", "joinWord3">>)
joinWord3 == On({"JOIN"}, <<>>) ?? Else(<<"nm">>)

(* Mutant of parseTableRef: leave is forgotten.                            *)
parseTableRefStay == Else(<<"enter", "tableSource">>)

parseTableRef == Else(<<"enter", "tableSource", "leave">>)
tableSource   == On({"LP"}, <<"LP", "tableParens">>) ?? Else(<<"qualifiedName", "tableName">>)
tableParens ==
  On(SelectStarts, <<"parseSelect", "RP", "parseAlias", "parseOnUsing", "TableSelect">>)
  ?? Else(<<"parseFromList", "RP", "parseAlias", "parseOnUsing", "TableList">>)
tableName ==
  On({"LP"}, <<"LP", "optArgs", "RP", "parseAlias", "parseOnUsing", "TableFunction">>)
  ?? Else(<<"parseAlias", "parseIndexedOpt", "parseOnUsing", "Table">>)

parseOnUsing ==
  On({"ON"}, <<"ON", "parseExpr0", "On">>)
  ?? On({"USING"}, <<"USING", "LP", "parseIDList", "RP", "Using">>)
  ?? Else(<<>>)
parseIDList == Else(<<"nm", "moreIDs">>)
moreIDs     == Opt("COMMA", <<"parseIDList">>)

(* parse_dml.go, shared with UPDATE and DELETE.                            *)
parseIndexedOpt ==
  On({"INDEXED"}, <<"INDEXED", "BY", "nm", "IndexedBy">>)
  ?? On({"NOT"}, <<"notIndexed">>)
  ?? Else(<<>>)
notIndexed == Else(<<"NOT", "INDEXED", "NotIndexed">>)

---------------------------------------------------------------------------
(* ORDER BY, LIMIT and WITH.                                               *)

parseSortList == Else(<<"parseExpr0", "sortOrder", "nulls", "OrderingTerm", "moreTerms">>)
sortOrder == On({"ASC"}, <<"ASC", "Asc">>) ?? On({"DESC"}, <<"DESC", "Desc">>) ?? Else(<<>>)
nulls     == Opt("NULLS", <<"nullsWhere">>)
nullsWhere == On({"FIRST"}, <<"FIRST", "NullsFirst">>) ?? On({"LAST"}, <<"LAST", "NullsLast">>)
              ?? SyntaxError
moreTerms == Opt("COMMA", <<"parseSortList">>)

parseLimit  == Opt("LIMIT", <<"parseExpr0", "limitOffset">>)
limitOffset ==
  On({"OFFSET"}, <<"OFFSET", "parseExpr0", "LimitOffset">>)
  ?? On({"COMMA"}, <<"COMMA", "parseExpr0", "LimitComma">>)
  ?? Else(<<"Limit">>)

parseWith == Else(<<"WITH", "recursive", "parseCTE">>)
recursive == Opt("RECURSIVE", <<>>)
parseCTE  == Else(<<"nm", "cteColumns", "AS", "materialized", "LP", "parseSelect", "RP", "CTE",
                    "moreCTEs">>)
cteColumns == Opt("LP", <<"parseIndexedColumnList", "RP">>)
materialized ==
  On({"MATERIALIZED"}, <<"MATERIALIZED", "Materialized">>)
  ?? On({"NOT"}, <<"NOT", "MATERIALIZED", "NotMaterialized">>)
  ?? Else(<<>>)
moreCTEs == Opt("COMMA", <<"parseCTE">>)

parseIndexedColumnList == Else(<<"nm", "columnCollate", "sortOrder", "IndexedColumn", "moreIndexed">>)
columnCollate == Opt("COLLATE", <<"ids">>)
moreIndexed   == Opt("COMMA", <<"parseIndexedColumnList">>)

---------------------------------------------------------------------------
(* Windows.                                                                *)

parseWindowDefnList == Else(<<"nm", "AS", "LP", "parseWindow", "RP", "NamedWindow", "moreWindows">>)
moreWindows         == Opt("COMMA", <<"parseWindowDefnList">>)

parseWindow == Else(<<"windowBase", "partitionOpt", "orderByOpt", "parseFrame", "WindowDef">>)
(* Mutant of windowBase: a frame needs a base window or another clause.    *)
windowBaseRows == On({"PARTITION", "ORDER", "RP"}, <<>>) ?? Else(<<"nm">>)
windowBase == On({"PARTITION", "ORDER", "RANGE", "ROWS", "GROUPS", "RP"}, <<>>) ?? Else(<<"nm">>)
partitionOpt == Opt("PARTITION", <<"BY", "parseExprList">>)

parseFrame  == On({"RANGE", "ROWS", "GROUPS"}, <<"advance", "frameBounds">>) ?? Else(<<>>)
frameBounds ==
  On({"BETWEEN"}, <<"BETWEEN", "frameStart", "AND", "frameEnd", "parseFrameExclude",
                    "FrameBetween">>)
  ?? Else(<<"frameStart", "parseFrameExclude", "Frame">>)

(* Mutant of parseFrameBound: UNBOUNDED is read as a name.                 *)
parseFrameBoundExpr(direction) ==
  On({"CURRENT"}, <<"CURRENT", "ROW", "BoundCurrentRow">>)
  ?? Else(<<"parseExpr0", "boundDirection", "BoundExpr">>)

(* parseFrameBound(isEnd)                                                  *)
parseFrameBound(direction) ==
  On({"UNBOUNDED"}, <<"UNBOUNDED", direction, "BoundUnbounded">>)
  ?? On({"CURRENT"}, <<"CURRENT", "ROW", "BoundCurrentRow">>)
  ?? Else(<<"parseExpr0", "boundDirection", "BoundExpr">>)
boundDirection == OneOf({"PRECEDING", "FOLLOWING"}) ?? SyntaxError

parseFrameExclude == Opt("EXCLUDE", <<"excluded", "Exclude">>)
excluded ==
  On({"NO"}, <<"NO", "OTHERS">>) ?? On({"CURRENT"}, <<"CURRENT", "ROW">>)
  ?? OneOf({"GROUP", "TIES"}) ?? SyntaxError

---------------------------------------------------------------------------

SelectTables ==
  [ parseSelectStmtOrDML |-> parseSelectStmtOrDML, afterWith |-> afterWith,
    parseSelect |-> parseSelect, parseSelectNoWith |-> parseSelectNoWith,
    compound |-> compound, unionAll |-> unionAll, parseOneSelect |-> parseOneSelect,
    distinct |-> distinct, fromOpt |-> fromOpt, whereOpt |-> whereOpt,
    groupByOpt |-> groupByOpt, havingOpt |-> havingOpt, windowOpt |-> windowOpt,
    orderByOpt |-> orderByOpt, parseValues |-> parseValues, valuesRows |-> valuesRows,
    moreRows |-> moreRows, parseResultColumns |-> parseResultColumns,
    columnExpr |-> columnExpr, moreColumns |-> moreColumns, parseAlias |-> parseAlias,
    parseFromList |-> parseFromList, tryJoinOperator |-> tryJoinOperator,
    joinWord2 |-> joinWord2, joinWord3 |-> joinWord3, parseTableRef |-> parseTableRef,
    tableSource |-> tableSource, tableParens |-> tableParens, tableName |-> tableName,
    parseOnUsing |-> parseOnUsing, parseIDList |-> parseIDList, moreIDs |-> moreIDs,
    parseIndexedOpt |-> parseIndexedOpt, notIndexed |-> notIndexed,
    parseSortList |-> parseSortList, sortOrder |-> sortOrder, nulls |-> nulls,
    nullsWhere |-> nullsWhere, moreTerms |-> moreTerms, parseLimit |-> parseLimit,
    limitOffset |-> limitOffset, parseWith |-> parseWith, recursive |-> recursive,
    parseCTE |-> parseCTE, cteColumns |-> cteColumns, materialized |-> materialized,
    moreCTEs |-> moreCTEs, parseIndexedColumnList |-> parseIndexedColumnList,
    columnCollate |-> columnCollate, moreIndexed |-> moreIndexed,
    parseWindowDefnList |-> parseWindowDefnList, moreWindows |-> moreWindows,
    parseWindow |-> parseWindow, windowBase |-> windowBase, partitionOpt |-> partitionOpt,
    parseFrame |-> parseFrame, frameBounds |-> frameBounds,
    frameStart |-> parseFrameBound("PRECEDING"), frameEnd |-> parseFrameBound("FOLLOWING"),
    boundDirection |-> boundDirection, parseFrameExclude |-> parseFrameExclude,
    excluded |-> excluded ]

(* Tables for the token after the lookahead, and for the one after that.   *)
SelectPeeks  == [ columnDot |-> columnDot ]
SelectPeeks2 == [ columnStar |-> columnStar ]
====
