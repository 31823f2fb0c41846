---- MODULE ParseY ----
(***************************************************************************)
(* The grammar meyer implements: the rules of parse.y, in its order and    *)
(* for the build the repository pins (internal/reference/parse.y). Actions *)
(* are reduced to the syntax tree node they build, named as in meyer's ast *)
(* package; a rule whose node nobody distinguishes has none.               *)
(***************************************************************************)
EXTENDS Tokens

Rule(lhs, rhs)             == [lhs |-> lhs, rhs |-> rhs, mark |-> "", node |-> ""]
Node(lhs, rhs, node)       == [lhs |-> lhs, rhs |-> rhs, mark |-> "", node |-> node]
Mark(lhs, rhs, mark, node) == [lhs |-> lhs, rhs |-> rhs, mark |-> mark, node |-> node]

(* lhs ::= K.  for each K of a sequence of symbols, and  lhs ::= .         *)
Alts(lhs, ks) == [j \in DOMAIN ks |-> Rule(lhs, <<ks[j]>>)]
Empty(lhs)    == Rule(lhs, <<>>)

---------------------------------------------------------------------------
(* %token_class, and the alternatives A|B written inside a rule.           *)

TokenClass ==
  [ id     |-> {"ID", "INDEXED"},
    ids    |-> {"ID", "STRING"},
    idj    |-> {"ID", "INDEXED", "JOIN_KW"},
    number |-> {"INTEGER", "FLOAT"} ]
  @@ "NULL|FLOAT|BLOB"             :> {"NULL", "FLOAT", "BLOB"}
  @@ "LT|GT|GE|LE"                 :> {"LT", "GT", "GE", "LE"}
  @@ "EQ|NE"                       :> {"EQ", "NE"}
  @@ "BITAND|BITOR|LSHIFT|RSHIFT"  :> {"BITAND", "BITOR", "LSHIFT", "RSHIFT"}
  @@ "PLUS|MINUS"                  :> {"PLUS", "MINUS"}
  @@ "STAR|SLASH|REM"              :> {"STAR", "SLASH", "REM"}
  @@ "LIKE_KW|MATCH"               :> {"LIKE_KW", "MATCH"}
  @@ "ISNULL|NOTNULL"              :> {"ISNULL", "NOTNULL"}
  @@ "COMMIT|END"                  :> {"COMMIT", "END"}
  @@ "EXCEPT|INTERSECT"            :> {"EXCEPT", "INTERSECT"}
  @@ "COMMA|JOIN"                  :> {"COMMA", "JOIN"}
  @@ "BEFORE|AFTER"                :> {"BEFORE", "AFTER"}
  @@ "DELETE|INSERT"               :> {"DELETE", "INSERT"}
  @@ "RANGE|ROWS|GROUPS"           :> {"RANGE", "ROWS", "GROUPS"}
  @@ "PRECEDING|FOLLOWING"         :> {"PRECEDING", "FOLLOWING"}
  @@ "GROUP|TIES"                  :> {"GROUP", "TIES"}

(* %fallback ID. meyer's set is a transcription of this one.               *)
Fallback == FallbackSet

(* %left, %right and %nonassoc, the loosest first.                         *)
Precedence ==
  << {"OR"}, {"AND"}, {"NOT"},
     {"IS", "MATCH", "LIKE_KW", "BETWEEN", "IN", "ISNULL", "NOTNULL", "NE", "EQ"},
     {"GT", "LE", "LT", "GE"}, {"ESCAPE"},
     {"BITAND", "BITOR", "LSHIFT", "RSHIFT"}, {"PLUS", "MINUS"},
     {"STAR", "SLASH", "REM"}, {"CONCAT", "PTR"}, {"COLLATE"}, {"BITNOT"}, {"ON"} >>

RightAssoc == {"NOT", "ESCAPE", "BITNOT"}

---------------------------------------------------------------------------
(* Scripts and transactions.                                               *)

ScriptRules ==
  << Rule("input", <<"cmdlist">>),
     Rule("cmdlist", <<"cmdlist", "ecmd">>),
     Rule("cmdlist", <<"ecmd">>),
     Rule("ecmd", <<"SEMI">>),
     Rule("ecmd", <<"cmdx", "SEMI">>),
     Rule("ecmd", <<"explain", "cmdx", "SEMI">>),
     Node("explain", <<"EXPLAIN">>, "Explain"),
     Node("explain", <<"EXPLAIN", "QUERY", "PLAN">>, "ExplainPlan"),
     Rule("cmdx", <<"cmd">>),
     Node("cmd", <<"BEGIN", "transtype", "trans_opt">>, "Begin"),
     Empty("trans_opt"),
     Rule("trans_opt", <<"TRANSACTION">>),
     Rule("trans_opt", <<"TRANSACTION", "nm">>),
     Empty("transtype") >>
  \o Alts("transtype", <<"DEFERRED", "IMMEDIATE", "EXCLUSIVE">>) \o
  << Node("cmd", <<"COMMIT|END", "trans_opt">>, "Commit"),
     Node("cmd", <<"ROLLBACK", "trans_opt">>, "Rollback"),
     Rule("savepoint_opt", <<"SAVEPOINT">>),
     Empty("savepoint_opt"),
     Node("cmd", <<"SAVEPOINT", "nm">>, "Savepoint"),
     Node("cmd", <<"RELEASE", "savepoint_opt", "nm">>, "Release"),
     Node("cmd", <<"ROLLBACK", "trans_opt", "TO", "savepoint_opt", "nm">>, "RollbackTo") >>

NameRules ==
  << Rule("nm", <<"idj">>),
     Rule("nm", <<"STRING">>),
     Empty("typetoken"),
     Rule("typetoken", <<"typename">>),
     Node("typetoken", <<"typename", "LP", "signed", "RP">>, "Size"),
     Node("typetoken", <<"typename", "LP", "signed", "COMMA", "signed", "RP">>, "Size2"),
     Rule("typename", <<"ids">>),
     Rule("typename", <<"typename", "ids">>),
     Rule("signed", <<"plus_num">>),
     Rule("signed", <<"minus_num">>),
     Empty("scanpt"),
     Empty("scantok") >>

---------------------------------------------------------------------------
(* Expressions. "REG" is a VARIABLE that is a register reference and       *)
(* "BADQ" a QNUMBER with a misplaced separator: their actions raise an     *)
(* error.                                                                  *)

TermRules ==
  << Rule("expr", <<"term">>),
     Node("expr", <<"LP", "expr", "RP">>, "ParenExpr"),
     Node("expr", <<"idj">>, "Ident"),
     Node("expr", <<"nm", "DOT", "nm">>, "QualifiedRef2"),
     Node("expr", <<"nm", "DOT", "nm", "DOT", "nm">>, "QualifiedRef3"),
     Node("term", <<"NULL|FLOAT|BLOB">>, "Literal"),
     Node("term", <<"STRING">>, "Literal"),
     Node("term", <<"INTEGER">>, "Literal"),
     Node("term", <<"QNUMBER">>, "Literal"),
     Node("term", <<"BADQ">>, "BadNumber"),
     Node("expr", <<"VARIABLE">>, "BindParam"),
     Node("expr", <<"REG">>, "Register"),
     Node("expr", <<"expr", "COLLATE", "ids">>, "CollateExpr"),
     Node("expr", <<"CAST", "LP", "expr", "AS", "typetoken", "RP">>, "CastExpr"),
     Node("expr", <<"idj", "LP", "distinct", "exprlist", "RP">>, "FuncCall"),
     Node("expr", <<"idj", "LP", "distinct", "exprlist", "ORDER", "BY", "sortlist", "RP">>,
          "FuncCall"),
     Node("expr", <<"idj", "LP", "STAR", "RP">>, "FuncCall"),
     Node("expr", <<"idj", "LP", "distinct", "exprlist", "RP", "filter_over">>, "FuncCall"),
     Node("expr", <<"idj", "LP", "distinct", "exprlist", "ORDER", "BY", "sortlist", "RP",
                    "filter_over">>, "FuncCall"),
     Node("expr", <<"idj", "LP", "STAR", "RP", "filter_over">>, "FuncCall"),
     Node("term", <<"CTIME_KW">>, "Literal"),
     Node("expr", <<"LP", "nexprlist", "COMMA", "expr", "RP">>, "VectorExpr") >>

OperatorRules ==
  << Node("expr", <<"expr", "AND", "expr">>, "BinaryExpr"),
     Node("expr", <<"expr", "OR", "expr">>, "BinaryExpr"),
     Node("expr", <<"expr", "LT|GT|GE|LE", "expr">>, "BinaryExpr"),
     Node("expr", <<"expr", "EQ|NE", "expr">>, "BinaryExpr"),
     Node("expr", <<"expr", "BITAND|BITOR|LSHIFT|RSHIFT", "expr">>, "BinaryExpr"),
     Node("expr", <<"expr", "PLUS|MINUS", "expr">>, "BinaryExpr"),
     Node("expr", <<"expr", "STAR|SLASH|REM", "expr">>, "BinaryExpr"),
     Node("expr", <<"expr", "CONCAT", "expr">>, "BinaryExpr"),
     Rule("likeop", <<"LIKE_KW|MATCH">>),
     Rule("likeop", <<"NOT", "LIKE_KW|MATCH">>),
     Mark("expr", <<"expr", "likeop", "expr">>, "LIKE_KW", "LikeExpr"),
     Mark("expr", <<"expr", "likeop", "expr", "ESCAPE", "expr">>, "LIKE_KW", "LikeEscape"),
     Node("expr", <<"expr", "ISNULL|NOTNULL">>, "NullCheckExpr"),
     Node("expr", <<"expr", "NOT", "NULL">>, "NullCheckExpr"),
     Node("expr", <<"expr", "IS", "expr">>, "IsExpr"),
     Node("expr", <<"expr", "IS", "NOT", "expr">>, "IsNotExpr"),
     Node("expr", <<"expr", "IS", "NOT", "DISTINCT", "FROM", "expr">>, "IsNotDistinctExpr"),
     Node("expr", <<"expr", "IS", "DISTINCT", "FROM", "expr">>, "IsDistinctExpr"),
     Node("expr", <<"NOT", "expr">>, "NotExpr"),
     Node("expr", <<"BITNOT", "expr">>, "BitNotExpr"),
     Mark("expr", <<"PLUS|MINUS", "expr">>, "BITNOT", "SignExpr"),
     Node("expr", <<"expr", "PTR", "expr">>, "BinaryExpr"),
     Rule("between_op", <<"BETWEEN">>),
     Rule("between_op", <<"NOT", "BETWEEN">>),
     Mark("expr", <<"expr", "between_op", "expr", "AND", "expr">>, "BETWEEN", "BetweenExpr") >>

InCaseRules ==
  << Rule("in_op", <<"IN">>),
     Rule("in_op", <<"NOT", "IN">>),
     Mark("expr", <<"expr", "in_op", "LP", "exprlist", "RP">>, "IN", "InExpr"),
     Node("expr", <<"LP", "select", "RP">>, "SubqueryExpr"),
     Mark("expr", <<"expr", "in_op", "LP", "select", "RP">>, "IN", "InSelect"),
     Mark("expr", <<"expr", "in_op", "nm", "dbnm", "paren_exprlist">>, "IN", "InTable"),
     Node("expr", <<"EXISTS", "LP", "select", "RP">>, "ExistsExpr"),
     Node("expr", <<"CASE", "case_operand", "case_exprlist", "case_else", "END">>, "CaseExpr"),
     Node("case_exprlist", <<"case_exprlist", "WHEN", "expr", "THEN", "expr">>, "CaseWhen"),
     Node("case_exprlist", <<"WHEN", "expr", "THEN", "expr">>, "CaseWhen"),
     Rule("case_else", <<"ELSE", "expr">>),
     Empty("case_else"),
     Rule("case_operand", <<"expr">>),
     Empty("case_operand"),
     Rule("exprlist", <<"nexprlist">>),
     Empty("exprlist"),
     Rule("nexprlist", <<"nexprlist", "COMMA", "expr">>),
     Rule("nexprlist", <<"expr">>),
     Empty("paren_exprlist"),
     Rule("paren_exprlist", <<"LP", "exprlist", "RP">>) >>

RaiseRules ==
  << Node("expr", <<"RAISE", "LP", "IGNORE", "RP">>, "RaiseExpr"),
     Node("expr", <<"RAISE", "LP", "raisetype", "COMMA", "expr", "RP">>, "RaiseExpr") >>
  \o Alts("raisetype", <<"ROLLBACK", "ABORT", "FAIL">>)

NumberRules ==
  << Rule("plus_num", <<"PLUS", "number">>),
     Rule("plus_num", <<"number">>),
     Rule("minus_num", <<"MINUS", "number">>) >>

AttachRules ==
  << Node("cmd", <<"ATTACH", "database_kw_opt", "expr", "AS", "expr", "key_opt">>, "Attach"),
     Node("cmd", <<"DETACH", "database_kw_opt", "expr">>, "Detach"),
     Empty("key_opt"),
     Rule("key_opt", <<"KEY", "expr">>),
     Rule("database_kw_opt", <<"DATABASE">>),
     Empty("database_kw_opt") >>

---------------------------------------------------------------------------
(* Queries.                                                                *)

SelectRules ==
  << Rule("cmd", <<"select">>),
     Node("select", <<"WITH", "wqlist", "selectnowith">>, "SelectWith"),
     Node("select", <<"WITH", "RECURSIVE", "wqlist", "selectnowith">>, "SelectWith"),
     Node("select", <<"selectnowith">>, "Select"),
     Rule("selectnowith", <<"oneselect">>),
     Rule("selectnowith", <<"selectnowith", "multiselect_op", "oneselect">>),
     Node("multiselect_op", <<"UNION">>, "Union"),
     Node("multiselect_op", <<"UNION", "ALL">>, "UnionAll"),
     Node("multiselect_op", <<"EXCEPT|INTERSECT">>, "CompoundOp"),
     Node("oneselect", <<"SELECT", "distinct", "selcollist", "from", "where_opt", "groupby_opt",
                         "having_opt", "orderby_opt", "limit_opt">>, "SelectQuery"),
     Node("oneselect", <<"SELECT", "distinct", "selcollist", "from", "where_opt", "groupby_opt",
                         "having_opt", "window_clause", "orderby_opt", "limit_opt">>,
          "SelectQuery"),
     Node("oneselect", <<"values">>, "ValuesClause"),
     Rule("values", <<"VALUES", "LP", "nexprlist", "RP">>),
     Node("oneselect", <<"mvalues">>, "ValuesClause"),
     Rule("mvalues", <<"values", "COMMA", "LP", "nexprlist", "RP">>),
     Rule("mvalues", <<"mvalues", "COMMA", "LP", "nexprlist", "RP">>),
     Rule("distinct", <<"DISTINCT">>),
     Rule("distinct", <<"ALL">>),
     Empty("distinct"),
     Rule("sclp", <<"selcollist", "COMMA">>),
     Empty("sclp"),
     Node("selcollist", <<"sclp", "scanpt", "expr", "scanpt", "as">>, "ResultColumn"),
     Node("selcollist", <<"sclp", "scanpt", "STAR">>, "Star"),
     Node("selcollist", <<"sclp", "scanpt", "nm", "DOT", "STAR">>, "TableStar"),
     Node("as", <<"AS", "nm">>, "AliasAs"),
     Node("as", <<"ids">>, "Alias"),
     Empty("as") >>

FromRules ==
  << Empty("from"),
     Rule("from", <<"FROM", "seltablist">>),
     Rule("stl_prefix", <<"seltablist", "joinop">>),
     Empty("stl_prefix"),
     Node("seltablist", <<"stl_prefix", "nm", "dbnm", "as", "on_using">>, "Table"),
     Node("seltablist", <<"stl_prefix", "nm", "dbnm", "as", "indexed_by", "on_using">>, "Table"),
     Node("seltablist", <<"stl_prefix", "nm", "dbnm", "LP", "exprlist", "RP", "as", "on_using">>,
          "TableFunction"),
     Node("seltablist", <<"stl_prefix", "LP", "select", "RP", "as", "on_using">>, "TableSelect"),
     Node("seltablist", <<"stl_prefix", "LP", "seltablist", "RP", "as", "on_using">>, "TableList"),
     Empty("dbnm"),
     Rule("dbnm", <<"DOT", "nm">>),
     Rule("fullname", <<"nm">>),
     Rule("fullname", <<"nm", "DOT", "nm">>),
     Rule("xfullname", <<"nm">>),
     Rule("xfullname", <<"nm", "DOT", "nm">>),
     Rule("xfullname", <<"nm", "AS", "nm">>),
     Rule("xfullname", <<"nm", "DOT", "nm", "AS", "nm">>),
     Node("joinop", <<"COMMA|JOIN">>, "JoinOperator"),
     Node("joinop", <<"JOIN_KW", "JOIN">>, "JoinOperator"),
     Node("joinop", <<"JOIN_KW", "nm", "JOIN">>, "JoinOperator"),
     Node("joinop", <<"JOIN_KW", "nm", "nm", "JOIN">>, "JoinOperator"),
     Node("on_using", <<"ON", "expr">>, "On"),
     Node("on_using", <<"USING", "LP", "idlist", "RP">>, "Using"),
     Mark("on_using", <<>>, "OR", ""),
     Empty("indexed_opt"),
     Rule("indexed_opt", <<"indexed_by">>),
     Node("indexed_by", <<"INDEXED", "BY", "nm">>, "IndexedBy"),
     Node("indexed_by", <<"NOT", "INDEXED">>, "NotIndexed"),
     Rule("idlist", <<"idlist", "COMMA", "nm">>),
     Rule("idlist", <<"nm">>) >>

TailRules ==
  << Empty("orderby_opt"),
     Rule("orderby_opt", <<"ORDER", "BY", "sortlist">>),
     Node("sortlist", <<"sortlist", "COMMA", "expr", "sortorder", "nulls">>, "OrderingTerm"),
     Node("sortlist", <<"expr", "sortorder", "nulls">>, "OrderingTerm"),
     Node("sortorder", <<"ASC">>, "Asc"),
     Node("sortorder", <<"DESC">>, "Desc"),
     Empty("sortorder"),
     Node("nulls", <<"NULLS", "FIRST">>, "NullsFirst"),
     Node("nulls", <<"NULLS", "LAST">>, "NullsLast"),
     Empty("nulls"),
     Empty("groupby_opt"),
     Node("groupby_opt", <<"GROUP", "BY", "nexprlist">>, "GroupBy"),
     Empty("having_opt"),
     Node("having_opt", <<"HAVING", "expr">>, "Having"),
     Empty("limit_opt"),
     Node("limit_opt", <<"LIMIT", "expr">>, "Limit"),
     Node("limit_opt", <<"LIMIT", "expr", "OFFSET", "expr">>, "LimitOffset"),
     Node("limit_opt", <<"LIMIT", "expr", "COMMA", "expr">>, "LimitComma"),
     Empty("where_opt"),
     Node("where_opt", <<"WHERE", "expr">>, "Where") >>

WithRules ==
  << Rule("wqas", <<"AS">>),
     Node("wqas", <<"AS", "MATERIALIZED">>, "Materialized"),
     Node("wqas", <<"AS", "NOT", "MATERIALIZED">>, "NotMaterialized"),
     Node("wqitem", <<"withnm", "eidlist_opt", "wqas", "LP", "select", "RP">>, "CTE"),
     Rule("withnm", <<"nm">>),
     Rule("wqlist", <<"wqitem">>),
     Rule("wqlist", <<"wqlist", "COMMA", "wqitem">>),
     Empty("eidlist_opt"),
     Rule("eidlist_opt", <<"LP", "eidlist", "RP">>),
     Node("eidlist", <<"eidlist", "COMMA", "nm", "collate", "sortorder">>, "IndexedColumn"),
     Node("eidlist", <<"nm", "collate", "sortorder">>, "IndexedColumn"),
     Empty("collate"),
     Rule("collate", <<"COLLATE", "ids">>) >>

WindowRules ==
  << Rule("windowdefn_list", <<"windowdefn">>),
     Rule("windowdefn_list", <<"windowdefn_list", "COMMA", "windowdefn">>),
     Node("windowdefn", <<"nm", "AS", "LP", "window", "RP">>, "NamedWindow"),
     Node("window", <<"PARTITION", "BY", "nexprlist", "orderby_opt", "frame_opt">>, "WindowDef"),
     Node("window", <<"nm", "PARTITION", "BY", "nexprlist", "orderby_opt", "frame_opt">>,
          "WindowDef"),
     Node("window", <<"ORDER", "BY", "sortlist", "frame_opt">>, "WindowDef"),
     Node("window", <<"nm", "ORDER", "BY", "sortlist", "frame_opt">>, "WindowDef"),
     Node("window", <<"frame_opt">>, "WindowDef"),
     Node("window", <<"nm", "frame_opt">>, "WindowDef"),
     Empty("frame_opt"),
     Node("frame_opt", <<"range_or_rows", "frame_bound_s", "frame_exclude_opt">>, "Frame"),
     Node("frame_opt", <<"range_or_rows", "BETWEEN", "frame_bound_s", "AND", "frame_bound_e",
                         "frame_exclude_opt">>, "FrameBetween"),
     Rule("range_or_rows", <<"RANGE|ROWS|GROUPS">>),
     Rule("frame_bound_s", <<"frame_bound">>),
     Node("frame_bound_s", <<"UNBOUNDED", "PRECEDING">>, "BoundUnbounded"),
     Rule("frame_bound_e", <<"frame_bound">>),
     Node("frame_bound_e", <<"UNBOUNDED", "FOLLOWING">>, "BoundUnbounded"),
     Node("frame_bound", <<"expr", "PRECEDING|FOLLOWING">>, "BoundExpr"),
     Node("frame_bound", <<"CURRENT", "ROW">>, "BoundCurrentRow"),
     Empty("frame_exclude_opt"),
     Node("frame_exclude_opt", <<"EXCLUDE", "frame_exclude">>, "Exclude"),
     Rule("frame_exclude", <<"NO", "OTHERS">>),
     Rule("frame_exclude", <<"CURRENT", "ROW">>),
     Rule("frame_exclude", <<"GROUP|TIES">>),
     Rule("window_clause", <<"WINDOW", "windowdefn_list">>),
     Rule("filter_over", <<"filter_clause", "over_clause">>),
     Rule("filter_over", <<"over_clause">>),
     Rule("filter_over", <<"filter_clause">>),
     Node("over_clause", <<"OVER", "LP", "window", "RP">>, "Over"),
     Node("over_clause", <<"OVER", "nm">>, "OverName"),
     Node("filter_clause", <<"FILTER", "LP", "WHERE", "expr", "RP">>, "Filter") >>

---------------------------------------------------------------------------
(* INSERT, UPDATE, DELETE and triggers.                                    *)

(* %if SQLITE_ENABLE_UPDATE_DELETE_LIMIT                                   *)
LimitTail == IF UpdateDeleteLimit THEN <<"orderby_opt", "limit_opt">> ELSE <<>>

DMLRules ==
  << Node("cmd", <<"with", "DELETE", "FROM", "xfullname", "indexed_opt", "where_opt_ret">>
          \o LimitTail, "Delete"),
     Empty("where_opt_ret"),
     Rule("where_opt_ret", <<"WHERE", "expr">>),
     Node("where_opt_ret", <<"RETURNING", "selcollist">>, "Returning"),
     Node("where_opt_ret", <<"WHERE", "expr", "RETURNING", "selcollist">>, "Returning"),
     Node("cmd", <<"with", "UPDATE", "orconf", "xfullname", "indexed_opt", "SET", "setlist",
                   "from", "where_opt_ret">> \o LimitTail, "Update"),
     Node("setlist", <<"setlist", "COMMA", "nm", "EQ", "expr">>, "SetPair"),
     Node("setlist", <<"setlist", "COMMA", "LP", "idlist", "RP", "EQ", "expr">>, "SetPair"),
     Node("setlist", <<"nm", "EQ", "expr">>, "SetPair"),
     Node("setlist", <<"LP", "idlist", "RP", "EQ", "expr">>, "SetPair"),
     Node("cmd", <<"with", "insert_cmd", "INTO", "xfullname", "idlist_opt", "select", "upsert">>,
          "Insert"),
     Node("cmd", <<"with", "insert_cmd", "INTO", "xfullname", "idlist_opt", "DEFAULT", "VALUES",
                   "returning">>, "Insert"),
     Empty("upsert"),
     Node("upsert", <<"RETURNING", "selcollist">>, "Returning"),
     Rule("upsert", <<"ON", "CONFLICT", "LP", "sortlist", "RP", "where_opt", "DO", "UPDATE", "SET",
                      "setlist", "where_opt", "upsert">>),
     Rule("upsert", <<"ON", "CONFLICT", "LP", "sortlist", "RP", "where_opt", "DO", "NOTHING",
                      "upsert">>),
     Rule("upsert", <<"ON", "CONFLICT", "DO", "NOTHING", "returning">>),
     Rule("upsert", <<"ON", "CONFLICT", "DO", "UPDATE", "SET", "setlist", "where_opt",
                      "returning">>),
     Node("returning", <<"RETURNING", "selcollist">>, "Returning"),
     Empty("returning"),
     Rule("insert_cmd", <<"INSERT", "orconf">>),
     Rule("insert_cmd", <<"REPLACE">>),
     Empty("idlist_opt"),
     Rule("idlist_opt", <<"LP", "idlist", "RP">>),
     Empty("with"),
     Rule("with", <<"WITH", "wqlist">>),
     Rule("with", <<"WITH", "RECURSIVE", "wqlist">>),
     Empty("onconf"),
     Rule("onconf", <<"ON", "CONFLICT", "resolvetype">>),
     Empty("orconf"),
     Rule("orconf", <<"OR", "resolvetype">>),
     Node("resolvetype", <<"raisetype">>, "ConflictAction"),
     Node("resolvetype", <<"IGNORE">>, "ConflictAction"),
     Node("resolvetype", <<"REPLACE">>, "ConflictAction") >>

TriggerRules ==
  << Node("cmd", <<"createkw", "trigger_decl", "BEGIN", "trigger_cmd_list", "END">>,
          "CreateTrigger"),
     Rule("trigger_decl", <<"temp", "TRIGGER", "ifnotexists", "nm", "dbnm", "trigger_time",
                            "trigger_event", "ON", "fullname", "foreach_clause", "when_clause">>),
     Rule("trigger_time", <<"BEFORE|AFTER">>),
     Rule("trigger_time", <<"INSTEAD", "OF">>),
     Empty("trigger_time"),
     Rule("trigger_event", <<"DELETE|INSERT">>),
     Rule("trigger_event", <<"UPDATE">>),
     Rule("trigger_event", <<"UPDATE", "OF", "idlist">>),
     Empty("foreach_clause"),
     Rule("foreach_clause", <<"FOR", "EACH", "ROW">>),
     Empty("when_clause"),
     Rule("when_clause", <<"WHEN", "expr">>),
     Rule("trigger_cmd_list", <<"trigger_cmd_list", "trigger_cmd", "SEMI">>),
     Rule("trigger_cmd_list", <<"trigger_cmd", "SEMI">>),
     Empty("tridxby"),
     Node("tridxby", <<"INDEXED", "BY", "nm">>, "IndexedBy"),
     Node("tridxby", <<"NOT", "INDEXED">>, "NotIndexed"),
     Node("trigger_cmd", <<"UPDATE", "orconf", "xfullname", "tridxby", "SET", "setlist", "from",
                           "where_opt", "scanpt">>, "Update"),
     Node("trigger_cmd", <<"scanpt", "insert_cmd", "INTO", "xfullname", "idlist_opt", "select",
                           "upsert", "scanpt">>, "Insert"),
     Node("trigger_cmd", <<"DELETE", "FROM", "xfullname", "tridxby", "where_opt", "scanpt">>,
          "Delete"),
     Rule("trigger_cmd", <<"scanpt", "select", "scanpt">>) >>

---------------------------------------------------------------------------
(* CREATE, DROP, ALTER, and the rest.                                      *)

TableRules ==
  << Node("cmd", <<"create_table", "create_table_args">>, "CreateTable"),
     Rule("create_table", <<"createkw", "temp", "TABLE", "ifnotexists", "nm", "dbnm">>),
     Rule("createkw", <<"CREATE">>),
     Empty("ifnotexists"),
     Rule("ifnotexists", <<"IF", "NOT", "EXISTS">>),
     Rule("temp", <<"TEMP">>),
     Empty("temp"),
     Rule("create_table_args", <<"LP", "columnlist", "conslist_opt", "RP", "table_option_set">>),
     Rule("create_table_args", <<"AS", "select">>),
     Empty("table_option_set"),
     Rule("table_option_set", <<"table_option">>),
     Rule("table_option_set", <<"table_option_set", "COMMA", "table_option">>),
     Node("table_option", <<"WITHOUT", "nm">>, "TableOption"),
     Node("table_option", <<"nm">>, "TableOption"),
     Node("columnlist", <<"columnlist", "COMMA", "columnname", "carglist">>, "ColumnDef"),
     Node("columnlist", <<"columnname", "carglist">>, "ColumnDef"),
     Rule("columnname", <<"nm", "typetoken">>),
     Empty("conslist_opt"),
     Rule("conslist_opt", <<"COMMA", "conslist">>),
     Rule("conslist", <<"conslist", "tconscomma", "tcons">>),
     Rule("conslist", <<"tcons">>),
     Rule("tconscomma", <<"COMMA">>),
     Empty("tconscomma"),
     Node("tcons", <<"CONSTRAINT", "nm">>, "ConstraintName"),
     Node("tcons", <<"PRIMARY", "KEY", "LP", "sortlist", "autoinc", "RP", "onconf">>,
          "TableConstraint"),
     Node("tcons", <<"UNIQUE", "LP", "sortlist", "RP", "onconf">>, "TableConstraint"),
     Node("tcons", <<"CHECK", "LP", "expr", "RP", "onconf">>, "TableConstraint"),
     Node("tcons", <<"FOREIGN", "KEY", "LP", "eidlist", "RP", "REFERENCES", "nm", "eidlist_opt",
                     "refargs", "defer_subclause_opt">>, "TableConstraint"),
     Empty("defer_subclause_opt"),
     Rule("defer_subclause_opt", <<"defer_subclause">>) >>

ColumnRules ==
  << Rule("carglist", <<"carglist", "ccons">>),
     Empty("carglist"),
     Node("ccons", <<"CONSTRAINT", "nm">>, "ConstraintName"),
     Node("ccons", <<"DEFAULT", "scantok", "term">>, "ColumnConstraint"),
     Node("ccons", <<"DEFAULT", "LP", "expr", "RP">>, "ColumnConstraint"),
     Node("ccons", <<"DEFAULT", "PLUS", "scantok", "term">>, "ColumnConstraint"),
     Node("ccons", <<"DEFAULT", "MINUS", "scantok", "term">>, "ColumnConstraint"),
     Node("ccons", <<"DEFAULT", "scantok", "id">>, "ColumnConstraint"),
     Node("ccons", <<"NULL", "onconf">>, "ColumnConstraint"),
     Node("ccons", <<"NOT", "NULL", "onconf">>, "ColumnConstraint"),
     Node("ccons", <<"PRIMARY", "KEY", "sortorder", "onconf", "autoinc">>, "ColumnConstraint"),
     Node("ccons", <<"UNIQUE", "onconf">>, "ColumnConstraint"),
     Node("ccons", <<"CHECK", "LP", "expr", "RP">>, "ColumnConstraint"),
     Node("ccons", <<"REFERENCES", "nm", "eidlist_opt", "refargs">>, "ColumnConstraint"),
     Node("ccons", <<"defer_subclause">>, "ColumnConstraint"),
     Node("ccons", <<"COLLATE", "ids">>, "ColumnConstraint"),
     Node("ccons", <<"GENERATED", "ALWAYS", "AS", "generated">>, "ColumnConstraint"),
     Node("ccons", <<"AS", "generated">>, "ColumnConstraint"),
     Rule("generated", <<"LP", "expr", "RP">>),
     Rule("generated", <<"LP", "expr", "RP", "ID">>),
     Empty("autoinc"),
     Rule("autoinc", <<"AUTOINCR">>),
     Empty("refargs"),
     Rule("refargs", <<"refargs", "refarg">>),
     Node("refarg", <<"MATCH", "nm">>, "ForeignKeyArg"),
     Node("refarg", <<"ON", "INSERT", "refact">>, "ForeignKeyArg"),
     Node("refarg", <<"ON", "DELETE", "refact">>, "ForeignKeyArg"),
     Node("refarg", <<"ON", "UPDATE", "refact">>, "ForeignKeyArg"),
     Rule("refact", <<"SET", "NULL">>),
     Rule("refact", <<"SET", "DEFAULT">>) >>
  \o Alts("refact", <<"CASCADE", "RESTRICT">>) \o
  << Rule("refact", <<"NO", "ACTION">>),
     Node("defer_subclause", <<"NOT", "DEFERRABLE", "init_deferred_pred_opt">>, "DeferClause"),
     Node("defer_subclause", <<"DEFERRABLE", "init_deferred_pred_opt">>, "DeferClause"),
     Empty("init_deferred_pred_opt"),
     Rule("init_deferred_pred_opt", <<"INITIALLY", "DEFERRED">>),
     Rule("init_deferred_pred_opt", <<"INITIALLY", "IMMEDIATE">>) >>

SchemaRules ==
  << Node("cmd", <<"DROP", "TABLE", "ifexists", "fullname">>, "Drop"),
     Rule("ifexists", <<"IF", "EXISTS">>),
     Empty("ifexists"),
     Node("cmd", <<"createkw", "temp", "VIEW", "ifnotexists", "nm", "dbnm", "eidlist_opt", "AS",
                   "select">>, "CreateView"),
     Node("cmd", <<"DROP", "VIEW", "ifexists", "fullname">>, "Drop"),
     Node("cmd", <<"createkw", "uniqueflag", "INDEX", "ifnotexists", "nm", "dbnm", "ON", "nm", "LP",
                   "sortlist", "RP", "where_opt">>, "CreateIndex"),
     Rule("uniqueflag", <<"UNIQUE">>),
     Empty("uniqueflag"),
     Node("cmd", <<"DROP", "INDEX", "ifexists", "fullname">>, "Drop"),
     Node("cmd", <<"DROP", "TRIGGER", "ifexists", "fullname">>, "Drop"),
     Node("cmd", <<"ALTER", "TABLE", "fullname", "RENAME", "TO", "nm">>, "AlterTable"),
     Node("cmd", <<"alter_add", "carglist">>, "AlterTable"),
     Rule("alter_add", <<"ALTER", "TABLE", "fullname", "ADD", "kwcolumn_opt", "nm", "typetoken">>),
     Node("cmd", <<"ALTER", "TABLE", "fullname", "DROP", "kwcolumn_opt", "nm">>, "AlterTable"),
     Node("cmd", <<"ALTER", "TABLE", "fullname", "RENAME", "kwcolumn_opt", "nm", "TO", "nm">>,
          "AlterTable"),
     Node("cmd", <<"ALTER", "TABLE", "fullname", "DROP", "CONSTRAINT", "nm">>, "AlterTable"),
     Node("cmd", <<"ALTER", "TABLE", "fullname", "ALTER", "kwcolumn_opt", "nm", "DROP", "NOT",
                   "NULL">>, "AlterTable"),
     Node("cmd", <<"ALTER", "TABLE", "fullname", "ALTER", "kwcolumn_opt", "nm", "SET", "NOT",
                   "NULL", "onconf">>, "AlterTable"),
     Node("cmd", <<"ALTER", "TABLE", "fullname", "ADD", "CONSTRAINT", "nm", "CHECK", "LP", "expr",
                   "RP", "onconf">>, "AlterTable"),
     Node("cmd", <<"ALTER", "TABLE", "fullname", "ADD", "CHECK", "LP", "expr", "RP", "onconf">>,
          "AlterTable"),
     Empty("kwcolumn_opt"),
     Rule("kwcolumn_opt", <<"COLUMNKW">>) >>

UtilityRules ==
  << Node("cmd", <<"VACUUM", "vinto">>, "Vacuum"),
     Node("cmd", <<"VACUUM", "nm", "vinto">>, "Vacuum"),
     Rule("vinto", <<"INTO", "expr">>),
     Empty("vinto"),
     Node("cmd", <<"PRAGMA", "nm", "dbnm">>, "Pragma"),
     Node("cmd", <<"PRAGMA", "nm", "dbnm", "EQ", "nmnum">>, "Pragma"),
     Node("cmd", <<"PRAGMA", "nm", "dbnm", "LP", "nmnum", "RP">>, "Pragma"),
     Node("cmd", <<"PRAGMA", "nm", "dbnm", "EQ", "minus_num">>, "Pragma"),
     Node("cmd", <<"PRAGMA", "nm", "dbnm", "LP", "minus_num", "RP">>, "Pragma") >>
  \o Alts("nmnum", <<"plus_num", "nm", "ON", "DELETE", "DEFAULT">>) \o
  << Node("cmd", <<"REINDEX">>, "Reindex"),
     Node("cmd", <<"REINDEX", "nm", "dbnm">>, "Reindex"),
     Node("cmd", <<"ANALYZE">>, "Analyze"),
     Node("cmd", <<"ANALYZE", "nm", "dbnm">>, "Analyze") >>

VTabRules ==
  << Node("cmd", <<"create_vtab">>, "CreateVirtualTable"),
     Node("cmd", <<"create_vtab", "LP", "vtabarglist", "RP">>, "CreateVirtualTable"),
     Rule("create_vtab", <<"createkw", "VIRTUAL", "TABLE", "ifnotexists", "nm", "dbnm", "USING",
                           "nm">>),
     Rule("vtabarglist", <<"vtabarg">>),
     Rule("vtabarglist", <<"vtabarglist", "COMMA", "vtabarg">>),
     Empty("vtabarg"),
     Rule("vtabarg", <<"vtabarg", "vtabargtoken">>),
     Rule("vtabargtoken", <<"ANY">>),
     Rule("vtabargtoken", <<"lp", "anylist", "RP">>),
     Rule("lp", <<"LP">>),
     Empty("anylist"),
     Rule("anylist", <<"anylist", "LP", "anylist", "RP">>),
     Rule("anylist", <<"anylist", "ANY">>) >>

Grammar ==
  ScriptRules \o TableRules \o NameRules \o ColumnRules \o SchemaRules \o SelectRules \o
  FromRules \o TailRules \o DMLRules \o TermRules \o OperatorRules \o InCaseRules \o
  NumberRules \o RaiseRules \o UtilityRules \o TriggerRules \o AttachRules \o VTabRules \o
  WithRules \o WindowRules
====
