---- MODULE ParseExpr ----
(***************************************************************************)
(* parser/parse_expr.go: precedence climbing. parseExpr(min) is the symbol *)
(* Expr(min).                                                              *)
(***************************************************************************)
EXTENDS Calls

(* precLowest .. precUnary; infix.                                         *)
precNot     == 3
precCompare == 4
precCollate == 11
precUnary   == 12

infix ==
  On({"OR"}, 1) ?? On({"AND"}, 2) ?? On({"EQ", "NE"}, precCompare)
  ?? On({"LT", "LE", "GT", "GE"}, 5)
  ?? On({"BITAND", "BITOR", "LSHIFT", "RSHIFT"}, 7) ?? On({"PLUS", "MINUS"}, 8)
  ?? On({"STAR", "SLASH", "REM"}, 9) ?? On({"CONCAT", "PTR"}, 10)

Mins == 0 .. precUnary + 1

(* parseExpr and the loop of parseOperators have a symbol for each min;    *)
(* the loop of a BETWEEN bound, which stops at AND, is "boundOperators".   *)
Expr(min) ==
  << "parseExpr0", "parseExpr1", "parseExpr2", "parseExpr3", "parseExpr4", "parseExpr5",
     "parseExpr6", "parseExpr7", "parseExpr8", "parseExpr9", "parseExpr10", "parseExpr11",
     "parseExpr12", "parseExpr13" >>[min + 1]
Ops(min) ==
  << "operators0", "operators1", "operators2", "operators3", "operators4", "operators5",
     "operators6", "operators7", "operators8", "operators9", "operators10", "operators11",
     "operators12", "operators13" >>[min + 1]
NotOps(min) ==
  << "not0", "not1", "not2", "not3", "not4", "not5", "not6", "not7", "not8", "not9", "not10",
     "not11", "not12", "not13" >>[min + 1]
Bound       == "boundOperators"
NotBound    == "boundNot"

(* Mutant of parseBetweenBound: the bound reads on past AND.               *)
greedyBetweenBound == Else(<<"enter", "parsePrefix", Ops(1), "leave">>)

parseExpr(min) == Else(<<"enter", "parsePrefix", Ops(min), "leave">>)
parseBetweenBound == Else(<<"enter", "parsePrefix", Bound, "leave">>)

(* The prefix operators.                                                   *)
parsePrefix ==
  On({"NOT"}, <<"NOT", Expr(precNot + 1), "NotExpr">>)
  ?? On({"BITNOT"}, <<"BITNOT", Expr(precUnary + 1), "BitNotExpr">>)
  ?? On({"PLUS", "MINUS"}, <<"advance", Expr(precUnary + 1), "SignExpr">>)
  ?? Else(<<"parsePrimary">>)

(* Mutant of Binary: the operators associate to the right.                 *)
RightBinary(infixes, again) ==
  [t \in infixes |-> <<"advance", Expr(infix[t]), "BinaryExpr", again>>]

(* One round of the loop; again is the symbol of the loop and not of its   *)
(* second look, at the token after NOT.                                    *)
Binary(infixes, again) ==
  [t \in infixes |-> <<"advance", Expr(infix[t] + 1), "BinaryExpr", again>>]

Comparisons(again) ==
  On({"ISNULL", "NOTNULL"}, <<"advance", "NullCheckExpr", again>>)
  ?? On({"IS"}, <<"parseIs", again>>)
  ?? On({"LIKE_KW", "MATCH"}, <<"parseLike", again>>)
  ?? On({"BETWEEN"}, <<"parseBetween", again>>)
  ?? On({"IN"}, <<"parseIn", again>>)

Nothing == [t \in {} |-> <<>>]
When(cond, table) == IF cond THEN table ELSE Nothing

parseOperators(min, stopAtAnd, again, not) ==
  Binary({ t \in DOMAIN infix : infix[t] >= min /\ ~(t = "AND" /\ stopAtAnd) }, again)
  ?? When(precCollate >= min, On({"COLLATE"}, <<"COLLATE", "ids", "CollateExpr", again>>))
  ?? When(precCompare >= min, Comparisons(again))
  ?? On({"NOT"}, <<not>>)
  ?? Else(<<>>)

boundOperators == parseOperators(1, TRUE, Bound, NotBound)

(* case token.NOT, decided by p.peek(1).                                   *)
parseNot(min, again) ==
  When(precNot >= min, On({"NULL"}, <<"NOT", "NULL", "NullCheckExpr", again>>))
  ?? On({"NULL"}, <<>>)
  ?? When(precCompare >= min,
          On({"LIKE_KW", "MATCH"}, <<"NOT", "parseLike", again>>)
          ?? On({"BETWEEN"}, <<"NOT", "parseBetween", again>>)
          ?? On({"IN"}, <<"NOT", "parseIn", again>>)
          ?? Else(<<"NOT", "syntaxError">>))
  ?? Else(<<>>)

parseIs        == Else(<<"IS", "parseIsNot">>)
parseIsNot     == On({"NOT"}, <<"NOT", "isNotOperand">>) ?? Else(<<"isOperand">>)
IsOperand(node, distinct) ==
  On({"DISTINCT"}, <<"DISTINCT", "FROM", Expr(precCompare + 1), distinct>>)
  ?? Else(<<Expr(precCompare + 1), node>>)

parseLike    == Else(<<"advance", Expr(precCompare + 1), "parseEscape">>)
parseEscape  == On({"ESCAPE"}, <<"ESCAPE", Expr(precCompare + 1), "LikeEscape">>) ?? Else(<<"LikeExpr">>)
parseBetween == Else(<<"BETWEEN", "parseBetweenBound", "AND", Expr(precCompare + 1), "BetweenExpr">>)

parseIn     == Else(<<"IN", "inOperand">>)
inOperand   == On({"LP"}, <<"LP", "inList">>) ?? Else(<<"qualifiedName", "inArgs", "InTable">>)
inList      == On(SelectStarts, <<"parseSelect", "RP", "InSelect">>)
               ?? On({"RP"}, <<"RP", "InExpr">>)
               ?? Else(<<"parseExprList", "RP", "InExpr">>)
inArgs      == Opt("LP", <<"optArgs", "RP">>)
optArgs     == On({"RP"}, <<>>) ?? Else(<<"parseExprList">>)

parseExprList == Else(<<Expr(0), "moreExprs">>)
moreExprs     == Opt("COMMA", <<Expr(0), "moreExprs">>)

parsePrimary ==
  On({"LP"}, <<"parseParenExpr">>)
  ?? On({"NULL", "INTEGER", "FLOAT", "BLOB", "QNUMBER", "BADQ", "CTIME_KW"}, <<"parseTerm">>)
  ?? On({"STRING"}, <<"stringPrimary">>)
  ?? On({"VARIABLE"}, <<"VARIABLE", "BindParam">>)
  ?? On({"REG"}, <<"REG", "defer", "Register">>)
  ?? On({"CAST"}, <<"CAST", "LP", Expr(0), "AS", "parseTypeToken", "RP", "CastExpr">>)
  ?? On({"CASE"}, <<"parseCase">>)
  ?? On({"EXISTS"}, <<"EXISTS", "LP", "parseSelect", "RP", "ExistsExpr">>)
  ?? On({"RAISE"}, <<"parseRaise">>)
  ?? On(IDJ, <<"namePrimary">>)
  ?? SyntaxError

(* The two looks of parsePrimary at p.peek(1).                             *)
stringPrimary == On({"DOT"}, <<"parseQualifiedRef">>) ?? Else(<<"parseTerm">>)
namePrimary   == On({"LP"}, <<"parseFuncCall">>) ?? On({"DOT"}, <<"parseQualifiedRef">>)
                 ?? Else(<<"advance", "Ident">>)

parseTerm ==
  On({"NULL", "INTEGER", "FLOAT", "BLOB", "STRING", "QNUMBER", "CTIME_KW"}, <<"advance", "Literal">>)
  ?? On({"BADQ"}, <<"BADQ", "fail">>)
  ?? SyntaxError

parseParenExpr == Else(<<"LP", "parenContent">>)
parenContent   == On(SelectStarts, <<"parseSelect", "RP", "SubqueryExpr">>)
                  ?? Else(<<Expr(0), "parenRest">>)
parenRest      == On({"COMMA"}, <<"moreExprs", "RP", "VectorExpr">>) ?? Else(<<"RP", "ParenExpr">>)

parseQualifiedRef == Else(<<"nm", "DOT", "nm", "thirdPart">>)
thirdPart         == On({"DOT"}, <<"DOT", "nm", "QualifiedRef3">>) ?? Else(<<"QualifiedRef2">>)

parseCase  == Else(<<"CASE", "caseOperand", "caseFirst", "caseMore", "caseElse", "END", "CaseExpr">>)
caseOperand == On({"WHEN"}, <<>>) ?? Else(<<Expr(0)>>)
caseFirst  == On({"WHEN"}, <<"WHEN", Expr(0), "THEN", Expr(0), "CaseWhen">>) ?? SyntaxError
caseMore   ==
  On({"WHEN"}, <<"WHEN", Expr(0), "THEN", Expr(0), "CaseWhen", "caseMore">>) ?? Else(<<>>)
caseElse   == Opt("ELSE", <<Expr(0)>>)

parseRaise  == Else(<<"RAISE", "LP", "raiseAction", "RP", "RaiseExpr">>)
raiseAction == OneOf({"IGNORE"})
               ?? On({"ROLLBACK", "ABORT", "FAIL"}, <<"advance", "COMMA", Expr(0)>>)
               ?? SyntaxError

parseFuncCall == Else(<<"advance", "LP", "callArgs", "RP", "parseFilterOver", "FuncCall">>)
callArgs      == OneOf({"STAR"})
                 ?? On({"DISTINCT", "ALL"}, <<"advance", "callList", "callOrder">>)
                 ?? Else(<<"callList", "callOrder">>)
callList      == On({"RP", "ORDER"}, <<>>) ?? Else(<<"parseExprList">>)
callOrder     == Opt("ORDER", <<"BY", "parseSortList">>)

parseFilterOver == On({"FILTER"}, <<"FILTER", "LP", "WHERE", Expr(0), "RP", "Filter", "overClause">>)
                   ?? Else(<<"overClause">>)
overClause == Opt("OVER", <<"overWindow">>)
overWindow == On({"LP"}, <<"LP", "parseWindow", "RP", "Over">>) ?? Else(<<"nm", "OverName">>)

parseTypeToken == On(IDS, <<"advance", "typeWords", "typeSize">>) ?? Else(<<>>)
typeWords == On(IDS, <<"advance", "typeWords">>) ?? Else(<<>>)
typeSize  == Opt("LP", <<"parseSignedNumber", "secondSize">>)
secondSize == On({"COMMA"}, <<"COMMA", "parseSignedNumber", "RP", "Size2">>) ?? Else(<<"RP", "Size">>)

parseSignedNumber == On({"PLUS", "MINUS"}, <<"advance", "number">>) ?? Else(<<"number">>)

---------------------------------------------------------------------------

FunctionTables ==
  [ parseBetweenBound |-> parseBetweenBound,
    boundOperators |-> boundOperators,
    parsePrefix |-> parsePrefix, parseIs |-> parseIs, parseIsNot |-> parseIsNot,
    isOperand |-> IsOperand("IsExpr", "IsDistinctExpr"),
    isNotOperand |-> IsOperand("IsNotExpr", "IsNotDistinctExpr"),
    parseLike |-> parseLike, parseEscape |-> parseEscape, parseBetween |-> parseBetween,
    parseIn |-> parseIn, inOperand |-> inOperand, inList |-> inList, inArgs |-> inArgs,
    optArgs |-> optArgs, parseExprList |-> parseExprList, moreExprs |-> moreExprs,
    parsePrimary |-> parsePrimary, parseTerm |-> parseTerm,
    parseParenExpr |-> parseParenExpr, parenContent |-> parenContent, parenRest |-> parenRest,
    parseQualifiedRef |-> parseQualifiedRef, thirdPart |-> thirdPart,
    parseCase |-> parseCase, caseOperand |-> caseOperand, caseFirst |-> caseFirst,
    caseMore |-> caseMore, caseElse |-> caseElse,
    parseRaise |-> parseRaise, raiseAction |-> raiseAction,
    parseFuncCall |-> parseFuncCall, callArgs |-> callArgs, callList |-> callList,
    callOrder |-> callOrder, parseFilterOver |-> parseFilterOver, overClause |-> overClause,
    overWindow |-> overWindow,
    parseTypeToken |-> parseTypeToken, typeWords |-> typeWords, typeSize |-> typeSize,
    secondSize |-> secondSize, parseSignedNumber |-> parseSignedNumber ]

ExprTables ==
  FunctionTables
  ?? [sym \in { Expr(min) : min \in Mins } |->
        parseExpr(CHOOSE min \in Mins : sym = Expr(min))]
  ?? [sym \in { Ops(min) : min \in Mins } |->
        LET min == CHOOSE m \in Mins : sym = Ops(m)
        IN parseOperators(min, FALSE, sym, NotOps(min))]

(* Tables for the token after the lookahead.                               *)
ExprPeeks ==
  [ boundNot |-> parseNot(1, "boundOperators"),
    stringPrimary |-> stringPrimary, namePrimary |-> namePrimary ]
  ?? [sym \in { NotOps(min) : min \in Mins } |->
        LET min == CHOOSE m \in Mins : sym = NotOps(m)
        IN parseNot(min, Ops(min))]
====
