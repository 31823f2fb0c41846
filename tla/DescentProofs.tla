---- MODULE DescentProofs ----
(***************************************************************************)
(* Proofs about the recursive descent of meyer: on every input p.depth     *)
(* counts the recursive functions that are active. The first part is about *)
(* the parse functions, one by one; the second about the machine that runs *)
(* them; the third about a parser reading its input.                       *)
(***************************************************************************)
EXTENDS Meyer, NumberProofs, SequenceTheorems

---------------------------------------------------------------------------
(* The tables of the parse functions.                                      *)

(* A sequence of symbols without enter, leave, or a name the machine has   *)
(* for a sort of symbols.                                                  *)
Special == {"enter", "leave", "table", "peek", "peek2", "node"}

IsTuple(s) == Len(s) \in Nat /\ s = [n \in 1 .. Len(s) |-> s[n]]

Plain(s) == IsTuple(s) /\ \A n \in 1 .. Len(s) : s[n] \notin Special

(* One that enters, and leaves at its end.                                 *)
Bracketed(s) ==
  /\ IsTuple(s)
  /\ Len(s) >= 2 /\ s[1] = "enter" /\ s[Len(s)] = "leave"
  /\ \A n \in 2 .. Len(s) - 1 : s[n] \notin Special

(* The tables of a function: with an entry for every kind, with entries    *)
(* for some, all of them plain; and with entries of either sort.           *)
Whole(f) == DOMAIN f = Kinds /\ \A t \in Kinds : Plain(f[t])
Part(f)  == DOMAIN f \subseteq Kinds /\ \A t \in DOMAIN f : Plain(f[t])
Table(f) == DOMAIN f = Kinds /\ \A t \in Kinds : Plain(f[t]) \/ Bracketed(f[t])

(* A set of tables by their names.                                         *)
Sound(tables) == \A sym \in DOMAIN tables : sym \notin {"enter", "leave"} /\ Table(tables[sym])

(* The left one of two tables wins.                                        *)
LEMMA OverlayIs ==
  \A f, g : /\ DOMAIN (f ?? g) = DOMAIN f \cup DOMAIN g
            /\ \A x \in DOMAIN f : (f ?? g)[x] = f[x]
            /\ \A x \in DOMAIN g : x \notin DOMAIN f => (f ?? g)[x] = g[x]
<1> TAKE f, g
<1>1. f ?? g = Overlay(f, g)
  BY DEF ??
<1>2. Overlay(f, g) = [x \in DOMAIN f \cup DOMAIN g |-> IF x \in DOMAIN f THEN f[x] ELSE g[x]]
  BY DEF Overlay
<1> QED
  BY <1>1, <1>2

LEMMA OverlayOf ==
  ASSUME NEW f, NEW g
  PROVE  /\ DOMAIN (f ?? g) = DOMAIN f \cup DOMAIN g
         /\ \A x \in DOMAIN f : (f ?? g)[x] = f[x]
         /\ \A x \in DOMAIN g : x \notin DOMAIN f => (f ?? g)[x] = g[x]
<1>1. DOMAIN (f ?? g) = DOMAIN f \cup DOMAIN g
  BY OverlayIs
<1>2. \A x \in DOMAIN f : (f ?? g)[x] = f[x]
  BY OverlayIs
<1>3. \A x \in DOMAIN g : x \notin DOMAIN f => (f ?? g)[x] = g[x]
  BY OverlayIs
<1> QED
  BY <1>1, <1>2, <1>3

(* What tables are put together from.                                      *)
LEMMA Pieces ==
  /\ \A s : Plain(s) => Whole(Else(s))
  /\ \A S, s : Plain(s) => Part(On(S, s))
  /\ \A f, g : Part(f) /\ Whole(g) => Whole(f ?? g)
  /\ \A f, g : Part(f) /\ Part(g) => Part(f ?? g)
  /\ \A k, s : k \notin Special /\ Plain(s) => Whole(Opt(k, s))
  /\ \A S : Part(OneOf(S))
  /\ Whole(SyntaxError)
<1>1. ASSUME NEW s, Plain(s) PROVE Whole(Else(s))
  BY <1>1 DEF Whole, Else
<1>2. ASSUME NEW S, NEW s, Plain(s) PROVE Part(On(S, s))
  BY <1>2 DEF Part, On
<1>3. ASSUME NEW f, NEW g, Part(f), Whole(g) PROVE Whole(f ?? g)
  <2>1. DOMAIN (f ?? g) = Kinds
    BY <1>3, OverlayIs DEF Part, Whole
  <2>2. ASSUME NEW t \in Kinds PROVE Plain((f ?? g)[t])
    BY <1>3, <2>2, OverlayIs DEF Part, Whole
  <2> QED
    BY <2>1, <2>2 DEF Whole
<1>4. ASSUME NEW f, NEW g, Part(f), Part(g) PROVE Part(f ?? g)
  <2>1. DOMAIN (f ?? g) \subseteq Kinds
    BY <1>4, OverlayIs DEF Part
  <2>2. ASSUME NEW t \in DOMAIN (f ?? g) PROVE Plain((f ?? g)[t])
    <3>1. CASE t \in DOMAIN f
      BY <1>4, <3>1, OverlayIs DEF Part
    <3>2. CASE t \notin DOMAIN f
      <4>1. t \in DOMAIN g
        BY <2>2, <3>2, OverlayIs
      <4> QED
        BY <1>4, <3>2, <4>1, OverlayIs DEF Part
    <3> QED
      BY <3>1, <3>2
  <2> QED
    BY <2>1, <2>2 DEF Part
<1>5. ASSUME NEW k, NEW s, k \notin Special, Plain(s) PROVE Whole(Opt(k, s))
  <2> DEFINE r == [n \in 1 .. Len(s) |-> s[n]]
  <2>1. Len(s) \in Nat /\ s = r /\ \A n \in 1 .. Len(s) : s[n] \notin Special
    BY <1>5 DEF Plain, IsTuple
  <2>2. <<k>> \o s = [n \in 1 .. Len(s) + 1 |-> IF n = 1 THEN k ELSE s[n - 1]] /\ Len(<<k>> \o s) = Len(s) + 1
    BY <2>1
  <2>3. Plain(<<k>> \o s)
    BY <1>5, <2>1, <2>2 DEF Plain, IsTuple
  <2>4. Plain(<<>>)
    BY DEF Plain, IsTuple
  <2> QED
    BY <1>1, <1>2, <1>3, <2>3, <2>4 DEF Opt
<1>6. ASSUME NEW S PROVE Part(OneOf(S))
  <2>1. Plain(<<"advance">>)
    BY DEF Plain, IsTuple, Special
  <2> QED
    BY <1>2, <2>1 DEF OneOf
<1>7. Whole(SyntaxError)
  <2>1. Plain(<<"syntaxError">>)
    BY DEF Plain, IsTuple, Special
  <2> QED
    BY <1>1, <2>1 DEF SyntaxError
<1> QED
  BY <1>1, <1>2, <1>3, <1>4, <1>5, <1>6, <1>7

LEMMA WholeIsTable ==
  ASSUME NEW f, Whole(f)
  PROVE  Table(f)
BY DEF Whole, Table


(* Tuples of other symbols.                                                *)
LEMMA Tuples ==
  /\ Plain(<<>>)
  /\ \A a : a \notin Special => Plain(<<a>>)
  /\ \A a, b : {a, b} \cap Special = {} => Plain(<<a, b>>)
  /\ \A a, b, c : {a, b, c} \cap Special = {} => Plain(<<a, b, c>>)
  /\ \A a, b, c, d : {a, b, c, d} \cap Special = {} => Plain(<<a, b, c, d>>)
  /\ \A a, b, c, d, e :
       {a, b, c, d, e} \cap Special = {} => Plain(<<a, b, c, d, e>>)
  /\ \A a, b, c, d, e, f :
       {a, b, c, d, e, f} \cap Special = {} => Plain(<<a, b, c, d, e, f>>)
  /\ \A a, b, c, d, e, f, g :
       {a, b, c, d, e, f, g} \cap Special = {} => Plain(<<a, b, c, d, e, f, g>>)
  /\ \A a, b, c, d, e, f, g, h :
       {a, b, c, d, e, f, g, h} \cap Special = {} => Plain(<<a, b, c, d, e, f, g, h>>)
  /\ \A a, b, c, d, e, f, g, h, i :
       {a, b, c, d, e, f, g, h, i} \cap Special = {} => Plain(<<a, b, c, d, e, f, g, h, i>>)
  /\ \A a, b, c, d, e, f, g, h, i, j :
       {a, b, c, d, e, f, g, h, i, j} \cap Special = {} => Plain(<<a, b, c, d, e, f, g, h, i, j>>)
  /\ \A a, b, c, d, e, f, g, h, i, j, k :
       {a, b, c, d, e, f, g, h, i, j, k} \cap Special = {} => Plain(<<a, b, c, d, e, f, g, h, i, j, k>>)
  /\ \A a, b, c, d, e, f, g, h, i, j, k, l :
       {a, b, c, d, e, f, g, h, i, j, k, l} \cap Special = {} => Plain(<<a, b, c, d, e, f, g, h, i, j, k, l>>)
BY DEF Plain, IsTuple

(* A function whose one entry enters first and leaves last.                *)
LEMMA Brackets ==
  /\ \A a : a \notin Special => Bracketed(<<"enter", a, "leave">>)
  /\ \A a, b : {a, b} \cap Special = {} => Bracketed(<<"enter", a, b, "leave">>)
  /\ \A s : Bracketed(s) => Table(Else(s))
<1>1. ASSUME NEW a, a \notin Special PROVE Bracketed(<<"enter", a, "leave">>)
  BY <1>1 DEF Bracketed, IsTuple
<1>2. ASSUME NEW a, NEW b, {a, b} \cap Special = {} PROVE Bracketed(<<"enter", a, b, "leave">>)
  BY <1>2 DEF Bracketed, IsTuple
<1>3. ASSUME NEW s, Bracketed(s) PROVE Table(Else(s))
  BY <1>3 DEF Table, Else
<1> QED
  BY <1>1, <1>2, <1>3

(* Sets of sound tables combine.                                           *)
LEMMA SoundOverlay ==
  \A f, g : Sound(f) /\ Sound(g) => Sound(f ?? g)
<1> SUFFICES ASSUME NEW f, NEW g, Sound(f), Sound(g), NEW sym \in DOMAIN (f ?? g)
             PROVE  sym \notin {"enter", "leave"} /\ Table((f ?? g)[sym])
  BY DEF Sound
<1>1. CASE sym \in DOMAIN f
  BY <1>1, OverlayIs DEF Sound
<1>2. CASE sym \notin DOMAIN f
  <2>1. sym \in DOMAIN g
    BY <1>2, OverlayIs
  <2> QED
    BY <1>2, <2>1, OverlayIs DEF Sound
<1> QED
  BY <1>1, <1>2

(* The symbols a minimum precedence is part of, and the precedences of the *)
(* infix operators.                                                        *)
LEMMA ExprNames ==
  \A min \in Mins : Expr(min) \notin Special /\ Ops(min) \notin Special /\ NotOps(min) \notin Special
<1> SUFFICES ASSUME NEW min \in 0 .. 13
             PROVE  Expr(min) \notin Special /\ Ops(min) \notin Special /\ NotOps(min) \notin Special
  BY DEF Mins, precUnary
<1>1. Expr(min) \notin Special
  BY DEF Expr, Special
<1>2. Ops(min) \notin Special
  BY DEF Ops, Special
<1>3. NotOps(min) \notin Special
  BY DEF NotOps, Special
<1> QED
  BY <1>1, <1>2, <1>3

Levels(f) == DOMAIN f \subseteq Kinds /\ \A t \in DOMAIN f : f[t] \in 1 .. 12

LEMMA LevelPieces ==
  /\ \A S, n : n \in 1 .. 12 => Levels(On(S, n))
  /\ \A f, g : Levels(f) /\ Levels(g) => Levels(f ?? g)
<1>1. ASSUME NEW S, NEW n \in 1 .. 12 PROVE Levels(On(S, n))
  BY DEF Levels, On
<1>2. ASSUME NEW f, NEW g, Levels(f), Levels(g) PROVE Levels(f ?? g)
  <2>1. DOMAIN (f ?? g) \subseteq Kinds
    BY <1>2, OverlayIs DEF Levels
  <2>2. ASSUME NEW t \in DOMAIN (f ?? g) PROVE (f ?? g)[t] \in 1 .. 12
    <3>1. CASE t \in DOMAIN f
      BY <1>2, <3>1, OverlayIs DEF Levels
    <3>2. CASE t \notin DOMAIN f
      <4>1. t \in DOMAIN g
        BY <2>2, <3>2, OverlayIs
      <4> QED
        BY <1>2, <3>2, <4>1, OverlayIs DEF Levels
    <3> QED
      BY <3>1, <3>2
  <2> QED
    BY <2>1, <2>2 DEF Levels
<1> QED
  BY <1>1, <1>2

LEMMA InfixLevels == Levels(infix)
BY LevelPieces DEF infix, precCompare

(* The loop of parseOperators.                                             *)
LEMMA LoopIsWhole ==
  ASSUME NEW min, NEW stopAtAnd, NEW again, NEW not, again \notin Special, not \notin Special
  PROVE  Whole(parseOperators(min, stopAtAnd, again, not))
<1>1. \A t \in DOMAIN infix : Expr(infix[t] + 1) \notin Special
  <2> TAKE t \in DOMAIN infix
  <2>1. infix[t] + 1 \in Mins
    BY InfixLevels DEF Levels, Mins, precUnary
  <2> QED
    BY <2>1, ExprNames
<1>2. \A S : S \subseteq DOMAIN infix => Part(Binary(S, again))
  <2> TAKE S
  <2> HAVE S \subseteq DOMAIN infix
  <2>1. ASSUME NEW t \in S PROVE Plain(<<"advance", Expr(infix[t] + 1), "BinaryExpr", again>>)
    <3>1. {"advance", Expr(infix[t] + 1), "BinaryExpr", again} \cap Special = {}
      BY <1>1 DEF Special
    <3> QED
      BY <3>1, Tuples
  <2>2. DOMAIN infix \subseteq Kinds
    BY InfixLevels DEF Levels
  <2> QED
    BY <2>1, <2>2 DEF Part, Binary
<1>3. \A c, f : Part(f) => Part(When(c, f))
  BY DEF When, Nothing, Part
<1>4. Part(Comparisons(again))
  BY Pieces, Tuples DEF Special, Comparisons
<1>5. Whole(parseOperators(min, stopAtAnd, again, not))
  <2> DEFINE S == { t \in DOMAIN infix : infix[t] >= min /\ ~(t = "AND" /\ stopAtAnd) }
             B == Binary(S, again)
             C == When(precCollate >= min, On({"COLLATE"}, <<"COLLATE", "ids", "CollateExpr", again>>))
             D == When(precCompare >= min, Comparisons(again))
  <2>1. Part(B)
    BY <1>2
  <2>2. Part(C)
    BY <1>3, Pieces, Tuples DEF Special
  <2>3. Part(D)
    BY <1>3, <1>4
  <2>4. Part(On({"NOT"}, <<not>>)) /\ Whole(Else(<<>>))
    BY Pieces, Tuples
  <2> HIDE DEF B, C, D
  <2>5. Whole(B ?? C ?? D ?? On({"NOT"}, <<not>>) ?? Else(<<>>))
    BY <2>1, <2>2, <2>3, <2>4, Pieces
  <2> QED
    BY <2>5 DEF parseOperators, B, C, D
<1> QED
  BY <1>5

(* Its second look.                                                        *)
LEMMA LookIsWhole ==
  ASSUME NEW min, NEW again, again \notin Special
  PROVE  Whole(parseNot(min, again))
<1>3. \A c, f : Part(f) => Part(When(c, f))
  BY DEF When, Nothing, Part
<1>6. Whole(parseNot(min, again))
  <2> DEFINE B == When(precNot >= min, On({"NULL"}, <<"NOT", "NULL", "NullCheckExpr", again>>))
             T == On({"LIKE_KW", "MATCH"}, <<"NOT", "parseLike", again>>)
                  ?? On({"BETWEEN"}, <<"NOT", "parseBetween", again>>)
                  ?? On({"IN"}, <<"NOT", "parseIn", again>>)
                  ?? Else(<<"NOT", "syntaxError">>)
             C == When(precCompare >= min, T)
  <2>1. Part(B)
    BY <1>3, Pieces, Tuples DEF Special
  <2>2. Part(T)
    <3>1. Whole(T)
      BY Pieces, Tuples DEF Special
    <3> QED
      BY <3>1 DEF Whole, Part
  <2>3. Part(C)
    BY <1>3, <2>2
  <2>4. Part(On({"NULL"}, <<>>)) /\ Whole(Else(<<>>))
    BY Pieces, Tuples
  <2> HIDE DEF B, C
  <2>5. Whole(B ?? On({"NULL"}, <<>>) ?? C ?? Else(<<>>))
    BY <2>1, <2>3, <2>4, Pieces
  <2> QED
    BY <2>5 DEF parseNot, B, C
<1> QED
  BY <1>6

(* parse_expr.go.                                                          *)
LEMMA ExprSound == Sound(ExprTables)
<1>1. {Expr(0), Expr(precCompare + 1), Expr(precNot + 1), Expr(precUnary + 1)} \cap Special = {}
  <2>1. {0, precCompare + 1, precNot + 1, precUnary + 1} \subseteq Mins
    BY DEF precCompare, precNot, precUnary, Mins
  <2> QED
    BY <2>1, ExprNames
<1> DEFINE Exprs == [sym \in { Expr(min) : min \in Mins } |->
                       parseExpr(CHOOSE min \in Mins : sym = Expr(min))]
           Loops == [sym \in { Ops(min) : min \in Mins } |->
                       LET min == CHOOSE m \in Mins : sym = Ops(m)
                       IN parseOperators(min, FALSE, sym, NotOps(min))]
<1>6. "boundOperators" \notin Special /\ "boundNot" \notin Special
  BY DEF Special
<1>2. Sound(FunctionTables)
  <2>1. /\ Whole(parsePrefix) /\ Whole(parseIs) /\ Whole(parseIsNot)
        /\ Whole(IsOperand("IsExpr", "IsDistinctExpr"))
        /\ Whole(IsOperand("IsNotExpr", "IsNotDistinctExpr")) /\ Whole(parseLike)
        /\ Whole(parseEscape) /\ Whole(parseBetween)
    BY <1>1, Pieces, Tuples DEF Special, parsePrefix, parseIs, parseIsNot, IsOperand,
        parseLike, parseEscape, parseBetween
  <2>2. /\ Whole(parseIn) /\ Whole(inOperand) /\ Whole(inList) /\ Whole(inArgs)
        /\ Whole(optArgs) /\ Whole(parseExprList) /\ Whole(moreExprs)
        /\ Whole(parsePrimary)
    BY <1>1, Pieces, Tuples DEF Special, parseIn, inOperand, inList, inArgs, optArgs,
        parseExprList, moreExprs, parsePrimary
  <2>3. /\ Whole(parseTerm) /\ Whole(parseParenExpr) /\ Whole(parenContent)
        /\ Whole(parenRest) /\ Whole(parseQualifiedRef) /\ Whole(thirdPart)
        /\ Whole(parseCase) /\ Whole(caseOperand)
    BY <1>1, Pieces, Tuples DEF Special, parseTerm, parseParenExpr, parenContent,
        parenRest, parseQualifiedRef, thirdPart, parseCase, caseOperand
  <2>4. /\ Whole(caseFirst) /\ Whole(caseMore) /\ Whole(caseElse)
        /\ Whole(parseRaise) /\ Whole(raiseAction) /\ Whole(parseFuncCall)
        /\ Whole(callArgs) /\ Whole(callList)
    BY <1>1, Pieces, Tuples DEF Special, caseFirst, caseMore, caseElse, parseRaise,
        raiseAction, parseFuncCall, callArgs, callList
  <2>5. /\ Whole(callOrder) /\ Whole(parseFilterOver) /\ Whole(overClause)
        /\ Whole(overWindow) /\ Whole(parseTypeToken) /\ Whole(typeWords)
        /\ Whole(typeSize) /\ Whole(secondSize)
    BY <1>1, Pieces, Tuples DEF Special, callOrder, parseFilterOver, overClause,
        overWindow, parseTypeToken, typeWords, typeSize, secondSize
  <2>6. /\ Whole(parseSignedNumber)
    BY <1>1, Pieces, Tuples DEF Special, parseSignedNumber
  <2>7. Table(parseBetweenBound)
    BY Brackets DEF Special, parseBetweenBound, Bound
  <2>8. Whole(boundOperators)
    BY <1>6, LoopIsWhole DEF boundOperators, Bound, NotBound
  <2> QED
    BY WholeIsTable, <2>1, <2>2, <2>3, <2>4, <2>5, <2>6, <2>7, <2>8 DEF Sound, FunctionTables
<1>3. Sound(Exprs)
  <2> SUFFICES ASSUME NEW sym \in { Expr(min) : min \in Mins }
               PROVE  sym \notin {"enter", "leave"} /\ Table(Exprs[sym])
    BY DEF Sound
  <2>1. PICK min \in Mins : sym = Expr(min)
    OBVIOUS
  <2> DEFINE m == CHOOSE n \in Mins : sym = Expr(n)
  <2>2. m \in Mins
    BY <2>1
  <2>3. Ops(m) \notin Special
    BY <2>2, ExprNames
  <2> HIDE DEF m
  <2>4. Table(parseExpr(m))
    BY <2>3, Brackets DEF Special, parseExpr
  <2>5. sym \notin {"enter", "leave"}
    BY <2>1, ExprNames DEF Special
  <2> QED
    BY <2>4, <2>5 DEF m
<1>4. Sound(Loops)
  <2> SUFFICES ASSUME NEW sym \in { Ops(min) : min \in Mins }
               PROVE  sym \notin {"enter", "leave"} /\ Table(Loops[sym])
    BY DEF Sound
  <2>1. PICK min \in Mins : sym = Ops(min)
    OBVIOUS
  <2> DEFINE m == CHOOSE n \in Mins : sym = Ops(n)
  <2>2. m \in Mins
    BY <2>1
  <2>3. sym \notin Special /\ NotOps(m) \notin Special
    BY <2>1, <2>2, ExprNames
  <2> HIDE DEF m
  <2>4. Table(parseOperators(m, FALSE, sym, NotOps(m)))
    BY <2>3, LoopIsWhole, WholeIsTable
  <2>5. sym \notin {"enter", "leave"}
    BY <2>3 DEF Special
  <2> QED
    BY <2>4, <2>5 DEF m
<1> HIDE DEF Exprs, Loops
<1>5. Sound(FunctionTables ?? Exprs ?? Loops)
  BY <1>2, <1>3, <1>4, SoundOverlay
<1> QED
  BY <1>5 DEF ExprTables, Exprs, Loops

(* parser.go.                                                              *)
LEMMA ScriptSound == Sound(ScriptTables)
<1>1. /\ Whole(parseScript) /\ Whole(endStatement) /\ Whole(parseExplainable)
      /\ Whole(queryPlan) /\ Whole(parseCmd) /\ Whole(qualifiedName)
      /\ Whole(afterSchema) /\ Whole(xfullname)
  BY Pieces, Tuples DEF Special, parseScript, endStatement, parseExplainable,
      queryPlan, parseCmd, qualifiedName, afterSchema, xfullname
<1>2. /\ Whole(asName)
  BY Pieces, Tuples DEF Special, asName
<1> QED
  BY WholeIsTable, <1>1, <1>2
     DEF Sound, ScriptTables

(* parse_select.go.                                                        *)
LEMMA SelectSound == Sound(SelectTables)
<1>1. /\ Whole(parseSelectStmtOrDML) /\ Whole(afterWith) /\ Whole(parseSelect)
      /\ Whole(compound) /\ Whole(unionAll) /\ Whole(parseOneSelect)
      /\ Whole(distinct) /\ Whole(fromOpt)
  BY Pieces, Tuples DEF Special, parseSelectStmtOrDML, afterWith, parseSelect,
      compound, unionAll, parseOneSelect, distinct, fromOpt
<1>2. /\ Whole(whereOpt) /\ Whole(groupByOpt) /\ Whole(havingOpt)
      /\ Whole(windowOpt) /\ Whole(orderByOpt) /\ Whole(parseValues)
      /\ Whole(valuesRows) /\ Whole(moreRows)
  BY Pieces, Tuples DEF Special, whereOpt, groupByOpt, havingOpt, windowOpt,
      orderByOpt, parseValues, valuesRows, moreRows
<1>3. /\ Whole(parseResultColumns) /\ Whole(columnExpr) /\ Whole(moreColumns)
      /\ Whole(parseAlias) /\ Whole(parseFromList) /\ Whole(tryJoinOperator)
      /\ Whole(joinWord2) /\ Whole(joinWord3)
  BY Pieces, Tuples DEF Special, parseResultColumns, columnExpr, moreColumns,
      parseAlias, parseFromList, tryJoinOperator, joinWord2, joinWord3
<1>4. /\ Whole(tableSource) /\ Whole(tableParens) /\ Whole(tableName)
      /\ Whole(parseOnUsing) /\ Whole(parseIDList) /\ Whole(moreIDs)
      /\ Whole(parseIndexedOpt) /\ Whole(notIndexed)
  BY Pieces, Tuples DEF Special, tableSource, tableParens, tableName,
      parseOnUsing, parseIDList, moreIDs, parseIndexedOpt, notIndexed
<1>5. /\ Whole(parseSortList) /\ Whole(sortOrder) /\ Whole(nulls)
      /\ Whole(nullsWhere) /\ Whole(moreTerms) /\ Whole(parseLimit)
      /\ Whole(limitOffset) /\ Whole(parseWith)
  BY Pieces, Tuples DEF Special, parseSortList, sortOrder, nulls, nullsWhere,
      moreTerms, parseLimit, limitOffset, parseWith
<1>6. /\ Whole(recursive) /\ Whole(parseCTE) /\ Whole(cteColumns)
      /\ Whole(materialized) /\ Whole(moreCTEs)
      /\ Whole(parseIndexedColumnList) /\ Whole(columnCollate)
      /\ Whole(moreIndexed)
  BY Pieces, Tuples DEF Special, recursive, parseCTE, cteColumns, materialized,
      moreCTEs, parseIndexedColumnList, columnCollate, moreIndexed
<1>7. /\ Whole(parseWindowDefnList) /\ Whole(moreWindows) /\ Whole(parseWindow)
      /\ Whole(windowBase) /\ Whole(partitionOpt) /\ Whole(parseFrame)
      /\ Whole(frameBounds) /\ Whole(parseFrameBound("PRECEDING"))
  BY Pieces, Tuples DEF Special, parseWindowDefnList, moreWindows, parseWindow,
      windowBase, partitionOpt, parseFrame, frameBounds, parseFrameBound
<1>8. /\ Whole(parseFrameBound("FOLLOWING")) /\ Whole(boundDirection)
      /\ Whole(parseFrameExclude) /\ Whole(excluded)
  BY Pieces, Tuples DEF Special, parseFrameBound, boundDirection,
      parseFrameExclude, excluded
<1>9. Table(parseSelectNoWith)
  BY Brackets DEF Special, parseSelectNoWith
<1>10. Table(parseTableRef)
  BY Brackets DEF Special, parseTableRef
<1> QED
  BY WholeIsTable, <1>1, <1>2, <1>3, <1>4, <1>5, <1>6, <1>7, <1>8,
      <1>9, <1>10
     DEF Sound, SelectTables

(* parse_dml.go, parse_trigger.go.                                         *)
LEMMA DMLSound == Sound(DMLTables)
<1>1. /\ Whole(parseInsert) /\ Whole(insertSource) /\ Whole(insertTarget)
      /\ Whole(insertWord) /\ Whole(insertColumns) /\ Whole(parseOrConflict)
      /\ Whole(parseResolveType) /\ Whole(parseUpsert)
  BY Pieces, Tuples DEF Special, parseInsert, insertSource, insertTarget,
      insertWord, insertColumns, parseOrConflict, parseResolveType, parseUpsert
<1>2. /\ Whole(upsertTarget) /\ Whole(upsertAction) /\ Whole(parseReturning)
      /\ Whole(parseSetList) /\ Whole(setColumns) /\ Whole(moreSets)
      /\ Whole(parseWhereOptRet) /\ Whole(whereWithReturning)
  BY Pieces, Tuples DEF Special, upsertTarget, upsertAction, parseReturning,
      parseSetList, setColumns, moreSets, parseWhereOptRet, whereWithReturning
<1>3. /\ Whole(parseUpdateDeleteLimit) /\ Whole(parseUpdate)
      /\ Whole(updateCore) /\ Whole(parseDelete) /\ Whole(deleteCore)
      /\ Whole(parseCreateTrigger) /\ Whole(triggerTime) /\ Whole(triggerEvent)
  BY Pieces, Tuples DEF Special, parseUpdateDeleteLimit, parseUpdate,
      updateCore, parseDelete, deleteCore, parseCreateTrigger, triggerTime,
      triggerEvent
<1>4. /\ Whole(updateOf) /\ Whole(forEachRow) /\ Whole(triggerWhen)
      /\ Whole(triggerBody) /\ Whole(triggerEnd) /\ Whole(parseTriggerCmd)
  BY Pieces, Tuples DEF Special, updateOf, forEachRow, triggerWhen,
      triggerBody, triggerEnd, parseTriggerCmd
<1> QED
  BY WholeIsTable, <1>1, <1>2, <1>3, <1>4
     DEF Sound, DMLTables

(* parse_ddl.go.                                                           *)
LEMMA DDLSound == Sound(DDLTables)
<1>1. /\ Whole(parseCreate) /\ Whole(createKind) /\ Whole(createTemp)
      /\ Whole(createAny) /\ Whole(parseIfNotExists) /\ Whole(parseIfExists)
      /\ Whole(parseCreateTable) /\ Whole(tableBody)
  BY Pieces, Tuples DEF Special, parseCreate, createKind, createTemp,
      createAny, parseIfNotExists, parseIfExists, parseCreateTable, tableBody
<1>2. /\ Whole(moreColumnDefs) /\ Whole(columnOrConstraint)
      /\ Whole(tableConstraints) /\ Whole(moreConstraints)
      /\ Whole(parseTableConstraint) /\ Whole(autoincr) /\ Whole(deferOpt)
      /\ Whole(parseTableOptions)
  BY Pieces, Tuples DEF Special, moreColumnDefs, columnOrConstraint,
      tableConstraints, moreConstraints, parseTableConstraint, autoincr,
      deferOpt, parseTableOptions
<1>3. /\ Whole(option) /\ Whole(moreOptions) /\ Whole(parseColumnDef)
      /\ Whole(columnConstraints) /\ Whole(parseColumnConstraint)
      /\ Whole(notNull) /\ Whole(parseDefaultValue) /\ Whole(parseGenerated)
  BY Pieces, Tuples DEF Special, option, moreOptions, parseColumnDef,
      columnConstraints, parseColumnConstraint, notNull, parseDefaultValue,
      parseGenerated
<1>4. /\ Whole(generatedKind) /\ Whole(parseOnConflict)
      /\ Whole(parseDeferClause) /\ Whole(initially) /\ Whole(initialMode)
      /\ Whole(parseReferences) /\ Whole(referenceArgs)
      /\ Whole(referenceEvent)
  BY Pieces, Tuples DEF Special, generatedKind, parseOnConflict,
      parseDeferClause, initially, initialMode, parseReferences, referenceArgs,
      referenceEvent
<1>5. /\ Whole(parseRefAct) /\ Whole(setValue) /\ Whole(parseCreateIndex)
      /\ Whole(parseCreateView) /\ Whole(parseCreateVirtualTable)
      /\ Whole(vtabOpt) /\ Whole(parseVTabArgs) /\ Whole(nestedArgs)
  BY Pieces, Tuples DEF Special, parseRefAct, setValue, parseCreateIndex,
      parseCreateView, parseCreateVirtualTable, vtabOpt, parseVTabArgs,
      nestedArgs
<1>6. /\ Whole(parseDrop) /\ Whole(dropKind) /\ Whole(parseAlterTable)
      /\ Whole(alterAction) /\ Whole(columnWord) /\ Whole(renameWhat)
      /\ Whole(addWhat) /\ Whole(dropWhat)
  BY Pieces, Tuples DEF Special, parseDrop, dropKind, parseAlterTable,
      alterAction, columnWord, renameWhat, addWhat, dropWhat
<1>7. /\ Whole(alterNull)
  BY Pieces, Tuples DEF Special, alterNull
<1> QED
  BY WholeIsTable, <1>1, <1>2, <1>3, <1>4, <1>5, <1>6, <1>7
     DEF Sound, DDLTables

(* parse_misc.go.                                                          *)
LEMMA MiscSound == Sound(MiscTables)
<1>1. /\ Whole(parseBegin) /\ Whole(transType) /\ Whole(parseTransOpt)
      /\ Whole(optName) /\ Whole(parseCommit) /\ Whole(parseRollback)
      /\ Whole(rollbackTo) /\ Whole(optSavepoint)
  BY Pieces, Tuples DEF Special, parseBegin, transType, parseTransOpt, optName,
      parseCommit, parseRollback, rollbackTo, optSavepoint
<1>2. /\ Whole(parseSavepoint) /\ Whole(parseRelease) /\ Whole(parseAttach)
      /\ Whole(optDatabase) /\ Whole(attachKey) /\ Whole(parseDetach)
      /\ Whole(parsePragma) /\ Whole(pragmaValue)
  BY Pieces, Tuples DEF Special, parseSavepoint, parseRelease, parseAttach,
      optDatabase, attachKey, parseDetach, parsePragma, pragmaValue
<1>3. /\ Whole(parsePragmaValue) /\ Whole(parseVacuum) /\ Whole(vacuumInto)
      /\ Whole(optQualified) /\ Whole(parseAnalyze) /\ Whole(parseReindex)
  BY Pieces, Tuples DEF Special, parsePragmaValue, parseVacuum, vacuumInto,
      optQualified, parseAnalyze, parseReindex
<1> QED
  BY WholeIsTable, <1>1, <1>2, <1>3
     DEF Sound, MiscTables

(* The tables for the tokens after the lookahead.                          *)
LEMMA PeeksSound == Sound(ExprPeeks) /\ Sound(SelectPeeks) /\ Sound(SelectPeeks2)
<1>1. Whole(columnDot) /\ Whole(columnStar) /\ Whole(stringPrimary) /\ Whole(namePrimary)
  BY Pieces, Tuples DEF Special, columnDot, columnStar, stringPrimary, namePrimary
<1>2. Whole(parseNot(1, "boundOperators"))
  <2>1. "boundOperators" \notin Special
    BY DEF Special
  <2> QED
    BY <2>1, LookIsWhole
<1> DEFINE Named == [ boundNot |-> parseNot(1, "boundOperators"),
                      stringPrimary |-> stringPrimary, namePrimary |-> namePrimary ]
           Looks == [sym \in { NotOps(min) : min \in Mins } |->
                       LET min == CHOOSE m \in Mins : sym = NotOps(m)
                       IN parseNot(min, Ops(min))]
<1>3. Sound(Named)
  BY <1>1, <1>2, WholeIsTable DEF Sound
<1>4. Sound(Looks)
  <2> SUFFICES ASSUME NEW sym \in { NotOps(min) : min \in Mins }
               PROVE  sym \notin {"enter", "leave"} /\ Table(Looks[sym])
    BY DEF Sound
  <2>1. PICK min \in Mins : sym = NotOps(min)
    OBVIOUS
  <2> DEFINE m == CHOOSE n \in Mins : sym = NotOps(n)
  <2>2. m \in Mins
    BY <2>1
  <2>3. sym \notin Special /\ Ops(m) \notin Special
    BY <2>1, <2>2, ExprNames
  <2> HIDE DEF m
  <2>4. Table(parseNot(m, Ops(m)))
    BY <2>3, LookIsWhole, WholeIsTable
  <2>5. sym \notin {"enter", "leave"}
    BY <2>3 DEF Special
  <2> QED
    BY <2>4, <2>5 DEF m
<1> HIDE DEF Named, Looks
<1>5. Sound(Named ?? Looks)
  BY <1>3, <1>4, SoundOverlay
<1>6. Sound(ExprPeeks)
  BY <1>5 DEF ExprPeeks, Named, Looks
<1>7. Sound(SelectPeeks) /\ Sound(SelectPeeks2)
  BY <1>1, WholeIsTable DEF Sound, SelectPeeks, SelectPeeks2
<1> QED
  BY <1>6, <1>7

(* All of them: a function that enters leaves at the end of its entry, and *)
(* nothing else enters or leaves.                                          *)
LEMMA TablesSound == Sound(Tables) /\ Sound(Peeks) /\ Sound(Peeks2)
<1>1. Sound(Tables)
  BY ScriptSound, ExprSound, SelectSound, DMLSound, DDLSound, MiscSound, SoundOverlay DEF Tables
<1>2. Sound(Peeks) /\ Sound(Peeks2)
  BY PeeksSound, SoundOverlay DEF Peeks, Peeks2
<1> QED
  BY <1>1, <1>2

---------------------------------------------------------------------------
(* What the machine makes of a symbol.                                     *)

AllTables == Tables ?? Peeks ?? Peeks2

LEMMA SymbolFacts ==
  ASSUME NEW sym \in DOMAIN Symbol
  PROVE  /\ Symbol[sym].sort = "enter" <=> sym = "enter"
         /\ Symbol[sym].sort = "leave" <=> sym = "leave"
         /\ Symbol[sym].sort = "node" => sym \in Nodes
         /\ Symbol[sym].sort \in {"table", "peek", "peek2"} =>
              sym \in DOMAIN AllTables /\ Symbol[sym].then = AllTables[sym]
<1>1. DOMAIN Symbol = Symbols(AllTables)
  BY DEF Symbol, Classified, AllTables
<1>2. Symbol[sym] =
        IF sym \in DOMAIN Tables THEN [sort |-> "table", then |-> Tables[sym]]
        ELSE IF sym \in DOMAIN Peeks THEN [sort |-> "peek", then |-> Peeks[sym]]
        ELSE IF sym \in DOMAIN Peeks2 THEN [sort |-> "peek2", then |-> Peeks2[sym]]
        ELSE [sort |-> IF sym \in Nodes THEN "node" ELSE sym, then |-> <<>>]
  BY DEF Symbol, Classified
<1>3. /\ DOMAIN AllTables = DOMAIN Tables \cup DOMAIN Peeks \cup DOMAIN Peeks2
      /\ \A x \in DOMAIN Tables : AllTables[x] = Tables[x]
      /\ \A x \in DOMAIN Peeks : x \notin DOMAIN Tables => AllTables[x] = Peeks[x]
      /\ \A x \in DOMAIN Peeks2 :
           x \notin DOMAIN Tables /\ x \notin DOMAIN Peeks => AllTables[x] = Peeks2[x]
  <2>1. /\ DOMAIN (Tables ?? Peeks) = DOMAIN Tables \cup DOMAIN Peeks
        /\ \A x \in DOMAIN Tables : (Tables ?? Peeks)[x] = Tables[x]
        /\ \A x \in DOMAIN Peeks : x \notin DOMAIN Tables => (Tables ?? Peeks)[x] = Peeks[x]
    BY OverlayOf
  <2> DEFINE T == Tables ?? Peeks
  <2> HIDE DEF T
  <2>2. /\ DOMAIN (T ?? Peeks2) = DOMAIN T \cup DOMAIN Peeks2
        /\ \A x \in DOMAIN T : (T ?? Peeks2)[x] = T[x]
        /\ \A x \in DOMAIN Peeks2 : x \notin DOMAIN T => (T ?? Peeks2)[x] = Peeks2[x]
    BY OverlayOf
  <2>3. AllTables = T ?? Peeks2
    BY DEF AllTables, T
  <2> QED
    BY <2>1, <2>2, <2>3 DEF T
<1>4. Sound(AllTables)
  BY TablesSound, SoundOverlay DEF AllTables
<1>5. CASE sym \in DOMAIN AllTables
  <2>1. sym # "enter" /\ sym # "leave"
    BY <1>4, <1>5 DEF Sound
  <2> QED
    BY <1>2, <1>3, <1>5, <2>1
<1>6. CASE sym \notin DOMAIN AllTables
  <2>1. PICK x \in DOMAIN AllTables, t \in Kinds :
          \E n \in DOMAIN AllTables[x][t] : sym = AllTables[x][t][n]
    BY <1>1, <1>6 DEF Symbols
  <2>2. Plain(AllTables[x][t]) \/ Bracketed(AllTables[x][t])
    BY <1>4 DEF Sound, Table
  <2>3. sym \notin {"table", "peek", "peek2", "node"}
    <3> DEFINE s == AllTables[x][t]
    <3>0. s = AllTables[x][t]
      OBVIOUS
    <3> HIDE DEF s
    <3>n. PICK n \in DOMAIN s : sym = s[n]
      BY <2>1, <3>0
    <3>1. Len(s) \in Nat /\ DOMAIN s = 1 .. Len(s) /\ n \in 1 .. Len(s) /\ sym = s[n]
      <4>1. IsTuple(s)
        BY <2>2, <3>0 DEF Plain, Bracketed
      <4>2. Len(s) \in Nat /\ DOMAIN s = 1 .. Len(s)
        BY <4>1 DEF IsTuple
      <4> QED
        BY <3>n, <4>2
    <3>2. CASE Plain(s)
      BY <3>1, <3>2 DEF Plain, Special
    <3>3. CASE Bracketed(s)
      <4>1. n = 1 \/ n = Len(s) \/ n \in 2 .. Len(s) - 1
        BY <3>1
      <4>2. s[1] = "enter" /\ s[Len(s)] = "leave" /\ \A m \in 2 .. Len(s) - 1 : s[m] \notin Special
        BY <3>3 DEF Bracketed
      <4> QED
        BY <3>1, <4>1, <4>2 DEF Special
    <3> QED
      BY <2>2, <3>0, <3>2, <3>3
  <2>4. "enter" \notin Nodes /\ "leave" \notin Nodes
    BY DEF Nodes
  <2>5. Symbol[sym] = [sort |-> IF sym \in Nodes THEN "node" ELSE sym, then |-> <<>>]
    BY <1>2, <1>3, <1>6
  <2> QED
    BY <2>3, <2>4, <2>5
<1> QED
  BY <1>5, <1>6

(* The entries of a table.                                                 *)
LEMMA EntryFacts ==
  ASSUME NEW sym \in DOMAIN Symbol, Symbol[sym].sort \in {"table", "peek", "peek2"},
         NEW t \in Kinds
  PROVE  /\ Symbol[sym].then[t] \in Seq(DOMAIN Symbol)
         /\ Plain(Symbol[sym].then[t]) \/ Bracketed(Symbol[sym].then[t])
<1> DEFINE s == AllTables[sym][t]
<1>1. sym \in DOMAIN AllTables /\ Symbol[sym].then[t] = s
  BY SymbolFacts
<1>2. Sound(AllTables)
  BY TablesSound, SoundOverlay DEF AllTables
<1>3. Plain(s) \/ Bracketed(s)
  BY <1>1, <1>2 DEF Sound, Table
<1>4. DOMAIN Symbol = Symbols(AllTables)
  BY DEF Symbol, Classified, AllTables
<1>5. ASSUME NEW n \in DOMAIN s PROVE s[n] \in DOMAIN Symbol
  <2> DEFINE E == { AllTables[sym][t][m] : m \in DOMAIN AllTables[sym][t] }
  <2>1. s[n] \in E
    OBVIOUS
  <2>2. E \in { { AllTables[x][u][m] : m \in DOMAIN AllTables[x][u] } :
                 x \in DOMAIN AllTables, u \in Kinds }
    BY <1>1
  <2> HIDE DEF E, s
  <2> QED
    BY <1>4, <2>1, <2>2 DEF Symbols
<1> HIDE DEF s
<1>6. Len(s) \in Nat /\ s = [n \in 1 .. Len(s) |-> s[n]]
  BY <1>3 DEF Plain, Bracketed, IsTuple
<1>7. s \in Seq(DOMAIN Symbol)
  <2>1. DOMAIN s = 1 .. Len(s)
    BY <1>6
  <2>2. s \in [1 .. Len(s) -> DOMAIN Symbol]
    BY <1>5, <1>6, <2>1
  <2> QED
    BY <1>6, <2>2
<1> QED
  BY <1>1, <1>3, <1>7

---------------------------------------------------------------------------
(* How often "leave" occurs.                                               *)

Leaves(s) == {n \in DOMAIN s : s[n] = "leave"}
Count(s)  == Cardinality(Leaves(s))

LEMMA CountIsNat ==
  ASSUME NEW S, NEW s \in Seq(S)
  PROVE  IsFiniteSet(Leaves(s)) /\ Count(s) \in Nat
<1>1. IsFiniteSet(1 .. Len(s))
  BY FS_Interval
<1>2. Leaves(s) \subseteq 1 .. Len(s)
  BY DEF Leaves
<1>3. IsFiniteSet(Leaves(s))
  BY <1>1, <1>2, FS_Subset
<1> QED
  BY <1>3, FS_CardinalityType DEF Count

LEMMA CountConcat ==
  ASSUME NEW S, NEW s \in Seq(S), NEW r \in Seq(S)
  PROVE  Count(s \o r) = Count(s) + Count(r)
<1> DEFINE k == Len(s)
           T == {n + k : n \in Leaves(r)}
           f == [n \in Leaves(r) |-> n + k]
<1>1. k \in Nat
  OBVIOUS
<1>2. f \in Bijection(Leaves(r), T)
  BY <1>1 DEF Bijection, Injection, Surjection, IsInjective, Leaves
<1>3. IsFiniteSet(T) /\ Cardinality(T) = Count(r)
  <2>1. ExistsBijection(Leaves(r), T)
    BY <1>2 DEF ExistsBijection
  <2>2. IsFiniteSet(Leaves(r))
    BY CountIsNat
  <2> QED
    BY <2>1, <2>2, FS_Bijection DEF Count
<1>4. Leaves(s \o r) = Leaves(s) \cup T
  <2>1. /\ Len(s \o r) = k + Len(r)
        /\ \A i \in 1 .. k + Len(r) : (s \o r)[i] = IF i <= k THEN s[i] ELSE r[i - k]
    BY ConcatProperties
  <2>2. DOMAIN s = 1 .. k /\ DOMAIN r = 1 .. Len(r) /\ DOMAIN (s \o r) = 1 .. k + Len(r) /\ Len(r) \in Nat
    BY <2>1, ConcatProperties
  <2>3. ASSUME NEW i \in Leaves(s \o r) PROVE i \in Leaves(s) \cup T
    <3>1. i \in 1 .. k + Len(r) /\ (s \o r)[i] = "leave"
      BY <2>2 DEF Leaves
    <3>2. CASE i <= k
      BY <2>1, <2>2, <3>1, <3>2 DEF Leaves
    <3>3. CASE i > k
      <4>1. i - k \in 1 .. Len(r) /\ r[i - k] = "leave" /\ i = (i - k) + k
        BY <1>1, <2>1, <2>2, <3>1, <3>3
      <4>2. i - k \in Leaves(r)
        BY <2>2, <4>1 DEF Leaves
      <4> QED
        BY <4>1, <4>2
    <3> QED
      BY <1>1, <3>1, <3>2, <3>3
  <2>4. ASSUME NEW i \in Leaves(s) PROVE i \in Leaves(s \o r)
    BY <1>1, <2>1, <2>2 DEF Leaves
  <2>5. ASSUME NEW n \in Leaves(r) PROVE n + k \in Leaves(s \o r)
    <3>1. n \in 1 .. Len(r) /\ r[n] = "leave"
      BY <2>2 DEF Leaves
    <3>2. n + k \in 1 .. k + Len(r) /\ ~(n + k <= k) /\ (n + k) - k = n
      BY <1>1, <2>2, <3>1
    <3> QED
      BY <2>1, <2>2, <3>1, <3>2 DEF Leaves
  <2> QED
    BY <2>3, <2>4, <2>5
<1>5. Leaves(s) \cap T = {}
  BY <1>1 DEF Leaves
<1>6. IsFiniteSet(Leaves(s)) /\ Count(s) \in Nat /\ Count(r) \in Nat
  BY CountIsNat
<1> HIDE DEF T, k, f
<1>7. Cardinality(Leaves(s) \cup T) = Cardinality(Leaves(s)) + Cardinality(T) - Cardinality({})
  BY <1>3, <1>5, <1>6, FS_Union
<1>8. Count(s \o r) = Count(s) + Count(r) - 0
  BY <1>3, <1>4, <1>7, FS_EmptySet DEF Count
<1> QED
  BY <1>6, <1>8

LEMMA CountEntry ==
  ASSUME NEW S, NEW s \in Seq(S)
  PROVE  (Plain(s) => Count(s) = 0) /\ (Bracketed(s) => Count(s) = 1)
<1>1. ASSUME Plain(s) PROVE  Count(s) = 0
  <2>1. Leaves(s) = {}
    BY <1>1 DEF Plain, Special, Leaves
  <2> QED
    BY <2>1, FS_EmptySet DEF Count
<1>2. ASSUME Bracketed(s) PROVE Count(s) = 1
  <2>1. PICK L \in Nat : L = Len(s) /\ DOMAIN s = 1 .. L
    OBVIOUS
  <2>2. L >= 2 /\ s[1] = "enter" /\ s[L] = "leave" /\ \A n \in 2 .. L - 1 : s[n] # "leave"
    BY <1>2, <2>1 DEF Bracketed, Special
  <2>3. ASSUME NEW n \in 1 .. L, n # L PROVE s[n] # "leave"
    <3>1. n = 1 \/ n \in 2 .. L - 1
      BY <2>3
    <3> QED
      BY <2>2, <3>1
  <2>4. Leaves(s) = {L}
    BY <2>1, <2>2, <2>3 DEF Leaves
  <2> QED
    BY <2>4, FS_Singleton DEF Count
<1> QED
  BY <1>1, <1>2

LEMMA CountTail ==
  ASSUME NEW S, NEW s \in Seq(S), s # <<>>
  PROVE  Count(s) = (IF s[1] = "leave" THEN 1 ELSE 0) + Count(Tail(s))
<1> DEFINE h == <<s[1]>>
<1>1. h \in Seq(S) /\ Tail(s) \in Seq(S) /\ s = h \o Tail(s)
  OBVIOUS
<1>2. Count(s) = Count(h) + Count(Tail(s))
  BY <1>1, CountConcat
<1>3. Count(h) = IF s[1] = "leave" THEN 1 ELSE 0
  <2>1. DOMAIN h = {1} /\ h[1] = s[1]
    OBVIOUS
  <2>2. Leaves(h) = IF s[1] = "leave" THEN {1} ELSE {}
    BY <2>1 DEF Leaves
  <2> QED
    BY <2>2, FS_Singleton, FS_EmptySet DEF Count
<1> QED
  BY <1>2, <1>3

---------------------------------------------------------------------------
(* The machine. A function that enters has its entry on top of the stack   *)
(* for one round only: then "enter" is its first symbol and is not counted *)
(* yet.                                                                    *)

Verdicts == {"running", "waits", "ok", "syntax", "action", "illegal", "limit", "endless"}

Entering(s) == s # <<>> /\ s[1] = "enter"

Balanced(p) ==
  /\ p \in Machines
  /\ p.nesting \in 0 .. MaxDepth
  /\ \A n \in 2 .. Len(p.stk) : p.stk[n] # "enter"
  /\ Count(p.stk) = p.nesting + (IF Entering(p.stk) THEN 1 ELSE 0)
  /\ Entering(p.stk) => p.win # <<>>
  /\ p.verdict = "waits" => ~ Entering(p.stk) /\ Len(p.win) <= 2

LEMMA MachineIs ==
  \A p : p \in Machines <=>
    /\ p = [ stk |-> p.stk, win |-> p.win, nesting |-> p.nesting, pending |-> p.pending,
             built |-> p.built, eaten |-> p.eaten, verdict |-> p.verdict ]
    /\ p.stk \in Seq(DOMAIN Symbol) /\ p.win \in Seq(Kinds) /\ p.nesting \in Int
    /\ p.pending \in BOOLEAN /\ p.built \in Seq(Nodes)
    /\ p.eaten \in Seq([token : Kinds, nodes : Seq(Nodes)])
    /\ p.verdict \in Verdicts
BY DEF Machines, Verdicts

(* It stops.                                                               *)
LEMMA StopKeeps ==
  ASSUME NEW p, Balanced(p), NEW v \in Verdicts,
         v = "waits" => ~ Entering(p.stk) /\ Len(p.win) <= 2
  PROVE  Balanced(Stop(p, v))
<1>1. /\ Stop(p, v) \in Machines
      /\ Stop(p, v).stk = p.stk /\ Stop(p, v).win = p.win /\ Stop(p, v).nesting = p.nesting
      /\ Stop(p, v).verdict = v
  BY DEF Balanced, Machines, Stop, Verdicts
<1> QED
  BY <1>1 DEF Balanced

(* What is below the top of a stack.                                       *)
LEMMA Below ==
  ASSUME NEW p, Balanced(p), p.stk # <<>>
  PROVE  /\ Tail(p.stk) \in Seq(DOMAIN Symbol)
         /\ \A n \in 1 .. Len(Tail(p.stk)) : Tail(p.stk)[n] # "enter"
         /\ Head(p.stk) = p.stk[1] /\ p.stk[1] \in DOMAIN Symbol
         /\ Count(Tail(p.stk)) =
              p.nesting + (IF p.stk[1] = "enter" THEN 1 ELSE 0) - (IF p.stk[1] = "leave" THEN 1 ELSE 0)
<1> DEFINE s == p.stk
<1>1. s \in Seq(DOMAIN Symbol) /\ s # <<>> /\ p.nesting \in Nat
  BY MachineIs DEF Balanced
<1>3. \A n \in 2 .. Len(s) : s[n] # "enter"
  BY DEF Balanced
<1>8. p.stk = s
  OBVIOUS
<1> HIDE DEF s
<1>2. /\ Tail(s) \in Seq(DOMAIN Symbol)
      /\ Len(Tail(s)) = Len(s) - 1
      /\ \A i \in 1 .. Len(Tail(s)) : Tail(s)[i] = s[i + 1]
      /\ Head(s) = s[1] /\ s[1] \in DOMAIN Symbol /\ Len(s) \in Nat
  <2>1. /\ Tail(s) \in Seq(DOMAIN Symbol)
        /\ Len(Tail(s)) = Len(s) - 1
        /\ \A i \in 1 .. Len(Tail(s)) : Tail(s)[i] = s[i + 1]
    BY <1>1, HeadTailProperties
  <2>2. Head(s) = s[1] /\ s[1] \in DOMAIN Symbol /\ Len(s) \in Nat
    BY <1>1
  <2> QED
    BY <2>1, <2>2
<1>4. Count(s) = p.nesting + (IF s[1] = "enter" THEN 1 ELSE 0)
  BY <1>1, <1>8 DEF Balanced, Entering
<1>5. Count(s) = (IF s[1] = "leave" THEN 1 ELSE 0) + Count(Tail(s)) /\ Count(Tail(s)) \in Nat
  BY <1>1, <1>2, CountTail, CountIsNat
<1>6. ASSUME NEW n \in 1 .. Len(Tail(s)) PROVE Tail(s)[n] # "enter"
  <2>1. n + 1 \in 2 .. Len(s)
    BY <1>2
  <2> QED
    BY <1>2, <1>3, <2>1
<1>7. Count(Tail(s)) = p.nesting + (IF s[1] = "enter" THEN 1 ELSE 0) - (IF s[1] = "leave" THEN 1 ELSE 0)
  BY <1>1, <1>4, <1>5
<1> QED
  BY <1>2, <1>6, <1>7, <1>8

(* A symbol that is neither enter nor leave makes way for an entry.        *)
LEMMA PushKeeps ==
  ASSUME NEW p, Balanced(p), p.stk # <<>>, p.stk[1] \notin {"enter", "leave"},
         p.verdict = "running",
         NEW s \in Seq(DOMAIN Symbol), Plain(s) \/ (Bracketed(s) /\ p.win # <<>>)
  PROVE  Balanced(Push(p, s))
<1> DEFINE r == Tail(p.stk)
           q == Push(p, s)
<1>1. r \in Seq(DOMAIN Symbol) /\ (\A n \in 1 .. Len(r) : r[n] # "enter") /\ Count(r) = p.nesting
      /\ p.nesting \in 0 .. MaxDepth
  BY Below DEF Balanced
<1>2. /\ s \o r \in Seq(DOMAIN Symbol)
      /\ Len(s \o r) = Len(s) + Len(r)
      /\ \A i \in 1 .. Len(s) + Len(r) : (s \o r)[i] = IF i <= Len(s) THEN s[i] ELSE r[i - Len(s)]
      /\ Len(s) \in Nat /\ Len(r) \in Nat
  BY <1>1, ConcatProperties
<1>3. Count(s \o r) = Count(s) + Count(r)
  BY <1>1, CountConcat
<1> HIDE DEF r
<1>4. /\ q \in Machines /\ q.stk = s \o r /\ q.win = p.win /\ q.nesting = p.nesting
      /\ q.verdict = "running"
  BY <1>2 DEF Balanced, Machines, Push, r
<1> HIDE DEF q
<1>5. ASSUME Plain(s) PROVE Balanced(q)
  <2>1. \A n \in 1 .. Len(s) : s[n] # "enter"
    BY <1>5 DEF Plain, Special
  <2>2. \A n \in 1 .. Len(s \o r) : (s \o r)[n] # "enter"
    <3> TAKE n \in 1 .. Len(s \o r)
    <3>1. CASE n <= Len(s)
      BY <1>2, <2>1, <3>1
    <3>2. CASE n > Len(s)
      <4>1. n - Len(s) \in 1 .. Len(r)
        BY <1>2, <3>2
      <4> QED
        BY <1>1, <1>2, <3>2, <4>1
    <3> QED
      BY <1>2, <3>1, <3>2
  <2>3. ~ Entering(s \o r)
    BY <1>2, <2>2 DEF Entering
  <2>4. Count(s \o r) = p.nesting
    BY <1>1, <1>3, <1>5, CountEntry
  <2>5. \A n \in 2 .. Len(s \o r) : (s \o r)[n] # "enter"
    BY <1>2, <2>2
  <2> QED
    BY <1>1, <1>4, <2>3, <2>4, <2>5 DEF Balanced
<1>6. ASSUME Bracketed(s), p.win # <<>> PROVE Balanced(q)
  <2>1. Len(s) >= 2 /\ s[1] = "enter" /\ s[Len(s)] = "leave" /\ \A n \in 2 .. Len(s) - 1 : s[n] # "enter"
    BY <1>6 DEF Bracketed, Special
  <2>2. \A n \in 2 .. Len(s \o r) : (s \o r)[n] # "enter"
    <3> TAKE n \in 2 .. Len(s \o r)
    <3>1. CASE n <= Len(s) - 1
      BY <1>2, <2>1, <3>1
    <3>2. CASE n = Len(s)
      BY <1>2, <2>1, <3>2
    <3>3. CASE n > Len(s)
      <4>1. n - Len(s) \in 1 .. Len(r)
        BY <1>2, <3>3
      <4> QED
        BY <1>1, <1>2, <3>3, <4>1
    <3> QED
      BY <1>2, <3>1, <3>2, <3>3
  <2>3. Entering(s \o r)
    <3>1. s \o r # <<>>
      BY <1>2, <2>1
    <3>2. (s \o r)[1] = s[1]
      BY <1>2, <2>1
    <3> QED
      BY <2>1, <3>1, <3>2 DEF Entering
  <2>4. Count(s \o r) = p.nesting + 1
    BY <1>1, <1>3, <1>6, CountEntry
  <2> QED
    BY <1>1, <1>4, <1>6, <2>2, <2>3, <2>4 DEF Balanced
<1> QED
  BY <1>5, <1>6 DEF q

(* A symbol that is done.                                                  *)
LEMMA DoneKeeps ==
  ASSUME NEW p, Balanced(p), p.stk # <<>>,
         NEW q \in Machines, q.stk = Tail(p.stk), q.verdict # "waits",
         q.nesting = p.nesting + (IF p.stk[1] = "enter" THEN 1 ELSE 0)
                               - (IF p.stk[1] = "leave" THEN 1 ELSE 0),
         p.stk[1] = "enter" => p.nesting # MaxDepth
  PROVE  Balanced(q)
<1> DEFINE r == Tail(p.stk)
<1>1. r \in Seq(DOMAIN Symbol) /\ (\A n \in 1 .. Len(r) : r[n] # "enter")
      /\ Count(r) = q.nesting /\ Count(r) \in Nat
  BY Below, CountIsNat
<1>2. p.nesting \in 0 .. MaxDepth
  BY DEF Balanced
<1>3. q.nesting \in 0 .. MaxDepth
  BY <1>1, <1>2, MaxDepthAssumption
<1> HIDE DEF r
<1>4. q.stk = r
  BY DEF r
<1>5. ~ Entering(r) /\ \A n \in 2 .. Len(r) : r[n] # "enter"
  BY <1>1 DEF Entering
<1> QED
  BY <1>1, <1>3, <1>4, <1>5 DEF Balanced

(* p.peek(k), where it has been given.                                     *)
LEMMA PeekFacts ==
  ASSUME NEW p, p.win \in Seq(Kinds), p.win # <<>>, NEW k \in Nat
  PROVE  /\ Peek(p, k) # "" => Peek(p, k) \in Kinds
         /\ Peek(p, k) = "" => Len(p.win) <= k
<1> DEFINE w == p.win
<1>1. w \in Seq(Kinds) /\ Len(w) \in Nat
  OBVIOUS
<1>2. Peek(p, k) = IF Len(w) > k THEN w[k + 1] ELSE IF w[Len(w)] = "EOF" THEN "EOF" ELSE ""
  BY DEF Peek
<1> HIDE DEF w
<1>3. "EOF" \in Kinds /\ "" \notin Kinds
  BY AlphabetAssumption DEF Kinds
<1>4. PICK L \in Nat : L = Len(w)
  BY <1>1
<1>5. ASSUME L > k PROVE Peek(p, k) \in Kinds
  <2>1. w[k + 1] \in Kinds
    BY <1>1, <1>4, <1>5
  <2> QED
    BY <1>2, <1>4, <1>5, <2>1
<1>6. ASSUME ~ (L > k) PROVE Peek(p, k) \in {"EOF", ""}
  BY <1>2, <1>4, <1>6
<1>7. L = Len(p.win)
  BY <1>4 DEF w
<1>8. ASSUME Peek(p, k) = "" PROVE L <= k
  <2>1. ~ (L > k)
    BY <1>3, <1>5, <1>8
  <2> QED
    BY <1>4, <2>1
<1> QED
  BY <1>3, <1>5, <1>6, <1>7, <1>8

(* One round.                                                              *)
LEMMA RoundKeeps ==
  ASSUME NEW p, Balanced(p), p.verdict = "running"
  PROVE  Balanced(Round(p))
<1>1. p \in Machines /\ p.stk \in Seq(DOMAIN Symbol) /\ p.win \in Seq(Kinds)
      /\ p.built \in Seq(Nodes) /\ p.eaten \in Seq([token : Kinds, nodes : Seq(Nodes)])
  BY DEF Balanced, Machines
<1>2. CASE p.win = <<>>
  <2>1. ~ Entering(p.stk) /\ Len(p.win) <= 2
    BY <1>2 DEF Balanced
  <2>2. Balanced(Stop(p, "waits"))
    BY <2>1, StopKeeps DEF Verdicts
  <2> QED
    BY <1>2, <2>2 DEF Round
<1>3. CASE p.win # <<>> /\ Head(p.win) = "ILLEGAL"
  <2>1. Balanced(Stop(p, "illegal"))
    BY StopKeeps DEF Verdicts
  <2> QED
    BY <1>3, <2>1 DEF Round
<1>4. CASE p.win # <<>> /\ Head(p.win) # "ILLEGAL" /\ p.stk = <<>>
  <2>1. Balanced(Stop(p, "ok"))
    BY StopKeeps DEF Verdicts
  <2> QED
    BY <1>4, <2>1 DEF Round
<1>5. CASE p.win # <<>> /\ Head(p.win) # "ILLEGAL" /\ p.stk # <<>>
  <2> DEFINE sym == p.stk[1]
             s == Symbol[sym]
  <2>1. /\ Head(p.stk) = sym /\ sym \in DOMAIN Symbol /\ Tail(p.stk) \in Seq(DOMAIN Symbol)
        /\ Head(p.win) \in Kinds /\ Tail(p.win) \in Seq(Kinds)
    <3>1. Head(p.stk) = sym /\ sym \in DOMAIN Symbol /\ Tail(p.stk) \in Seq(DOMAIN Symbol)
      BY <1>5, Below
    <3>2. Head(p.win) \in Kinds /\ Tail(p.win) \in Seq(Kinds)
      BY <1>1, <1>5, HeadTailProperties
    <3> QED
      BY <3>1, <3>2
  <2>2. Round(p) = Obey(p, s)
    BY <1>5, <2>1 DEF Round
  <2>3. (s.sort = "enter" <=> sym = "enter") /\ (s.sort = "leave" <=> sym = "leave")
        /\ (s.sort = "node" => sym \in Nodes)
    BY <2>1, SymbolFacts
  <2>4. ASSUME NEW t \in Kinds, s.sort \in {"table", "peek", "peek2"}
        PROVE  Balanced(Push(p, s.then[t]))
    <3>1. s.then[t] \in Seq(DOMAIN Symbol) /\ (Plain(s.then[t]) \/ Bracketed(s.then[t]))
      BY <2>1, <2>4, EntryFacts
    <3>2. sym \notin {"enter", "leave"}
      BY <2>3, <2>4
    <3> HIDE DEF sym, s
    <3>3. p.stk[1] \notin {"enter", "leave"}
      BY <3>2 DEF sym
    <3> QED
      BY <1>5, <3>1, <3>3, PushKeeps
  <2>5. Push(p, <<>>) \in Machines /\ Push(p, <<>>) = [p EXCEPT !.stk = Tail(p.stk)]
    <3>1. <<>> \o Tail(p.stk) = Tail(p.stk)
      BY <2>1, ConcatEmptySeq
    <3> QED
      BY <1>1, <2>1, <3>1 DEF Push, Machines
  <2>6. ASSUME NEW v \in Verdicts, v # "waits" PROVE Balanced(Stop(p, v))
    BY <2>6, StopKeeps
  <2>7. p.nesting \in 0 .. MaxDepth
    BY DEF Balanced
  <2>20. sym = p.stk[1]
    OBVIOUS
  <2> HIDE DEF s, sym
  <2>8. CASE s.sort = "table"
    <3>1. Obey(p, s) = Push(p, s.then[Head(p.win)])
      BY <2>8 DEF Obey
    <3> QED
      BY <2>1, <2>2, <2>4, <2>8, <3>1
  <2>9. CASE s.sort = "node"
    <3> DEFINE q == [Push(p, <<>>) EXCEPT !.built = Append(@, Head(p.stk))]
    <3>1. Obey(p, s) = q
      BY <2>9 DEF Obey
    <3>2. Append(p.built, sym) \in Seq(Nodes)
      BY <1>1, <2>3, <2>9
    <3>3. q \in Machines /\ q.stk = Tail(p.stk) /\ q.nesting = p.nesting /\ q.verdict = p.verdict
      BY <1>1, <2>1, <2>5, <3>2 DEF Machines
    <3>4. p.stk[1] \notin {"enter", "leave"}
      BY <2>3, <2>9, <2>20
    <3> HIDE DEF q
    <3>5. Balanced(q)
      BY <1>5, <2>7, <3>3, <3>4, DoneKeeps
    <3> QED
      BY <2>2, <3>1, <3>5
  <2>10. ASSUME NEW k \in {1, 2}, s.sort \in {"peek", "peek2"}
         PROVE  Balanced(IF Peek(p, k) = "" THEN Stop(p, "waits") ELSE Push(p, s.then[Peek(p, k)]))
    <3>1. CASE Peek(p, k) = ""
      <4>1. Len(p.win) <= k
        BY <1>1, <1>5, <3>1, PeekFacts
      <4>2. Len(p.win) <= 2
        BY <1>1, <4>1
      <4>3. ~ Entering(p.stk)
        BY <2>3, <2>10, <2>20 DEF Entering
      <4>4. Balanced(Stop(p, "waits"))
        BY <4>2, <4>3, StopKeeps DEF Verdicts
      <4> QED
        BY <3>1, <4>4
    <3>2. CASE Peek(p, k) # ""
      <4>1. Peek(p, k) \in Kinds
        BY <1>1, <1>5, <3>2, PeekFacts
      <4>2. s.sort \in {"table", "peek", "peek2"}
        BY <2>10
      <4> QED
        BY <2>4, <3>2, <4>1, <4>2
    <3> QED
      BY <3>1, <3>2
  <2>11. CASE s.sort = "peek"
    <3>1. Obey(p, s) = IF Peek(p, 1) = "" THEN Stop(p, "waits") ELSE Push(p, s.then[Peek(p, 1)])
      BY <2>11 DEF Obey
    <3> QED
      BY <2>2, <2>10, <2>11, <3>1
  <2>12. CASE s.sort = "peek2"
    <3>1. Obey(p, s) = IF Peek(p, 2) = "" THEN Stop(p, "waits") ELSE Push(p, s.then[Peek(p, 2)])
      BY <2>12 DEF Obey
    <3>2. Balanced(IF Peek(p, 2) = "" THEN Stop(p, "waits") ELSE Push(p, s.then[Peek(p, 2)]))
      BY <2>10, <2>12
    <3> QED
      BY <2>2, <3>1, <3>2
  <2>13. CASE s.sort = "enter"
    <3> DEFINE q == [Push(p, <<>>) EXCEPT !.nesting = @ + 1]
    <3>1. Obey(p, s) = IF p.nesting = MaxDepth THEN Stop(p, "limit") ELSE q
      BY <2>13 DEF Obey, Enter
    <3>2. p.stk[1] = "enter"
      BY <2>3, <2>13, <2>20
    <3>3. q \in Machines /\ q.stk = Tail(p.stk) /\ q.nesting = p.nesting + 1 /\ q.verdict = p.verdict
      <4>1. p.nesting + 1 \in Int
        BY <2>7
      <4>2. q = [p EXCEPT !.stk = Tail(p.stk), !.nesting = p.nesting + 1]
        BY <1>1, <2>1, <2>5 DEF Machines
      <4> HIDE DEF q
      <4> QED
        BY <1>1, <2>1, <4>1, <4>2 DEF Machines
    <3> HIDE DEF q
    <3>4. ASSUME p.nesting # MaxDepth PROVE Balanced(q)
      BY <1>5, <2>7, <3>2, <3>3, <3>4, DoneKeeps
    <3>5. Balanced(Stop(p, "limit"))
      BY <2>6 DEF Verdicts
    <3> QED
      BY <2>2, <3>1, <3>4, <3>5
  <2>14. CASE s.sort = "leave"
    <3> DEFINE q == [Push(p, <<>>) EXCEPT !.nesting = @ - 1]
    <3>1. Obey(p, s) = q
      BY <2>14 DEF Obey
    <3>2. p.stk[1] = "leave"
      BY <2>3, <2>14, <2>20
    <3>3. q \in Machines /\ q.stk = Tail(p.stk) /\ q.nesting = p.nesting - 1 /\ q.verdict = p.verdict
      <4>1. p.nesting - 1 \in Int
        BY <2>7
      <4>2. q = [p EXCEPT !.stk = Tail(p.stk), !.nesting = p.nesting - 1]
        BY <1>1, <2>1, <2>5 DEF Machines
      <4> HIDE DEF q
      <4> QED
        BY <1>1, <2>1, <4>1, <4>2 DEF Machines
    <3> HIDE DEF q
    <3>4. Balanced(q)
      BY <1>5, <2>7, <3>2, <3>3, DoneKeeps
    <3> QED
      BY <2>2, <3>1, <3>4
  <2>15. CASE s.sort = "defer"
    <3> DEFINE q == [Push(p, <<>>) EXCEPT !.pending = TRUE]
    <3>1. Obey(p, s) = q
      BY <2>15 DEF Obey
    <3>2. p.stk[1] \notin {"enter", "leave"}
      BY <2>3, <2>15, <2>20
    <3>3. q \in Machines /\ q.stk = Tail(p.stk) /\ q.nesting = p.nesting /\ q.verdict = p.verdict
      BY <1>1, <2>1, <2>5, <2>7 DEF Machines
    <3> HIDE DEF q
    <3>4. Balanced(q)
      BY <1>5, <2>7, <3>2, <3>3, DoneKeeps
    <3> QED
      BY <2>2, <3>1, <3>4
  <2>16. CASE s.sort = "fail"
    <3>1. Obey(p, s) = Stop(p, "action")
      BY <2>16 DEF Obey
    <3> QED
      BY <2>2, <2>6, <3>1 DEF Verdicts
  <2>17. CASE s.sort = "syntaxError"
    <3>1. Obey(p, s) = Stop(p, "syntax")
      BY <2>17 DEF Obey
    <3> QED
      BY <2>2, <2>6, <3>1 DEF Verdicts
  <2>18. CASE s.sort = "flushDeferred"
    <3>1. Obey(p, s) = IF p.pending THEN Stop(p, "action") ELSE Push(p, <<>>)
      BY <2>18 DEF Obey, FlushDeferred
    <3>2. p.stk[1] \notin {"enter", "leave"}
      BY <2>3, <2>18, <2>20
    <3>3. Balanced(Push(p, <<>>))
      <4>1. Plain(<<>>) /\ <<>> \in Seq(DOMAIN Symbol)
        BY Tuples
      <4> QED
        BY <1>5, <3>2, <4>1, PushKeeps
    <3> QED
      BY <2>2, <2>6, <3>1, <3>3 DEF Verdicts
  <2>19. CASE s.sort \notin { "table", "node", "peek", "peek2", "enter", "leave", "defer", "fail",
                              "syntaxError", "flushDeferred" }
    <3>1. Obey(p, s) = IF Head(p.win) \in Expected(Head(p.stk)) THEN Consume(p) ELSE Stop(p, "syntax")
      BY <2>19 DEF Obey
    <3> DEFINE q == [p EXCEPT !.stk = Tail(@), !.win = Tail(@), !.built = <<>>,
                              !.eaten = Append(@, [token |-> Head(p.win), nodes |-> p.built]),
                              !.verdict = IF p.pending THEN "action" ELSE @]
    <3>7. Consume(p) = IF Head(p.win) = "EOF" THEN Push(p, <<>>) ELSE q
      BY DEF Consume
    <3>2. p.stk[1] \notin {"enter", "leave"}
      BY <2>3, <2>19, <2>20
    <3>3. Append(p.eaten, [token |-> Head(p.win), nodes |-> p.built])
            \in Seq([token : Kinds, nodes : Seq(Nodes)])
      BY <1>1, <2>1
    <3>4. q \in Machines /\ q.stk = Tail(p.stk) /\ q.nesting = p.nesting /\ q.verdict # "waits"
      <4> DEFINE eaten == Append(p.eaten, [token |-> Head(p.win), nodes |-> p.built])
                 v == IF p.pending THEN "action" ELSE "running"
      <4>1. q = [p EXCEPT !.stk = Tail(p.stk), !.win = Tail(p.win), !.built = <<>>,
                          !.eaten = eaten, !.verdict = v]
        BY <1>1 DEF Machines
      <4>2. v \in {"action", "running"} /\ eaten \in Seq([token : Kinds, nodes : Seq(Nodes)])
        BY <3>3
      <4> HIDE DEF q, v, eaten
      <4>3. q = [ stk |-> Tail(p.stk), win |-> Tail(p.win), nesting |-> p.nesting,
                  pending |-> p.pending, built |-> <<>>, eaten |-> eaten, verdict |-> v ]
        BY <1>1, <4>1 DEF Machines
      <4>4. p.nesting \in Int /\ p.pending \in BOOLEAN /\ <<>> \in Seq(Nodes)
        BY <1>1 DEF Machines
      <4> QED
        BY <2>1, <4>2, <4>3, <4>4 DEF Machines
    <3> HIDE DEF q
    <3>5. Balanced(q)
      BY <1>5, <2>7, <3>2, <3>4, DoneKeeps
    <3>6. Balanced(Stop(p, "syntax"))
      BY <2>6 DEF Verdicts
    <3>8. Balanced(Push(p, <<>>))
      <4>1. Plain(<<>>) /\ <<>> \in Seq(DOMAIN Symbol)
        BY Tuples
      <4> QED
        BY <1>5, <3>2, <4>1, PushKeeps
    <3> QED
      BY <2>2, <3>1, <3>5, <3>6, <3>7, <3>8
  <2> QED
    BY <2>8, <2>9, <2>11, <2>12, <2>13, <2>14, <2>15, <2>16, <2>17, <2>18, <2>19
<1> QED
  BY <1>2, <1>3, <1>4, <1>5

---------------------------------------------------------------------------
(* A run is balanced when it starts balanced: the function it is taken     *)
(* from exists, and each of its values keeps Balanced.                     *)

Four(p) == Step(Step(Step(Step(p))))

RunStep(n, g) ==
  [q \in Machines |->
     IF AtRest(q) THEN q
     ELSE IF n = 0 THEN Stop(q, "endless")
     ELSE g[Four(q)]]

Runs(h, f) == f = [n \in 0 .. h |-> RunStep(n, f[n - 1])]

LEMMA RunsExist ==
  ASSUME NEW h \in Nat
  PROVE  \E f : Runs(h, f)
<1> DEFINE N == {m \in Nat : ~\E f : Runs(m, f)}
<1> SUFFICES ASSUME N # {} PROVE FALSE
  OBVIOUS
<1>1. PICK m \in N : \A n \in N : m <= n
  <2>1. N \in SUBSET Nat
    OBVIOUS
  <2> HIDE DEF N
  <2> QED
    BY <2>1, LeastNumber
<1>2. m \in Nat /\ ~\E f : Runs(m, f)
  BY <1>1
<1>3. m # 0
  <2> DEFINE f == [n \in 0 .. 0 |-> RunStep(0, 0)]
  <2>1. \A x, y : RunStep(0, x) = RunStep(0, y)
    BY DEF RunStep
  <2>2. \A n \in 0 .. 0 : RunStep(0, 0) = RunStep(n, f[n - 1])
    <3> TAKE n \in 0 .. 0
    <3>1. n = 0
      OBVIOUS
    <3> HIDE DEF f
    <3> QED
      BY <2>1, <3>1
  <2>3. f = [n \in 0 .. 0 |-> RunStep(n, f[n - 1])]
    <3> DEFINE g == [n \in 0 .. 0 |-> RunStep(n, f[n - 1])]
    <3>1. \A n \in 0 .. 0 : f[n] = g[n]
      BY <2>2
    <3> QED
      BY <3>1
  <2>4. Runs(0, f)
    BY <2>3 DEF Runs
  <2> QED
    BY <1>2, <2>4
<1>4. PICK f : Runs(m - 1, f)
  <2>1. m - 1 \in Nat /\ ~(m <= m - 1)
    BY <1>2, <1>3
  <2>2. m - 1 \notin N
    <3> HIDE DEF N
    <3> QED
      BY <1>1, <2>1
  <2> QED
    BY <2>1, <2>2
<1> DEFINE g == [n \in 0 .. m |-> IF n = m THEN RunStep(m, f[m - 1]) ELSE f[n]]
           a(n) == RunStep(n, f[n - 1])
           b(n) == RunStep(n, g[n - 1])
<1>5. ASSUME NEW n \in 0 .. m PROVE g[n] = b(n)
  <2>1. n # 0 => g[n - 1] = f[n - 1]
    <3>1. n # 0 => n - 1 \in 0 .. m - 1 /\ n - 1 \in 0 .. m /\ n - 1 # m
      BY <1>2
    <3> QED
      BY <3>1
  <2>2. RunStep(n, f[n - 1]) = b(n)
    <3>1. CASE n # 0
      BY <2>1, <3>1
    <3>2. CASE n = 0
      <4>1. \A x, y : RunStep(0, x) = RunStep(0, y)
        BY DEF RunStep
      <4> HIDE DEF g
      <4> QED
        BY <3>2, <4>1
    <3> QED
      BY <3>1, <3>2
  <2> HIDE DEF RunStep, b
  <2>3. CASE n = m
    BY <2>2, <2>3
  <2>4. CASE n # m
    <3>1. n \in 0 .. m - 1
      BY <1>2, <2>4
    <3>2. f[n] = a(n)
      <4>1. f = [q \in 0 .. m - 1 |-> a(q)]
        BY <1>4 DEF Runs
      <4> HIDE DEF a
      <4> QED
        BY <3>1, <4>1
    <3>3. g[n] = f[n]
      BY <2>4
    <3> QED
      BY <2>2, <3>2, <3>3
  <2> QED
    BY <2>3, <2>4
<1>6. Runs(m, g)
  <2>1. g = [n \in 0 .. m |-> g[n]]
    OBVIOUS
  <2> HIDE DEF g, b
  <2>2. g = [n \in 0 .. m |-> b(n)]
    BY <1>5, <2>1
  <2> QED
    BY <2>2 DEF Runs, b
<1> QED
  BY <1>2, <1>6

LEMMA StepKeeps ==
  ASSUME NEW p, Balanced(p)
  PROVE  Balanced(Step(p))
BY RoundKeeps DEF Step, AtRest

LEMMA RunKeeps ==
  ASSUME NEW p, Balanced(p)
  PROVE  Balanced(Run(p)) /\ AtRest(Run(p))
<1> DEFINE f == CHOOSE f : Runs(MaxRounds, f)
           Ends(n) == \A q : Balanced(q) => Balanced(f[n][q]) /\ AtRest(f[n][q])
           N == {n \in 0 .. MaxRounds : ~ Ends(n)}
<1>1. Runs(MaxRounds, f)
  BY RunsExist, MaxRoundsAssumption
<1>2. Run(p) = f[MaxRounds][p]
  BY DEF Run, Runs, RunStep, Four
<1> HIDE DEF f
<1>3. \A n \in 0 .. MaxRounds : f[n] = RunStep(n, f[n - 1])
  BY <1>1 DEF Runs
<1>4. N = {}
  <2> SUFFICES ASSUME N # {} PROVE FALSE
    OBVIOUS
  <2>1. PICK m \in N : \A n \in N : m <= n
    <3>1. N \in SUBSET Nat
      BY MaxRoundsAssumption
    <3> HIDE DEF N
    <3> QED
      BY <3>1, LeastNumber
  <2>2. m \in 0 .. MaxRounds /\ ~ Ends(m)
    OBVIOUS
  <2>3. m # 0 => Ends(m - 1)
    <3> SUFFICES ASSUME m # 0 PROVE Ends(m - 1)
      OBVIOUS
    <3>1. m - 1 \in 0 .. MaxRounds /\ ~ (m <= m - 1)
      BY <2>2, MaxRoundsAssumption
    <3>2. m - 1 \notin N
      <4> HIDE DEF N
      <4> QED
        BY <2>1, <3>1
    <3> HIDE DEF Ends
    <3> QED
      BY <3>1, <3>2
  <2>4. Ends(m)
    <3> SUFFICES ASSUME NEW q, Balanced(q) PROVE Balanced(f[m][q]) /\ AtRest(f[m][q])
      OBVIOUS
    <3>1. f[m][q] = IF AtRest(q) THEN q ELSE IF m = 0 THEN Stop(q, "endless") ELSE f[m - 1][Four(q)]
      <4>1. q \in Machines
        BY DEF Balanced
      <4>2. f[m] = RunStep(m, f[m - 1])
        BY <1>3, <2>2
      <4>3. \A g : RunStep(m, g)[q] =
                    IF AtRest(q) THEN q ELSE IF m = 0 THEN Stop(q, "endless") ELSE g[Four(q)]
        BY <4>1 DEF RunStep
      <4> QED
        BY <4>2, <4>3
    <3>2. CASE AtRest(q)
      BY <3>1, <3>2
    <3>3. CASE ~ AtRest(q) /\ m = 0
      <4>1. Balanced(Stop(q, "endless"))
        BY StopKeeps DEF Verdicts
      <4>2. AtRest(Stop(q, "endless"))
        <5>1. q = [ stk |-> q.stk, win |-> q.win, nesting |-> q.nesting, pending |-> q.pending,
                    built |-> q.built, eaten |-> q.eaten, verdict |-> q.verdict ]
          BY MachineIs DEF Balanced
        <5> QED
          BY <5>1 DEF AtRest, Stop
      <4> QED
        BY <3>1, <3>3, <4>1, <4>2
    <3>4. CASE ~ AtRest(q) /\ m # 0
      <4>1. Balanced(Four(q))
        BY StepKeeps DEF Four
      <4>2. f[m][q] = f[m - 1][Four(q)]
        BY <3>1, <3>4
      <4> HIDE DEF Balanced, AtRest, Four
      <4> QED
        BY <2>3, <3>4, <4>1, <4>2
    <3> QED
      BY <3>2, <3>3, <3>4
  <2> QED
    BY <2>2, <2>4
<1>5. Ends(MaxRounds)
  <2>1. MaxRounds \in 0 .. MaxRounds
    BY MaxRoundsAssumption
  <2> HIDE DEF Ends
  <2> QED
    BY <1>4, <2>1
<1> QED
  BY <1>2, <1>5

---------------------------------------------------------------------------
(* The parser reading an input.                                            *)

MeyerTypes ==
  /\ stack \in Seq(DOMAIN Symbol) /\ window \in Seq(Kinds) /\ built \in Seq(Nodes)
  /\ depth \in 0 .. MaxDepth /\ deferred \in BOOLEAN
  /\ Len(window) <= 2
  /\ verdict \in Verdicts \ {"waits"}

(* Between two tokens no function has its entry still to run, and every    *)
(* count has its "leave" on the stack.                                     *)
MeyerInv ==
  /\ MeyerTypes
  /\ \A n \in 1 .. Len(stack) : stack[n] # "enter"
  /\ Count(stack) = depth

LEMMA MeyerStarts == MeyerInit => MeyerInv
<1> SUFFICES ASSUME MeyerInit PROVE MeyerInv
  OBVIOUS
<1>1. "parseScript" \in DOMAIN Symbol
  <2>1. "parseScript" \in DOMAIN ScriptTables
    BY DEF ScriptTables
  <2>2. DOMAIN Symbol = Symbols(AllTables)
    BY DEF Symbol, Classified, AllTables
  <2>5. \A f, g, x : x \in DOMAIN f => x \in DOMAIN (f ?? g)
    BY OverlayIs
  <2>3. "parseScript" \in DOMAIN Tables
    BY <2>1, <2>5 DEF Tables
  <2>4. "parseScript" \in DOMAIN AllTables
    BY <2>3, <2>5 DEF AllTables
  <2> QED
    BY <2>2, <2>4 DEF Symbols
<1>2. stack = <<"parseScript">> /\ window = <<>> /\ depth = 0 /\ deferred = FALSE
      /\ built = <<>> /\ verdict = "running"
  BY DEF MeyerInit
<1>3. stack \in Seq(DOMAIN Symbol) /\ Len(stack) = 1 /\ stack[1] = "parseScript"
  BY <1>1, <1>2
<1>4. Plain(stack)
  BY <1>2, Tuples DEF Special
<1>5. Count(stack) = 0
  BY <1>3, <1>4, CountEntry
<1>6. MeyerTypes
  <2>1. 0 \in 0 .. MaxDepth /\ <<>> \in Seq(Kinds) /\ <<>> \in Seq(Nodes) /\ Len(<<>>) <= 2
    BY MaxDepthAssumption
  <2>2. deferred \in BOOLEAN /\ "running" \in Verdicts \ {"waits"}
    BY <1>2 DEF Verdicts
  <2> QED
    BY <1>2, <1>3, <2>1, <2>2 DEF MeyerTypes
<1> QED
  BY <1>2, <1>3, <1>5, <1>6 DEF MeyerInv

LEMMA MeyerSteps == MeyerInv /\ [MeyerNext]_meyer => MeyerInv'
<1> SUFFICES ASSUME MeyerInv, [MeyerNext]_meyer PROVE MeyerInv'
  OBVIOUS
<1>1. CASE UNCHANGED meyer
  BY <1>1 DEF MeyerInv, MeyerTypes, meyer, Count, Leaves
<1>2. ASSUME NEW t \in Kinds, Reading, Becomes(Given(t)) PROVE MeyerInv'
  <2> DEFINE p == [ stk |-> stack, win |-> Append(window, t), nesting |-> depth,
                    pending |-> deferred, built |-> built, verdict |-> verdict, eaten |-> <<>> ]
             q == Given(t)
  <2>1. verdict = "running"
    BY <1>2 DEF Reading
  <2>2. p \in Machines
    <3>1. Append(window, t) \in Seq(Kinds)
      BY DEF MeyerInv, MeyerTypes
    <3> QED
      BY <2>1, <3>1 DEF MeyerInv, MeyerTypes, Machines
  <2>3. ~ Entering(stack)
    BY DEF MeyerInv, MeyerTypes, Entering
  <2>4. Balanced(p)
    <3>1. p.stk = stack /\ p.nesting = depth /\ p.verdict = "running"
      BY <2>1
    <3> HIDE DEF p
    <3>2. Count(p.stk) = p.nesting /\ p.nesting \in 0 .. MaxDepth
      BY <3>1 DEF MeyerInv, MeyerTypes
    <3>3. ~ Entering(p.stk) /\ \A n \in 2 .. Len(p.stk) : p.stk[n] # "enter"
      BY <2>3, <3>1 DEF MeyerInv, MeyerTypes
    <3> QED
      BY <2>2, <3>1, <3>2, <3>3 DEF Balanced
  <2>5. Balanced(q) /\ AtRest(q)
    BY <2>4, RunKeeps DEF Given
  <2> HIDE DEF p, q
  <2>6. Becomes(q)
    BY <1>2 DEF q
  <2>7. CASE q.verdict = "waits"
    <3>1. stack' = q.stk /\ window' = q.win /\ depth' = q.nesting /\ deferred' = q.pending
          /\ built' = q.built /\ verdict' = "running"
      BY <2>6, <2>7 DEF Becomes
    <3>2. q.stk \in Seq(DOMAIN Symbol) /\ q.win \in Seq(Kinds) /\ q.built \in Seq(Nodes)
          /\ q.pending \in BOOLEAN
      BY <2>5, MachineIs DEF Balanced
    <3>3. ~ Entering(q.stk) /\ Len(q.win) <= 2 /\ q.nesting \in 0 .. MaxDepth
          /\ Count(q.stk) = q.nesting /\ \A n \in 2 .. Len(q.stk) : q.stk[n] # "enter"
      BY <2>5, <2>7 DEF Balanced
    <3>4. \A n \in 1 .. Len(q.stk) : q.stk[n] # "enter"
      <4> TAKE n \in 1 .. Len(q.stk)
      <4>1. CASE n = 1
        BY <3>2, <3>3, <4>1 DEF Entering
      <4>2. CASE n # 1
        BY <3>2, <3>3, <4>2
      <4> QED
        BY <4>1, <4>2
    <3>5. MeyerTypes'
      BY <3>1, <3>2, <3>3 DEF MeyerTypes, Verdicts
    <3>6. Count(stack)' = depth'
      BY <3>1, <3>3 DEF Count, Leaves
    <3> QED
      BY <3>1, <3>4, <3>5, <3>6 DEF MeyerInv
  <2>8. CASE q.verdict # "waits"
    <3>1. stack' = <<>> /\ window' = <<>> /\ depth' = 0 /\ deferred' = FALSE
          /\ built' = <<>> /\ verdict' = q.verdict
      BY <2>6, <2>8 DEF Becomes
    <3>2. q.verdict \in Verdicts
      BY <2>5, MachineIs DEF Balanced
    <3>3. MeyerTypes'
      <4>1. /\ 0 \in 0 .. MaxDepth /\ <<>> \in Seq(Kinds) /\ <<>> \in Seq(Nodes)
            /\ <<>> \in Seq(DOMAIN Symbol) /\ Len(<<>>) <= 2
        BY MaxDepthAssumption
      <4>2. deferred' \in BOOLEAN /\ q.verdict \in Verdicts \ {"waits"}
        BY <2>8, <3>1, <3>2
      <4> QED
        BY <3>1, <4>1, <4>2 DEF MeyerTypes
    <3>4. Count(<<>>) = 0
      <4>1. <<>> \in Seq({}) /\ Plain(<<>>)
        BY Tuples
      <4> QED
        BY <4>1, CountEntry
    <3>5. Count(stack)' = depth'
      BY <3>1, <3>4 DEF Count, Leaves
    <3> QED
      BY <3>1, <3>3, <3>5 DEF MeyerInv
  <2> QED
    BY <2>7, <2>8
<1> QED
  BY <1>1, <1>2 DEF MeyerNext

(* enter and leave of parser.go pair up along every path through the parse *)
(* functions: whatever the input, p.depth is the number of the recursive   *)
(* functions that are active.                                              *)
THEOREM NestingIsPaired == MeyerSpec => []NestingPaired
<1>1. MeyerInv => NestingPaired
  BY DEF MeyerInv, NestingPaired, Active, Count, Leaves
<1> QED
  BY <1>1, MeyerStarts, MeyerSteps, PTL DEF MeyerSpec

(* Whatever the input, p.depth (enter and leave of parser.go) stays        *)
(* between 0 and the limit, the parser never waits for more than two       *)
(* tokens behind the lookahead (p.peek), and the stack holds only symbols  *)
(* that some parse function has left to do.                                *)
THEOREM DescentTypes == MeyerSpec => []TypeOK
<1>1. MeyerInv => TypeOK
  BY DEF MeyerInv, MeyerTypes, TypeOK, Verdicts
<1> QED
  BY <1>1, MeyerStarts, MeyerSteps, PTL DEF MeyerSpec
====
