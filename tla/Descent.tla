---- MODULE Descent ----
(***************************************************************************)
(* The recursive descent parser of meyer as a stack machine: the stack     *)
(* holds what the active parse functions have left to do, the tables say   *)
(* what each does next. Tokens are given to it one by one; it runs until   *)
(* it must see a token it has not been given.                              *)
(***************************************************************************)
EXTENDS ParseExpr, ParseSelect, ParseDML, ParseDDL, ParseMisc

CONSTANTS MaxDepth,    \* maxDepth
          MaxRounds    \* bounds what the machine does between two tokens; the code
                       \* has no such bound

ASSUME MaxDepthAssumption == MaxDepth \in Nat
ASSUME MaxRoundsAssumption == MaxRounds \in Nat

---------------------------------------------------------------------------
(* parser.go: scripts, statements and names.                               *)

parseScript ==
  On({"EOF"}, <<>>) ?? On({"SEMI"}, <<"SEMI", "parseScript">>)
  ?? Else(<<"parseExplainable", "endStatement", "parseScript">>)

endStatement == On({"SEMI"}, <<"SEMI", "flushDeferred">>) ?? On({"EOF"}, <<"flushDeferred">>)
                ?? SyntaxError

parseExplainable == On({"EXPLAIN"}, <<"EXPLAIN", "queryPlan", "parseCmd">>) ?? Else(<<"parseCmd">>)
queryPlan        == On({"QUERY"}, <<"QUERY", "PLAN", "ExplainPlan">>) ?? Else(<<"Explain">>)

parseCmd ==
  On(SelectStarts, <<"parseSelectStmtOrDML">>)
  ?? On({"INSERT", "REPLACE"}, <<"parseInsert">>)
  ?? On({"UPDATE"}, <<"parseUpdate">>)
  ?? On({"DELETE"}, <<"parseDelete">>)
  ?? On({"CREATE"}, <<"parseCreate">>)
  ?? On({"DROP"}, <<"parseDrop">>)
  ?? On({"ALTER"}, <<"parseAlterTable">>)
  ?? On({"BEGIN"}, <<"parseBegin">>)
  ?? On({"COMMIT", "END"}, <<"parseCommit">>)
  ?? On({"ROLLBACK"}, <<"parseRollback">>)
  ?? On({"SAVEPOINT"}, <<"parseSavepoint">>)
  ?? On({"RELEASE"}, <<"parseRelease">>)
  ?? On({"ATTACH"}, <<"parseAttach">>)
  ?? On({"DETACH"}, <<"parseDetach">>)
  ?? On({"PRAGMA"}, <<"parsePragma">>)
  ?? On({"VACUUM"}, <<"parseVacuum">>)
  ?? On({"ANALYZE"}, <<"parseAnalyze">>)
  ?? On({"REINDEX"}, <<"parseReindex">>)
  ?? SyntaxError

qualifiedName == Else(<<"nm", "afterSchema">>)
afterSchema   == Opt("DOT", <<"nm">>)
xfullname     == Else(<<"qualifiedName", "asName">>)
asName        == Opt("AS", <<"nm">>)

ScriptTables ==
  [ parseScript |-> parseScript, endStatement |-> endStatement,
    parseExplainable |-> parseExplainable, queryPlan |-> queryPlan, parseCmd |-> parseCmd,
    qualifiedName |-> qualifiedName, afterSchema |-> afterSchema,
    xfullname |-> xfullname, asName |-> asName ]

(* The tables that look at p.cur, at p.peek(1) and at p.peek(2).           *)
Tables == ScriptTables ?? ExprTables ?? SelectTables ?? DMLTables ?? DDLTables ?? MiscTables
Peeks  == ExprPeeks ?? SelectPeeks
Peeks2 == SelectPeeks2

---------------------------------------------------------------------------
(* The machine. window holds the tokens it has been given and not          *)
(* consumed; eaten the tokens this run consumed, each with the nodes built *)
(* since the one before it.                                                *)

(* What expecting a symbol accepts: a class, or a kind.                    *)
Expected(sym) ==
  CASE sym = "nm"     -> Name
    [] sym = "ids"    -> IDS
    [] sym = "number" -> {"INTEGER", "FLOAT"}
    [] sym = "advance" -> Kinds
    [] OTHER          -> {sym}

Push(p, seq)   == [p EXCEPT !.stk = seq \o Tail(@)]
Stop(p, verd)  == [p EXCEPT !.verdict = verd]

(* p.advance: a pending error becomes final. It does not move at the end   *)
(* of the input.                                                           *)
Consume(p) ==
  IF Head(p.win) = "EOF" THEN Push(p, <<>>)
  ELSE [p EXCEPT !.stk = Tail(@), !.win = Tail(@), !.built = <<>>,
                 !.eaten = Append(@, [token |-> Head(p.win), nodes |-> p.built]),
                 !.verdict = IF p.pending THEN "action" ELSE @]

(* Mutant of Enter: no limit.                                              *)
EnterUnlimited(p) == [Push(p, <<>>) EXCEPT !.nesting = @ + 1]

(* enter: one level deeper, or the recursion limit.                        *)
Enter(p) ==
  IF p.nesting = MaxDepth THEN Stop(p, "limit") ELSE [Push(p, <<>>) EXCEPT !.nesting = @ + 1]

(* flushDeferred, at the end of a statement.                               *)
FlushDeferred(p) == IF p.pending THEN Stop(p, "action") ELSE Push(p, <<>>)

(* p.peek(k), "" if that token has not been given yet.                     *)
Peek(p, k) ==
  IF Len(p.win) > k THEN p.win[k + 1]
  ELSE IF p.win[Len(p.win)] = "EOF" THEN "EOF" ELSE ""

(* The symbols of the tables, each with what it is: one with a table, a    *)
(* node, or else an instruction or an expectation.                         *)
Symbols(tables) ==
  DOMAIN tables
  \cup UNION { { tables[sym][t][n] : n \in DOMAIN tables[sym][t] } :
               sym \in DOMAIN tables, t \in Kinds }

Classified(tables, peeks, peeks2) ==
  [ sym \in Symbols(tables ?? peeks ?? peeks2) |->
      IF sym \in DOMAIN tables THEN [sort |-> "table", then |-> tables[sym]]
      ELSE IF sym \in DOMAIN peeks THEN [sort |-> "peek", then |-> peeks[sym]]
      ELSE IF sym \in DOMAIN peeks2 THEN [sort |-> "peek2", then |-> peeks2[sym]]
      ELSE [sort |-> IF sym \in Nodes THEN "node" ELSE sym, then |-> <<>>] ]

Symbol == Classified(Tables, Peeks, Peeks2)

(* What p does with the symbol on top. It waits where it must see a token  *)
(* it has not been given.                                                  *)
Obey(p, s) ==
  CASE s.sort = "table" -> Push(p, s.then[Head(p.win)])
    [] s.sort = "node"  -> [Push(p, <<>>) EXCEPT !.built = Append(@, Head(p.stk))]
    [] s.sort = "peek"  -> IF Peek(p, 1) = "" THEN Stop(p, "waits") ELSE Push(p, s.then[Peek(p, 1)])
    [] s.sort = "peek2" -> IF Peek(p, 2) = "" THEN Stop(p, "waits") ELSE Push(p, s.then[Peek(p, 2)])
    [] s.sort = "enter" -> Enter(p)
    [] s.sort = "leave" -> [Push(p, <<>>) EXCEPT !.nesting = @ - 1]
    [] s.sort = "defer" -> [Push(p, <<>>) EXCEPT !.pending = TRUE]
    [] s.sort = "fail"  -> Stop(p, "action")
    [] s.sort = "syntaxError" -> Stop(p, "syntax")
    [] s.sort = "flushDeferred" -> FlushDeferred(p)
    [] OTHER -> IF Head(p.win) \in Expected(Head(p.stk)) THEN Consume(p) ELSE Stop(p, "syntax")

Round(p) ==
  IF p.win = <<>> THEN Stop(p, "waits")
  ELSE IF Head(p.win) = "ILLEGAL" THEN Stop(p, "illegal")
  ELSE IF p.stk = <<>> THEN Stop(p, "ok")
  ELSE Obey(p, Symbol[Head(p.stk)])

Machines ==
  [ stk : Seq(DOMAIN Symbol), win : Seq(Kinds), nesting : Int, pending : BOOLEAN,
    built : Seq(Nodes), eaten : Seq([token : Kinds, nodes : Seq(Nodes)]),
    verdict : {"running", "waits", "ok", "syntax", "action", "illegal", "limit", "endless"} ]

AtRest(p) == p.verdict # "running"
Step(p)   == IF AtRest(p) THEN p ELSE Round(p)

(* It runs until it is at rest. One that is not after MaxRounds times four *)
(* rounds has got into a loop that consumes nothing.                       *)
Run(p) ==
  LET run[n \in 0 .. MaxRounds] ==
        [q \in Machines |->
           IF AtRest(q) THEN q
           ELSE IF n = 0 THEN Stop(q, "endless")
           ELSE run[n - 1][Step(Step(Step(Step(q))))]]
  IN run[MaxRounds][p]
====
