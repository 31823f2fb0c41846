---- MODULE Parser ----
(***************************************************************************)
(* The cursor every parse function of meyer is written on (parser.go): the *)
(* lookahead, the deferred error of a grammar action, the recursion depth, *)
(* and the statement loop with the span of each statement. The body of a   *)
(* statement is any sequence of the primitives the parse functions call;   *)
(* which sequences the grammar really makes is module Descent's matter.    *)
(*                                                                         *)
(* A source position is the index of the token it belongs to. The one      *)
(* error not raised through these primitives, that of a number with a      *)
(* misplaced digit separator, is the subject of module MCSeparator.        *)
(***************************************************************************)
EXTENDS Integers, Sequences

CONSTANTS Streams,    \* the token sequences the lexer may produce
          MaxDepth    \* maxDepth

(* "CMD" stands for the keywords parseCmd dispatches on, "REG" for a       *)
(* register reference #NNN (a VARIABLE token), "WORD" for the others.      *)
Kind == {"EOF", "ILLEGAL", "SEMI", "EXPLAIN", "QUERY", "PLAN", "CMD", "REG", "WORD"}

(* lexer.Lex ends its slice with the only EOF there is.                    *)
IsStream(s) ==
  /\ s \in Seq(Kind)
  /\ Len(s) > 0
  /\ \A j \in 1 .. Len(s) : s[j] = "EOF" <=> j = Len(s)

ASSUME StreamsAssumption == \A s \in Streams : IsStream(s)
ASSUME MaxDepthAssumption == MaxDepth \in Nat

VARIABLES toks,        \* p.toks
          i,           \* p.i, from 1
          deferred,    \* p.deferred
          deferIndex,  \* p.deferIndex
          depth,       \* p.depth
          entry,       \* the exported function that was called
          pc,          \* where its caller chain is
          start,       \* first token of the statement being parsed
          stmts,       \* spans of the finished statements
          result       \* what the call returns, once it does

vars == <<toks, i, deferred, deferIndex, depth, entry, pc, start, stmts, result>>
cursor == <<toks, i, deferred, deferIndex>>
loop == <<entry, pc, start, stmts>>

Running     == [kind |-> "running", tok |-> 0]
Accepted    == [kind |-> "ok", tok |-> 0]
Illegal(j)  == [kind |-> "illegal", tok |-> j]
Syntax(j)   == [kind |-> "syntax", tok |-> j]
Action(j)   == [kind |-> "action", tok |-> j]
Overflow(j) == [kind |-> "overflow", tok |-> j]
NotOneStmt  == [kind |-> "count", tok |-> 0]   \* expected exactly one statement
NoError     == [kind |-> "none", tok |-> 0]

At(k) == toks[i] = k

(* What checkIllegal makes of the token at index j.                        *)
CheckIllegal(j) == IF toks[j] = "ILLEGAL" THEN Illegal(j) ELSE Running

---------------------------------------------------------------------------
(* The primitives.                                                         *)

(* Mutants of Advance: without checkIllegal, and with a deferred error     *)
(* final one token late.                                                   *)
AdvanceUnchecked ==
  /\ i' = IF i < Len(toks) THEN i + 1 ELSE i
  /\ result' = IF deferred # NoError /\ i' > deferIndex THEN deferred ELSE Running

AdvanceLate ==
  /\ i' = IF i < Len(toks) THEN i + 1 ELSE i
  /\ result' = IF deferred # NoError /\ i' > deferIndex + 1
                 THEN deferred
                 ELSE CheckIllegal(i')

(* advance: the deferred error becomes final before the next token is      *)
(* looked at.                                                              *)
Advance ==
  /\ i' = IF i < Len(toks) THEN i + 1 ELSE i
  /\ result' = IF deferred # NoError /\ i' > deferIndex
                 THEN deferred
                 ELSE CheckIllegal(i')

(* syntaxError: fail at the lookahead.                                     *)
Fail(e) ==
  /\ result' = e
  /\ UNCHANGED <<cursor, depth, loop>>

(* defer_, after the lookahead has moved to j.                             *)
Defer(e, j) ==
  IF deferred = NoError /\ result' = Running
    THEN deferred' = e /\ deferIndex' = j
    ELSE UNCHANGED <<deferred, deferIndex>>

(* Mutant of Flushed: flushDeferred is not called.                         *)
NotFlushed(r) == r

(* flushDeferred, as the value the caller returns when all went well.      *)
Flushed(r) == IF deferred = NoError THEN r ELSE deferred

---------------------------------------------------------------------------
(* A statement body. Its first token is the keyword it was dispatched on.  *)

InBody == result = Running /\ pc = "body"

Consume ==
  /\ InBody
  /\ ~At("EOF")
  /\ Advance
  /\ UNCHANGED <<toks, deferred, deferIndex, depth, loop>>

(* Mutant of BindRegister: the error has the position of the lookahead.    *)
BindRegisterAtLookahead ==
  /\ InBody
  /\ At("REG")
  /\ Advance
  /\ Defer(Action(i'), i')
  /\ UNCHANGED <<toks, depth, loop>>

(* parseTerm on a VARIABLE: bindParam runs after the token is consumed.    *)
BindRegister ==
  /\ InBody
  /\ At("REG")
  /\ Advance
  /\ Defer(Action(i), i')
  /\ UNCHANGED <<toks, depth, loop>>

(* Mutant of Enter: no limit.                                              *)
EnterUnlimited ==
  /\ InBody
  /\ depth' = depth + 1
  /\ UNCHANGED <<cursor, loop, result>>

(* enter.                                                                  *)
Enter ==
  /\ InBody
  /\ depth' = depth + 1
  /\ result' = IF depth + 1 > MaxDepth THEN Overflow(i) ELSE Running
  /\ UNCHANGED <<cursor, loop>>

Leave ==
  /\ InBody
  /\ depth > 0
  /\ depth' = depth - 1
  /\ UNCHANGED <<cursor, loop, result>>

BodySyntaxError ==
  /\ InBody
  /\ Fail(Syntax(i))

---------------------------------------------------------------------------
(* parseScript, parseExplainable and parseCmd.                             *)

InScript == result = Running /\ pc = "script"

(* for p.at(EOF): the loop ends; ParseStatement counts the statements.     *)
ScriptEnd ==
  /\ InScript
  /\ At("EOF")
  /\ result' = IF entry = "statement" /\ Len(stmts) # 1 THEN NotOneStmt ELSE Accepted
  /\ UNCHANGED <<cursor, depth, loop>>

EmptyStatement ==
  /\ InScript
  /\ At("SEMI")
  /\ Advance
  /\ UNCHANGED <<toks, deferred, deferIndex, depth, loop>>

(* Mutant of BeginStatement: the position is taken behind EXPLAIN.         *)
BeginAfterExplain ==
  /\ InScript
  /\ ~At("EOF") /\ ~At("SEMI")
  /\ IF At("EXPLAIN")
       THEN Advance /\ pc' = "explained"
       ELSE pc' = "cmd" /\ UNCHANGED <<i, result>>
  /\ start' = i'
  /\ UNCHANGED <<toks, deferred, deferIndex, depth, entry, stmts>>

(* start := p.cur().Pos, and parseExplainable consumes EXPLAIN.            *)
BeginStatement ==
  /\ InScript
  /\ ~At("EOF") /\ ~At("SEMI")
  /\ start' = i
  /\ IF At("EXPLAIN")
       THEN Advance /\ pc' = "explained"
       ELSE pc' = "cmd" /\ UNCHANGED <<i, result>>
  /\ UNCHANGED <<toks, deferred, deferIndex, depth, entry, stmts>>

Explained ==
  /\ result = Running /\ pc = "explained"
  /\ IF At("QUERY")
       THEN Advance /\ pc' = "plan"
       ELSE pc' = "cmd" /\ UNCHANGED <<i, result>>
  /\ UNCHANGED <<toks, deferred, deferIndex, depth, entry, start, stmts>>

ExpectPlan ==
  /\ result = Running /\ pc = "plan"
  /\ IF At("PLAN")
       THEN Advance /\ pc' = "cmd"
            /\ UNCHANGED <<toks, deferred, deferIndex, depth, entry, start, stmts>>
       ELSE Fail(Syntax(i))

(* Every function parseCmd dispatches to consumes the keyword first.       *)
Dispatch ==
  /\ result = Running /\ pc = "cmd"
  /\ IF At("CMD")
       THEN Advance /\ pc' = "body"
            /\ UNCHANGED <<toks, deferred, deferIndex, depth, entry, start, stmts>>
       ELSE Fail(Syntax(i))

(* Back in parseScript: the statement ends at its semicolon or at the end  *)
(* of the input, and its span takes the semicolon in.                      *)
EndStatement ==
  /\ InBody
  /\ entry # "expr"
  /\ depth = 0
  /\ \/ /\ At("SEMI")
        /\ Advance
        /\ stmts' = IF result' = Running
                      THEN Append(stmts, [start |-> start, stop |-> i])
                      ELSE stmts
        /\ pc' = "script"
        /\ UNCHANGED <<toks, deferred, deferIndex, depth, entry, start>>
     \/ /\ At("EOF")
        /\ result' = Flushed(Running)
        /\ stmts' = IF deferred = NoError
                      THEN Append(stmts, [start |-> start, stop |-> i - 1])
                      ELSE stmts
        /\ pc' = "script"
        /\ UNCHANGED <<cursor, depth, entry, start>>
     \/ /\ ~At("SEMI") /\ ~At("EOF")
        /\ Fail(Syntax(i))

(* ParseExpr: one expression and nothing after it.                         *)
EndExpr ==
  /\ InBody
  /\ entry = "expr"
  /\ depth = 0
  /\ i > start
  /\ Fail(IF At("EOF") THEN Flushed(Accepted) ELSE Syntax(i))

---------------------------------------------------------------------------

(* newParser, called by ParseString and ParseFile ("script"),              *)
(* ParseStatement and ParseExpr.                                           *)
Init ==
  /\ toks \in Streams
  /\ i = 1
  /\ deferred = NoError
  /\ deferIndex = 0
  /\ depth = 0
  /\ entry \in {"script", "statement", "expr"}
  /\ pc = IF entry = "expr" THEN "body" ELSE "script"
  /\ start = 1
  /\ stmts = <<>>
  /\ result = CheckIllegal(1)

(* The call has returned.                                                  *)
Returned == result # Running /\ UNCHANGED vars

(* Every step but the one that builds a bind parameter.                    *)
Unbound ==
  \/ Consume
  \/ Enter
  \/ Leave
  \/ BodySyntaxError
  \/ ScriptEnd
  \/ EmptyStatement
  \/ BeginStatement
  \/ Explained
  \/ ExpectPlan
  \/ Dispatch
  \/ EndStatement
  \/ EndExpr
  \/ Returned

Next == BindRegister \/ Unbound

Spec == Init /\ [][Next]_vars

---------------------------------------------------------------------------
(* Properties.                                                             *)

Span == [start : Nat \ {0}, stop : Nat \ {0}]

Results ==
  {Running, Accepted, NotOneStmt} \cup
  [kind : {"illegal", "syntax", "action", "overflow"}, tok : Nat \ {0}]

(* Types of the variables; the cursor never leaves the token slice, which  *)
(* is what keeps p.toks[p.i] from panicking.                               *)
TypeOK ==
  /\ IsStream(toks)
  /\ i \in 1 .. Len(toks)
  /\ deferred \in {NoError} \cup [kind : {"action"}, tok : Nat \ {0}]
  /\ deferIndex \in Nat
  /\ depth \in 0 .. MaxDepth + 1
  /\ entry \in {"script", "statement", "expr"}
  /\ pc \in {"script", "explained", "plan", "cmd", "body"}
  /\ start \in 1 .. Len(toks)
  /\ stmts \in Seq(Span)
  /\ result \in Results

(* checkIllegal's promise: no parse function ever looks at, or has         *)
(* consumed, a token the tokenizer rejected.                               *)
NeverPastIllegal ==
  result = Running => \A j \in 1 .. i : toks[j] # "ILLEGAL"

(* A deferred error is about the token just consumed and belongs to the    *)
(* token being handled: it never survives an advance, so a later token can *)
(* neither be blamed nor be read.                                          *)
DeferredIsCurrent ==
  result = Running /\ deferred # NoError =>
    deferIndex = i /\ deferred.tok = i - 1 /\ toks[i - 1] = "REG"

(* A deferred error is reported even when the input ends on its token: no  *)
(* call succeeds with one pending.                                         *)
DeferredIsReported ==
  result.kind \in {"ok", "count"} => deferred = NoError

(* The reported offset: a syntax error, an illegal token and the recursion *)
(* limit are at the lookahead, an action error is at the last register     *)
(* reference, with at most the token after it consumed since.              *)
ErrorAtFrontier ==
  /\ result.kind \in {"syntax", "illegal", "overflow"} => result.tok = i
  /\ At("ILLEGAL") => result.kind \in {"illegal", "action"}
  /\ result.kind = "action" =>
       /\ toks[result.tok] = "REG"
       /\ \/ i = result.tok + 1 /\ At("EOF")
          \/ i = result.tok + 2

(* Token j lies in the span of a finished statement.                       *)
Covered(j) == \E k \in 1 .. Len(stmts) : stmts[k].start <= j /\ j <= stmts[k].stop

(* What a consumer may rely on when it slices the source between           *)
(* statements: spans are in source order and disjoint, and no token but a  *)
(* stray semicolon lies outside them.                                      *)
StatementsTile ==
  /\ \A k \in 1 .. Len(stmts) : stmts[k].start <= stmts[k].stop /\ stmts[k].stop < i
  /\ \A k, l \in 1 .. Len(stmts) : k < l => stmts[k].stop < stmts[l].start
  /\ result.kind \in {"ok", "count"} /\ entry # "expr" =>
       \A j \in 1 .. Len(toks) - 1 : toks[j] # "SEMI" => Covered(j)

(* The token loop of meyer implements the one of sqlite3RunParser. A       *)
(* deferred error that became final had its successor token finished, so   *)
(* the loop it implements stopped at that successor.                       *)
RP == INSTANCE RunParser WITH
        at      <- IF result.kind = "action" THEN result.tok + 1 ELSE i,
        outcome <- IF result.kind = "count" THEN Accepted ELSE result

ImplementsRunParser == RP!Spec
====
