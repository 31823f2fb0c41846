---- MODULE ParserProofs ----
(***************************************************************************)
(* What holds of the cursor and of the statement loop for every input,     *)
(* every recursion limit and every sequence of primitives a statement body *)
(* may call; and of the numbering of bind parameters on top of it, for     *)
(* every set of markers and every width of int.                            *)
(***************************************************************************)
EXTENDS BindParams, SequenceTheorems, TLAPS

(* Where the part of the input that finished statements account for ends.  *)
Frontier == IF pc = "script" THEN i ELSE start

(* What the statement loop keeps between its steps.                        *)
LoopInv ==
  /\ entry = "expr" => pc = "body" /\ stmts = <<>>
  /\ start <= i
  /\ result = Running => depth <= MaxDepth
  /\ result = Running /\ pc # "body" => deferred = NoError
  /\ result = Running /\ pc = "body" /\ entry # "expr" => start < i

(* Finished statements end before the frontier and, as long as there is no *)
(* error, leave only semicolons out.                                       *)
Accounted ==
  /\ \A k \in 1 .. Len(stmts) : stmts[k].stop < Frontier
  /\ result = Running /\ entry # "expr" =>
       \A j \in 1 .. Frontier - 1 : toks[j] # "SEMI" => Covered(j)

(* What the primitives keep.                                               *)
CursorInv ==
  /\ TypeOK
  /\ NeverPastIllegal
  /\ DeferredIsCurrent
  /\ DeferredIsReported
  /\ ErrorAtFrontier

(* The inductive invariant.                                                *)
IInv == CursorInv /\ LoopInv /\ StatementsTile /\ Accounted

(* Advancing from a token other than EOF moves to the next token, and ends *)
(* the parse only with an error.                                           *)
LEMMA AdvanceMoves ==
  ASSUME TypeOK, toks[i] # "EOF", Advance
  PROVE  /\ i \in Nat /\ i < Len(toks) /\ i' = i + 1
         /\ result' # Running => result'.kind \in {"illegal", "action"}
<1>1. i \in Nat /\ i < Len(toks)
  BY DEF TypeOK, IsStream
<1>2. i' = i + 1
  BY <1>1 DEF Advance
<1>3. result' # Running => result'.kind \in {"illegal", "action"}
  BY DEF Advance, CheckIllegal, TypeOK, Running, Illegal, NoError
<1> QED
  BY <1>1, <1>2, <1>3

LEMMA InitIInv == Init => IInv
<1> SUFFICES ASSUME Init PROVE IInv
  OBVIOUS
<1> USE StreamsAssumption, MaxDepthAssumption DEF Init
<1>1. IsStream(toks)
  BY DEF IsStream
<1>2. 1 \in 1 .. Len(toks)
  BY <1>1 DEF IsStream
<1>3. result = IF toks[1] = "ILLEGAL" THEN Illegal(1) ELSE Running
  BY DEF CheckIllegal
<1>4. TypeOK
  BY <1>1, <1>2, <1>3 DEF TypeOK, Results, Illegal, Running, NoError, Span
<1>5. NeverPastIllegal
  BY <1>3 DEF NeverPastIllegal, Running, Illegal
<1>6. DeferredIsCurrent /\ DeferredIsReported
  BY DEF DeferredIsCurrent, DeferredIsReported
<1>7. ErrorAtFrontier
  BY <1>3 DEF ErrorAtFrontier, Running, Illegal, At
<1>8. StatementsTile
  BY <1>3 DEF StatementsTile, Running, Illegal
<1>9. LoopInv /\ Accounted
  BY DEF LoopInv, Accounted, Frontier
<1> QED
  BY <1>4, <1>5, <1>6, <1>7, <1>8, <1>9 DEF IInv, CursorInv

---------------------------------------------------------------------------

(* The fields of a span are token indices.                                 *)
LEMMA SpanFields ==
  ASSUME stmts \in Seq(Span), NEW k \in 1 .. Len(stmts)
  PROVE  stmts[k].start \in Nat /\ stmts[k].stop \in Nat
<1>1. stmts[k] \in Span
  OBVIOUS
<1> QED
  BY <1>1 DEF Span

(* What appending the span of a finished statement does.                   *)
LEMMA AppendSpan ==
  ASSUME stmts \in Seq(Span), NEW a \in Nat \ {0}, NEW b \in Nat \ {0}
  PROVE  LET s == Append(stmts, [start |-> a, stop |-> b])
         IN  /\ s \in Seq(Span)
             /\ Len(s) = Len(stmts) + 1
             /\ \A k \in 1 .. Len(stmts) : s[k] = stmts[k]
             /\ s[Len(s)].start = a /\ s[Len(s)].stop = b
<1> DEFINE r == [start |-> a, stop |-> b]
<1>1. r \in Span /\ r.start = a /\ r.stop = b
  BY DEF Span
<1> HIDE DEF r
<1>2. /\ Append(stmts, r) \in Seq(Span)
      /\ Len(Append(stmts, r)) = Len(stmts) + 1
      /\ \A k \in 1 .. Len(stmts) : Append(stmts, r)[k] = stmts[k]
      /\ Append(stmts, r)[Len(stmts) + 1] = r
  BY <1>1, AppendProperties
<1> QED
  BY <1>1, <1>2 DEF r

LEMMA CursorStep == IInv /\ Next => CursorInv'
<1> SUFFICES ASSUME IInv, Next PROVE CursorInv'
  OBVIOUS
<1> USE MaxDepthAssumption
    DEF IInv, CursorInv, LoopInv, TypeOK, IsStream, Kind, Results, At,
        CheckIllegal, NeverPastIllegal, DeferredIsCurrent, DeferredIsReported,
        ErrorAtFrontier, Running, Accepted, NotOneStmt, NoError, Illegal,
        Syntax, Action, Overflow
<1>1. CASE Consume
  BY <1>1 DEF Consume, InBody, Advance, loop
<1>2. CASE BindRegister
  <2>1. i < Len(toks) /\ i' = i + 1 /\ toks[i] = "REG"
    BY <1>2 DEF BindRegister, Advance
  <2>2. CASE deferred = NoError /\ result' = Running
    <3>1. deferred' = Action(i) /\ deferIndex' = i + 1 /\ UNCHANGED <<toks, stmts, start>>
      BY <1>2, <2>1, <2>2 DEF BindRegister, Defer, loop
    <3>2. TypeOK'
      BY <1>2, <2>1, <2>2, <3>1 DEF BindRegister, InBody, loop
    <3>3. NeverPastIllegal' /\ ErrorAtFrontier'
      BY <1>2, <2>1, <2>2, <3>1 DEF BindRegister, InBody, Advance
    <3>4. DeferredIsCurrent' /\ DeferredIsReported'
      BY <2>1, <2>2, <3>1
    <3> QED
      BY <3>2, <3>3, <3>4
  <2>3. CASE ~(deferred = NoError /\ result' = Running)
    BY <1>2, <2>1, <2>3 DEF BindRegister, InBody, Defer, Advance, loop
  <2> QED
    BY <2>2, <2>3
<1>3. CASE Enter
  BY <1>3 DEF Enter, InBody, cursor, loop
<1>4. CASE Leave
  BY <1>4 DEF Leave, InBody, cursor, loop
<1>5. CASE BodySyntaxError
  BY <1>5 DEF BodySyntaxError, InBody, Fail, cursor, loop
<1>6. CASE ScriptEnd
  BY <1>6 DEF ScriptEnd, InScript, cursor, loop
<1>7. CASE EmptyStatement
  BY <1>7 DEF EmptyStatement, InScript, loop, Advance
<1>8. CASE BeginStatement
  BY <1>8 DEF BeginStatement, InScript, Advance
<1>9. CASE Explained
  BY <1>9 DEF Explained, Advance
<1>10. CASE ExpectPlan
  BY <1>10 DEF ExpectPlan, Fail, cursor, loop, Advance
<1>11. CASE Dispatch
  BY <1>11 DEF Dispatch, Fail, cursor, loop, Advance
<1>12. CASE EndStatement
  <2>0. /\ start \in Nat \ {0} /\ i \in Nat \ {0} /\ i - 1 \in Nat \ {0}
        /\ Append(stmts, [start |-> start, stop |-> i]) \in Seq(Span)
        /\ Append(stmts, [start |-> start, stop |-> i - 1]) \in Seq(Span)
    <3>1. start \in Nat \ {0} /\ i \in Nat \ {0} /\ i - 1 \in Nat \ {0}
      BY <1>12 DEF EndStatement, InBody
    <3> QED
      BY <3>1, AppendSpan
  <2>1. CASE At("SEMI")
    <3>1. i < Len(toks) /\ i' = i + 1
      BY <2>1, <1>12 DEF EndStatement, Advance
    <3>2. stmts' \in Seq(Span)
      BY <1>12, <2>1, <2>0 DEF EndStatement, InBody
    <3> QED
      BY <1>12, <2>1, <3>1, <3>2 DEF EndStatement, InBody, Advance
  <2>2. CASE At("EOF")
    <3>1. stmts' \in Seq(Span)
      BY <1>12, <2>2, <2>0 DEF EndStatement, InBody
    <3> QED
      BY <1>12, <2>2, <3>1 DEF EndStatement, InBody, Flushed, cursor
  <2>3. CASE ~At("SEMI") /\ ~At("EOF")
    BY <1>12, <2>3 DEF EndStatement, InBody, Fail, cursor, loop
  <2> QED
    BY <2>1, <2>2, <2>3
<1>13. CASE EndExpr
  BY <1>13 DEF EndExpr, InBody, Fail, Flushed, cursor, loop
<1>14. CASE Returned
  BY <1>14 DEF Returned, vars
<1> QED
  BY <1>1, <1>2, <1>3, <1>4, <1>5, <1>6, <1>7, <1>8, <1>9, <1>10, <1>11, <1>12, <1>13, <1>14 DEF Next, Unbound

---------------------------------------------------------------------------

LEMMA BelowOrFrom ==
  ASSUME NEW f \in Nat, NEW g \in Nat, NEW j \in 1 .. g - 1, j \notin f .. g - 1
  PROVE  j \in 1 .. f - 1
  OBVIOUS

(* A step that leaves the finished statements alone, moves the frontier    *)
(* over semicolons only and does not succeed keeps them accounted for.     *)
LEMMA KeepTile ==
  ASSUME TypeOK, StatementsTile, Accounted, UNCHANGED <<toks, entry, stmts>>,
         i' \in Nat, i' >= i, Frontier \in Nat, Frontier' \in Nat, Frontier' >= Frontier,
         result' = Running =>
           result = Running /\ \A j \in Frontier .. Frontier' - 1 : toks[j] = "SEMI",
         result'.kind \notin {"ok", "count"}
  PROVE  StatementsTile' /\ Accounted'
<1>1. i \in Nat /\ stmts \in Seq(Span)
  BY DEF TypeOK, IsStream
<1>2. \A k \in 1 .. Len(stmts) : stmts[k].start \in Nat /\ stmts[k].stop \in Nat
  BY <1>1, SpanFields
<1>3. StatementsTile'
  <2>1. \A k \in 1 .. Len(stmts) : stmts[k].start <= stmts[k].stop /\ stmts[k].stop < i'
    BY <1>1, <1>2 DEF StatementsTile
  <2> QED
    BY <2>1 DEF StatementsTile
<1>4. Accounted'
  <2>1. \A k \in 1 .. Len(stmts) : stmts[k].stop < Frontier'
    BY <1>2 DEF Accounted
  <2>2. ASSUME result' = Running, entry # "expr",
               NEW j \in 1 .. Frontier' - 1, toks[j] # "SEMI"
        PROVE  Covered(j)
    <3>0. j \notin Frontier .. Frontier' - 1
      BY <2>2
    <3>1. j \in 1 .. Frontier - 1
      BY <2>2, <3>0, BelowOrFrom
    <3> QED
      BY <2>2, <3>1 DEF Accounted
  <2>3. \A j : Covered(j)' <=> Covered(j)
    BY DEF Covered
  <2> QED
    BY <2>1, <2>2, <2>3 DEF Accounted
<1> QED
  BY <1>3, <1>4

(* A statement that finishes takes the span from its first token to the    *)
(* one before the cursor.                                                  *)
LEMMA FinishTile ==
  ASSUME TypeOK, StatementsTile, Accounted, UNCHANGED <<toks, entry>>,
         result = Running, pc = "body", entry # "expr", result' = Running,
         pc' = "script", NEW e \in Nat \ {0}, start <= e, i' = e + 1,
         stmts' = Append(stmts, [start |-> start, stop |-> e])
  PROVE  StatementsTile' /\ Accounted'
<1> DEFINE n == Len(stmts)
<1>1. stmts \in Seq(Span) /\ n \in Nat /\ start \in Nat \ {0}
  BY DEF TypeOK, IsStream
<1>2. /\ Len(stmts') = n + 1
      /\ \A k \in 1 .. n : stmts'[k] = stmts[k]
      /\ stmts'[n + 1].start = start /\ stmts'[n + 1].stop = e
  BY <1>1, AppendSpan
<1>3. Frontier = start /\ Frontier' = e + 1
  BY DEF Frontier
<1>4. \A k \in 1 .. n : /\ stmts[k].start \in Nat /\ stmts[k].stop \in Nat
                        /\ stmts[k].start <= stmts[k].stop
                        /\ stmts[k].stop < start
  BY <1>1, <1>3, SpanFields DEF StatementsTile, Accounted
<1>5. \A k, l \in 1 .. n : k < l => stmts[k].stop < stmts[l].start
  BY DEF StatementsTile
<1> HIDE DEF n
<1>6. \A k \in 1 .. n + 1 : \/ k \in 1 .. n /\ stmts'[k] = stmts[k]
                            \/ k = n + 1
  BY <1>1, <1>2
<1>7. StatementsTile'
  <2>1. \A k \in 1 .. n + 1 : stmts'[k].start <= stmts'[k].stop /\ stmts'[k].stop < i'
    <3> SUFFICES ASSUME NEW k \in 1 .. n + 1
                 PROVE  stmts'[k].start <= stmts'[k].stop /\ stmts'[k].stop < i'
      OBVIOUS
    <3>1. CASE k = n + 1
      BY <1>1, <1>2, <3>1
    <3>2. CASE k \in 1 .. n
      BY <1>1, <1>2, <1>4, <3>2
    <3> QED
      BY <1>6, <3>1, <3>2
  <2>2. \A k, l \in 1 .. n + 1 : k < l => stmts'[k].stop < stmts'[l].start
    <3> SUFFICES ASSUME NEW k \in 1 .. n + 1, NEW l \in 1 .. n + 1, k < l
                 PROVE  stmts'[k].stop < stmts'[l].start
      OBVIOUS
    <3>1. k \in 1 .. n /\ stmts'[k] = stmts[k]
      BY <1>1, <1>2
    <3>2. CASE l = n + 1
      BY <1>2, <1>4, <3>1, <3>2
    <3>3. CASE l \in 1 .. n
      BY <1>2, <1>5, <3>1, <3>3
    <3> QED
      BY <1>6, <3>2, <3>3
  <2> QED
    BY <1>2, <2>1, <2>2 DEF StatementsTile, Running
<1>8. Accounted'
  <2>1. \A k \in 1 .. n + 1 : stmts'[k].stop < Frontier'
    BY <1>1, <1>2, <1>3, <1>4, <1>6
  <2>2. ASSUME NEW j \in 1 .. e, toks[j] # "SEMI" PROVE Covered(j)'
    <3>1. CASE j < start
      <4>1. Covered(j)
        BY <1>1, <1>3, <2>2, <3>1 DEF Accounted
      <4>2. PICK k \in 1 .. n : stmts[k].start <= j /\ j <= stmts[k].stop
        BY <4>1 DEF Covered, n
      <4> QED
        BY <1>1, <1>2, <4>2 DEF Covered
    <3>2. CASE ~(j < start)
      <4>1. n + 1 \in 1 .. Len(stmts')
        BY <1>1, <1>2
      <4>2. stmts'[n + 1].start <= j /\ j <= stmts'[n + 1].stop
        BY <1>1, <1>2, <3>2
      <4> QED
        BY <4>1, <4>2 DEF Covered
    <3> QED
      BY <3>1, <3>2
  <2> QED
    BY <1>2, <1>3, <2>1, <2>2 DEF Accounted
<1> QED
  BY <1>7, <1>8

LEMMA LoopStep == IInv /\ Next => LoopInv'
<1> SUFFICES ASSUME IInv, Next PROVE LoopInv'
  OBVIOUS
<1> USE DEF IInv, CursorInv, LoopInv, TypeOK, IsStream, At, CheckIllegal, Running,
            Accepted, NotOneStmt, NoError, Illegal, Syntax, Action, Overflow
<1>1. CASE Consume
  BY <1>1 DEF Consume, InBody, Advance, loop
<1>2. CASE BindRegister
  BY <1>2 DEF BindRegister, InBody, Advance, loop
<1>3. CASE Enter
  BY <1>3, MaxDepthAssumption DEF Enter, InBody, cursor, loop
<1>4. CASE Leave
  BY <1>4, MaxDepthAssumption DEF Leave, InBody, cursor, loop
<1>5. CASE BodySyntaxError
  BY <1>5 DEF BodySyntaxError, InBody, Fail, cursor, loop
<1>6. CASE ScriptEnd
  BY <1>6 DEF ScriptEnd, InScript, cursor, loop
<1>7. CASE EmptyStatement
  BY <1>7 DEF EmptyStatement, InScript, Advance, loop
<1>8. CASE BeginStatement
  BY <1>8 DEF BeginStatement, InScript, Advance
<1>9. CASE Explained
  BY <1>9 DEF Explained, Advance
<1>10. CASE ExpectPlan
  BY <1>10 DEF ExpectPlan, Fail, cursor, loop, Advance
<1>11. CASE Dispatch
  BY <1>11 DEF Dispatch, Fail, cursor, loop, Advance
<1>12. CASE EndStatement
  <2>1. entry # "expr" /\ UNCHANGED <<entry, start, depth>>
    BY <1>12 DEF EndStatement, Fail, loop
  <2>2. CASE At("SEMI")
    BY <1>12, <2>1, <2>2 DEF EndStatement, InBody, Advance, DeferredIsCurrent
  <2>3. CASE At("EOF")
    BY <1>12, <2>1, <2>3 DEF EndStatement, InBody, Flushed, cursor
  <2>4. CASE ~At("SEMI") /\ ~At("EOF")
    BY <1>12, <2>4 DEF EndStatement, InBody, Fail, cursor, loop
  <2> QED
    BY <2>2, <2>3, <2>4
<1>13. CASE EndExpr
  BY <1>13 DEF EndExpr, InBody, Fail, Flushed, cursor, loop
<1>14. CASE Returned
  BY <1>14 DEF Returned, vars
<1> QED
  BY <1>1, <1>2, <1>3, <1>4, <1>5, <1>6, <1>7, <1>8, <1>9, <1>10, <1>11, <1>12,
     <1>13, <1>14 DEF Next, Unbound

LEMMA TileStep == IInv /\ Next => StatementsTile' /\ Accounted'
<1> SUFFICES ASSUME IInv, Next PROVE StatementsTile' /\ Accounted'
  OBVIOUS
<1> USE DEF Running, Accepted, NotOneStmt, NoError, Illegal, Syntax, Overflow
<1>0. /\ TypeOK /\ StatementsTile /\ Accounted /\ LoopInv /\ DeferredIsCurrent
      /\ TypeOK' /\ LoopInv'
      /\ i \in Nat /\ i' \in Nat /\ start \in Nat \ {0} /\ start' \in Nat
      /\ Frontier \in Nat /\ Frontier' \in Nat
      /\ deferred # NoError => deferred.kind = "action"
  BY CursorStep, LoopStep DEF IInv, CursorInv, TypeOK, IsStream, Frontier
<1>1. CASE Consume
  BY <1>0, <1>1, AdvanceMoves, KeepTile DEF Consume, InBody, At, loop, Frontier
<1>2. CASE BindRegister
  BY <1>0, <1>2, AdvanceMoves, KeepTile DEF BindRegister, InBody, At, loop, Frontier
<1>3. CASE Enter
  BY <1>0, <1>3, KeepTile DEF Enter, InBody, cursor, loop, Frontier
<1>4. CASE Leave
  BY <1>0, <1>4, KeepTile DEF Leave, InBody, cursor, loop, Frontier
<1>5. CASE BodySyntaxError
  BY <1>0, <1>5, KeepTile DEF BodySyntaxError, InBody, Fail, cursor, loop, Frontier
<1>6. CASE ScriptEnd
  <2>1. /\ i = Len(toks) /\ i' = i /\ Frontier = i /\ Frontier' = i
        /\ result = Running /\ UNCHANGED <<toks, entry, stmts>>
        /\ result' \in {Accepted, NotOneStmt}
    BY <1>0, <1>6 DEF ScriptEnd, InScript, cursor, loop, Frontier, At, TypeOK, IsStream
  <2>2. \A j : Covered(j)' <=> Covered(j)
    BY <2>1 DEF Covered
  <2> QED
    BY <1>0, <2>1, <2>2 DEF StatementsTile, Accounted
<1>7. CASE EmptyStatement
  BY <1>0, <1>7, AdvanceMoves, KeepTile DEF EmptyStatement, InScript, At, loop, Frontier
<1>8. CASE BeginStatement
  <2>1. Frontier' = Frontier /\ i' >= i /\ result'.kind \notin {"ok", "count"}
    BY <1>0, <1>8, AdvanceMoves DEF BeginStatement, InScript, At, Frontier
  <2> QED
    BY <1>0, <1>8, <2>1, KeepTile DEF BeginStatement, InScript
<1>9. CASE Explained
  <2>1. Frontier' = Frontier /\ i' >= i /\ result'.kind \notin {"ok", "count"}
    BY <1>0, <1>9, AdvanceMoves DEF Explained, At, Frontier
  <2> QED
    BY <1>0, <1>9, <2>1, KeepTile DEF Explained
<1>10. CASE ExpectPlan
  <2>1. Frontier' = Frontier /\ i' >= i /\ result'.kind \notin {"ok", "count"}
    BY <1>0, <1>10, AdvanceMoves DEF ExpectPlan, Fail, cursor, loop, At, Frontier
  <2> QED
    BY <1>0, <1>10, <2>1, KeepTile DEF ExpectPlan, Fail, cursor, loop
<1>11. CASE Dispatch
  <2>1. Frontier' = Frontier /\ i' >= i /\ result'.kind \notin {"ok", "count"}
    BY <1>0, <1>11, AdvanceMoves DEF Dispatch, Fail, cursor, loop, At, Frontier
  <2> QED
    BY <1>0, <1>11, <2>1, KeepTile DEF Dispatch, Fail, cursor, loop
<1>12. CASE EndStatement
  <2>1. /\ result = Running /\ pc = "body" /\ entry # "expr" /\ start < i
        /\ UNCHANGED <<toks, entry, start>>
    BY <1>0, <1>12 DEF EndStatement, InBody, Fail, cursor, loop, LoopInv
  <2>2. CASE At("SEMI") /\ result' = Running
    BY <1>0, <1>12, <2>1, <2>2, AdvanceMoves, FinishTile DEF EndStatement, At
  <2>3. CASE At("SEMI") /\ result' # Running
    BY <1>0, <1>12, <2>1, <2>3, AdvanceMoves, KeepTile DEF EndStatement, At, Frontier
  <2>4. CASE At("EOF") /\ deferred = NoError
    <3>1. i' = (i - 1) + 1 /\ i - 1 \in Nat \ {0} /\ start <= i - 1
      BY <1>0, <1>12, <2>1, <2>4 DEF EndStatement, cursor, At
    <3> QED
      BY <1>0, <1>12, <2>1, <2>4, <3>1, FinishTile DEF EndStatement, Flushed, At
  <2>5. CASE At("EOF") /\ deferred # NoError
    BY <1>0, <1>12, <2>1, <2>5, KeepTile DEF EndStatement, Flushed, cursor, Frontier, At
  <2>6. CASE ~At("SEMI") /\ ~At("EOF")
    <3>1. result' = Syntax(i) /\ i' = i /\ UNCHANGED <<stmts, pc>>
      BY <1>12, <2>6 DEF EndStatement, Fail, cursor, loop
    <3>2. Frontier' = Frontier
      BY <2>1, <3>1 DEF Frontier
    <3> QED
      BY <1>0, <2>1, <3>1, <3>2, KeepTile
  <2> QED
    BY <2>2, <2>3, <2>4, <2>5, <2>6
<1>13. CASE EndExpr
  <2>1. /\ entry = "expr" /\ stmts = <<>> /\ i' = i /\ UNCHANGED <<toks, entry, stmts>>
    BY <1>0, <1>13 DEF EndExpr, Fail, cursor, loop, LoopInv
  <2> QED
    BY <2>1 DEF StatementsTile, Accounted
<1>14. CASE Returned
  BY <1>0, <1>14 DEF Returned, vars, StatementsTile, Accounted, Frontier, Covered
<1> QED
  BY <1>1, <1>2, <1>3, <1>4, <1>5, <1>6, <1>7, <1>8, <1>9, <1>10, <1>11, <1>12,
     <1>13, <1>14 DEF Next, Unbound

---------------------------------------------------------------------------

(* The invariant holds in every reachable state.                           *)
THEOREM Invariance == Spec => []IInv
<1>1. Init => IInv
  BY InitIInv
<1>2. IInv /\ [Next]_vars => IInv'
  <2>1. IInv /\ Next => IInv'
    BY CursorStep, LoopStep, TileStep DEF IInv
  <2>2. IInv /\ UNCHANGED vars => IInv'
    BY DEF vars, IInv, CursorInv, TypeOK, NeverPastIllegal, DeferredIsCurrent,
           DeferredIsReported, ErrorAtFrontier, StatementsTile, Covered, LoopInv,
           Accounted, Frontier, At
  <2> QED
    BY <2>1, <2>2
<1> QED
  BY <1>1, <1>2, PTL DEF Spec

(* The cursor stays inside the token slice and every variable has its type *)
(* (p.toks[p.i] never panics), for every input and recursion limit.        *)
THEOREM TypeCorrect == Spec => []TypeOK
<1>1. IInv => TypeOK
  BY DEF IInv, CursorInv
<1> QED
  BY <1>1, Invariance, PTL

(* No parse function looks at or behind an illegal token, whatever it      *)
(* does.                                                                   *)
THEOREM IllegalStops == Spec => []NeverPastIllegal
<1>1. IInv => NeverPastIllegal
  BY DEF IInv, CursorInv
<1> QED
  BY <1>1, Invariance, PTL

(* A deferred error never outlives the token it was raised at.             *)
THEOREM DeferredErrors == Spec => []DeferredIsCurrent
<1>1. IInv => DeferredIsCurrent
  BY DEF IInv, CursorInv
<1> QED
  BY <1>1, Invariance, PTL

(* No call succeeds while a deferred error is pending.                     *)
THEOREM NoErrorLost == Spec => []DeferredIsReported
<1>1. IInv => DeferredIsReported
  BY DEF IInv, CursorInv
<1> QED
  BY <1>1, Invariance, PTL

(* The offset of an error is at the lookahead, or at the register          *)
(* reference before it.                                                    *)
THEOREM ErrorPosition == Spec => []ErrorAtFrontier
<1>1. IInv => ErrorAtFrontier
  BY DEF IInv, CursorInv
<1> QED
  BY <1>1, Invariance, PTL

(* The statement spans of a script are ordered, disjoint and leave nothing *)
(* but semicolons out.                                                     *)
THEOREM StatementSpans == Spec => []StatementsTile
<1>1. IInv => StatementsTile
  BY DEF IInv
<1> QED
  BY <1>1, Invariance, PTL

---------------------------------------------------------------------------
(* meyer's token loop implements that of sqlite3RunParser.                 *)

LEMMA InitRefines == Init => RP!Init
  BY DEF Init, CheckIllegal, Running, Illegal, Accepted, RP!Init, RP!AfterRead,
         RP!Running, RP!Illegal

(* advance is one turn of the loop: the next token is read, or the error   *)
(* of a grammar action ends it.                                            *)
LEMMA AdvanceRefines ==
  ASSUME IInv, result = Running, toks[i] # "EOF", Advance, UNCHANGED toks
  PROVE  RP!Shift \/ RP!ActionError
<1> USE DEF Running, NoError, CheckIllegal, Illegal, Action
<1>1. i \in Nat /\ i < Len(toks) /\ i' = i + 1
  BY AdvanceMoves DEF IInv, CursorInv
<1>2. CASE deferred # NoError
  <2>1. /\ deferIndex = i /\ deferred = Action(i - 1) /\ toks[i - 1] = "REG" /\ i > 1
    BY <1>1, <1>2 DEF IInv, CursorInv, DeferredIsCurrent, TypeOK
  <2>2. result' = Action(i - 1)
    BY <1>1, <1>2, <2>1 DEF Advance
  <2> QED
    BY <1>1, <2>1, <2>2 DEF RP!ActionError, RP!Running, RP!Action
<1>3. CASE deferred = NoError
  BY <1>1, <1>3 DEF Advance, RP!Shift, RP!Running, RP!AfterRead, RP!Illegal
<1> QED
  BY <1>2, <1>3

(* A parse that ends at the lookahead ends the loop there.                 *)
LEMMA FailRefines ==
  ASSUME IInv, result = Running, UNCHANGED <<toks, i>>
  PROVE  /\ result' = Syntax(i) => RP!SyntaxError
         /\ result' = Overflow(i) => RP!StackOverflow
         /\ result' \in {Accepted, NotOneStmt} /\ toks[i] = "EOF" => RP!Accept
         /\ result' = deferred /\ deferred # NoError => RP!ActionError
         /\ result' = Running => UNCHANGED RP!vars
<1> USE DEF Running, NoError, Syntax, Overflow, Action, Accepted, NotOneStmt
<1>1. i \in Nat /\ i <= Len(toks) /\ (toks[i] = "EOF" => i = Len(toks))
  BY DEF IInv, CursorInv, TypeOK, IsStream
<1>2. result' = Syntax(i) => RP!SyntaxError
  BY DEF RP!SyntaxError, RP!Running, RP!Syntax
<1>3. result' = Overflow(i) => RP!StackOverflow
  BY DEF RP!StackOverflow, RP!Running, RP!Overflow
<1>4. result' \in {Accepted, NotOneStmt} /\ toks[i] = "EOF" => RP!Accept
  BY <1>1 DEF RP!Accept, RP!Running, RP!Accepted
<1>5. ASSUME result' = deferred, deferred # NoError PROVE RP!ActionError
  <2>1. /\ deferred = Action(i - 1) /\ toks[i - 1] = "REG" /\ i > 1
    BY <1>1, <1>5 DEF IInv, CursorInv, DeferredIsCurrent, TypeOK
  <2> QED
    BY <1>1, <1>5, <2>1 DEF RP!ActionError, RP!Running, RP!Action
<1>6. result' = Running => UNCHANGED RP!vars
  BY DEF RP!vars
<1> QED
  BY <1>2, <1>3, <1>4, <1>5, <1>6

(* Every step of the parser is a step of the token loop or leaves it       *)
(* where it is.                                                            *)
LEMMA StepRefines == IInv /\ [Next]_vars => [RP!Next]_(RP!vars)
<1> SUFFICES ASSUME IInv, [Next]_vars PROVE RP!Next \/ UNCHANGED RP!vars
  OBVIOUS
<1> USE DEF RP!Next, At
<1>1. CASE Consume
  BY <1>1, AdvanceRefines DEF Consume, InBody
<1>2. CASE BindRegister
  BY <1>2, AdvanceRefines DEF BindRegister, InBody
<1>3. CASE Enter
  BY <1>3, FailRefines DEF Enter, InBody, cursor
<1>4. CASE Leave
  BY <1>4, FailRefines DEF Leave, InBody, cursor
<1>5. CASE BodySyntaxError
  BY <1>5, FailRefines DEF BodySyntaxError, InBody, Fail, cursor
<1>6. CASE ScriptEnd
  BY <1>6, FailRefines DEF ScriptEnd, InScript, cursor
<1>7. CASE EmptyStatement
  BY <1>7, AdvanceRefines DEF EmptyStatement, InScript
<1>8. CASE BeginStatement
  BY <1>8, AdvanceRefines, FailRefines DEF BeginStatement, InScript
<1>9. CASE Explained
  BY <1>9, AdvanceRefines, FailRefines DEF Explained
<1>10. CASE ExpectPlan
  BY <1>10, AdvanceRefines, FailRefines DEF ExpectPlan, Fail, cursor
<1>11. CASE Dispatch
  BY <1>11, AdvanceRefines, FailRefines DEF Dispatch, Fail, cursor
<1>12. CASE EndStatement
  BY <1>12, AdvanceRefines, FailRefines DEF EndStatement, InBody, Flushed, Fail, cursor
<1>13. CASE EndExpr
  BY <1>13, FailRefines DEF EndExpr, InBody, Flushed, Fail, cursor
<1>14. CASE UNCHANGED vars
  BY <1>14 DEF vars, RP!vars
<1> QED
  BY <1>1, <1>2, <1>3, <1>4, <1>5, <1>6, <1>7, <1>8, <1>9, <1>10, <1>11, <1>12,
     <1>13, <1>14 DEF Next, Unbound, Returned

(* For every input, recursion limit and statement body, meyer stops at the *)
(* token and with the kind of error at which sqlite3RunParser may stop.    *)
THEOREM Refinement == Spec => ImplementsRunParser
<1>1. Init => RP!Init
  BY InitRefines
<1>2. IInv /\ [Next]_vars => [RP!Next]_(RP!vars)
  BY StepRefines
<1> QED
  BY <1>1, <1>2, Invariance, PTL DEF Spec, ImplementsRunParser, RP!Spec

---------------------------------------------------------------------------
(* The numbering of bind parameters. The parser that numbers them still is *)
(* the parser of module Parser, so what is proved above holds of it too.   *)

(* The BindParam nodes of the tree.                                        *)
Node == [marker : Marker, number : Int]
Params == Seq(Node)

(* Which token is a VARIABLE, and as which text, never changes.            *)
MarkersFixed == toks \in Streams /\ raw \in Variables(toks)

(* nVar is the highest number used so far.                                 *)
CounterInv ==
  /\ nVar \in 0 .. IntMax
  /\ \A k \in 1 .. Len(params) : params[k].number <= nVar
  /\ nVar = 0 \/ \E k \in 1 .. Len(params) : params[k].number = nVar

(* varNums holds the numbers of the names met so far, each its own.        *)
NamesInv ==
  /\ \A k \in 1 .. Len(params) : Named(params[k].marker) =>
       params[k].marker \in DOMAIN varNums /\ varNums[params[k].marker] = params[k].number
  /\ \A m \in DOMAIN varNums : Named(m) /\ \E k \in 1 .. Len(params) : params[k].marker = m
  /\ \A m, n \in DOMAIN varNums : varNums[m] = varNums[n] => m = n

(* The inductive invariant: as long as the numbers last, the counter and   *)
(* the map agree with the nodes.                                           *)
ParamInv ==
  /\ params \in Params
  /\ MarkersFixed
  /\ nVar \in Int /\ \A m \in DOMAIN varNums : varNums[m] \in Int
  /\ ~Exhausted(Len(params) + 1) => CounterInv /\ NamesInv
  /\ OneNumberPerName
  /\ OnePastTheHighest

---------------------------------------------------------------------------

(* The fields of a node.                                                   *)
LEMMA NodeFields ==
  ASSUME params \in Params, NEW k \in 1 .. Len(params)
  PROVE  params[k].marker \in Marker /\ params[k].number \in Int
<1>1. params[k] \in Node
  BY DEF Params
<1> QED
  BY <1>1 DEF Node

(* What building one more node does to the list.                           *)
LEMMA BuildAppends ==
  ASSUME params \in Params, NEW m \in Marker, NEW number \in Int, Build(m, number)
  PROVE  /\ params' \in Params
         /\ Len(params') = Len(params) + 1
         /\ Len(params) \in Nat
         /\ \A k \in 1 .. Len(params) : params'[k] = params[k]
         /\ params'[Len(params) + 1].marker = m
         /\ params'[Len(params) + 1].number = number
<1> DEFINE r == [marker |-> m, number |-> number]
<1>1. r \in Node /\ r.marker = m /\ r.number = number
  BY DEF Node
<1> HIDE DEF r
<1>2. params' = Append(params, r)
  BY DEF Build, r
<1>3. /\ Append(params, r) \in Params
      /\ Len(Append(params, r)) = Len(params) + 1
      /\ \A k \in 1 .. Len(params) : Append(params, r)[k] = params[k]
      /\ Append(params, r)[Len(params) + 1] = r
  BY <1>1, AppendProperties DEF Params
<1> QED
  BY <1>1, <1>2, <1>3 DEF Params

(* Counting up stays below the largest int as long as no marker has it.    *)
LEMMA NoWrap ==
  ASSUME params \in Params, CounterInv, ~Exhausted(Len(params) + 1)
  PROVE  nVar + 1 \in Nat /\ Wrap(nVar + 1) = nVar + 1
<1> USE IntMaxAssumption
<1>1. Len(params) \in Nat
  BY DEF Params
<1>2. \A k \in 1 .. Len(params) : params[k].number # IntMax
  BY <1>1 DEF Exhausted
<1>3. nVar # IntMax
  BY <1>2 DEF CounterInv
<1> QED
  BY <1>3 DEF CounterInv, Wrap

(* Both properties survive one more node that meets them itself.           *)
LEMMA OneMoreNode ==
  ASSUME ParamInv, NEW m \in Marker, NEW number \in Int, Build(m, number),
         ~Exhausted(Len(params) + 1) =>
           /\ Named(m) => \A j \in 1 .. Len(params) : Named(params[j].marker) =>
                            (params[j].marker = m <=> params[j].number = number)
           /\ m.kind # "number" /\ (Named(m) => \A j \in 1 .. Len(params) : params[j].marker # m)
              => /\ \A j \in 1 .. Len(params) : params[j].number < number
                 /\ number = 1 \/ \E j \in 1 .. Len(params) : params[j].number = number - 1
  PROVE  OneNumberPerName' /\ OnePastTheHighest'
<1> DEFINE n == Len(params)
<1>1. /\ params' \in Params /\ Len(params') = n + 1 /\ n \in Nat
      /\ \A k \in 1 .. n : params'[k] = params[k]
      /\ params'[n + 1].marker = m /\ params'[n + 1].number = number
  BY BuildAppends DEF ParamInv
<1>2. \A k \in 1 .. n + 1 : Exhausted(k)' <=> Exhausted(k)
  BY <1>1 DEF Exhausted
<1>3. OneNumberPerName'
  <2> SUFFICES ASSUME NEW j \in 1 .. n + 1, NEW k \in 1 .. n + 1, j < k,
                      Named(params'[j].marker), Named(params'[k].marker), ~Exhausted(k)
               PROVE  params'[j].marker = params'[k].marker <=> params'[j].number = params'[k].number
    BY <1>1, <1>2 DEF OneNumberPerName
  <2>1. j \in 1 .. n /\ params'[j] = params[j]
    BY <1>1
  <2>2. CASE k = n + 1
    BY <1>1, <2>1, <2>2
  <2>3. CASE k # n + 1
    BY <1>1, <2>1, <2>3 DEF ParamInv, OneNumberPerName
  <2> QED
    BY <2>2, <2>3
<1>4. OnePastTheHighest'
  <2> SUFFICES ASSUME NEW k \in 1 .. n + 1, params'[k].marker.kind # "number", ~Exhausted(k),
                      Named(params'[k].marker) =>
                        \A j \in 1 .. k - 1 : params'[j].marker # params'[k].marker
               PROVE  /\ \A j \in 1 .. k - 1 : params'[j].number < params'[k].number
                      /\ \/ params'[k].number = 1
                         \/ \E j \in 1 .. k - 1 : params'[j].number = params'[k].number - 1
    BY <1>1, <1>2 DEF OnePastTheHighest
  <2>1. \A j \in 1 .. k - 1 : j \in 1 .. n /\ params'[j] = params[j]
    BY <1>1
  <2>2. CASE k = n + 1
    BY <1>1, <2>1, <2>2
  <2>3. CASE k # n + 1
    <3>1. k \in 1 .. n /\ params'[k] = params[k]
      BY <1>1, <2>3
    <3> QED
      BY <1>1, <2>1, <3>1 DEF ParamInv, OnePastTheHighest
  <2> QED
    BY <2>2, <2>3
<1> QED
  BY <1>3, <1>4

(* A number one past the highest is one more node that meets both, for "?" *)
(* and for a name met for the first time.                                  *)
LEMMA OnePastNode ==
  ASSUME ParamInv, NEW m \in Marker, m.kind # "number",
         Named(m) => m \notin DOMAIN varNums,
         nVar' = Wrap(nVar + 1), Build(m, nVar')
  PROVE  /\ OneNumberPerName' /\ OnePastTheHighest' /\ nVar' \in Int
         /\ ~Exhausted(Len(params) + 1) => CounterInv' /\ nVar' = nVar + 1
<1> DEFINE n == Len(params)
<1>1. n \in Nat /\ nVar' \in Int
  BY IntMaxAssumption DEF ParamInv, Params, Wrap
<1>2. ASSUME ~Exhausted(n + 1) PROVE nVar' = nVar + 1 /\ nVar' \in 0 .. IntMax
  <2>1. nVar # IntMax
    BY <1>1, <1>2, IntMaxAssumption DEF ParamInv, CounterInv, Exhausted
  <2> QED
    BY <1>2, <2>1, IntMaxAssumption DEF ParamInv, CounterInv, Wrap
<1>3. \A k \in 1 .. n : params[k].number \in Int
  BY <1>1, NodeFields DEF ParamInv
<1>4. ASSUME ~Exhausted(n + 1)
      PROVE  /\ \A j \in 1 .. n : params[j].number < nVar'
             /\ nVar' = 1 \/ \E j \in 1 .. n : params[j].number = nVar' - 1
             /\ Named(m) => \A j \in 1 .. n : Named(params[j].marker) =>
                              (params[j].marker = m <=> params[j].number = nVar')
  BY <1>2, <1>3, <1>4 DEF ParamInv, CounterInv, NamesInv
<1>5. OneNumberPerName' /\ OnePastTheHighest'
  BY <1>1, <1>4, OneMoreNode
<1>6. ASSUME ~Exhausted(n + 1) PROVE CounterInv'
  <2>1. /\ Len(params') = n + 1 /\ params'[n + 1].number = nVar'
        /\ \A k \in 1 .. n : params'[k] = params[k]
    BY <1>1, BuildAppends DEF ParamInv
  <2>2. \A k \in 1 .. n + 1 : params'[k].number <= nVar'
    BY <1>1, <1>2, <1>3, <1>4, <1>6, <2>1
  <2> QED
    BY <1>1, <1>2, <1>6, <2>1, <2>2 DEF CounterInv
<1> QED
  BY <1>1, <1>2, <1>5, <1>6

(* A node that leaves varNums alone keeps it in step when it is unnamed or *)
(* has the number varNums has.                                             *)
LEMMA SameNames ==
  ASSUME params \in Params, NamesInv, NEW m \in Marker, NEW number \in Int, Build(m, number),
         varNums' = varNums, Named(m) => m \in DOMAIN varNums /\ varNums[m] = number
  PROVE  NamesInv'
<1> DEFINE n == Len(params)
<1>1. /\ Len(params') = n + 1 /\ n \in Nat
      /\ \A k \in 1 .. n : params'[k] = params[k]
      /\ params'[n + 1].marker = m /\ params'[n + 1].number = number
  BY BuildAppends
<1>2. \A k \in 1 .. n + 1 : Named(params'[k].marker) =>
        params'[k].marker \in DOMAIN varNums /\ varNums[params'[k].marker] = params'[k].number
  <2> SUFFICES ASSUME NEW k \in 1 .. n + 1, Named(params'[k].marker)
               PROVE  /\ params'[k].marker \in DOMAIN varNums
                      /\ varNums[params'[k].marker] = params'[k].number
    OBVIOUS
  <2>1. CASE k = n + 1
    BY <1>1, <2>1
  <2>2. CASE k # n + 1
    BY <1>1, <2>2 DEF NamesInv
  <2> QED
    BY <2>1, <2>2
<1>3. \A k \in DOMAIN varNums : Named(k) /\ \E j \in 1 .. n + 1 : params'[j].marker = k
  <2> SUFFICES ASSUME NEW k \in DOMAIN varNums
               PROVE  Named(k) /\ \E j \in 1 .. n + 1 : params'[j].marker = k
    OBVIOUS
  <2>1. Named(k) /\ \E j \in 1 .. n : params[j].marker = k
    BY DEF NamesInv
  <2>2. PICK j \in 1 .. n : params[j].marker = k
    BY <2>1
  <2>3. j \in 1 .. n + 1 /\ params'[j].marker = k
    BY <1>1, <2>2
  <2> QED
    BY <2>1, <2>3
<1> QED
  BY <1>1, <1>2, <1>3 DEF NamesInv

LEMMA AnonymousStep ==
  ASSUME ParamInv, NEW m \in Marker, Anonymous(m), UNCHANGED <<toks, raw>>
  PROVE  ParamInv'
<1>1. /\ OneNumberPerName' /\ OnePastTheHighest' /\ nVar' \in Int
      /\ ~Exhausted(Len(params) + 1) => CounterInv'
  BY OnePastNode DEF Anonymous, Named
<1>2. /\ params' \in Params /\ Len(params') = Len(params) + 1 /\ Len(params) \in Nat
      /\ \A k \in 1 .. Len(params) : params'[k] = params[k]
      /\ params'[Len(params) + 1].marker = m
  BY <1>1, BuildAppends DEF Anonymous, ParamInv
<1>3. ~Exhausted(Len(params) + 1)' => ~Exhausted(Len(params) + 1)
  BY <1>2 DEF Exhausted
<1>4. ~Exhausted(Len(params) + 1) => NamesInv'
  BY <1>1, SameNames DEF Anonymous, ParamInv, Named
<1> QED
  BY <1>1, <1>2, <1>3, <1>4 DEF ParamInv, MarkersFixed, Anonymous

LEMMA ExplicitStep ==
  ASSUME ParamInv, NEW m \in Marker, Explicit(m), UNCHANGED <<toks, raw>>
  PROVE  ParamInv'
<1> DEFINE number == IF m.id <= IntMax THEN m.id ELSE 0
           n == Len(params)
<1>1. m.id \in Nat /\ IntMax \in Nat /\ number \in 0 .. IntMax /\ n \in Nat
  BY IntMaxAssumption DEF Marker, ParamInv, Params
<1>2. Build(m, number) /\ m.kind = "number" /\ ~Named(m)
  BY DEF Explicit, Named
<1> HIDE DEF number
<1>3. /\ params' \in Params /\ Len(params') = n + 1
      /\ \A k \in 1 .. n : params'[k] = params[k]
      /\ params'[n + 1].marker = m /\ params'[n + 1].number = number
  BY <1>1, <1>2, BuildAppends DEF ParamInv
<1>4. OneNumberPerName' /\ OnePastTheHighest'
  BY <1>1, <1>2, OneMoreNode
<1>5. nVar' = (IF number > nVar /\ m.id <= IntMax THEN number ELSE nVar) /\ varNums' = varNums
  BY DEF Explicit, number
<1>6. ~Exhausted(Len(params) + 1)' => ~Exhausted(n + 1)
  BY <1>1, <1>3 DEF Exhausted
<1>7. ASSUME ~Exhausted(n + 1) PROVE CounterInv'
  <2>1. nVar \in 0 .. IntMax /\ nVar' = (IF number > nVar THEN number ELSE nVar)
    BY <1>1, <1>5, <1>7 DEF ParamInv, CounterInv, number
  <2>2. \A k \in 1 .. n : params[k].number \in Int
    BY NodeFields DEF ParamInv
  <2>3. \A k \in 1 .. n + 1 : params'[k].number <= nVar'
    BY <1>1, <1>3, <1>7, <2>1, <2>2 DEF ParamInv, CounterInv
  <2> QED
    BY <1>1, <1>3, <1>7, <2>1, <2>3 DEF ParamInv, CounterInv
<1>8. ~Exhausted(n + 1) => NamesInv'
  BY <1>1, <1>2, <1>5, SameNames DEF ParamInv
<1> QED
  BY <1>1, <1>3, <1>4, <1>5, <1>6, <1>7, <1>8 DEF ParamInv, MarkersFixed

LEMMA KnownStep ==
  ASSUME ParamInv, NEW m \in Marker, Known(m), UNCHANGED <<toks, raw>>
  PROVE  ParamInv'
<1> DEFINE n == Len(params)
<1>1. /\ params' \in Params /\ Len(params') = n + 1 /\ n \in Nat
      /\ \A k \in 1 .. n : params'[k] = params[k]
      /\ params'[n + 1].marker = m /\ params'[n + 1].number = varNums[m]
      /\ nVar' = nVar /\ varNums' = varNums /\ m \in DOMAIN varNums /\ Named(m)
  BY BuildAppends DEF ParamInv, Known
<1>2. ASSUME ~Exhausted(n + 1)
      PROVE  /\ \E k \in 1 .. n : params[k].marker = m /\ params[k].number = varNums[m]
             /\ \A j \in 1 .. n : Named(params[j].marker) =>
                  (params[j].marker = m <=> params[j].number = varNums[m])
  BY <1>1, <1>2 DEF ParamInv, NamesInv
<1>3. OneNumberPerName' /\ OnePastTheHighest'
  <2>1. varNums[m] \in Int /\ Build(m, varNums[m])
    BY <1>1 DEF ParamInv, Known
  <2> QED
    BY <1>1, <1>2, <2>1, OneMoreNode
<1>4. ~Exhausted(Len(params) + 1)' => ~Exhausted(n + 1)
  BY <1>1 DEF Exhausted
<1>5. ASSUME ~Exhausted(n + 1) PROVE CounterInv' /\ NamesInv'
  <2>1. \A k \in 1 .. n : params[k].number <= nVar
    BY <1>5 DEF ParamInv, CounterInv
  <2>2. \A k \in 1 .. n + 1 : params'[k].number <= nVar'
    <3> SUFFICES ASSUME NEW k \in 1 .. n + 1 PROVE params'[k].number <= nVar'
      OBVIOUS
    <3>1. CASE k \in 1 .. n
      BY <1>1, <2>1, <3>1
    <3>2. CASE k = n + 1
      <4>1. PICK j \in 1 .. n : params[j].number = varNums[m]
        BY <1>2, <1>5
      <4>2. varNums[m] <= nVar
        BY <2>1, <4>1
      <4> QED
        BY <1>1, <3>2, <4>2
    <3> QED
      BY <1>1, <3>1, <3>2
  <2> QED
    <3>1. NamesInv'
      BY <1>1, <1>5, SameNames DEF ParamInv, Known
    <3>2. nVar' = 0 \/ \E k \in 1 .. n + 1 : params'[k].number = nVar'
      BY <1>1, <1>5 DEF ParamInv, CounterInv
    <3> QED
      BY <1>1, <1>5, <2>2, <3>1, <3>2 DEF ParamInv, CounterInv
<1> QED
  BY <1>1, <1>3, <1>4, <1>5 DEF ParamInv, MarkersFixed

LEMMA NewStep ==
  ASSUME ParamInv, NEW m \in Marker, New(m), UNCHANGED <<toks, raw>>
  PROVE  ParamInv'
<1> DEFINE n == Len(params)
<1>1. /\ OneNumberPerName' /\ OnePastTheHighest' /\ nVar' \in Int
      /\ ~Exhausted(n + 1) => CounterInv' /\ nVar' = nVar + 1
  BY OnePastNode DEF New, Named
<1>2. /\ params' \in Params /\ Len(params') = n + 1 /\ n \in Nat
      /\ \A k \in 1 .. n : params'[k] = params[k]
      /\ params'[n + 1].marker = m /\ params'[n + 1].number = nVar'
  BY <1>1, BuildAppends DEF New, ParamInv
<1>3. /\ Named(m) /\ m \notin DOMAIN varNums
      /\ DOMAIN varNums' = DOMAIN varNums \cup {m}
      /\ varNums'[m] = nVar'
      /\ \A k \in DOMAIN varNums : varNums'[k] = varNums[k]
  BY DEF New, Remember
<1>4. ~Exhausted(Len(params) + 1)' => ~Exhausted(n + 1)
  BY <1>2 DEF Exhausted
<1>5. ASSUME ~Exhausted(n + 1) PROVE NamesInv'
  <2>1. \A k \in 1 .. n : params[k].number <= nVar /\ params[k].number \in Int /\ nVar \in Int
    BY <1>2, <1>5, NodeFields DEF ParamInv, CounterInv
  <2>2. \A k \in DOMAIN varNums : varNums[k] # nVar'
    <3> SUFFICES ASSUME NEW k \in DOMAIN varNums PROVE varNums[k] # nVar'
      OBVIOUS
    <3>1. PICK j \in 1 .. n : params[j].marker = k
      BY <1>5 DEF ParamInv, NamesInv
    <3>2. varNums[k] = params[j].number
      BY <1>5, <3>1 DEF ParamInv, NamesInv
    <3> QED
      BY <1>1, <1>5, <2>1, <3>2
  <2> QED
    BY <1>2, <1>3, <1>5, <2>2 DEF ParamInv, NamesInv
<1> QED
  BY <1>1, <1>2, <1>3, <1>4, <1>5 DEF ParamInv, MarkersFixed

---------------------------------------------------------------------------

LEMMA InitParamInv == ParamInit => ParamInv
<1> SUFFICES ASSUME ParamInit PROVE ParamInv
  OBVIOUS
<1>1. params \in Params /\ Len(params) = 0 /\ nVar = 0 /\ DOMAIN varNums = {}
  BY DEF ParamInit, Params
<1>2. MarkersFixed
  BY DEF ParamInit, Init, MarkersFixed
<1>3. CounterInv /\ NamesInv
  BY <1>1, IntMaxAssumption DEF CounterInv, NamesInv
<1>4. OneNumberPerName /\ OnePastTheHighest
  BY <1>1 DEF OneNumberPerName, OnePastTheHighest
<1> QED
  BY <1>1, <1>2, <1>3, <1>4 DEF ParamInv

LEMMA ParamInvStutters ==
  ASSUME ParamInv, UNCHANGED <<toks, binding>>
  PROVE  ParamInv'
<1>1. /\ toks' = toks /\ raw' = raw /\ nVar' = nVar /\ varNums' = varNums
      /\ params' = params
  BY DEF binding
<1> QED
  BY <1>1 DEF ParamInv, MarkersFixed, CounterInv, NamesInv, Exhausted,
     OneNumberPerName, OnePastTheHighest

(* No step of the parser touches its tokens.                               *)
LEMMA TokensStay == [Next]_vars => toks' = toks
BY DEF Next, Unbound, vars, Consume, BindRegister, Enter, Leave, BodySyntaxError, ScriptEnd,
   EmptyStatement, BeginStatement, Explained, ExpectPlan, Dispatch, EndStatement, EndExpr,
   Returned, Fail, cursor

(* A step that numbers a parameter, and one that does not, is a step of    *)
(* the parser that knows nothing of parameters.                            *)
LEMMA ParamStep == [ParamNext]_paramVars => [Next]_vars
BY DEF ParamNext, Bind, Next, Unbound, paramVars

LEMMA ParamInvStep == ParamInv /\ [ParamNext]_paramVars => ParamInv'
<1> SUFFICES ASSUME ParamInv, [ParamNext]_paramVars PROVE ParamInv'
  OBVIOUS
<1>1. toks' = toks
  BY ParamStep, TokensStay
<1>2. CASE Bind /\ result' = Running
  <2>1. raw[i] \in Marker /\ bindParam(raw[i]) /\ raw' = raw
    BY <1>2, VariablesAssumption, MarkersAssumption DEF Bind, ParamInv, MarkersFixed
  <2> QED
    BY <1>1, <2>1, AnonymousStep, ExplicitStep, KnownStep, NewStep DEF bindParam
<1>3. CASE Bind /\ result' # Running
  BY <1>1, <1>3, ParamInvStutters DEF Bind, binding
<1>4. CASE UNCHANGED binding
  BY <1>1, <1>4, ParamInvStutters
<1> QED
  BY <1>2, <1>3, <1>4 DEF ParamNext, paramVars

(* Numbering parameters changes nothing in what the parser accepts, reads  *)
(* and reports: every property proved of Spec holds with it.               *)
THEOREM ParamRefinement == ParamSpec => Spec
<1>1. ParamInit => Init
  BY DEF ParamInit
<1>2. [ParamNext]_paramVars => [Next]_vars
  BY ParamStep
<1> QED
  BY <1>1, <1>2, PTL DEF ParamSpec, Spec

(* Throughout a script a name has one number, and no other name has it,    *)
(* as long as no marker has used the largest int.                          *)
THEOREM NamesAreNumbered == ParamSpec => []OneNumberPerName
<1>1. ParamInv => OneNumberPerName
  BY DEF ParamInv
<1> QED
  BY <1>1, InitParamInv, ParamInvStep, PTL DEF ParamSpec

(* A new parameter and every "?" is one past the highest number used so    *)
(* far.                                                                    *)
THEOREM NumbersClimb == ParamSpec => []OnePastTheHighest
<1>1. ParamInv => OnePastTheHighest
  BY DEF ParamInv
<1> QED
  BY <1>1, InitParamInv, ParamInvStep, PTL DEF ParamSpec
====
