---- MODULE Lockstep ----
(***************************************************************************)
(* meyer and the LALR parser of SQLite reading the same input, one token   *)
(* at a time. The states keep no history, so the runs cover inputs of      *)
(* every length over Alphabet whose nesting stays within MaxDepth.         *)
(***************************************************************************)
EXTENDS Meyer, Lemon

CONSTANT MaxStack   \* bounds both stacks: a WITH in a WITH is not counted in depth,
                    \* and the rule for upsert is right recursive

VARIABLES engine,   \* SQLite: the LALR engine
          last,     \*   the last token it handled: "", "SEMI" or "other"
          agree     \* both built the same nodes before each token of the step

vars == <<meyer, engine, last, agree>>

Init ==
  /\ MeyerInit
  /\ engine = EngineInit
  /\ last = ""
  /\ agree = TRUE

(* The engine handles the tokens meyer consumed; same: each time with the  *)
(* reductions meyer built nodes for.                                       *)
RECURSIVE HandleAll(_, _, _)
HandleAll(a, r, eaten) ==
  IF eaten = <<>> \/ r.engine.outcome # "running" THEN r
  ELSE LET e == Handle(a, r.engine, Head(eaten).token)
       IN HandleAll(a,
                    [ engine |-> [e EXCEPT !.nodes = <<>>],
                      same |-> r.same /\ e.nodes = Head(eaten).nodes,
                      last |-> Head(eaten).token ],
                    Tail(eaten))

(* The lookahead meyer's verdict is about.                                 *)
HandleLookahead(a, r, p) ==
  IF r.engine.outcome # "running" \/ p.verdict \notin {"ok", "syntax", "action"} THEN r.engine
  ELSE IF Head(p.win) = "EOF" THEN HandleEnd(a, r.engine, r.last)
  ELSE Handle(a, r.engine, Head(p.win))

InBounds == Len(stack) <= MaxStack /\ Len(engine.states) <= MaxStack

Read(a, t) ==
  /\ Reading
  /\ InBounds
  /\ \E p \in {Given(t)} :
     \E r \in {HandleAll(a, [engine |-> engine, same |-> TRUE, last |-> last], p.eaten)} :
     \E e \in {HandleLookahead(a, r, p)} :
        /\ Becomes(p)
        /\ agree' = r.same
        /\ last' = IF r.last \in {"", "SEMI"} THEN r.last ELSE "other"
        /\ engine' = IF p.verdict = "waits" THEN e ELSE Halt(EngineInit, e.outcome)

(* Both parsers are discarded with the verdict. One that is "endless" has  *)
(* no successor.                                                           *)
Done == (verdict \notin {"running", "endless"} \/ ~ InBounds) /\ UNCHANGED vars

Next == (\E t \in Kinds : Read(Automaton, t)) \/ Done

Spec == Init /\ [][Next]_vars

---------------------------------------------------------------------------

(* meyer accepts exactly what SQLite accepts, rejects the rest with the    *)
(* same kind of error, and at the same token: while it reads on, SQLite    *)
(* has found no fault in the tokens consumed.                              *)
SameVerdict ==
  engine.outcome = IF verdict \in {"ok", "syntax", "action"} THEN verdict ELSE "running"

(* The two syntax trees have the same shape: between any two tokens meyer  *)
(* builds the nodes of the rules SQLite reduces by, in the same order.     *)
SameTree == verdict = "syntax" \/ agree
====
