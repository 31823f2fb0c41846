---- MODULE RunParser ----
(***************************************************************************)
(* What sqlite3RunParser promises about the error of a rejected input,     *)
(* whatever the grammar: tokens are read one at a time, an illegal one     *)
(* ends the loop before the grammar sees it, and an error raised by a      *)
(* grammar action ends it only when the token being handled is finished.   *)
(* One step is one token handed to the LALR engine.                        *)
(***************************************************************************)
EXTENDS Integers, Sequences

CONSTANT Streams      \* the token sequences the tokenizer may produce

VARIABLES toks,       \* the tokens of the input, the last one "EOF"
          at,         \* index of the token last read
          outcome     \* Running until the loop is left

vars == <<toks, at, outcome>>

Running     == [kind |-> "running", tok |-> 0]
Accepted    == [kind |-> "ok", tok |-> 0]
Illegal(j)  == [kind |-> "illegal", tok |-> j]   \* unrecognized token
Syntax(j)   == [kind |-> "syntax", tok |-> j]    \* near "X", or incomplete input
Action(j)   == [kind |-> "action", tok |-> j]    \* raised by a grammar action
Overflow(j) == [kind |-> "overflow", tok |-> j]  \* Recursion limit

(* The token at index j has been read: the engine gets it only if it is    *)
(* legal.                                                                  *)
AfterRead(s, j) == IF s[j] = "ILLEGAL" THEN Illegal(j) ELSE Running

Init ==
  /\ toks \in Streams
  /\ at = 1
  /\ outcome = AfterRead(toks, 1)

(* The token is shifted without an error and the next one is read.         *)
Shift ==
  /\ outcome = Running
  /\ at < Len(toks)
  /\ at' = at + 1
  /\ outcome' = AfterRead(toks, at + 1)
  /\ UNCHANGED toks

(* A register reference "#NNN" is the only source of an action error: it   *)
(* is raised when the token after it makes the engine reduce               *)
(* "expr ::= VARIABLE", and stops the loop once that token is handled.     *)
ActionError ==
  /\ outcome = Running
  /\ at > 1
  /\ toks[at - 1] = "REG"
  /\ outcome' = Action(at - 1)
  /\ UNCHANGED <<toks, at>>

(* The engine has no action for the token: this overtakes an action error  *)
(* raised on the way.                                                      *)
SyntaxError ==
  /\ outcome = Running
  /\ outcome' = Syntax(at)
  /\ UNCHANGED <<toks, at>>

StackOverflow ==
  /\ outcome = Running
  /\ outcome' = Overflow(at)
  /\ UNCHANGED <<toks, at>>

(* The end of the input completes the last statement.                      *)
Accept ==
  /\ outcome = Running
  /\ at = Len(toks)
  /\ outcome' = Accepted
  /\ UNCHANGED <<toks, at>>

Next == Shift \/ ActionError \/ SyntaxError \/ StackOverflow \/ Accept

Spec == Init /\ [][Next]_vars
====
