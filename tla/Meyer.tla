---- MODULE Meyer ----
(***************************************************************************)
(* The parser of meyer reading an input one token at a time. It runs on    *)
(* each token until it must see the next one; the states keep no history,  *)
(* so they are those of inputs of every length.                            *)
(***************************************************************************)
EXTENDS Descent

VARIABLES stack,    \* what the active functions have left to do
          window,   \* the tokens given and not consumed
          depth,    \* p.depth
          deferred, \* a deferred error is pending
          built,    \* the nodes built since the last consumed token
          verdict   \* "running", or how the parse ended

meyer == <<stack, window, depth, deferred, built, verdict>>

MeyerInit ==
  /\ stack = <<"parseScript">>
  /\ window = <<>>
  /\ depth = 0
  /\ deferred = FALSE
  /\ built = <<>>
  /\ verdict = "running"

(* There is a token to give.                                               *)
Reading == verdict = "running" /\ (window # <<>> => window[Len(window)] # "EOF")

(* What it does once it is given token t.                                  *)
Given(t) ==
  Run([ stk |-> stack, win |-> Append(window, t), nesting |-> depth, pending |-> deferred,
        built |-> built, verdict |-> verdict, eaten |-> <<>> ])

(* What is left of p: with the verdict the parser is discarded.            *)
Becomes(p) ==
  /\ verdict' = IF p.verdict = "waits" THEN "running" ELSE p.verdict
  /\ IF p.verdict = "waits"
       THEN /\ stack' = p.stk /\ window' = p.win /\ depth' = p.nesting
            /\ deferred' = p.pending /\ built' = p.built
       ELSE /\ stack' = <<>> /\ window' = <<>> /\ depth' = 0
            /\ deferred' = FALSE /\ built' = <<>>

MeyerNext == \E t \in Kinds : Reading /\ Becomes(Given(t))

MeyerSpec == MeyerInit /\ [][MeyerNext]_meyer

---------------------------------------------------------------------------

(* Types; meyer never waits for more than two tokens behind the lookahead, *)
(* and recurses no deeper than its limit.                                  *)
TypeOK ==
  /\ depth \in 0 .. MaxDepth
  /\ Len(window) <= 2
  /\ stack \in Seq(DOMAIN Symbol)
  /\ verdict \in {"running", "ok", "syntax", "action", "illegal", "limit", "endless"}

(* Whatever the input, meyer asks for another token or ends: no parse      *)
(* function loops without consuming one. advance does not move at the end  *)
(* of the input (parser.go), so a loop that consumes whatever comes must   *)
(* look for it.                                                            *)
NeverEndless == verdict # "endless"

(* How often sym occurs on the stack of meyer.                             *)
Active(sym) == Cardinality({n \in DOMAIN stack : stack[n] = sym})

(* enter and leave pair up on every path through the functions between     *)
(* them: p.depth is the number of recursive functions that are active, so  *)
(* a long script of shallow statements never meets the recursion limit.    *)
NestingPaired == depth = Active("leave")

(* The limit bounds the recursion: no more common table expressions can be *)
(* open, each in the one before, than p.depth may count.                   *)
NestingCounted == Active("CTE") <= MaxDepth + 1
====
