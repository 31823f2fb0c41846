---- MODULE TokenLoop ----
(***************************************************************************)
(* The token loop of sqlite3RunParser (internal/reference/tokenize.c): the *)
(* tokens it hands to the parser one at a time, with the three keywords    *)
(* whose kind depends on their neighbours decided by reading ahead in the  *)
(* text. One step is one token handed over, the spaces and comments before *)
(* it skipped.                                                             *)
(***************************************************************************)
EXTENDS Integers, Sequences

CONSTANTS Sources,          \* the inputs, each a sequence of bytes
          NextToken(_, _)   \* the token at a position and the position after it

VARIABLES src,              \* the input
          zSql,             \* position of the next token
          lastTokenParsed,  \* kind of the token handed over last, "none" at first
          handed,           \* the tokens handed over
          over              \* the loop has been left

vars == <<src, zSql, lastTokenParsed, handed, over>>

T == INSTANCE Tokens WITH Alphabet <- {}, UpdateDeleteLimit <- FALSE

(* What getToken makes of a kind: TK_INDEXED and TK_FILTER stay what they  *)
(* are.                                                                    *)
Folds == {"ID", "STRING", "JOIN_KW", "WINDOW", "OVER"} \cup T!FallbackSet
Folded(k) == IF k \in Folds THEN "ID" ELSE k

AtEnd(s, p) == p > Len(s) \/ s[p] = "NUL"
Raw(s, p) == IF AtEnd(s, p) THEN [kind |-> "EOF", stop |-> p] ELSE NextToken(s, p)

(* The position of the first token from p on that is not skipped.          *)
Significant(s, p) ==
  LET f[q \in p .. Len(s) + 1] ==
        IF Raw(s, q).kind \in {"SPACE", "COMMENT"} THEN f[Raw(s, q).stop] ELSE q
  IN f[p]

(* getToken.                                                               *)
getToken(s, p) ==
  LET t == Raw(s, Significant(s, p)) IN [kind |-> Folded(t.kind), stop |-> t.stop]

(* analyzeWindowKeyword, analyzeOverKeyword and analyzeFilterKeyword, with *)
(* p the position after the keyword.                                       *)
IsWindow(s, p) ==
  /\ getToken(s, p).kind = "ID"
  /\ getToken(s, getToken(s, p).stop).kind = "AS"

IsOver(s, p, last)   == last = "RP" /\ getToken(s, p).kind \in {"LP", "ID"}
IsFilter(s, p, last) == last = "RP" /\ getToken(s, p).kind = "LP"

Analyzed(s, t, last) ==
  CASE t.kind = "WINDOW" -> IF IsWindow(s, t.stop) THEN "WINDOW" ELSE "ID"
    [] t.kind = "OVER"   -> IF IsOver(s, t.stop, last) THEN "OVER" ELSE "ID"
    [] t.kind = "FILTER" -> IF IsFilter(s, t.stop, last) THEN "FILTER" ELSE "ID"
    [] OTHER             -> t.kind

Init ==
  /\ src \in Sources
  /\ zSql = 1
  /\ lastTokenParsed = "none"
  /\ handed = <<>>
  /\ over = FALSE

(* An illegal token or the end of the input is the last one.               *)
HandToken ==
  /\ ~over
  /\ \E p \in {Significant(src, zSql)} :
       \E t \in {Raw(src, p)} :
         \E k \in {Analyzed(src, t, lastTokenParsed)} :
           /\ handed' = Append(handed, [kind |-> k, pos |-> p, stop |-> t.stop])
           /\ zSql' = t.stop
           /\ lastTokenParsed' = k
           /\ over' = (k \in {"EOF", "ILLEGAL"})
  /\ UNCHANGED src

Spec == Init /\ [][HandToken]_vars
====
