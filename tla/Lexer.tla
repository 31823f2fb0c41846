---- MODULE Lexer ----
(***************************************************************************)
(* lex (lexer/lexer.go): one pass that scans the whole source into tokens  *)
(* and trivia, a second one over the tokens that resolves WINDOW, OVER and *)
(* FILTER in place, and then the parser that takes the tokens one by one.  *)
(* SQLite does all of it token by token (module TokenLoop).                *)
(*                                                                         *)
(* Positions start at 1, and a token ends before its stop. scan is a       *)
(* constant here, so that what is proved holds for any scanner.            *)
(***************************************************************************)
EXTENDS Integers, Sequences

CONSTANTS Sources,          \* the inputs, each a sequence of bytes
          TokenKinds,       \* the kinds of tokens, "none" before the first
          Scan(_, _),       \* lexer.scan: kind, and position after the token
          NextToken(_, _)   \* sqlite3GetToken, for the refinement

ASSUME SourcesAssumption == \A s \in Sources : s \in Seq(STRING)
ASSUME TokenKindsAssumption == {"none", "EOF", "ID", "WINDOW", "OVER", "FILTER"} \subseteq TokenKinds

(* A scanner never goes back, nor past the end of the source.              *)
ASSUME ScanAssumption ==
  \A s \in Sources : \A p \in 1 .. Len(s) :
    Scan(s, p) \in [kind : TokenKinds, stop : p .. Len(s) + 1]

VARIABLES src,        \* the source
          i,          \* position of the next token
          toks,       \* the tokens so far
          trivia,     \* the spaces and comments so far
          ambiguous,  \* a kind to resolve has turned up
          k,          \* number of tokens resolved
          prev,       \* kind of the last token resolved
          pc,         \* "lex", "resolve", "parse" or "done"
          read        \* number of tokens the parser has taken

vars == <<src, i, toks, trivia, ambiguous, k, prev, pc, read>>

SQLite == INSTANCE TokenLoop WITH
            zSql            <- IF read = 0 THEN 1 ELSE toks[read].stop,
            lastTokenParsed <- IF read = 0 THEN "none" ELSE toks[read].kind,
            handed          <- SubSeq(toks, 1, read),
            over            <- pc = "done"

Contextual == {"WINDOW", "OVER", "FILTER"}
Trivial    == {"SPACE", "COMMENT"}

Span(kind, pos, stop) == [kind |-> kind, pos |-> pos, stop |-> stop]

Init ==
  /\ src \in Sources
  /\ i = 1
  /\ toks = <<>>
  /\ trivia = <<>>
  /\ ambiguous = FALSE
  /\ k = 0
  /\ prev = "none"
  /\ pc = "lex"
  /\ read = 0

AtEnd == i \in 1 .. Len(src) => Scan(src, i).kind = "EOF"

(* if n == 0 { n = 1 }                                                     *)
Stop(p, t) == IF t.stop = p THEN p + 1 ELSE t.stop

(* Mutant of LexOne: only comments are kept.                               *)
LexOneNoSpace ==
  /\ pc = "lex"
  /\ ~AtEnd
  /\ \E t \in {Scan(src, i)} :
       /\ i' = Stop(i, t)
       /\ IF t.kind \in Trivial
            THEN /\ trivia' = IF t.kind = "COMMENT" THEN Append(trivia, Span(t.kind, i, i')) ELSE trivia
                 /\ UNCHANGED <<toks, ambiguous>>
            ELSE /\ toks' = Append(toks, Span(t.kind, i, i'))
                 /\ ambiguous' = (ambiguous \/ t.kind \in Contextual)
                 /\ UNCHANGED trivia
  /\ UNCHANGED <<src, k, prev, pc, read>>

(* One round of the loop.                                                  *)
LexOne ==
  /\ pc = "lex"
  /\ ~AtEnd
  /\ \E t \in {Scan(src, i)} :
       /\ i' = Stop(i, t)
       /\ IF t.kind \in Trivial
            THEN /\ trivia' = Append(trivia, Span(t.kind, i, i'))
                 /\ UNCHANGED <<toks, ambiguous>>
            ELSE /\ toks' = Append(toks, Span(t.kind, i, i'))
                 /\ ambiguous' = (ambiguous \/ t.kind \in Contextual)
                 /\ UNCHANGED trivia
  /\ UNCHANGED <<src, k, prev, pc, read>>

WithEOF == Append(toks, Span("EOF", i, i))

LexEnd ==
  /\ pc = "lex"
  /\ AtEnd
  /\ IF ambiguous
       THEN pc' = "resolve" /\ UNCHANGED toks
       ELSE pc' = "parse" /\ toks' = WithEOF
  /\ UNCHANGED <<src, i, trivia, ambiguous, k, prev, read>>

(* The helpers of resolveWindowKeywords.                                   *)
Kind(n) == IF n \in 1 .. Len(toks) THEN toks[n].kind ELSE "EOF"
AsID(kind) == SQLite!Folded(kind)

(* Mutant of Resolved: the token before is taken from the raw kinds.       *)
ResolvedByRaw(n) ==
  CASE Kind(n) = "WINDOW" -> IF AsID(Kind(n + 1)) = "ID" /\ Kind(n + 2) = "AS" THEN "WINDOW" ELSE "ID"
    [] Kind(n) = "OVER"   -> IF Kind(n + 1) = "LP" \/ AsID(Kind(n + 1)) = "ID" THEN "OVER" ELSE "ID"
    [] Kind(n) = "FILTER" -> IF prev = "RP" /\ Kind(n + 1) = "LP" THEN "FILTER" ELSE "ID"
    [] OTHER              -> Kind(n)

Resolved(n) ==
  CASE Kind(n) = "WINDOW" -> IF AsID(Kind(n + 1)) = "ID" /\ Kind(n + 2) = "AS" THEN "WINDOW" ELSE "ID"
    [] Kind(n) = "OVER"   -> IF prev = "RP" /\ (Kind(n + 1) = "LP" \/ AsID(Kind(n + 1)) = "ID")
                               THEN "OVER" ELSE "ID"
    [] Kind(n) = "FILTER" -> IF prev = "RP" /\ Kind(n + 1) = "LP" THEN "FILTER" ELSE "ID"
    [] OTHER              -> Kind(n)

(* Mutant of ResolveOne: the loop goes one token too far.                  *)
ResolveOnePast ==
  /\ pc = "resolve"
  /\ k <= Len(toks)
  /\ toks' = [n \in DOMAIN toks |-> IF n = k + 1 THEN [toks[n] EXCEPT !.kind = Resolved(n)] ELSE toks[n]]
  /\ prev' = Resolved(k + 1)
  /\ k' = k + 1
  /\ UNCHANGED <<src, i, trivia, ambiguous, pc, read>>

ResolveOne ==
  /\ pc = "resolve"
  /\ k < Len(toks)
  /\ toks' = [toks EXCEPT ![k + 1].kind = Resolved(k + 1)]
  /\ prev' = Resolved(k + 1)
  /\ k' = k + 1
  /\ UNCHANGED <<src, i, trivia, ambiguous, pc, read>>

ResolveEnd ==
  /\ pc = "resolve"
  /\ k = Len(toks)
  /\ toks' = WithEOF
  /\ pc' = "parse"
  /\ UNCHANGED <<src, i, trivia, ambiguous, k, prev, read>>

(* The parser looks at the next token: an illegal one ends the parse, and  *)
(* so does the end of the input.                                           *)
ParserReads ==
  /\ pc = "parse"
  /\ read < Len(toks)
  /\ read' = read + 1
  /\ pc' = IF toks[read + 1].kind \in {"EOF", "ILLEGAL"} THEN "done" ELSE "parse"
  /\ UNCHANGED <<src, i, toks, trivia, ambiguous, k, prev>>

Done == pc = "done" /\ UNCHANGED vars

Next == LexOne \/ LexEnd \/ ResolveOne \/ ResolveEnd \/ ParserReads \/ Done

Spec == Init /\ [][Next]_vars

---------------------------------------------------------------------------
(* Properties.                                                             *)

Covers(s, p) == \E n \in 1 .. Len(s) : s[n].pos <= p /\ p < s[n].stop
Ordered(s)   == \A m, n \in 1 .. Len(s) : m < n => s[m].stop <= s[n].pos

TokenType == [kind : TokenKinds, pos : Nat, stop : Nat]

(* Types, and the indexes stay inside the slices.                          *)
TypeOK ==
  /\ src \in Seq(STRING)
  /\ toks \in Seq(TokenType)
  /\ trivia \in Seq(TokenType)
  /\ prev \in TokenKinds
  /\ i \in 1 .. Len(src) + 1
  /\ k \in 0 .. Len(toks)
  /\ read \in 0 .. Len(toks)
  /\ ambiguous \in BOOLEAN
  /\ pc \in {"lex", "resolve", "parse", "done"}

(* LexFile's promise: every byte before the position lexed to belongs to   *)
(* exactly one token or trivia span, in order, with no overlap.            *)
TokensTile ==
  /\ Ordered(toks) /\ Ordered(trivia)
  /\ \A p \in 1 .. i - 1 : Covers(toks, p) <=> ~Covers(trivia, p)

(* The resolving pass works in place and by neighbours in the slice; what  *)
(* it makes of each token is what SQLite makes of it from the raw kinds of *)
(* the two tokens behind it and the resolved kind of the one before.       *)
RawKind(n) ==
  IF n \in 1 .. Len(toks) /\ toks[n].pos < toks[n].stop THEN Scan(src, toks[n].pos).kind ELSE "EOF"

StreamedKind(n, last) ==
  CASE RawKind(n) = "WINDOW" ->
         IF AsID(RawKind(n + 1)) = "ID" /\ RawKind(n + 2) = "AS" THEN "WINDOW" ELSE "ID"
    [] RawKind(n) = "OVER" ->
         IF last = "RP" /\ (RawKind(n + 1) = "LP" \/ AsID(RawKind(n + 1)) = "ID") THEN "OVER" ELSE "ID"
    [] RawKind(n) = "FILTER" ->
         IF last = "RP" /\ RawKind(n + 1) = "LP" THEN "FILTER" ELSE "ID"
    [] OTHER -> RawKind(n)

ResolvedAsStreamed ==
  \A n \in 1 .. Len(toks) :
    IF n <= k \/ pc \in {"parse", "done"}
      THEN toks[n].kind = StreamedKind(n, IF n = 1 THEN "none" ELSE toks[n - 1].kind)
      ELSE toks[n].kind = RawKind(n)

(* The parser sees the tokens SQLite's parser is handed, with the same     *)
(* kinds and the same extent, in the same order, and then the end or the   *)
(* same illegal token.                                                     *)
ReadsAsSQLite == SQLite!Spec
====
