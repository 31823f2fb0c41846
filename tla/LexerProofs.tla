---- MODULE LexerProofs ----
(***************************************************************************)
(* What holds of the two passes of the lexer for every scanner that never  *)
(* goes back, and every source; that the parser behind them reads what     *)
(* SQLite's token loop hands to its parser; and where the oracle cuts a    *)
(* script that SplitDiffers lets pass.                                     *)
(***************************************************************************)
EXTENDS SplitDiffers, ScannerProofs, SequenceTheorems

(* The spans of a list end before the position lexed to, and cover at      *)
(* least a byte, the mark for the end of the input excepted.               *)
Behind(s) == \A n \in 1 .. Len(s) : 1 <= s[n].pos /\ s[n].pos <= s[n].stop /\ s[n].stop <= i

NoEmpty(s) == \A n \in 1 .. Len(s) : s[n].pos < s[n].stop

(* What the two passes keep between their steps.                           *)
PassInv ==
  /\ pc = "lex" => k = 0 /\ prev = "none"
  /\ pc \in {"lex", "resolve"} => NoEmpty(toks)
  /\ pc = "resolve" => prev = IF k = 0 THEN "none" ELSE toks[k].kind
  /\ pc = "lex" /\ ~ambiguous => \A n \in 1 .. Len(toks) : toks[n].kind \notin Contextual

(* The inductive invariant.                                                *)
LexInv ==
  /\ src \in Sources
  /\ TypeOK
  /\ Behind(toks) /\ Behind(trivia)
  /\ PassInv
  /\ TokensTile
  /\ ResolvedAsStreamed

---------------------------------------------------------------------------

(* The fields of a span.                                                   *)
LEMMA SpanFields ==
  ASSUME NEW s \in Seq(TokenType), NEW n \in 1 .. Len(s)
  PROVE  s[n].kind \in TokenKinds /\ s[n].pos \in Nat /\ s[n].stop \in Nat
<1>1. s[n] \in TokenType
  OBVIOUS
<1> QED
  BY <1>1 DEF TokenType

(* What appending a span to a list does.                                   *)
LEMMA AppendSpan ==
  ASSUME NEW s \in Seq(TokenType), NEW kind \in TokenKinds, NEW a \in Nat, NEW b \in Nat
  PROVE  LET t == Append(s, Span(kind, a, b))
         IN  /\ t \in Seq(TokenType)
             /\ Len(t) = Len(s) + 1 /\ Len(s) \in Nat
             /\ \A n \in 1 .. Len(s) : t[n] = s[n]
             /\ t[Len(s) + 1] = Span(kind, a, b)
             /\ t[Len(s) + 1].kind = kind /\ t[Len(s) + 1].pos = a /\ t[Len(s) + 1].stop = b
<1> DEFINE r == Span(kind, a, b)
<1>1. r \in TokenType /\ r.kind = kind /\ r.pos = a /\ r.stop = b
  BY DEF Span, TokenType
<1> HIDE DEF r
<1>2. /\ Append(s, r) \in Seq(TokenType)
      /\ Len(Append(s, r)) = Len(s) + 1
      /\ \A n \in 1 .. Len(s) : Append(s, r)[n] = s[n]
      /\ Append(s, r)[Len(s) + 1] = r
  BY <1>1, AppendProperties
<1> QED
  BY <1>1, <1>2 DEF r

(* A span appended at the position lexed to covers its own bytes and       *)
(* nothing before them, and keeps the list in order.                       *)
LEMMA AppendCovers ==
  ASSUME NEW s \in Seq(TokenType), Behind(s), Ordered(s), i \in Nat,
         NEW kind \in TokenKinds, NEW b \in Nat, i <= b
  PROVE  LET t == Append(s, Span(kind, i, b))
         IN  /\ Ordered(t)
             /\ \A p \in 1 .. i - 1 : Covers(t, p) <=> Covers(s, p)
             /\ \A p \in i .. b - 1 : Covers(t, p)
<1> DEFINE t == Append(s, Span(kind, i, b))
<1>1. /\ Len(t) = Len(s) + 1 /\ Len(s) \in Nat
      /\ \A n \in 1 .. Len(s) : t[n] = s[n]
      /\ t[Len(s) + 1].pos = i /\ t[Len(s) + 1].stop = b
  BY AppendSpan
<1> HIDE DEF t
<1>2. \A n \in 1 .. Len(s) : s[n].pos \in Nat /\ s[n].stop \in Nat /\ s[n].stop <= i
  BY SpanFields DEF Behind
<1>3. Ordered(t)
  <2> SUFFICES ASSUME NEW m \in 1 .. Len(s) + 1, NEW n \in 1 .. Len(s) + 1, m < n
               PROVE  t[m].stop <= t[n].pos
    BY <1>1 DEF Ordered
  <2>1. m \in 1 .. Len(s) /\ t[m] = s[m]
    BY <1>1
  <2>2. CASE n = Len(s) + 1
    BY <1>1, <1>2, <2>1, <2>2
  <2>3. CASE n # Len(s) + 1
    <3>1. n \in 1 .. Len(s) /\ t[n] = s[n]
      BY <1>1, <2>3
    <3> QED
      BY <2>1, <3>1 DEF Ordered
  <2> QED
    BY <2>2, <2>3
<1>4. \A p \in 1 .. i - 1 : Covers(t, p) <=> Covers(s, p)
  <2> SUFFICES ASSUME NEW p \in 1 .. i - 1 PROVE Covers(t, p) <=> Covers(s, p)
    OBVIOUS
  <2>1. Covers(s, p) => Covers(t, p)
    BY <1>1 DEF Covers
  <2>2. Covers(t, p) => Covers(s, p)
    BY <1>1, <1>2 DEF Covers
  <2> QED
    BY <2>1, <2>2
<1>5. \A p \in i .. b - 1 : Covers(t, p)
  BY <1>1, <1>2 DEF Covers
<1> QED
  BY <1>3, <1>4, <1>5 DEF t

(* The token at the position lexed to is not empty and ends in the source. *)
LEMMA ScanMoves ==
  ASSUME src \in Sources, TypeOK, ~AtEnd
  PROVE  /\ i \in 1 .. Len(src) /\ Len(src) \in Nat
         /\ Scan(src, i).kind \in TokenKinds /\ Scan(src, i).kind # "EOF"
         /\ Stop(i, Scan(src, i)) \in i + 1 .. Len(src) + 1
<1>1. i \in 1 .. Len(src) /\ Scan(src, i).kind # "EOF"
  BY DEF AtEnd
<1>2. src \in Sources /\ Len(src) \in Nat
  BY SourcesAssumption
<1>3. Scan(src, i) \in [kind : TokenKinds, stop : i .. Len(src) + 1]
  BY <1>1, <1>2, ScanAssumption
<1> QED
  BY <1>1, <1>2, <1>3 DEF Stop

(* What RawKind and StreamedKind see of a token is where it starts.        *)
LEMMA RawKindKept ==
  ASSUME Len(toks) \in Nat, Len(toks') \in Nat, src' = src,
         NEW n \in 1 .. Len(toks), n \in 1 .. Len(toks'),
         toks'[n].pos = toks[n].pos, toks'[n].stop = toks[n].stop
  PROVE  RawKind(n)' = RawKind(n)
BY DEF RawKind

LEMMA InitLexInv == Init => LexInv
<1> SUFFICES ASSUME Init PROVE LexInv
  OBVIOUS
<1>1. src \in Sources /\ src \in Seq(STRING) /\ Len(src) \in Nat
  BY SourcesAssumption DEF Init
<1>2. Len(toks) = 0 /\ Len(trivia) = 0 /\ toks \in Seq(TokenType) /\ trivia \in Seq(TokenType)
  BY DEF Init
<1>3. TypeOK
  <2>1. ambiguous \in BOOLEAN
    BY Zenon DEF Init
  <2>2. i = 1 /\ k = 0 /\ read = 0 /\ prev = "none" /\ pc = "lex"
    BY Zenon DEF Init
  <2>3. /\ src \in Seq(STRING) /\ i \in 1 .. Len(src) + 1
        /\ k \in 0 .. Len(toks) /\ read \in 0 .. Len(toks)
    BY <1>1, <1>2, <2>2
  <2>4. prev \in TokenKinds
    BY <2>2, TokenKindsAssumption
  <2>5. pc \in {"lex", "resolve", "parse", "done"}
    BY <2>2
  <2> QED
    BY <1>2, <2>1, <2>3, <2>4, <2>5, Zenon DEF TypeOK
<1>4. Behind(toks) /\ Behind(trivia) /\ PassInv
  BY <1>2 DEF Init, Behind, PassInv, NoEmpty
<1>5. TokensTile /\ ResolvedAsStreamed
  BY <1>2 DEF Init, TokensTile, ResolvedAsStreamed, Ordered
<1> QED
  BY <1>1, <1>3, <1>4, <1>5 DEF LexInv

---------------------------------------------------------------------------

(* One more span at the position lexed to, in one of two lists.            *)
LEMMA OneMoreSpan ==
  ASSUME NEW s \in Seq(TokenType), NEW o \in Seq(TokenType), Behind(s), Behind(o),
         Ordered(s), i \in Nat \ {0}, NEW kind \in TokenKinds, NEW b \in Nat, i < b,
         \A p \in 1 .. i - 1 : Covers(s, p) <=> ~Covers(o, p)
  PROVE  LET t == Append(s, Span(kind, i, b))
         IN  /\ t \in Seq(TokenType) /\ Ordered(t)
             /\ \A p \in 1 .. b - 1 : Covers(t, p) <=> ~Covers(o, p)
             /\ \A n \in 1 .. Len(t) : 1 <= t[n].pos /\ t[n].pos <= t[n].stop /\ t[n].stop <= b
             /\ \A n \in 1 .. Len(o) : 1 <= o[n].pos /\ o[n].pos <= o[n].stop /\ o[n].stop <= b
<1> DEFINE t == Append(s, Span(kind, i, b))
<1>1. /\ t \in Seq(TokenType) /\ Len(t) = Len(s) + 1 /\ Len(s) \in Nat
      /\ \A n \in 1 .. Len(s) : t[n] = s[n]
      /\ t[Len(s) + 1].pos = i /\ t[Len(s) + 1].stop = b
  BY AppendSpan
<1>2. /\ Ordered(t)
      /\ \A p \in 1 .. i - 1 : Covers(t, p) <=> Covers(s, p)
      /\ \A p \in i .. b - 1 : Covers(t, p)
  <2>1. i \in Nat /\ i <= b
    OBVIOUS
  <2> QED
    BY <2>1, AppendCovers
<1> HIDE DEF t
<1>3. \A n \in 1 .. Len(s) : s[n].pos \in Nat /\ s[n].stop \in Nat
  BY SpanFields
<1>4. \A n \in 1 .. Len(o) : o[n].pos \in Nat /\ o[n].stop \in Nat
  BY SpanFields
<1>5. \A p \in i .. b - 1 : ~Covers(o, p)
  BY <1>4 DEF Behind, Covers
<1>6. \A p \in 1 .. b - 1 : Covers(t, p) <=> ~Covers(o, p)
  <2> SUFFICES ASSUME NEW p \in 1 .. b - 1 PROVE Covers(t, p) <=> ~Covers(o, p)
    OBVIOUS
  <2>1. CASE p < i
    <3>1. p \in 1 .. i - 1
      BY <2>1
    <3> QED
      BY <1>2, <3>1, Zenon
  <2>2. CASE ~(p < i)
    <3>1. p \in i .. b - 1
      BY <2>2
    <3> QED
      BY <1>2, <1>5, <3>1, Zenon
  <2> QED
    BY <2>1, <2>2
<1>7. \A n \in 1 .. Len(t) : 1 <= t[n].pos /\ t[n].pos <= t[n].stop /\ t[n].stop <= b
  BY <1>1, <1>3 DEF Behind
<1>8. \A n \in 1 .. Len(o) : 1 <= o[n].pos /\ o[n].pos <= o[n].stop /\ o[n].stop <= b
  BY <1>4 DEF Behind
<1> QED
  BY <1>1, <1>2, <1>6, <1>7, <1>8 DEF t

LEMMA LexOneTile ==
  ASSUME LexInv, LexOne
  PROVE  (src \in Sources)' /\ TypeOK' /\ Behind(toks)' /\ Behind(trivia)' /\ TokensTile'
<1> DEFINE kind == Scan(src, i).kind
<1>1. /\ i \in 1 .. Len(src) /\ Len(src) \in Nat /\ kind \in TokenKinds
      /\ i' \in i + 1 .. Len(src) + 1
      /\ IF kind \in Trivial
           THEN trivia' = Append(trivia, Span(kind, i, i')) /\ toks' = toks /\ ambiguous' = ambiguous
           ELSE /\ toks' = Append(toks, Span(kind, i, i')) /\ trivia' = trivia
                /\ ambiguous' = (ambiguous \/ kind \in Contextual)
      /\ UNCHANGED <<src, k, prev, pc, read>>
  BY ScanMoves DEF LexInv, LexOne
<1>2. /\ toks \in Seq(TokenType) /\ trivia \in Seq(TokenType)
      /\ Behind(toks) /\ Behind(trivia) /\ Ordered(toks) /\ Ordered(trivia)
      /\ \A p \in 1 .. i - 1 : Covers(toks, p) <=> ~Covers(trivia, p)
      /\ \A p \in 1 .. i - 1 : Covers(trivia, p) <=> ~Covers(toks, p)
  BY DEF LexInv, TypeOK, TokensTile
<1>3. i \in Nat \ {0} /\ i' \in Nat /\ i < i'
  BY <1>1
<1>4. ambiguous' \in BOOLEAN
  BY <1>1, Zenon DEF LexInv, TypeOK
<1>5. (src \in Sources)'
  BY <1>1 DEF LexInv
<1> HIDE DEF kind
<1>6. CASE kind \in Trivial
  <2>1. trivia' = Append(trivia, Span(kind, i, i')) /\ toks' = toks
    BY <1>1, <1>6
  <2>2. /\ trivia' \in Seq(TokenType) /\ Ordered(trivia')
        /\ \A p \in 1 .. i' - 1 : Covers(trivia', p) <=> ~Covers(toks, p)
        /\ \A n \in 1 .. Len(trivia') : /\ 1 <= trivia'[n].pos /\ trivia'[n].pos <= trivia'[n].stop
                                        /\ trivia'[n].stop <= i'
        /\ \A n \in 1 .. Len(toks) : /\ 1 <= toks[n].pos /\ toks[n].pos <= toks[n].stop
                                     /\ toks[n].stop <= i'
    BY <1>1, <1>2, <1>3, <2>1, OneMoreSpan, Zenon
  <2>3. TypeOK'
    BY <1>1, <1>2, <1>4, <2>1, <2>2 DEF LexInv, TypeOK
  <2> QED
    BY <1>2, <1>5, <2>1, <2>2, <2>3 DEF TokensTile, Behind
<1>7. CASE kind \notin Trivial
  <2>1. toks' = Append(toks, Span(kind, i, i')) /\ trivia' = trivia
    BY <1>1, <1>7
  <2>2. /\ toks' \in Seq(TokenType) /\ Ordered(toks')
        /\ \A p \in 1 .. i' - 1 : Covers(toks', p) <=> ~Covers(trivia, p)
        /\ \A n \in 1 .. Len(toks') : /\ 1 <= toks'[n].pos /\ toks'[n].pos <= toks'[n].stop
                                      /\ toks'[n].stop <= i'
        /\ \A n \in 1 .. Len(trivia) : /\ 1 <= trivia[n].pos /\ trivia[n].pos <= trivia[n].stop
                                       /\ trivia[n].stop <= i'
    BY <1>1, <1>2, <1>3, <2>1, OneMoreSpan, Zenon
  <2>3. Len(toks') = Len(toks) + 1 /\ Len(toks) \in Nat
    BY <1>1, <1>2, <1>3, <2>1, AppendSpan
  <2>4. TypeOK'
    BY <1>1, <1>2, <1>4, <2>1, <2>2, <2>3 DEF LexInv, TypeOK
  <2> QED
    BY <1>2, <1>5, <2>1, <2>2, <2>4 DEF TokensTile, Behind
<1> QED
  BY <1>6, <1>7

LEMMA LexOneKinds ==
  ASSUME LexInv, LexOne
  PROVE  PassInv' /\ ResolvedAsStreamed'
<1> DEFINE kind == Scan(src, i).kind
<1>1. /\ pc = "lex" /\ pc' = "lex" /\ k = 0 /\ k' = 0 /\ prev' = "none" /\ src' = src
      /\ kind \in TokenKinds /\ i \in Nat /\ i' \in Nat /\ i < i'
      /\ toks \in Seq(TokenType) /\ Len(toks) \in Nat
  BY ScanMoves DEF LexInv, TypeOK, PassInv, LexOne
<1>2. \A m \in 1 .. Len(toks) : toks[m].kind = RawKind(m) /\ toks[m].pos < toks[m].stop
  BY <1>1 DEF LexInv, ResolvedAsStreamed, PassInv, NoEmpty
<1>3. ~ambiguous => \A m \in 1 .. Len(toks) : toks[m].kind \notin Contextual
  BY <1>1 DEF LexInv, PassInv
<1> HIDE DEF kind
<1>4. CASE kind \in Trivial
  <2>1. toks' = toks /\ ambiguous' = ambiguous
    BY <1>4 DEF LexOne, kind
  <2>2. \A m \in 1 .. Len(toks) : RawKind(m)' = RawKind(m)
    BY <1>1, <2>1, RawKindKept
  <2>3. \A m \in 1 .. Len(toks') : toks'[m].kind = RawKind(m)'
    BY <1>2, <2>1, <2>2
  <2> QED
    BY <1>1, <1>2, <1>3, <2>1, <2>3 DEF PassInv, NoEmpty, ResolvedAsStreamed
<1>5. CASE kind \notin Trivial
  <2>1. toks' = Append(toks, Span(kind, i, i'))
    BY <1>5 DEF LexOne, kind
  <2>1a. ~ambiguous' => ~ambiguous /\ kind \notin Contextual
    BY <1>5 DEF LexOne, kind
  <2>2. /\ Len(toks') = Len(toks) + 1
        /\ \A m \in 1 .. Len(toks) : toks'[m] = toks[m]
        /\ toks'[Len(toks) + 1].kind = kind /\ toks'[Len(toks) + 1].pos = i /\ toks'[Len(toks) + 1].stop = i'
    BY <1>1, <2>1, AppendSpan
  <2>3. \A m \in 1 .. Len(toks) : RawKind(m)' = RawKind(m)
    BY <1>1, <2>2, RawKindKept
  <2>4. RawKind(Len(toks))' = kind
    BY <1>1, <2>2 DEF RawKind, kind
  <2>5. \A m \in 1 .. Len(toks') : toks'[m].kind = RawKind(m)' /\ toks'[m].pos < toks'[m].stop
    BY <1>1, <1>2, <2>2, <2>3, <2>4
  <2>6. ~ambiguous' => \A m \in 1 .. Len(toks') : toks'[m].kind \notin Contextual
    BY <1>1, <1>3, <2>1a, <2>2
  <2> QED
    BY <1>1, <2>5, <2>6 DEF PassInv, NoEmpty, ResolvedAsStreamed
<1> QED
  BY <1>4, <1>5

(* Once every token is resolved, the mark for the end of the input changes *)
(* nothing for the others.                                                 *)
LEMMA EOFStep ==
  ASSUME LexInv, toks' = WithEOF, pc' = "parse", pc \in {"lex", "resolve"},
         UNCHANGED <<src, i, trivia, ambiguous, k, prev, read>>,
         \A n \in 1 .. Len(toks) :
           toks[n].kind = StreamedKind(n, IF n = 1 THEN "none" ELSE toks[n - 1].kind)
  PROVE  LexInv'
<1>1. /\ toks \in Seq(TokenType) /\ trivia \in Seq(TokenType) /\ Len(toks) \in Nat
      /\ i \in Nat /\ 1 <= i /\ "EOF" \in TokenKinds
      /\ i' = i /\ src' = src /\ trivia' = trivia
  BY SourcesAssumption, TokenKindsAssumption DEF LexInv, TypeOK
<1>2. /\ toks' \in Seq(TokenType) /\ Len(toks') = Len(toks) + 1
      /\ \A n \in 1 .. Len(toks) : toks'[n] = toks[n]
      /\ toks'[Len(toks) + 1].kind = "EOF"
      /\ toks'[Len(toks) + 1].pos = i /\ toks'[Len(toks) + 1].stop = i
  BY <1>1, AppendSpan DEF WithEOF
<1>3. TypeOK'
  <2>1. ambiguous' \in BOOLEAN
    BY Zenon DEF LexInv, TypeOK
  <2> QED
    BY <1>1, <1>2, <2>1 DEF LexInv, TypeOK
<1>4. Behind(toks)' /\ Behind(trivia)'
  BY <1>1, <1>2 DEF LexInv, Behind
<1>5. PassInv'
  BY DEF PassInv
<1>6. TokensTile'
  <2>1. /\ Ordered(toks') /\ Ordered(trivia')
        /\ \A p \in 1 .. i - 1 : Covers(toks', p) <=> Covers(toks, p)
    BY <1>1, AppendCovers DEF LexInv, TokensTile, WithEOF
  <2> QED
    BY <1>1, <2>1 DEF LexInv, TokensTile
<1>7. ResolvedAsStreamed'
  <2>1. \A n \in 1 .. Len(toks) : RawKind(n)' = RawKind(n)
    BY <1>1, <1>2, RawKindKept
  <2>2. \A n \in Nat \ {0} : n > Len(toks) => RawKind(n) = "EOF" /\ RawKind(n)' = "EOF"
    BY <1>1, <1>2 DEF RawKind
  <2>3. \A n \in Nat \ {0} : RawKind(n)' = RawKind(n)
    BY <1>1, <2>1, <2>2
  <2>4. ASSUME NEW n \in 1 .. Len(toks')
        PROVE  toks'[n].kind = StreamedKind(n, IF n = 1 THEN "none" ELSE toks[n - 1].kind)'
    <3>1. RawKind(n)' = RawKind(n) /\ RawKind(n + 1)' = RawKind(n + 1) /\ RawKind(n + 2)' = RawKind(n + 2)
      BY <1>1, <1>2, <2>3
    <3>2. CASE n = Len(toks) + 1
      <4>1. RawKind(n)' = "EOF" /\ toks'[n].kind = "EOF"
        BY <1>1, <1>2, <2>2, <3>2
      <4> QED
        BY <4>1 DEF StreamedKind
    <3>3. CASE n # Len(toks) + 1
      <4>1. n \in 1 .. Len(toks) /\ toks'[n] = toks[n] /\ (n # 1 => toks'[n - 1] = toks[n - 1])
        BY <1>1, <1>2, <3>3
      <4>2. toks[n].kind = StreamedKind(n, IF n = 1 THEN "none" ELSE toks[n - 1].kind)
        BY <4>1
      <4> QED
        BY <3>1, <4>1, <4>2 DEF StreamedKind
    <3> QED
      BY <3>2, <3>3
  <2> QED
    BY <2>4 DEF ResolvedAsStreamed
<1> QED
  BY <1>1, <1>3, <1>4, <1>5, <1>6, <1>7 DEF LexInv

LEMMA LexEndStep ==
  ASSUME LexInv, LexEnd
  PROVE  LexInv'
<1>1. pc = "lex" /\ k = 0 /\ prev = "none" /\ NoEmpty(toks)
  BY DEF LexInv, PassInv, LexEnd
<1>2. UNCHANGED <<src, i, trivia, ambiguous, k, prev, read>>
  BY DEF LexEnd
<1>3. \A n \in 1 .. Len(toks) : toks[n].kind = RawKind(n)
  BY <1>1 DEF LexInv, ResolvedAsStreamed, TypeOK
<1>4. CASE ambiguous
  <2>1. pc' = "resolve" /\ toks' = toks
    BY <1>4 DEF LexEnd
  <2>2. TypeOK'
    <3>1. ambiguous' \in BOOLEAN
      BY <1>2, Zenon DEF LexInv, TypeOK
    <3> QED
      BY <1>2, <2>1, <3>1 DEF LexInv, TypeOK
  <2>3. \A n \in 1 .. Len(toks) : RawKind(n)' = RawKind(n)
    BY <1>2, <2>1 DEF RawKind
  <2>4. Behind(toks)' /\ Behind(trivia)' /\ TokensTile'
    BY <1>2, <2>1 DEF LexInv, Behind, TokensTile
  <2>5. PassInv' /\ ResolvedAsStreamed'
    BY <1>1, <1>2, <1>3, <2>1, <2>3 DEF PassInv, NoEmpty, ResolvedAsStreamed
  <2> QED
    BY <1>2, <2>2, <2>4, <2>5 DEF LexInv
<1>5. CASE ~ambiguous
  <2>1. pc' = "parse" /\ toks' = WithEOF
    BY <1>5 DEF LexEnd
  <2>2. \A n \in 1 .. Len(toks) : toks[n].kind \notin Contextual
    BY <1>1, <1>5 DEF LexInv, PassInv
  <2>3. \A n \in 1 .. Len(toks) :
          toks[n].kind = StreamedKind(n, IF n = 1 THEN "none" ELSE toks[n - 1].kind)
    BY <1>3, <2>2 DEF StreamedKind, Contextual
  <2> QED
    BY <1>1, <1>2, <2>1, <2>3, EOFStep
<1> QED
  BY <1>4, <1>5

LEMMA ResolveOneStep ==
  ASSUME LexInv, ResolveOne
  PROVE  LexInv'
<1> DEFINE kind == Resolved(k + 1)
<1>1. /\ pc = "resolve" /\ pc' = "resolve" /\ k \in Nat /\ k < Len(toks) /\ Len(toks) \in Nat
      /\ toks \in Seq(TokenType) /\ k' = k + 1 /\ prev' = kind
      /\ UNCHANGED <<src, i, trivia, ambiguous, read>>
  BY DEF LexInv, TypeOK, ResolveOne
<1>2. \A n \in 1 .. Len(toks) : toks[n].kind \in TokenKinds /\ toks[n] \in TokenType
  BY <1>1, SpanFields
<1>3. kind \in TokenKinds
  BY <1>2, TokenKindsAssumption DEF Resolved, Kind
<1>4. kind = StreamedKind(k + 1, prev)
  <2>1. \A n \in k + 1 .. Len(toks) : toks[n].kind = RawKind(n)
    BY <1>1 DEF LexInv, ResolvedAsStreamed
  <2>2. \A n \in Nat \ {0} : n > Len(toks) => Kind(n) = "EOF" /\ RawKind(n) = "EOF"
    BY <1>1 DEF Kind, RawKind
  <2>3. /\ Kind(k + 1) = RawKind(k + 1)
        /\ Kind((k + 1) + 1) = RawKind((k + 1) + 1)
        /\ Kind((k + 1) + 2) = RawKind((k + 1) + 2)
    BY <1>1, <2>1, <2>2 DEF Kind
  <2> QED
    BY <2>3 DEF Resolved, StreamedKind
<1> HIDE DEF kind
<1>5. toks' = [toks EXCEPT ![k + 1].kind = kind]
  BY DEF ResolveOne, kind
<1>6. /\ toks' \in Seq(TokenType) /\ Len(toks') = Len(toks)
      /\ \A n \in 1 .. Len(toks) : /\ n # k + 1 => toks'[n] = toks[n]
                                   /\ toks'[n].pos = toks[n].pos /\ toks'[n].stop = toks[n].stop
      /\ toks'[k + 1].kind = kind
  <2>1. [toks[k + 1] EXCEPT !.kind = kind] \in TokenType
    BY <1>1, <1>2, <1>3 DEF TokenType
  <2>2. toks' = [toks EXCEPT ![k + 1] = [toks[k + 1] EXCEPT !.kind = kind]]
    BY <1>5
  <2>3. toks[k + 1] \in TokenType
    BY <1>1, <1>2
  <2>4. toks'[k + 1] = [toks[k + 1] EXCEPT !.kind = kind]
    BY <1>1, <2>2
  <2>5. /\ toks'[k + 1].kind = kind /\ toks'[k + 1].pos = toks[k + 1].pos
        /\ toks'[k + 1].stop = toks[k + 1].stop
    BY <2>3, <2>4 DEF TokenType
  <2>6. toks' \in Seq(TokenType) /\ Len(toks') = Len(toks)
    BY <1>1, <2>1, <2>2
  <2>7. \A n \in 1 .. Len(toks) : n # k + 1 => toks'[n] = toks[n]
    BY <1>1, <2>2
  <2> QED
    BY <2>5, <2>6, <2>7
<1>7. TypeOK'
  <2>1. ambiguous' \in BOOLEAN
    BY <1>1, Zenon DEF LexInv, TypeOK
  <2> QED
    BY <1>1, <1>3, <1>6, <2>1 DEF LexInv, TypeOK
<1>8. Behind(toks)' /\ Behind(trivia)' /\ PassInv'
  BY <1>1, <1>6 DEF LexInv, Behind, PassInv, NoEmpty
<1>9. TokensTile'
  BY <1>1, <1>6 DEF LexInv, TokensTile, Ordered, Covers
<1>10. ResolvedAsStreamed'
  <2>1. \A n \in Nat \ {0} : RawKind(n)' = RawKind(n)
    BY <1>1, <1>6 DEF RawKind
  <2>2. prev = IF k = 0 THEN "none" ELSE toks[k].kind
    BY <1>1 DEF LexInv, PassInv
  <2>3. ASSUME NEW n \in 1 .. k + 1
        PROVE  toks'[n].kind = StreamedKind(n, IF n = 1 THEN "none" ELSE toks[n - 1].kind)'
    <3>1. RawKind(n)' = RawKind(n) /\ RawKind(n + 1)' = RawKind(n + 1) /\ RawKind(n + 2)' = RawKind(n + 2)
      BY <1>1, <2>1
    <3>2. n # 1 => toks'[n - 1] = toks[n - 1]
      BY <1>1, <1>6
    <3>3. toks'[n].kind = StreamedKind(n, IF n = 1 THEN "none" ELSE toks[n - 1].kind)
      <4>1. CASE n = k + 1
        BY <1>1, <1>4, <1>6, <2>2, <4>1
      <4>2. CASE n # k + 1
        BY <1>1, <1>6, <4>2 DEF LexInv, ResolvedAsStreamed
      <4> QED
        BY <4>1, <4>2
    <3> QED
      BY <3>1, <3>2, <3>3 DEF StreamedKind
  <2>4. ASSUME NEW n \in 1 .. Len(toks'), ~(n <= k + 1)
        PROVE  toks'[n].kind = RawKind(n)'
    BY <1>1, <1>6, <2>1, <2>4 DEF LexInv, ResolvedAsStreamed
  <2> QED
    BY <1>1, <1>6, <2>3, <2>4 DEF ResolvedAsStreamed
<1> QED
  BY <1>1, <1>7, <1>8, <1>9, <1>10 DEF LexInv

LEMMA ResolveEndStep ==
  ASSUME LexInv, ResolveEnd
  PROVE  LexInv'
<1>1. /\ pc = "resolve" /\ pc' = "parse" /\ toks' = WithEOF /\ k = Len(toks)
      /\ UNCHANGED <<src, i, trivia, ambiguous, k, prev, read>>
  BY DEF ResolveEnd
<1>2. \A n \in 1 .. Len(toks) :
        toks[n].kind = StreamedKind(n, IF n = 1 THEN "none" ELSE toks[n - 1].kind)
  BY <1>1 DEF LexInv, ResolvedAsStreamed
<1> QED
  BY <1>1, <1>2, EOFStep

(* Steps that leave the tokens alone.                                      *)
LEMMA ReadStep ==
  ASSUME LexInv, ParserReads \/ UNCHANGED vars
  PROVE  LexInv'
<1>1. /\ UNCHANGED <<src, i, toks, trivia, ambiguous, k, prev>>
      /\ \/ pc' = pc /\ read' = read
         \/ pc = "parse" /\ pc' \in {"parse", "done"} /\ read' = read + 1 /\ read < Len(toks)
  BY DEF ParserReads, vars
<1>2. TypeOK'
  <2>1. ambiguous' \in BOOLEAN
    BY <1>1, Zenon DEF LexInv, TypeOK
  <2> QED
    BY <1>1, <2>1 DEF LexInv, TypeOK
<1>3. \A n \in Nat : RawKind(n)' = RawKind(n)
  BY <1>1 DEF RawKind
<1>4. \A n \in 1 .. Len(toks) :
        StreamedKind(n, IF n = 1 THEN "none" ELSE toks[n - 1].kind)'
          = StreamedKind(n, IF n = 1 THEN "none" ELSE toks[n - 1].kind)
  BY <1>1 DEF StreamedKind, RawKind
<1>5. ResolvedAsStreamed'
  BY <1>1, <1>3, <1>4 DEF LexInv, ResolvedAsStreamed
<1>6. Behind(toks)' /\ Behind(trivia)' /\ PassInv' /\ TokensTile'
  BY <1>1 DEF LexInv, Behind, PassInv, NoEmpty, TokensTile
<1> QED
  BY <1>1, <1>2, <1>5, <1>6 DEF LexInv

LEMMA LexInvStep == LexInv /\ [Next]_vars => LexInv'
<1> SUFFICES ASSUME LexInv, [Next]_vars PROVE LexInv'
  OBVIOUS
<1>1. CASE LexOne
  BY <1>1, LexOneTile, LexOneKinds DEF LexInv
<1>2. CASE LexEnd
  BY <1>2, LexEndStep
<1>3. CASE ResolveOne
  BY <1>3, ResolveOneStep
<1>4. CASE ResolveEnd
  BY <1>4, ResolveEndStep
<1>5. CASE ParserReads
  BY <1>5, ReadStep
<1>6. CASE UNCHANGED vars
  BY <1>6, ReadStep
<1> QED
  BY <1>1, <1>2, <1>3, <1>4, <1>5, <1>6 DEF Next, Done

(* The inductive invariant holds throughout, for every scanner.            *)
THEOREM LexerInvariance == Spec => []LexInv
BY InitLexInv, LexInvStep, PTL DEF Spec

(* Types, and no index of either pass leaves its slice.                    *)
THEOREM LexerTypes == Spec => []TypeOK
<1>1. LexInv => TypeOK
  BY DEF LexInv
<1> QED
  BY <1>1, LexerInvariance, PTL

(* Every byte lexed belongs to exactly one token or trivia span, in order, *)
(* while tokens are resolved and read as well as while they are scanned.   *)
THEOREM SpansTile == Spec => []TokensTile
<1>1. LexInv => TokensTile
  BY DEF LexInv
<1> QED
  BY <1>1, LexerInvariance, PTL

(* Resolving WINDOW, OVER and FILTER in place, in one pass over the slice, *)
(* gives each token the kind SQLite's reading ahead gives it.              *)
THEOREM InPlaceIsStreamed == Spec => []ResolvedAsStreamed
<1>1. LexInv => ResolvedAsStreamed
  BY DEF LexInv
<1> QED
  BY <1>1, LexerInvariance, PTL

---------------------------------------------------------------------------
(* The parser takes the tokens from the slice as SQLite's loop would hand  *)
(* them over from the text. What follows is for two tokenizers that agree  *)
(* on each token. NUL ends both loops before there is a token.             *)
SameTokenizer ==
  \A s \in Sources : \A p \in 1 .. Len(s) :
    IF s[p] = "NUL"
      THEN Scan(s, p).kind = "EOF"
      ELSE Scan(s, p) = NextToken(s, p) /\ Scan(s, p).kind # "EOF" /\ p < Scan(s, p).stop

(* Where SQLite looks for token n: right after the token before it.        *)
From(n) == IF n = 1 THEN 1 ELSE toks[n - 1].stop

(* Skipping spaces and comments from there leads to the token, or to the   *)
(* position lexed to as long as it is not there; its extent and its raw    *)
(* kind are those of the text.                                             *)
Linked ==
  /\ \A n \in 1 .. Len(toks) :
       /\ SQLite!Significant(src, From(n)) = toks[n].pos
       /\ SQLite!Raw(src, toks[n].pos) = [kind |-> RawKind(n), stop |-> toks[n].stop]
  /\ pc \in {"lex", "resolve"} =>
       /\ SQLite!Significant(src, From(Len(toks) + 1)) = SQLite!Significant(src, i)
       /\ read = 0
  /\ pc = "resolve" => SQLite!AtEnd(src, i)
  /\ pc \in {"parse", "done"} => Len(toks) > 0 /\ RawKind(Len(toks)) = "EOF"

(* What SQLite finds at a position.                                        *)
LEMMA RawIsScan ==
  ASSUME SameTokenizer, NEW s \in Sources, NEW p \in 1 .. Len(s) + 1
  PROVE  /\ Len(s) \in Nat
         /\ SQLite!AtEnd(s, p) => SQLite!Raw(s, p) = [kind |-> "EOF", stop |-> p]
         /\ ~SQLite!AtEnd(s, p) => /\ p \in 1 .. Len(s)
                                   /\ SQLite!Raw(s, p) = Scan(s, p)
                                   /\ Scan(s, p) \in [kind : TokenKinds, stop : p .. Len(s) + 1]
                                   /\ Scan(s, p).kind # "EOF"
                                   /\ Scan(s, p).stop \in p + 1 .. Len(s) + 1
         /\ SQLite!AtEnd(s, p) <=> (p \in 1 .. Len(s) => Scan(s, p).kind = "EOF")
<1>1. Len(s) \in Nat
  BY SourcesAssumption
<1>2. p \in 1 .. Len(s) => Scan(s, p) \in [kind : TokenKinds, stop : p .. Len(s) + 1]
  BY <1>1, ScanAssumption
<1>3. p \in 1 .. Len(s) /\ s[p] # "NUL" =>
        Scan(s, p) = NextToken(s, p) /\ Scan(s, p).kind # "EOF" /\ p < Scan(s, p).stop
  BY DEF SameTokenizer
<1>4. p \in 1 .. Len(s) /\ s[p] = "NUL" => Scan(s, p).kind = "EOF"
  BY DEF SameTokenizer
<1> QED
  BY <1>1, <1>2, <1>3, <1>4 DEF SQLite!AtEnd, SQLite!Raw

(* Significant stays at a token, and passes over a space or a comment.     *)
LEMMA SignificantStep ==
  ASSUME SameTokenizer, NEW s \in Sources, NEW p \in 1 .. Len(s) + 1
  PROVE  SQLite!Significant(s, p) =
           IF SQLite!Raw(s, p).kind \in {"SPACE", "COMMENT"}
             THEN SQLite!Significant(s, SQLite!Raw(s, p).stop) ELSE p
<1> DEFINE hi == Len(s) + 1
           H == {q \in 1 .. hi : SQLite!Raw(s, q).kind \notin {"SPACE", "COMMENT"}}
           next == [q \in 1 .. hi |-> SQLite!Raw(s, q).stop]
           val  == [q \in 1 .. hi |-> q]
           loop(q) == CHOOSE f : f = [r \in q .. hi |->
                        IF SQLite!Raw(s, r).kind \in {"SPACE", "COMMENT"} THEN f[SQLite!Raw(s, r).stop] ELSE r]
<1>1. hi \in Nat /\ 1 <= hi /\ Len(s) \in Nat
  BY RawIsScan
<1>2. \A q \in 1 .. hi : q \notin H => next[q] \in q + 1 .. hi
  BY <1>1, RawIsScan
<1>3. \A q \in 1 .. hi : SQLite!Significant(s, q) = loop(q)[q]
  BY DEF SQLite!Significant
<1>4. \A q \in 1 .. hi : Onward(q, hi, H, next)
  <2> HIDE DEF H, next
  <2> QED
    BY <1>1, <1>2 DEF Onward
<1>5. ASSUME NEW q \in 1 .. hi PROVE Jumps(loop(q), q, hi, H, next, val)
  <2>1. PICK f : Jumps(f, q, hi, H, next, val)
    <3> HIDE DEF H, next, val
    <3> QED
      BY <1>1, <1>4, JumpsExists
  <2>2. ASSUME NEW g
        PROVE  Jumps(g, q, hi, H, next, val) <=>
               g = [r \in q .. hi |->
                     IF SQLite!Raw(s, r).kind \in {"SPACE", "COMMENT"} THEN g[SQLite!Raw(s, r).stop] ELSE r]
    <3> DEFINE a(r) == IF SQLite!Raw(s, r).kind \in {"SPACE", "COMMENT"} THEN g[SQLite!Raw(s, r).stop] ELSE r
               b(r) == IF r \in H THEN val[r] ELSE g[next[r]]
    <3>1. \A r \in q .. hi : a(r) = b(r)
      BY <1>1
    <3> HIDE DEF a, b
    <3>2. [r \in q .. hi |-> a(r)] = [r \in q .. hi |-> b(r)]
      BY <3>1
    <3> QED
      BY <3>2 DEF Jumps, a, b
  <2>3. loop(q) = [r \in q .. hi |->
                     IF SQLite!Raw(s, r).kind \in {"SPACE", "COMMENT"} THEN loop(q)[SQLite!Raw(s, r).stop] ELSE r]
    <3> HIDE DEF H, next, val, hi
    <3> QED
      BY <2>1, <2>2, Zenon
  <2> HIDE DEF loop
  <2> QED
    BY <2>2, <2>3
<1> HIDE DEF loop
<1>6. \A q \in 1 .. hi : loop(q)[q] = IF q \in H THEN val[q] ELSE loop(q)[next[q]]
  <2> HIDE DEF H, next, val
  <2> QED
    BY <1>1, <1>5 DEF Jumps
<1>7. CASE p \in H
  BY <1>3, <1>6, <1>7
<1>8. CASE p \notin H
  <2>1. next[p] \in p + 1 .. hi /\ next[p] = SQLite!Raw(s, p).stop
    BY <1>2, <1>8
  <2>2. loop(p)[next[p]] = loop(next[p])[next[p]]
    <3> HIDE DEF H, next, val, hi
    <3> QED
      BY <1>1, <1>4, <1>5, <2>1, JumpsAgree
  <2> QED
    BY <1>3, <1>6, <1>8, <2>1, <2>2
<1> QED
  BY <1>7, <1>8

(* The kinds that decide a keyword are not folded.                         *)
LEMMA FoldedKinds ==
  ASSUME NEW kind
  PROVE  /\ SQLite!Folded(kind) = "LP" <=> kind = "LP"
         /\ SQLite!Folded(kind) = "AS" <=> kind = "AS"
         /\ SQLite!Folded("EOF") = "EOF"
BY DEF SQLite!Folded, SQLite!Folds, SQLite!T!FallbackSet

(* Reading ahead in the text finds the tokens of the slice.                *)
LEMMA AnalyzedIsStreamed ==
  ASSUME LexInv, Linked, pc = "parse", NEW n \in 1 .. Len(toks), NEW last
  PROVE  SQLite!Analyzed(src, SQLite!Raw(src, toks[n].pos), last) = StreamedKind(n, last)
<1> DEFINE raw == SQLite!Raw(src, toks[n].pos)
           one == SQLite!getToken(src, raw.stop)
           two == SQLite!getToken(src, one.stop)
<1>1. Len(toks) \in Nat /\ Len(toks) > 0 /\ RawKind(Len(toks)) = "EOF"
  <2>1. Len(toks) > 0 /\ RawKind(Len(toks)) = "EOF"
    BY Zenon DEF Linked
  <2> QED
    BY <2>1 DEF LexInv, TypeOK
<1>2. \A m \in 1 .. Len(toks) : SQLite!getToken(src, From(m)) =
        [kind |-> SQLite!Folded(RawKind(m)), stop |-> toks[m].stop]
  <2> SUFFICES ASSUME NEW m \in 1 .. Len(toks)
               PROVE  SQLite!getToken(src, From(m)) =
                        [kind |-> SQLite!Folded(RawKind(m)), stop |-> toks[m].stop]
    OBVIOUS
  <2>1. SQLite!Significant(src, From(m)) = toks[m].pos
    BY Zenon DEF Linked
  <2>2. SQLite!Raw(src, toks[m].pos) = [kind |-> RawKind(m), stop |-> toks[m].stop]
    BY Zenon DEF Linked
  <2> QED
    BY <2>1, <2>2 DEF SQLite!getToken
<1>3. raw.kind = RawKind(n) /\ raw.stop = toks[n].stop
  <2>1. raw = [kind |-> RawKind(n), stop |-> toks[n].stop]
    BY Zenon DEF Linked
  <2> QED
    BY <2>1
<1>4. CASE RawKind(n) = "EOF"
  BY <1>3, <1>4 DEF SQLite!Analyzed, StreamedKind
<1>5. CASE RawKind(n) # "EOF"
  <2>1. n + 1 \in 1 .. Len(toks) /\ From(n + 1) = toks[n].stop /\ n + 1 # 1
    BY <1>1, <1>5 DEF From
  <2>2. one = [kind |-> SQLite!Folded(RawKind(n + 1)), stop |-> toks[n + 1].stop]
    BY <1>2, <1>3, <2>1
  <2>3. one.kind = SQLite!Folded(RawKind(n + 1)) /\ one.stop = toks[n + 1].stop
    BY <2>2
  <2>4. one.kind = "ID" => two.kind = SQLite!Folded(RawKind(n + 2))
    <3> SUFFICES ASSUME one.kind = "ID" PROVE two.kind = SQLite!Folded(RawKind(n + 2))
      OBVIOUS
    <3>1. n + 1 # Len(toks)
      BY <1>1, <2>3, FoldedKinds
    <3>2. n + 2 \in 1 .. Len(toks) /\ From(n + 2) = toks[n + 1].stop
      BY <1>1, <2>1, <3>1 DEF From
    <3> QED
      BY <1>2, <2>3, <3>2
  <2> HIDE DEF raw
  <2>5. SQLite!IsWindow(src, raw.stop) <=> AsID(RawKind(n + 1)) = "ID" /\ RawKind(n + 2) = "AS"
    BY <2>3, <2>4, FoldedKinds DEF SQLite!IsWindow, AsID
  <2>6. SQLite!IsOver(src, raw.stop, last) <=>
          last = "RP" /\ (RawKind(n + 1) = "LP" \/ AsID(RawKind(n + 1)) = "ID")
    BY <2>3, FoldedKinds DEF SQLite!IsOver, AsID
  <2>7. SQLite!IsFilter(src, raw.stop, last) <=> last = "RP" /\ RawKind(n + 1) = "LP"
    BY <2>3, FoldedKinds DEF SQLite!IsFilter
  <2> QED
    BY <1>3, <2>5, <2>6, <2>7 DEF SQLite!Analyzed, StreamedKind, raw
<1> QED
  BY <1>4, <1>5

---------------------------------------------------------------------------

LEMMA InitLinked == LexInv /\ Init => Linked
<1> SUFFICES ASSUME LexInv, Init PROVE Linked
  OBVIOUS
<1>1. Len(toks) = 0 /\ From(Len(toks) + 1) = 1 /\ i = 1 /\ read = 0 /\ pc = "lex"
  BY DEF Init, From
<1> QED
  BY <1>1 DEF Linked

(* One more token where the text leads next.                               *)
LEMMA LinkedAppend ==
  ASSUME Linked, i \in Nat, i' \in Nat, src' = src,
         Len(toks) \in Nat, NEW m \in Nat, m = Len(toks) + 1, Len(toks') = m,
         \A n \in 1 .. Len(toks) : toks'[n] = toks[n],
         toks'[Len(toks) + 1].pos = i, toks'[Len(toks) + 1].stop = i',
         SQLite!Significant(src, From(Len(toks) + 1)) = i,
         SQLite!Raw(src, i) = [kind |-> IF i < i' THEN Scan(src, i).kind ELSE "EOF", stop |-> i']
  PROVE  /\ \A n \in 1 .. Len(toks') :
              /\ SQLite!Significant(src, From(n)') = toks'[n].pos
              /\ SQLite!Raw(src, toks'[n].pos) = [kind |-> RawKind(n)', stop |-> toks'[n].stop]
         /\ From(m + 1)' = i'
         /\ RawKind(m)' = IF i < i' THEN Scan(src, i).kind ELSE "EOF"
<1>1. From(m + 1)' = i'
  BY DEF From
<1>2. RawKind(m)' = IF i < i' THEN Scan(src, i).kind ELSE "EOF"
  BY DEF RawKind
<1>3. ASSUME NEW n \in 1 .. m
      PROVE  /\ SQLite!Significant(src, From(n)') = toks'[n].pos
             /\ SQLite!Raw(src, toks'[n].pos) = [kind |-> RawKind(n)', stop |-> toks'[n].stop]
  <2>1. From(n)' = From(n)
    BY DEF From
  <2>2. CASE n = Len(toks) + 1
    BY <1>2, <2>1, <2>2
  <2>3. CASE n # Len(toks) + 1
    <3>1. n \in 1 .. Len(toks) /\ toks'[n] = toks[n]
      BY <2>3
    <3>2. RawKind(n)' = RawKind(n)
      BY <3>1, RawKindKept
    <3> QED
      BY <2>1, <3>1, <3>2 DEF Linked
  <2> QED
    BY <2>2, <2>3
<1> QED
  BY <1>1, <1>2, <1>3

LEMMA LexOneLinked ==
  ASSUME SameTokenizer, LexInv, Linked, LexOne
  PROVE  Linked'
<1> DEFINE t == Scan(src, i)
<1>1. /\ i \in 1 .. Len(src) /\ src \in Sources /\ ~AtEnd /\ Len(src) \in Nat
      /\ pc = "lex" /\ pc' = "lex" /\ src' = src /\ read' = read
  BY ScanMoves DEF LexInv, LexOne
<1>2. /\ SQLite!Raw(src, i) = t /\ t \in [kind : TokenKinds, stop : i .. Len(src) + 1]
      /\ t.stop \in i + 1 .. Len(src) + 1
  <2>1. ~SQLite!AtEnd(src, i)
    BY <1>1, RawIsScan DEF AtEnd
  <2> QED
    BY <1>1, <2>1, RawIsScan
<1>3. i' = t.stop
  BY <1>2 DEF LexOne, Stop
<1>4. SQLite!Significant(src, From(Len(toks) + 1)) = SQLite!Significant(src, i) /\ read = 0
  BY <1>1 DEF Linked
<1>5. SQLite!Significant(src, i) = IF t.kind \in Trivial THEN SQLite!Significant(src, i') ELSE i
  BY <1>1, <1>2, <1>3, SignificantStep DEF Trivial
<1>6. CASE t.kind \in Trivial
  <2>1. toks' = toks
    BY <1>6 DEF LexOne
  <2>2. \A n \in Nat : From(n)' = From(n) /\ RawKind(n)' = RawKind(n)
    BY <1>1, <2>1 DEF From, RawKind
  <2>3. PICK m \in Nat : m = Len(toks) + 1
    BY DEF LexInv, TypeOK
  <2> HIDE DEF t
  <2>4. SQLite!Significant(src, From(m)') = SQLite!Significant(src, i')
    BY <1>4, <1>5, <1>6, <2>2, <2>3
  <2> QED
    BY <1>1, <1>4, <2>1, <2>2, <2>3, <2>4 DEF Linked
<1>7. CASE t.kind \notin Trivial
  <2>1. toks' = Append(toks, Span(t.kind, i, i'))
    BY <1>7 DEF LexOne
  <2>2. SQLite!Significant(src, From(Len(toks) + 1)) = i
    BY <1>4, <1>5, <1>7
  <2>3. SQLite!Raw(src, i) = [kind |-> IF i < i' THEN t.kind ELSE "EOF", stop |-> i']
    BY <1>1, <1>2, <1>3
  <2>4. i' \in Nat /\ t.kind \in TokenKinds
    BY <1>1, <1>2, <1>3
  <2>4a. PICK m \in Nat : m = Len(toks) + 1
    BY DEF LexInv, TypeOK
  <2>5. /\ \A n \in 1 .. Len(toks') :
             /\ SQLite!Significant(src, From(n)') = toks'[n].pos
             /\ SQLite!Raw(src, toks'[n].pos) = [kind |-> RawKind(n)', stop |-> toks'[n].stop]
        /\ From(m + 1)' = i'
    <3>1. /\ Len(toks') = Len(toks) + 1 /\ Len(toks) \in Nat /\ i \in Nat
          /\ \A n \in 1 .. Len(toks) : toks'[n] = toks[n]
          /\ toks'[Len(toks) + 1].pos = i /\ toks'[Len(toks) + 1].stop = i'
      BY <1>1, <2>1, <2>4, AppendSpan DEF LexInv, TypeOK
    <3> QED
      BY <1>1, <2>2, <2>3, <2>4, <2>4a, <3>1, LinkedAppend
  <2>6. Len(toks') = Len(toks) + 1 /\ Len(toks) \in Nat
    BY <2>1, <2>4, AppendSpan DEF LexInv, TypeOK
  <2> QED
    BY <1>1, <1>4, <2>4a, <2>5, <2>6 DEF Linked
<1> QED
  BY <1>6, <1>7

(* The mark for the end of the input is where both stop.                   *)
LEMMA EOFLinked ==
  ASSUME SameTokenizer, LexInv, Linked, SQLite!AtEnd(src, i), pc \in {"lex", "resolve"},
         toks' = WithEOF, pc' = "parse", i' = i, src' = src
  PROVE  Linked'
<1>1. src \in Sources /\ i \in 1 .. Len(src) + 1 /\ Len(src) \in Nat /\ "EOF" \in TokenKinds
  BY SourcesAssumption, TokenKindsAssumption DEF LexInv, TypeOK
<1>2. SQLite!Raw(src, i) = [kind |-> "EOF", stop |-> i]
  BY <1>1, RawIsScan
<1>3. SQLite!Significant(src, From(Len(toks) + 1)) = i
  BY <1>1, <1>2, SignificantStep DEF Linked
<1>4. SQLite!Raw(src, i) = [kind |-> IF i < i' THEN Scan(src, i).kind ELSE "EOF", stop |-> i']
  BY <1>1, <1>2
<1>5. toks' = Append(toks, Span("EOF", i, i')) /\ i' \in Nat
  BY <1>1 DEF WithEOF
<1>5a. PICK m \in Nat : m = Len(toks) + 1
  BY DEF LexInv, TypeOK
<1>6. /\ Len(toks') = m /\ Len(toks) \in Nat
      /\ \A n \in 1 .. Len(toks') :
           /\ SQLite!Significant(src, From(n)') = toks'[n].pos
           /\ SQLite!Raw(src, toks'[n].pos) = [kind |-> RawKind(n)', stop |-> toks'[n].stop]
      /\ RawKind(m)' = "EOF"
  <2>1. /\ Len(toks') = Len(toks) + 1 /\ Len(toks) \in Nat /\ i \in Nat
        /\ \A n \in 1 .. Len(toks) : toks'[n] = toks[n]
        /\ toks'[Len(toks) + 1].pos = i /\ toks'[Len(toks) + 1].stop = i'
    BY <1>1, <1>5, AppendSpan DEF LexInv, TypeOK
  <2> QED
    BY <1>1, <1>3, <1>4, <1>5, <1>5a, <2>1, LinkedAppend
<1> QED
  BY <1>5a, <1>6 DEF Linked

(* Steps that leave the extent of every token alone.                       *)
LEMMA ExtentLinked ==
  ASSUME LexInv, Linked, src' = src, i' = i, toks' \in Seq(TokenType), Len(toks') = Len(toks),
         \A n \in 1 .. Len(toks) : toks'[n].pos = toks[n].pos /\ toks'[n].stop = toks[n].stop,
         \/ pc' = pc /\ read' = read
         \/ pc = "lex" /\ pc' = "resolve" /\ read' = read /\ SQLite!AtEnd(src, i)
         \/ pc = "parse" /\ pc' \in {"parse", "done"}
  PROVE  Linked'
<1>1. Len(toks) \in Nat
  BY DEF LexInv, TypeOK
<1>2. \A n \in 1 .. Len(toks) + 1 : From(n)' = From(n)
  BY <1>1 DEF From
<1>3. \A n \in 1 .. Len(toks) : RawKind(n)' = RawKind(n)
  BY <1>1 DEF RawKind
<1>4. \A n \in 1 .. Len(toks') :
        /\ SQLite!Significant(src, From(n)') = toks'[n].pos
        /\ SQLite!Raw(src, toks'[n].pos) = [kind |-> RawKind(n)', stop |-> toks'[n].stop]
  BY <1>1, <1>2, <1>3 DEF Linked
<1>5. PICK m \in Nat : m = Len(toks)
  BY <1>1
<1>6. From(m + 1)' = From(m + 1) /\ (m > 0 => RawKind(m)' = RawKind(m))
  BY <1>1, <1>2, <1>3, <1>5
<1> QED
  BY <1>4, <1>5, <1>6 DEF Linked

LEMMA LinkedStep == SameTokenizer /\ LexInv /\ Linked /\ [Next]_vars => Linked'
<1> SUFFICES ASSUME SameTokenizer, LexInv, Linked, [Next]_vars PROVE Linked'
  OBVIOUS
<1>1. /\ src \in Sources /\ i \in 1 .. Len(src) + 1 /\ toks \in Seq(TokenType) /\ Len(toks) \in Nat
  BY SourcesAssumption DEF LexInv, TypeOK
<1>2. CASE LexOne
  BY <1>2, LexOneLinked
<1>3. CASE LexEnd
  <2>1. SQLite!AtEnd(src, i) /\ pc = "lex" /\ UNCHANGED <<src, i, read>>
    BY <1>1, <1>3, RawIsScan DEF LexEnd, AtEnd
  <2>2. CASE ambiguous
    <3>1. pc' = "resolve" /\ toks' = toks
      BY <1>3, <2>2 DEF LexEnd
    <3> QED
      BY <1>1, <2>1, <3>1, ExtentLinked
  <2>3. CASE ~ambiguous
    <3>1. pc' = "parse" /\ toks' = WithEOF
      BY <1>3, <2>3 DEF LexEnd
    <3> QED
      BY <2>1, <3>1, EOFLinked
  <2> QED
    BY <2>2, <2>3
<1>4. CASE ResolveOne
  <2>1. /\ pc = "resolve" /\ k \in 0 .. Len(toks) - 1
        /\ toks' = [toks EXCEPT ![k + 1].kind = Resolved(k + 1)]
        /\ UNCHANGED <<src, i, pc, read>>
    BY <1>1, <1>4 DEF LexInv, TypeOK, ResolveOne
  <2>2. toks' \in Seq(TokenType)
    BY <1>4, ResolveOneStep DEF LexInv, TypeOK
  <2>3. Len(toks') = Len(toks)
    BY <1>1, <2>1
  <2>4. \A n \in 1 .. Len(toks) : toks'[n].pos = toks[n].pos /\ toks'[n].stop = toks[n].stop
    <3> SUFFICES ASSUME NEW n \in 1 .. Len(toks)
                 PROVE  toks'[n].pos = toks[n].pos /\ toks'[n].stop = toks[n].stop
      OBVIOUS
    <3>1. toks[n] \in TokenType
      BY <1>1
    <3>2. toks'[n] = IF n = k + 1 THEN [toks[n] EXCEPT !.kind = Resolved(k + 1)] ELSE toks[n]
      BY <1>1, <2>1
    <3> QED
      BY <3>1, <3>2 DEF TokenType
  <2> QED
    BY <2>1, <2>2, <2>3, <2>4, ExtentLinked
<1>5. CASE ResolveEnd
  <2>1. SQLite!AtEnd(src, i) /\ pc = "resolve" /\ pc' = "parse" /\ toks' = WithEOF /\ UNCHANGED <<src, i>>
    BY <1>5 DEF ResolveEnd, Linked
  <2> QED
    BY <2>1, EOFLinked
<1>6. CASE ParserReads
  <2>1. pc = "parse" /\ pc' \in {"parse", "done"} /\ UNCHANGED <<src, i, toks>>
    BY <1>6 DEF ParserReads
  <2> QED
    BY <1>1, <2>1, ExtentLinked
<1>7. CASE UNCHANGED vars
  <2>1. UNCHANGED <<src, i, toks, pc, read>>
    BY <1>7 DEF vars
  <2> QED
    BY <1>1, <2>1, ExtentLinked
<1> QED
  BY <1>2, <1>3, <1>4, <1>5, <1>6, <1>7 DEF Next, Done

---------------------------------------------------------------------------
(* A read of the parser is a step of SQLite's loop.                        *)
LEMMA ReadsAsLoop ==
  ASSUME SameTokenizer, LexInv, Linked, ParserReads
  PROVE  SQLite!HandToken
<1> DEFINE z == IF read = 0 THEN 1 ELSE toks[read].stop
           last == IF read = 0 THEN "none" ELSE toks[read].kind
           next == toks[read + 1]
           raw == SQLite!Raw(src, next.pos)
<1>1. /\ read \in Nat /\ read + 1 \in 1 .. Len(toks) /\ Len(toks) \in Nat /\ toks \in Seq(TokenType)
      /\ pc = "parse" /\ read' = read + 1 /\ UNCHANGED <<src, toks>>
      /\ pc' = IF next.kind \in {"EOF", "ILLEGAL"} THEN "done" ELSE "parse"
  BY DEF LexInv, TypeOK, ParserReads
<1>2. next \in TokenType
  BY <1>1
<1>3. z = From(read + 1)
  BY <1>1 DEF From
<1>4. SQLite!Significant(src, z) = next.pos /\ raw = [kind |-> RawKind(read + 1), stop |-> next.stop]
  BY <1>1, <1>3, Zenon DEF Linked
<1>5. SQLite!Analyzed(src, raw, last) = next.kind
  <2>1. next.kind = StreamedKind(read + 1, last)
    BY <1>1 DEF LexInv, ResolvedAsStreamed
  <2> QED
    BY <1>1, <2>1, AnalyzedIsStreamed
<1>6. SubSeq(toks, 1, read + 1) = Append(SubSeq(toks, 1, read), next)
  BY <1>1
<1>7. next = [kind |-> next.kind, pos |-> next.pos, stop |-> next.stop]
  BY <1>2 DEF TokenType
<1>8. raw.stop = next.stop
  BY <1>4
<1>9. /\ (IF read = 0 THEN 1 ELSE toks[read].stop)' = next.stop
      /\ (IF read = 0 THEN "none" ELSE toks[read].kind)' = next.kind
      /\ SubSeq(toks, 1, read)' = Append(SubSeq(toks, 1, read), next)
      /\ (pc = "done")' <=> next.kind \in {"EOF", "ILLEGAL"}
  BY <1>1, <1>6
<1>10. SQLite!Raw(src, SQLite!Significant(src, z)) = raw
  BY <1>4
<1> DEFINE rec == [kind |-> next.kind, pos |-> SQLite!Significant(src, z), stop |-> raw.stop]
<1>11. next = rec
  BY <1>4, <1>7, <1>8
<1>12. pc # "done" /\ src' = src
  BY <1>1
<1> HIDE DEF next, raw, rec
<1>13. SUFFICES
         /\ ~(pc = "done")
         /\ \E p \in {SQLite!Significant(src, z)} :
              \E t \in {SQLite!Raw(src, p)} :
                \E kind \in {SQLite!Analyzed(src, t, last)} :
                  /\ SubSeq(toks, 1, read)' = Append(SubSeq(toks, 1, read), [kind |-> kind, pos |-> p, stop |-> t.stop])
                  /\ (IF read = 0 THEN 1 ELSE toks[read].stop)' = t.stop
                  /\ (IF read = 0 THEN "none" ELSE toks[read].kind)' = kind
                  /\ (pc = "done")' = (kind \in {"EOF", "ILLEGAL"})
         /\ UNCHANGED src
  BY DEF SQLite!HandToken
<1> QED
  <2>1. SubSeq(toks, 1, read)' = Append(SubSeq(toks, 1, read),
          [kind |-> SQLite!Analyzed(src, raw, last), pos |-> SQLite!Significant(src, z), stop |-> raw.stop])
    BY <1>5, <1>9, <1>11 DEF rec
  <2>2. (IF read = 0 THEN 1 ELSE toks[read].stop)' = raw.stop
    BY <1>8, <1>9
  <2>3. (IF read = 0 THEN "none" ELSE toks[read].kind)' = SQLite!Analyzed(src, raw, last)
    BY <1>5, <1>9
  <2>4. (pc = "done")' = (SQLite!Analyzed(src, raw, last) \in {"EOF", "ILLEGAL"})
    BY <1>5, <1>9
  <2> HIDE DEF z, last
  <2> QED
    BY <1>10, <1>12, <2>1, <2>2, <2>3, <2>4, Zenon

(* Any other step is none of SQLite's.                                     *)
LEMMA LoopStutters ==
  ASSUME LexInv, Linked, [Next]_vars, ~ParserReads
  PROVE  UNCHANGED SQLite!vars
<1>1. CASE pc \in {"lex", "resolve"}
  <2>1. read = 0 /\ read' = 0 /\ src' = src /\ pc \in {"lex", "resolve"}
        /\ pc' \in {"lex", "resolve", "parse"}
    BY <1>1 DEF Linked, Next, LexOne, LexEnd, ResolveOne, ResolveEnd, Done, vars
  <2>2. SubSeq(toks, 1, read) = <<>> /\ SubSeq(toks, 1, read)' = <<>>
    BY <2>1
  <2> QED
    BY <2>1, <2>2 DEF SQLite!vars
<1>2. CASE pc \notin {"lex", "resolve"}
  <2>1. UNCHANGED vars
    BY <1>2 DEF Next, LexOne, LexEnd, ResolveOne, ResolveEnd, Done
  <2> QED
    BY <2>1 DEF vars, SQLite!vars
<1> QED
  BY <1>1, <1>2

LEMMA LoopInit == Init => SQLite!Init
<1> SUFFICES ASSUME Init PROVE SQLite!Init
  OBVIOUS
<1>1. SubSeq(toks, 1, read) = <<>>
  BY DEF Init
<1> QED
  BY <1>1 DEF Init, SQLite!Init

(* The lexer, with its two passes and the parser behind them, implements   *)
(* SQLite's token loop: whatever the tokenizers of the two make of the     *)
(* text, as long as it is the same, the parser sees the same tokens with   *)
(* the same kinds and the same extent in the same order, and the same end. *)
THEOREM ImplementsTokenLoop ==
  ASSUME SameTokenizer
  PROVE  Spec => ReadsAsSQLite
<1>1. LexInv /\ Linked /\ [Next]_vars => [SQLite!HandToken]_SQLite!vars
  BY ReadsAsLoop, LoopStutters
<1>2. LexInv /\ Linked /\ [Next]_vars => Linked'
  BY LinkedStep
<1>3. Init => Linked /\ SQLite!Init
  BY InitLexInv, InitLinked, LoopInit
<1> QED
  BY <1>1, <1>2, <1>3, LexerInvariance, PTL DEF Spec, ReadsAsSQLite, SQLite!Spec

---------------------------------------------------------------------------
(* So it is with meyer's scanner and sqlite3GetToken: whatever the sources *)
(* are, the parser takes from the slice the tokens that SQLite's loop      *)
(* hands to its parser, in their order, with their kinds and extents.      *)
Tokenizers ==
  \A s \in Sources : \A p \in 1 .. Len(s) : Scan(s, p) = scan(s, p) /\ NextToken(s, p) = GetToken(s, p)

THEOREM LexerReadsAsSQLite ==
  ASSUME Tokenizers, Len(keywordTable) < IndexRange
  PROVE  Spec => ReadsAsSQLite
<1>1. SameTokenizer
  <2> SUFFICES ASSUME NEW s \in Sources, NEW p \in 1 .. Len(s)
               PROVE  IF s[p] = "NUL"
                        THEN Scan(s, p).kind = "EOF"
                        ELSE Scan(s, p) = NextToken(s, p) /\ Scan(s, p).kind # "EOF" /\ p < Scan(s, p).stop
    BY DEF SameTokenizer
  <2>1. s \in Texts
    BY SourcesAssumption DEF Texts
  <2>2. Scan(s, p) = scan(s, p) /\ NextToken(s, p) = GetToken(s, p)
    BY DEF Tokenizers
  <2>3. CASE s[p] = "NUL"
    <3>1. scan(s, p) = Token("EOF", p)
      BY <2>1, <2>3, ScanIsGetToken
    <3> QED
      BY <2>2, <2>3, <3>1 DEF Token
  <2>4. CASE s[p] # "NUL"
    <3>1. scan(s, p) = GetToken(s, p) /\ scan(s, p) \in Found(s, p)
      BY <2>1, <2>4, ScanIsGetToken
    <3>2. scan(s, p).kind # "EOF" /\ scan(s, p).stop \in p + 1 .. Len(s) + 1
      BY <3>1, SomeKinds DEF Found
    <3>3. p < scan(s, p).stop
      BY <2>1, <3>2 DEF Texts
    <3> QED
      BY <2>2, <2>4, <3>1, <3>2, <3>3
  <2> QED
    BY <2>3, <2>4
<1> QED
  BY <1>1, ImplementsTokenLoop

---------------------------------------------------------------------------
(* The statements of the oracle. Where sqlite3_complete goes on behind a   *)
(* quote, a bracket or a comment.                                          *)
After(z, n, len) == IF At(z, n) = "NUL" THEN Len(z) + 1 ELSE n + len

LEMMA UntilIs ==
  ASSUME NEW z \in Texts, NEW j \in 1 .. Len(z) + 1, NEW S, "NUL" \in S
  PROVE  /\ Until(z, j, S) \in j .. Len(z) + 1
         /\ At(z, Until(z, j, S)) \in S
         /\ \A m \in j .. Until(z, j, S) - 1 : At(z, m) \notin S
<1>1. Until(z, j, S) = Find(z, j, S)
  BY DEF Until, Find
<1> QED
  BY <1>1, FindIs

LEMMA UntilUnique ==
  ASSUME NEW z \in Texts, NEW j \in 1 .. Len(z) + 1, NEW S, "NUL" \in S,
         NEW n \in j .. Len(z) + 1, At(z, n) \in S, \A m \in j .. n - 1 : At(z, m) \notin S
  PROVE  Until(z, j, S) = n
BY UntilIs DEF Texts

EndsAt(z, n) == At(z, n) = "NUL" \/ (At(z, n) = "*" /\ At(z, n + 1) = "/")

LEMMA UntilEndIs ==
  ASSUME NEW z \in Texts, NEW j \in 1 .. Len(z) + 1
  PROVE  /\ UntilEnd(z, j) \in j .. Len(z) + 1
         /\ EndsAt(z, UntilEnd(z, j))
         /\ \A m \in j .. UntilEnd(z, j) - 1 : ~EndsAt(z, m)
<1> DEFINE N == {n \in j .. Len(z) + 1 : EndsAt(z, n)}
<1>1. N \in SUBSET Nat /\ N # {}
  <2>1. Len(z) + 1 \in N
    BY DEF Texts, At, EndsAt
  <2> QED
    BY <2>1 DEF Texts
<1> HIDE DEF N
<1>2. PICK n \in N : \A m \in N : n <= m
  BY <1>1, LeastNumber
<1>3. n \in j .. Len(z) + 1 /\ EndsAt(z, n)
  BY <1>2 DEF N
<1>4. \A m \in j .. n - 1 : ~EndsAt(z, m)
  BY <1>2, <1>3 DEF N, Texts
<1>5. n \in j .. j + Len(z)
  BY <1>3 DEF Texts
<1>6. UntilEnd(z, j) = CHOOSE e \in j .. j + Len(z) : EndsAt(z, e) /\ \A m \in j .. e - 1 : ~EndsAt(z, m)
  BY DEF UntilEnd, EndsAt
<1> DEFINE e == UntilEnd(z, j)
<1>7. e \in j .. j + Len(z) /\ EndsAt(z, e) /\ \A m \in j .. e - 1 : ~EndsAt(z, m)
  BY <1>3, <1>4, <1>5, <1>6
<1> HIDE DEF e
<1>8. e = n
  BY <1>3, <1>4, <1>7 DEF Texts
<1> QED
  BY <1>3, <1>7, <1>8 DEF e

LEMMA UntilEndUnique ==
  ASSUME NEW z \in Texts, NEW j \in 1 .. Len(z) + 1,
         NEW n \in j .. Len(z) + 1, EndsAt(z, n), \A m \in j .. n - 1 : ~EndsAt(z, m)
  PROVE  UntilEnd(z, j) = n
BY UntilEndIs DEF Texts

LEMMA BeyondIs ==
  ASSUME NEW z, NEW p
  PROVE  /\ At(z, p) \in Quotes => Beyond(z, p) = After(z, Until(z, p + 1, {"NUL", z[p]}), 1)
         /\ At(z, p) = "[" => Beyond(z, p) = After(z, Until(z, p + 1, {"NUL", "]"}), 1)
         /\ At(z, p) = "-" /\ At(z, p + 1) = "-" =>
              Beyond(z, p) = After(z, Until(z, p + 2, {"NUL", "NL"}), 1)
         /\ At(z, p) = "/" /\ At(z, p + 1) = "*" => Beyond(z, p) = After(z, UntilEnd(z, p + 2), 2)
         /\ /\ At(z, p) \notin Quotes \cup {"["}
            /\ ~(At(z, p) = "-" /\ At(z, p + 1) = "-")
            /\ ~(At(z, p) = "/" /\ At(z, p + 1) = "*")
            => Beyond(z, p) = p + 1
BY DEF Beyond, After, Quotes

(* It always goes on, and not past the end.                                *)
LEMMA BeyondMoves ==
  ASSUME NEW z \in Texts, NEW p \in 1 .. Len(z)
  PROVE  Beyond(z, p) \in p + 1 .. Len(z) + 1
<1>1. Len(z) \in Nat /\ p \in Nat /\ p + 1 \in 1 .. Len(z) + 1
  BY DEF Texts
<1>2. ASSUME NEW n \in p + 1 .. Len(z) + 1 PROVE After(z, n, 1) \in p + 1 .. Len(z) + 1
  <2>1. At(z, n) # "NUL" => n <= Len(z)
    BY <1>1, AtEndIsNUL
  <2> QED
    BY <1>1, <2>1 DEF After
<1>3. ASSUME NEW S, "NUL" \in S PROVE After(z, Until(z, p + 1, S), 1) \in p + 1 .. Len(z) + 1
  BY <1>1, <1>2, <1>3, UntilIs
<1>4. CASE At(z, p) \in Quotes
  <2>1. Beyond(z, p) = After(z, Until(z, p + 1, {"NUL", z[p]}), 1)
    BY <1>4, BeyondIs
  <2> QED
    BY <1>3, <2>1
<1>5. CASE At(z, p) = "["
  <2>1. Beyond(z, p) = After(z, Until(z, p + 1, {"NUL", "]"}), 1)
    BY <1>5, BeyondIs
  <2> QED
    BY <1>3, <2>1
<1>6. CASE At(z, p) = "-" /\ At(z, p + 1) = "-"
  <2>1. p + 2 \in 1 .. Len(z) + 1
    BY <1>1, <1>6, AtEndIsNUL
  <2>2. Until(z, p + 2, {"NUL", "NL"}) \in p + 1 .. Len(z) + 1
    BY <1>1, <2>1, UntilIs
  <2> QED
    BY <1>2, <1>6, <2>2, BeyondIs
<1>7. CASE At(z, p) = "/" /\ At(z, p + 1) = "*"
  <2>1. p + 2 \in 1 .. Len(z) + 1
    BY <1>1, <1>7, AtEndIsNUL
  <2> DEFINE n == UntilEnd(z, p + 2)
  <2>2. n \in p + 2 .. Len(z) + 1 /\ EndsAt(z, n)
    BY <2>1, UntilEndIs
  <2>3. At(z, n) # "NUL" => n + 1 <= Len(z)
    BY <1>1, <2>2, AtEndIsNUL DEF EndsAt
  <2> HIDE DEF n
  <2>4. After(z, n, 2) \in p + 1 .. Len(z) + 1
    BY <1>1, <2>2, <2>3 DEF After
  <2> QED
    BY <1>7, <2>4, BeyondIs DEF n
<1>8. CASE /\ At(z, p) \notin Quotes \cup {"["}
           /\ ~(At(z, p) = "-" /\ At(z, p + 1) = "-")
           /\ ~(At(z, p) = "/" /\ At(z, p + 1) = "*")
  <2>1. Beyond(z, p) = p + 1
    BY <1>8, BeyondIs
  <2> QED
    BY <1>1, <2>1
<1> QED
  BY <1>4, <1>5, <1>6, <1>7, <1>8

(* The semicolons seen from each position on, as an equation.              *)
SeenLoop(z, f) ==
  f = [p \in 1 .. Len(z) + 1 |->
        IF At(z, p) = "NUL" THEN {}
        ELSE (IF At(z, p) = "SC" THEN {p} ELSE {}) \cup f[Beyond(z, p)]]

Seen(z) == CHOOSE f : SeenLoop(z, f)

LEMMA SeenIs ==
  ASSUME NEW z \in Texts
  PROVE  SeenLoop(z, Seen(z)) /\ Semicolons(z) = Seen(z)[1]
<1> DEFINE hi == Len(z) + 1
           H == {p \in 1 .. hi : At(z, p) = "NUL"}
           next == [p \in 1 .. hi |-> Beyond(z, p)]
           val == [p \in 1 .. hi |-> {}]
           own == [p \in 1 .. hi |-> IF At(z, p) = "SC" THEN {p} ELSE {}]
<1>1. Len(z) \in Nat /\ hi \in Int /\ 1 <= hi + 1
  BY DEF Texts
<1>2. ASSUME NEW f
      PROVE  Collects(f, 1, hi, H, next, val, own) <=> SeenLoop(z, f)
  <2> DEFINE a(p) == IF At(z, p) = "NUL" THEN {}
                     ELSE (IF At(z, p) = "SC" THEN {p} ELSE {}) \cup f[Beyond(z, p)]
             b(p) == IF p \in H THEN val[p] ELSE own[p] \cup f[next[p]]
  <2>1. \A p \in 1 .. hi : a(p) = b(p)
    OBVIOUS
  <2> HIDE DEF a, b
  <2>2. [p \in 1 .. hi |-> a(p)] = [p \in 1 .. hi |-> b(p)]
    BY <2>1
  <2> QED
    BY <2>2 DEF Collects, SeenLoop, a, b
<1>3. Onward(1, hi, H, next)
  <2> SUFFICES ASSUME NEW p \in 1 .. hi, p \notin H PROVE next[p] \in p + 1 .. hi
    BY DEF Onward
  <2>1. p \in 1 .. Len(z)
    BY <1>1, AtEndIsNUL
  <2> QED
    BY <2>1, BeyondMoves
<1>4. \E f : Collects(f, 1, hi, H, next, val, own)
  <2> HIDE DEF hi, H, next, val, own
  <2> QED
    BY <1>1, <1>3, CollectsExists
<1>5. SeenLoop(z, Seen(z))
  <2> HIDE DEF hi, H, next, val, own
  <2> QED
    BY <1>2, <1>4 DEF Seen
<1>6. Semicolons(z) = Seen(z)[1]
  BY DEF Semicolons, Seen, SeenLoop
<1> QED
  BY <1>5, <1>6

LEMMA SeenAt ==
  ASSUME NEW z \in Texts, NEW p \in 1 .. Len(z) + 1
  PROVE  /\ At(z, p) = "NUL" => Seen(z)[p] = {}
         /\ At(z, p) # "NUL" => /\ p \in 1 .. Len(z)
                                /\ Seen(z)[p] = (IF At(z, p) = "SC" THEN {p} ELSE {}) \cup Seen(z)[Beyond(z, p)]
                                /\ Beyond(z, p) \in p + 1 .. Len(z) + 1
<1>1. Seen(z)[p] = IF At(z, p) = "NUL" THEN {}
                   ELSE (IF At(z, p) = "SC" THEN {p} ELSE {}) \cup Seen(z)[Beyond(z, p)]
  BY SeenIs DEF SeenLoop
<1>2. At(z, p) # "NUL" => p \in 1 .. Len(z)
  BY AtEndIsNUL DEF Texts
<1> QED
  BY <1>1, <1>2, BeyondMoves

(* What is seen is a semicolon, and from there on nothing else is seen.    *)
LEMMA SeenWithin ==
  ASSUME NEW z \in Texts, NEW p \in 1 .. Len(z) + 1, NEW n \in Seen(z)[p]
  PROVE  n \in p .. Len(z) /\ At(z, n) = "SC" /\ Seen(z)[n] \subseteq Seen(z)[p]
<1> DEFINE Good(q) == \A m \in Seen(z)[q] :
                        m \in q .. Len(z) /\ At(z, m) = "SC" /\ Seen(z)[m] \subseteq Seen(z)[q]
           N == {q \in 1 .. Len(z) + 1 : ~Good(q)}
<1>1. Len(z) \in Nat
  BY DEF Texts
<1> SUFFICES ASSUME N # {} PROVE FALSE
  OBVIOUS
<1>2. PICK q \in N : \A m \in N : m <= q
  <2>1. N \in SUBSET Int /\ Len(z) + 1 \in Int /\ \A m \in N : m <= Len(z) + 1
    BY <1>1
  <2> HIDE DEF N
  <2> QED
    BY <2>1, GreatestNumber
<1>3. q \in 1 .. Len(z) + 1 /\ ~Good(q)
  BY <1>2
<1>4. At(z, q) # "NUL"
  BY <1>3, SeenAt
<1>5. /\ q \in 1 .. Len(z) /\ Beyond(z, q) \in q + 1 .. Len(z) + 1
      /\ Seen(z)[q] = (IF At(z, q) = "SC" THEN {q} ELSE {}) \cup Seen(z)[Beyond(z, q)]
  BY <1>3, <1>4, SeenAt
<1>6. Good(Beyond(z, q))
  <2>1. Beyond(z, q) \in 1 .. Len(z) + 1 /\ ~(Beyond(z, q) <= q)
    BY <1>1, <1>5
  <2> HIDE DEF Good
  <2> QED
    BY <1>2, <2>1
<1>7. ASSUME NEW m \in Seen(z)[q]
      PROVE  m \in q .. Len(z) /\ At(z, m) = "SC" /\ Seen(z)[m] \subseteq Seen(z)[q]
  <2>1. CASE m \in Seen(z)[Beyond(z, q)]
    BY <1>1, <1>5, <1>6, <2>1
  <2>2. CASE m \notin Seen(z)[Beyond(z, q)]
    BY <1>1, <1>5, <2>2
  <2> QED
    BY <2>1, <2>2
<1> QED
  BY <1>3, <1>7

(* The scanner sees in the rest of a text what it sees from there on in    *)
(* the text: it starts anew behind each statement, and has forgotten       *)
(* nothing.                                                                *)
RestOf(z, d, y) ==
  /\ y \in Texts /\ Len(y) = Len(z) - d
  /\ \A n \in 1 .. Len(y) : y[n] = z[n + d]
  /\ \A n \in Nat : 1 <= n => At(y, n) = At(z, n + d)

(* A part of a text, and its bytes.                                        *)
LEMMA PartIs ==
  ASSUME NEW z \in Texts, NEW a \in Nat \ {0}, NEW b \in Nat, b <= Len(z)
  PROVE  /\ SubSeq(z, a, b) \in Texts
         /\ Len(SubSeq(z, a, b)) = IF a <= b THEN b - a + 1 ELSE 0
         /\ \A q \in 1 .. b - a + 1 : SubSeq(z, a, b)[q] = z[a + q - 1]
<1>1. \A q \in a .. b : z[q] \in STRING
  BY DEF Texts
<1>2. a \in Int /\ b \in Int
  OBVIOUS
<1> QED
  BY <1>1, <1>2, SubSeqProperties DEF Texts

LEMMA RestIs ==
  ASSUME NEW z \in Texts, NEW d \in 0 .. Len(z)
  PROVE  RestOf(z, d, SubSeq(z, d + 1, Len(z)))
<1> DEFINE y == SubSeq(z, d + 1, Len(z))
<1>1. Len(z) \in Nat /\ d \in Nat /\ d + 1 \in Nat \ {0} /\ Len(z) <= Len(z)
  BY DEF Texts
<1>2. \A n \in 1 .. Len(z) - (d + 1) + 1 : y[n] = z[(d + 1) + n - 1]
  BY <1>1, PartIs, Zenon
<1>2a. Len(y) = IF d + 1 <= Len(z) THEN Len(z) - (d + 1) + 1 ELSE 0
  BY <1>1, PartIs
<1>2b. y \in Texts
  BY <1>1, PartIs
<1> HIDE DEF y
<1>3. Len(y) = Len(z) - d
  BY <1>1, <1>2a
<1>4. ASSUME NEW n \in 1 .. Len(y) PROVE y[n] = z[n + d]
  <2>1. n \in 1 .. Len(z) - (d + 1) + 1 /\ (d + 1) + n - 1 = n + d
    BY <1>1, <1>3
  <2> QED
    BY <1>2, <2>1
<1>5. ASSUME NEW n \in Nat, 1 <= n PROVE At(y, n) = At(z, n + d)
  <2>1. n <= Len(y) <=> n + d <= Len(z)
    BY <1>1, <1>3
  <2>2. n <= Len(y) => n \in 1 .. Len(y)
    BY <1>1, <1>3, <1>5
  <2> QED
    BY <1>4, <2>1, <2>2 DEF At
<1> QED
  BY <1>2b, <1>3, <1>4, <1>5 DEF RestOf, y

LEMMA RestBeyond ==
  ASSUME NEW z \in Texts, NEW d \in 0 .. Len(z), NEW y, RestOf(z, d, y),
         NEW n \in 1 .. Len(y)
  PROVE  Beyond(z, n + d) = Beyond(y, n) + d
<1>1. /\ y \in Texts /\ Len(y) = Len(z) - d /\ Len(z) \in Nat /\ d \in Nat /\ Len(y) \in Nat
      /\ n \in Nat /\ 1 <= n /\ n <= Len(y) /\ n + d \in 1 .. Len(z)
  <2>1. Len(z) \in Nat /\ d \in Nat /\ d <= Len(z) /\ y \in Texts /\ Len(y) = Len(z) - d
    BY DEF RestOf, Texts
  <2> QED
    BY <2>1
<1> HIDE DEF RestOf
<1>a. ASSUME NEW m \in Nat, 1 <= m PROVE At(y, m) = At(z, m + d)
  BY <1>a, Zenon DEF RestOf
<1>2. y[n] = z[n + d] /\ At(y, n) = At(z, n + d) /\ At(y, n + 1) = At(z, (n + d) + 1)
  <2>1. (n + 1) + d = (n + d) + 1 /\ n + 1 \in Nat /\ 1 <= n + 1
    BY <1>1
  <2>2. y[n] = z[n + d]
    BY Zenon DEF RestOf
  <2>3. At(y, n + 1) = At(z, (n + 1) + d)
    BY <1>a, <2>1
  <2> QED
    BY <1>1, <1>a, <2>1, <2>2, <2>3
<1>3. ASSUME NEW m \in Nat, 1 <= m, NEW l \in Nat PROVE After(z, m + d, l) = After(y, m, l) + d
  <2>1. At(y, m) = At(z, m + d)
    BY <1>3, <1>a
  <2> QED
    BY <1>1, <2>1 DEF After
<1>4. ASSUME NEW j \in 1 .. Len(y) + 1, NEW S, "NUL" \in S
      PROVE  Until(z, j + d, S) = Until(y, j, S) + d /\ Until(y, j, S) \in Nat /\ 1 <= Until(y, j, S)
  <2> DEFINE e == Until(y, j, S)
  <2>1. e \in j .. Len(y) + 1 /\ At(y, e) \in S /\ \A m \in j .. e - 1 : At(y, m) \notin S
    BY <1>1, <1>4, UntilIs
  <2> HIDE DEF e
  <2>2. j + d \in 1 .. Len(z) + 1 /\ e + d \in j + d .. Len(z) + 1 /\ At(z, e + d) \in S
    <3>1. e \in Nat /\ 1 <= e
      BY <1>1, <2>1
    <3>2. At(z, e + d) \in S
      BY <1>a, <2>1, <3>1
    <3>3. j + d \in 1 .. Len(z) + 1 /\ e + d \in j + d .. Len(z) + 1
      BY <1>1, <2>1
    <3> QED
      BY <3>2, <3>3
  <2>3. ASSUME NEW m \in j + d .. (e + d) - 1 PROVE At(z, m) \notin S
    <3>1. m - d \in j .. e - 1 /\ (m - d) + d = m /\ m - d \in Nat /\ 1 <= m - d
      BY <1>1, <2>1
    <3> QED
      BY <1>a, <2>1, <3>1
  <2>4. Until(z, j + d, S) = e + d
    BY <1>4, <2>2, <2>3, UntilUnique
  <2> QED
    BY <1>1, <2>1, <2>4 DEF e
<1>5. ASSUME NEW j \in 1 .. Len(y) + 1
      PROVE  UntilEnd(z, j + d) = UntilEnd(y, j) + d /\ UntilEnd(y, j) \in Nat /\ 1 <= UntilEnd(y, j)
  <2> DEFINE e == UntilEnd(y, j)
  <2>1. e \in j .. Len(y) + 1 /\ EndsAt(y, e) /\ \A m \in j .. e - 1 : ~EndsAt(y, m)
    BY <1>1, UntilEndIs
  <2> HIDE DEF e
  <2>2. ASSUME NEW m \in Nat, 1 <= m PROVE EndsAt(z, m + d) <=> EndsAt(y, m)
    <3>1. (m + 1) + d = (m + d) + 1
      BY <1>1
    <3>2. At(y, m) = At(z, m + d) /\ At(y, m + 1) = At(z, (m + d) + 1)
      BY <1>a, <2>2, <3>1
    <3> QED
      BY <3>2 DEF EndsAt
  <2>3. j + d \in 1 .. Len(z) + 1 /\ e + d \in j + d .. Len(z) + 1 /\ EndsAt(z, e + d)
    <3>1. e \in Nat /\ 1 <= e
      BY <1>1, <2>1
    <3>2. EndsAt(z, e + d)
      BY <2>1, <2>2, <3>1
    <3>3. j + d \in 1 .. Len(z) + 1 /\ e + d \in j + d .. Len(z) + 1
      BY <1>1, <2>1
    <3> QED
      BY <3>2, <3>3
  <2>4. ASSUME NEW m \in j + d .. (e + d) - 1 PROVE ~EndsAt(z, m)
    <3>1. m - d \in j .. e - 1 /\ (m - d) + d = m /\ m - d \in Nat /\ 1 <= m - d
      BY <1>1, <2>1
    <3> QED
      BY <2>1, <2>2, <3>1
  <2>5. UntilEnd(z, j + d) = e + d
    BY <2>3, <2>4, UntilEndUnique
  <2> QED
    BY <1>1, <2>1, <2>5 DEF e
<1>6. n + 1 \in 1 .. Len(y) + 1 /\ (n + 1) + d = (n + d) + 1 /\ (n + 2) + d = (n + d) + 2
  BY <1>1
<1>7. ASSUME NEW j \in 1 .. Len(y) + 1, NEW S, "NUL" \in S
      PROVE  After(z, Until(z, j + d, S), 1) = After(y, Until(y, j, S), 1) + d
  <2>1. Until(z, j + d, S) = Until(y, j, S) + d /\ Until(y, j, S) \in Nat /\ 1 <= Until(y, j, S)
    BY <1>4, <1>7
  <2> QED
    BY <1>3, <2>1
<1>8. CASE At(y, n) \in Quotes
  <2>1. Beyond(y, n) = After(y, Until(y, n + 1, {"NUL", y[n]}), 1)
    BY <1>8, BeyondIs
  <2>2. At(z, n + d) \in Quotes
    BY <1>2, <1>8
  <2>3. Beyond(z, n + d) = After(z, Until(z, (n + d) + 1, {"NUL", z[n + d]}), 1)
    BY <2>2, BeyondIs
  <2>4. After(z, Until(z, (n + 1) + d, {"NUL", y[n]}), 1) = After(y, Until(y, n + 1, {"NUL", y[n]}), 1) + d
    BY <1>6, <1>7
  <2> QED
    BY <1>2, <1>6, <2>1, <2>3, <2>4
<1>9. CASE At(y, n) = "["
  <2>1. Beyond(y, n) = After(y, Until(y, n + 1, {"NUL", "]"}), 1)
    BY <1>9, BeyondIs
  <2>2. At(z, n + d) = "["
    BY <1>2, <1>9
  <2>3. Beyond(z, n + d) = After(z, Until(z, (n + d) + 1, {"NUL", "]"}), 1)
    BY <2>2, BeyondIs
  <2>4. After(z, Until(z, (n + 1) + d, {"NUL", "]"}), 1) = After(y, Until(y, n + 1, {"NUL", "]"}), 1) + d
    BY <1>6, <1>7
  <2> QED
    BY <1>6, <2>1, <2>3, <2>4
<1>10. CASE At(y, n) = "-" /\ At(y, n + 1) = "-"
  <2>1. Beyond(y, n) = After(y, Until(y, n + 2, {"NUL", "NL"}), 1)
    BY <1>10, BeyondIs
  <2>2. At(z, n + d) = "-" /\ At(z, (n + d) + 1) = "-"
    BY <1>2, <1>10
  <2>3. Beyond(z, n + d) = After(z, Until(z, (n + d) + 2, {"NUL", "NL"}), 1)
    BY <2>2, BeyondIs
  <2>4. n + 2 \in 1 .. Len(y) + 1
    BY <1>1, <1>10, AtEndIsNUL
  <2>5. After(z, Until(z, (n + 2) + d, {"NUL", "NL"}), 1) = After(y, Until(y, n + 2, {"NUL", "NL"}), 1) + d
    BY <1>7, <2>4
  <2> QED
    BY <1>6, <2>1, <2>3, <2>5
<1>11. CASE At(y, n) = "/" /\ At(y, n + 1) = "*"
  <2>1. Beyond(y, n) = After(y, UntilEnd(y, n + 2), 2)
    BY <1>11, BeyondIs
  <2>2. At(z, n + d) = "/" /\ At(z, (n + d) + 1) = "*"
    BY <1>2, <1>11
  <2>3. Beyond(z, n + d) = After(z, UntilEnd(z, (n + d) + 2), 2)
    BY <2>2, BeyondIs
  <2>4. n + 2 \in 1 .. Len(y) + 1
    BY <1>1, <1>11, AtEndIsNUL
  <2>5. UntilEnd(z, (n + 2) + d) = UntilEnd(y, n + 2) + d /\ UntilEnd(y, n + 2) \in Nat /\ 1 <= UntilEnd(y, n + 2)
    BY <1>5, <2>4
  <2>6. After(z, UntilEnd(y, n + 2) + d, 2) = After(y, UntilEnd(y, n + 2), 2) + d
    BY <1>3, <2>5
  <2> QED
    BY <1>6, <2>1, <2>3, <2>5, <2>6
<1>12. CASE /\ At(y, n) \notin Quotes \cup {"["}
            /\ ~(At(y, n) = "-" /\ At(y, n + 1) = "-")
            /\ ~(At(y, n) = "/" /\ At(y, n + 1) = "*")
  <2>1. Beyond(y, n) = n + 1
    BY <1>12, BeyondIs
  <2>2. Beyond(z, n + d) = (n + d) + 1
    BY <1>2, <1>12, BeyondIs
  <2> QED
    BY <1>6, <2>1, <2>2
<1> QED
  BY <1>8, <1>9, <1>10, <1>11, <1>12

LEMMA RestSeen ==
  ASSUME NEW z \in Texts, NEW d \in 0 .. Len(z), NEW y, RestOf(z, d, y)
  PROVE  Semicolons(y) = {m - d : m \in Seen(z)[d + 1]}
<1> DEFINE Good(n) == Seen(y)[n] = {m - d : m \in Seen(z)[n + d]}
           N == {n \in 1 .. Len(y) + 1 : ~Good(n)}
<1>1. y \in Texts /\ Len(y) = Len(z) - d /\ Len(z) \in Nat /\ d \in Nat /\ Len(y) \in Nat
  <2>1. Len(z) \in Nat /\ d \in Nat /\ d <= Len(z) /\ y \in Texts /\ Len(y) = Len(z) - d
    BY DEF RestOf, Texts
  <2> QED
    BY <2>1
<1> HIDE DEF RestOf
<1>2. N = {}
  <2> SUFFICES ASSUME N # {} PROVE FALSE
    OBVIOUS
  <2>1. PICK n \in N : \A m \in N : m <= n
    <3>1. N \in SUBSET Int /\ Len(y) + 1 \in Int /\ \A m \in N : m <= Len(y) + 1
      BY <1>1
    <3> HIDE DEF N
    <3> QED
      BY <3>1, GreatestNumber
  <2>2. n \in 1 .. Len(y) + 1 /\ ~Good(n) /\ n \in Nat /\ 1 <= n /\ n + d \in 1 .. Len(z) + 1
    BY <1>1, <2>1
  <2>3. At(y, n) = At(z, n + d)
    BY <2>2, Zenon DEF RestOf
  <2>4. CASE At(y, n) = "NUL"
    <3>1. Seen(y)[n] = {} /\ Seen(z)[n + d] = {}
      BY <1>1, <2>2, <2>3, <2>4, SeenAt
    <3> QED
      BY <2>2, <3>1
  <2>5. CASE At(y, n) # "NUL"
    <3>1. /\ n \in 1 .. Len(y) /\ Beyond(y, n) \in n + 1 .. Len(y) + 1
          /\ Seen(y)[n] = (IF At(y, n) = "SC" THEN {n} ELSE {}) \cup Seen(y)[Beyond(y, n)]
      BY <1>1, <2>2, <2>5, SeenAt
    <3>2. Seen(z)[n + d] = (IF At(y, n) = "SC" THEN {n + d} ELSE {}) \cup Seen(z)[Beyond(z, n + d)]
      BY <2>2, <2>3, <2>5, SeenAt
    <3>3. Beyond(z, n + d) = Beyond(y, n) + d
      BY <3>1, RestBeyond
    <3>4. Good(Beyond(y, n))
      <4>1. Beyond(y, n) \in 1 .. Len(y) + 1 /\ ~(Beyond(y, n) <= n)
        BY <1>1, <3>1
      <4> HIDE DEF Good
      <4> QED
        BY <2>1, <4>1
    <3>5. (n + d) - d = n
      BY <1>1, <2>2
    <3> QED
      BY <2>2, <3>1, <3>2, <3>3, <3>4, <3>5
  <2> QED
    BY <2>4, <2>5
<1>3. Good(1)
  <2>1. 1 \in 1 .. Len(y) + 1
    BY <1>1
  <2> HIDE DEF Good
  <2> QED
    BY <1>2, <2>1
<1>4. 1 + d = d + 1
  BY <1>1
<1> QED
  BY <1>1, <1>3, <1>4, SeenIs

(* Every cut of runScript is at a semicolon that the scanner sees when it  *)
(* reads the whole text.                                                   *)
Cut(z, p) ==
  LET S == Semicolons(SubSeq(z, p, Len(z))) IN p - 1 + CHOOSE n \in S : \A m \in S : n <= m

LEMMA CutIs ==
  ASSUME NEW z \in Texts, NEW p \in 1 .. Len(z) + 1
  PROVE  /\ Semicolons(SubSeq(z, p, Len(z))) = {} => Seen(z)[p] = {}
         /\ Semicolons(SubSeq(z, p, Len(z))) # {} => Cut(z, p) \in Seen(z)[p]
<1> DEFINE S == Semicolons(SubSeq(z, p, Len(z)))
           M == Seen(z)[p]
<1>1. Len(z) \in Nat /\ p \in Nat /\ p - 1 \in 0 .. Len(z) /\ (p - 1) + 1 = p
  BY DEF Texts
<1>2. S = {m - (p - 1) : m \in M}
  <2> DEFINE d == p - 1
  <2> HIDE DEF d
  <2>1. d \in 0 .. Len(z) /\ d + 1 = p
    BY <1>1 DEF d
  <2>2. RestOf(z, d, SubSeq(z, d + 1, Len(z)))
    BY <2>1, RestIs
  <2>3. Semicolons(SubSeq(z, d + 1, Len(z))) = {m - d : m \in Seen(z)[d + 1]}
    BY <2>1, <2>2, RestSeen
  <2> QED
    BY <2>1, <2>3 DEF d
<1>3. \A m \in M : m \in p .. Len(z)
  BY SeenWithin
<1> HIDE DEF S, M
<1>4. S \in SUBSET Nat
  <2>1. \A m \in M : m - (p - 1) \in Nat
    BY <1>1, <1>3
  <2> QED
    BY <1>2, <2>1
<1>5. S = {} => M = {}
  BY <1>2
<1>6. ASSUME S # {} PROVE p - 1 + (CHOOSE n \in S : \A m \in S : n <= m) \in M
  <2> DEFINE c == CHOOSE n \in S : \A m \in S : n <= m
  <2>1. c \in S
    BY <1>4, <1>6, LeastNumber
  <2> HIDE DEF c
  <2>2. PICK m \in M : c = m - (p - 1)
    BY <1>2, <2>1
  <2>3. p - 1 + c = m
    BY <1>1, <1>3, <2>2
  <2> QED
    BY <2>3 DEF c
<1> QED
  BY <1>5, <1>6 DEF Cut, S, M

LEMMA SeenSemicolon ==
  ASSUME NEW z \in Texts, NEW p \in 1 .. Len(z) + 1, At(z, p) = "SC"
  PROVE  Seen(z)[p] = {p} \cup Seen(z)[p + 1] /\ p \in 1 .. Len(z)
<1>1. Beyond(z, p) = p + 1
  BY BeyondIs DEF Quotes
<1> QED
  BY <1>1, SeenAt

LEMMA CutsAreSeen ==
  ASSUME NEW z \in Texts
  PROVE  Cuts(z) \subseteq Seen(z)[1]
<1> DEFINE hi == Len(z) + 1
           None(p) == Semicolons(SubSeq(z, p, Len(z))) = {}
           H == {p \in 1 .. hi : None(p)}
           next == [p \in 1 .. hi |-> Cut(z, p) + 1]
           val == [p \in 1 .. hi |-> {}]
           own == [p \in 1 .. hi |-> {Cut(z, p)}]
           loop == CHOOSE f : f = [p \in 1 .. hi |-> IF None(p) THEN {} ELSE {Cut(z, p)} \cup f[Cut(z, p) + 1]]
<1>1. Len(z) \in Nat /\ hi \in Int /\ 1 <= hi + 1
  BY DEF Texts
<1>2. Cuts(z) = loop[1]
  BY DEF Cuts, Cut
<1>3. ASSUME NEW p \in 1 .. hi, ~None(p)
      PROVE  Cut(z, p) \in Seen(z)[p] /\ Cut(z, p) \in p .. Len(z) /\ Cut(z, p) + 1 \in p + 1 .. hi
  <2>1. Cut(z, p) \in Seen(z)[p]
    BY <1>3, CutIs
  <2>2. Cut(z, p) \in p .. Len(z)
    BY <2>1, SeenWithin
  <2> QED
    BY <1>1, <2>1, <2>2
<1> HIDE DEF None
<1>4. ASSUME NEW f
      PROVE  Collects(f, 1, hi, H, next, val, own) <=>
             f = [p \in 1 .. hi |-> IF None(p) THEN {} ELSE {Cut(z, p)} \cup f[Cut(z, p) + 1]]
  <2> DEFINE a(p) == IF None(p) THEN {} ELSE {Cut(z, p)} \cup f[Cut(z, p) + 1]
             b(p) == IF p \in H THEN val[p] ELSE own[p] \cup f[next[p]]
  <2>1. \A p \in 1 .. hi : a(p) = b(p)
    OBVIOUS
  <2> HIDE DEF a, b
  <2>2. [p \in 1 .. hi |-> a(p)] = [p \in 1 .. hi |-> b(p)]
    BY <2>1
  <2> QED
    BY <2>2 DEF Collects, a, b
<1>5. loop = [p \in 1 .. hi |-> IF None(p) THEN {} ELSE {Cut(z, p)} \cup loop[Cut(z, p) + 1]]
  <2>1. Onward(1, hi, H, next)
    BY <1>1, <1>3 DEF Onward
  <2>2. \E f : Collects(f, 1, hi, H, next, val, own)
    <3> HIDE DEF hi, H, next, val, own
    <3> QED
      BY <1>1, <2>1, CollectsExists
  <2> HIDE DEF hi, H, next, val, own
  <2> QED
    BY <1>4, <2>2
<1> HIDE DEF loop
<1> DEFINE N == {p \in 1 .. hi : ~(loop[p] \subseteq Seen(z)[p])}
<1>6. SUFFICES ASSUME N # {} PROVE FALSE
  BY <1>1, <1>2
<1>7. PICK p \in N : \A m \in N : m <= p
  <2>1. N \in SUBSET Int /\ \A m \in N : m <= hi
    BY <1>1
  <2> HIDE DEF N, hi
  <2> QED
    BY <1>1, <1>6, <2>1, GreatestNumber
<1>8. p \in 1 .. hi /\ ~(loop[p] \subseteq Seen(z)[p])
  BY <1>7
<1>9. loop[p] = IF None(p) THEN {} ELSE {Cut(z, p)} \cup loop[Cut(z, p) + 1]
  BY <1>5, <1>8
<1>10. ~None(p)
  BY <1>8, <1>9
<1> DEFINE c == Cut(z, p)
<1>11. c \in Seen(z)[p] /\ c \in p .. Len(z) /\ c + 1 \in p + 1 .. hi
  BY <1>3, <1>8, <1>10
<1> HIDE DEF c
<1>12. Seen(z)[c] \subseteq Seen(z)[p] /\ At(z, c) = "SC"
  BY <1>8, <1>11, SeenWithin
<1>13. Seen(z)[c] = {c} \cup Seen(z)[c + 1]
  <2>1. c \in 1 .. Len(z) + 1
    BY <1>1, <1>8, <1>11
  <2> QED
    BY <1>12, <2>1, SeenSemicolon
<1>14. loop[c + 1] \subseteq Seen(z)[c + 1]
  <2>1. c + 1 \in 1 .. hi /\ ~(c + 1 <= p)
    BY <1>1, <1>8, <1>11
  <2> QED
    BY <1>7, <2>1
<1> QED
  BY <1>8, <1>9, <1>10, <1>11, <1>12, <1>13, <1>14 DEF c

---------------------------------------------------------------------------
(* Over a token of the tokenizer's that has nothing in it for              *)
(* sqlite3_complete, what is seen does not change.                         *)
Marks == Quotes \cup {"NUL", "SC", "[", "-", "/"}

LEMMA PlainStep ==
  ASSUME NEW z \in Texts, NEW p \in 1 .. Len(z) + 1, At(z, p) \notin Quotes \cup {"NUL", "SC", "["},
         ~(At(z, p) = "-" /\ At(z, p + 1) = "-"), ~(At(z, p) = "/" /\ At(z, p + 1) = "*")
  PROVE  Seen(z)[p] = Seen(z)[p + 1] /\ p \in 1 .. Len(z)
<1>1. Beyond(z, p) = p + 1
  BY BeyondIs
<1>2. At(z, p) # "NUL" /\ At(z, p) # "SC"
  OBVIOUS
<1> QED
  BY <1>1, <1>2, SeenAt

LEMMA OrdinaryStep ==
  ASSUME NEW z \in Texts, NEW p \in 1 .. Len(z) + 1, At(z, p) \notin Marks
  PROVE  Seen(z)[p] = Seen(z)[p + 1] /\ p \in 1 .. Len(z)
BY PlainStep DEF Marks

LEMMA OrdinaryRun ==
  ASSUME NEW z \in Texts, NEW p \in 1 .. Len(z) + 1, NEW q \in p .. Len(z) + 1,
         \A m \in p .. q - 1 : At(z, m) \notin Marks
  PROVE  Seen(z)[p] = Seen(z)[q]
<1>1. Len(z) \in Nat
  BY DEF Texts
<1>2. \A m \in p .. q - 1 : Seen(z)[m] = Seen(z)[m + 1]
  BY <1>1, OrdinaryStep
<1> QED
  BY <1>1, <1>2, SameAlong

LEMMA OrdinarySkip ==
  ASSUME NEW z \in Texts, NEW j \in 1 .. Len(z) + 1, NEW S, S \cap Marks = {}
  PROVE  Seen(z)[j] = Seen(z)[Skip(z, j, S)] /\ Skip(z, j, S) \in j .. Len(z) + 1
<1>1. "NUL" \notin S
  BY DEF Marks
<1>2. Skip(z, j, S) \in j .. Len(z) + 1 /\ \A m \in j .. Skip(z, j, S) - 1 : At(z, m) \in S
  BY <1>1, SkipIs
<1>3. \A m \in j .. Skip(z, j, S) - 1 : At(z, m) \notin Marks
  BY <1>2
<1> QED
  BY <1>2, <1>3, OrdinaryRun

LEMMA OrdinaryClasses ==
  /\ isIDChar \cap Marks = {} /\ isKeywordChar \cap Marks = {} /\ isSpace \cap Marks = {}
  /\ (isDigit \cup {"US"}) \cap Marks = {} /\ (isHex \cup {"US"}) \cap Marks = {}
  /\ isDigit \cap Marks = {} /\ isHex \cap Marks = {}
BY DEF Marks, Quotes, isIDChar, isKeywordChar, isSpace, isDigit, isHex, isAlpha, Lower, Upper

LEMMA AfterSeen ==
  ASSUME NEW z \in Texts, NEW n, NEW l
  PROVE  Seen(z)[After(z, n, l)] = IF At(z, n) = "NUL" THEN {} ELSE Seen(z)[n + l]
<1>1. Seen(z)[Len(z) + 1] = {}
  <2>1. Len(z) + 1 \in 1 .. Len(z) + 1 /\ At(z, Len(z) + 1) = "NUL"
    BY DEF Texts, At
  <2> QED
    BY <2>1, SeenAt
<1> QED
  BY <1>1 DEF After

LEMMA BeyondSeen ==
  ASSUME NEW z \in Texts, NEW p \in 1 .. Len(z) + 1, At(z, p) \notin {"NUL", "SC"},
         NEW n, NEW l, Beyond(z, p) = After(z, n, l)
  PROVE  Seen(z)[p] = IF At(z, n) = "NUL" THEN {} ELSE Seen(z)[n + l]
<1>1. Seen(z)[p] = Seen(z)[Beyond(z, p)]
  <2>1. At(z, p) # "NUL" /\ At(z, p) # "SC"
    OBVIOUS
  <2>2. Seen(z)[p] = (IF At(z, p) = "SC" THEN {p} ELSE {}) \cup Seen(z)[Beyond(z, p)]
    BY <2>1, SeenAt
  <2> QED
    BY <2>1, <2>2
<1> QED
  BY <1>1, AfterSeen

(* What is seen from a position on is seen from the end of its token on,   *)
(* for each helper of the scanner.                                         *)
Heard(z, p, t) == Seen(z)[p] \subseteq Seen(z)[t.stop]

LEMMA HeardAt ==
  ASSUME NEW z, NEW p, NEW kind, NEW q, Seen(z)[p] \subseteq Seen(z)[q]
  PROVE  Heard(z, p, Token(kind, q))
BY DEF Heard, Token

LEMMA SpaceHeard ==
  ASSUME NEW z \in Texts, NEW p \in 1 .. Len(z), z[p] \in isSpace
  PROVE  Heard(z, p, scanSpace(z, p))
<1>1. p \in 1 .. Len(z) + 1 /\ p + 1 \in 1 .. Len(z) + 1 /\ At(z, p) = z[p]
  BY DEF Texts, At
<1>2. At(z, p) \notin Marks
  BY <1>1, OrdinaryClasses
<1>3. Seen(z)[p] = Seen(z)[p + 1]
  BY <1>1, <1>2, OrdinaryStep
<1>4. Seen(z)[p + 1] = Seen(z)[Skip(z, p + 1, isSpace)]
  BY <1>1, OrdinaryClasses, OrdinarySkip
<1> QED
  BY <1>3, <1>4, HeardAt DEF scanSpace

LEMMA IdentHeard ==
  ASSUME NEW z \in Texts, NEW p \in 1 .. Len(z), NEW j \in 1 .. Len(z) + 1, Seen(z)[p] = Seen(z)[j]
  PROVE  Heard(z, p, scanIdent(z, j))
<1>1. Seen(z)[j] = Seen(z)[Skip(z, j, isIDChar)]
  BY OrdinaryClasses, OrdinarySkip
<1> QED
  BY <1>1, HeardAt DEF scanIdent

LEMMA MinusHeard ==
  ASSUME NEW z \in Texts, NEW p \in 1 .. Len(z), z[p] = "-"
  PROVE  Heard(z, p, scanMinus(z, p))
<1>1. Len(z) \in Nat /\ p \in 1 .. Len(z) + 1 /\ p + 1 \in 1 .. Len(z) + 1 /\ At(z, p) = "-"
  BY DEF Texts, At
<1>2. CASE At(z, p + 1) = "-"
  <2> DEFINE e == Until(z, p + 2, {"NUL", "NL"})
  <2>1. p + 2 \in 1 .. Len(z) + 1
    BY <1>1, <1>2, AtEndIsNUL
  <2>2. scanMinus(z, p) = Token("COMMENT", e)
    <3>1. Find(z, p + 2, {"NUL", "NL"}) = e
      BY DEF Until, Find
    <3> QED
      BY <1>2, <3>1 DEF scanMinus
  <2>3. e \in 1 .. Len(z) + 1 /\ At(z, e) \in {"NUL", "NL"}
    <3>1. e \in p + 2 .. Len(z) + 1 /\ At(z, e) \in {"NUL", "NL"}
      BY <2>1, UntilIs
    <3> HIDE DEF e
    <3> QED
      BY <1>1, <3>1
  <2>4. Beyond(z, p) = After(z, e, 1)
    BY <1>1, <1>2, BeyondIs
  <2> HIDE DEF e
  <2>5. Seen(z)[p] = IF At(z, e) = "NUL" THEN {} ELSE Seen(z)[e + 1]
    <3>1. At(z, p) \notin {"NUL", "SC"}
      BY <1>1
    <3> QED
      BY <1>1, <2>4, <3>1, BeyondSeen
  <2>6. At(z, e) = "NL" => Seen(z)[e] = Seen(z)[e + 1]
    BY <2>3, OrdinaryStep DEF Marks, Quotes
  <2>7. Seen(z)[p] \subseteq Seen(z)[e]
    BY <2>3, <2>5, <2>6
  <2> QED
    BY <2>2, <2>7, HeardAt
<1>3. CASE At(z, p + 1) # "-"
  <2>1. Seen(z)[p] = Seen(z)[p + 1]
    BY <1>1, <1>3, PlainStep DEF Quotes
  <2>2. CASE At(z, p + 1) # ">"
    <3>1. scanMinus(z, p) = Token("MINUS", p + 1)
      BY <1>3, <2>2 DEF scanMinus
    <3> QED
      BY <2>1, <3>1, HeardAt
  <2>3. CASE At(z, p + 1) = ">"
    <3>1. Seen(z)[p + 1] = Seen(z)[(p + 1) + 1] /\ p + 1 \in 1 .. Len(z)
      BY <1>1, <2>3, OrdinaryStep DEF Marks, Quotes
    <3>2. (p + 1) + 1 = p + 2 /\ (p + 2) + 1 = p + 3 /\ p + 2 \in 1 .. Len(z) + 1
      BY <1>1, <3>1
    <3>3. At(z, p + 2) = ">" => Seen(z)[p + 2] = Seen(z)[p + 3]
      BY <3>2, OrdinaryStep DEF Marks, Quotes
    <3>4. scanMinus(z, p) = Token("PTR", IF At(z, p + 2) = ">" THEN p + 3 ELSE p + 2)
      BY <2>3 DEF scanMinus
    <3>5. Seen(z)[p] \subseteq Seen(z)[IF At(z, p + 2) = ">" THEN p + 3 ELSE p + 2]
      BY <2>1, <3>1, <3>2, <3>3
    <3> QED
      BY <3>4, <3>5, HeardAt
  <2> QED
    BY <2>2, <2>3
<1> QED
  BY <1>2, <1>3

LEMMA SlashHeard ==
  ASSUME NEW z \in Texts, NEW p \in 1 .. Len(z), z[p] = "/"
  PROVE  Heard(z, p, scanSlash(z, p))
<1>1. Len(z) \in Nat /\ p \in Nat /\ p \in 1 .. Len(z) + 1 /\ p + 1 \in 1 .. Len(z) + 1 /\ At(z, p) = "/"
  BY DEF Texts, At
<1>2. CASE At(z, p + 1) # "*"
  <2>1. Seen(z)[p] = Seen(z)[p + 1]
    BY <1>1, <1>2, PlainStep DEF Quotes
  <2>2. scanSlash(z, p) = Token("SLASH", p + 1)
    BY <1>2 DEF scanSlash
  <2> QED
    BY <2>1, <2>2, HeardAt
<1>3. CASE At(z, p + 1) = "*"
  <2> DEFINE e == UntilEnd(z, p + 2)
  <2>1. p + 2 \in 1 .. Len(z) + 1
    BY <1>1, <1>3, AtEndIsNUL
  <2>2. e \in p + 2 .. Len(z) + 1 /\ EndsAt(z, e) /\ \A m \in p + 2 .. e - 1 : ~EndsAt(z, m)
    BY <2>1, UntilEndIs
  <2>3. Beyond(z, p) = After(z, e, 2)
    BY <1>1, <1>3, BeyondIs
  <2> HIDE DEF e
  <2>4. Seen(z)[p] = IF At(z, e) = "NUL" THEN {} ELSE Seen(z)[e + 2]
    <3>1. At(z, p) \notin {"NUL", "SC"}
      BY <1>1
    <3> QED
      BY <1>1, <2>3, <3>1, BeyondSeen
  <2>5. CASE At(z, p + 2) = "NUL"
    <3>1. scanSlash(z, p) = Token("SLASH", p + 1)
      BY <2>5 DEF scanSlash
    <3>2. p + 2 \notin p + 2 .. e - 1
      BY <2>2, <2>5 DEF EndsAt
    <3>3. e = p + 2
      BY <1>1, <2>2, <3>2
    <3>4. Seen(z)[p] = {}
      BY <2>4, <2>5, <3>3
    <3> QED
      BY <3>1, <3>4, HeardAt
  <2>6. CASE At(z, p + 2) # "NUL"
    <3> DEFINE Ends(n) == At(z, n) = "NUL" \/ (At(z, n - 1) = "*" /\ At(z, n) = "/")
               First(n) == n \in p + 3 .. p + 3 + Len(z) /\ Ends(n) /\ \A m \in p + 3 .. n - 1 : ~Ends(m)
               c == CHOOSE n \in p + 3 .. p + 3 + Len(z) : Ends(n) /\ \A m \in p + 3 .. n - 1 : ~Ends(m)
               d == IF At(z, e) = "NUL" THEN e ELSE e + 1
    <3>1. scanSlash(z, p) = Token("COMMENT", IF At(z, c) = "NUL" THEN c ELSE c + 1)
      BY <1>3, <2>6 DEF scanSlash
    <3>2. /\ e \in Nat /\ p + 2 <= e /\ e <= Len(z) + 1
          /\ At(z, e) # "NUL" => At(z, e) = "*" /\ At(z, e + 1) = "/"
      BY <1>1, <2>2 DEF EndsAt
    <3>3. ASSUME NEW m \in p + 3 .. d - 1 PROVE ~Ends(m)
      <4>1. m \in Nat /\ m - 1 \in Nat /\ p + 2 <= m - 1 /\ m - 1 <= e - 1 /\ (m - 1) + 1 = m
        BY <1>1, <3>2
      <4>2. m - 1 \in p + 2 .. e - 1
        BY <1>1, <3>2, <4>1
      <4>3. ~(At(z, m - 1) = "*" /\ At(z, m) = "/")
        BY <2>2, <4>1, <4>2 DEF EndsAt
      <4>4. CASE m = e
        <5>1. At(z, e) # "NUL"
          BY <1>1, <3>2, <4>4
        <5> QED
          BY <4>3, <4>4, <5>1
      <4>5. CASE m # e
        <5>1. m \in p + 2 .. e - 1
          BY <1>1, <3>2, <4>1, <4>5
        <5>2. At(z, m) # "NUL"
          BY <2>2, <5>1 DEF EndsAt
        <5> QED
          BY <4>3, <5>2
      <4> QED
        BY <4>4, <4>5
    <3>4. d \in p + 3 .. p + 3 + Len(z) /\ Ends(d)
      <4>1. CASE At(z, e) = "NUL"
        <5>1. e # p + 2
          BY <2>6, <4>1
        <5> QED
          BY <1>1, <3>2, <4>1, <5>1
      <4>2. CASE At(z, e) # "NUL"
        <5>1. (e + 1) - 1 = e
          BY <3>2
        <5> QED
          BY <1>1, <3>2, <4>2, <5>1
      <4> QED
        BY <4>1, <4>2
    <3>5. First(d)
      <4> HIDE DEF Ends, d
      <4> QED
        BY <3>3, <3>4
    <3>6. \A n : First(n) => n = d
      <4> SUFFICES ASSUME NEW n, First(n) PROVE n = d
        OBVIOUS
      <4>1. n \in Int /\ d \in Int /\ p + 3 <= n /\ p + 3 <= d
        BY <1>1, <3>4
      <4>2. d \notin p + 3 .. n - 1 /\ n \notin p + 3 .. d - 1
        BY <3>5
      <4> HIDE DEF First, d
      <4> QED
        BY <1>1, <4>1, <4>2
    <3>7. c = d
      <4>1. First(c)
        BY <3>5
      <4> HIDE DEF c
      <4> QED
        BY <3>6, <4>1
    <3> HIDE DEF c, Ends, First
    <3>8. CASE At(z, e) = "NUL"
      BY <2>4, <3>1, <3>7, <3>8, HeardAt
    <3>9. CASE At(z, e) # "NUL"
      <4>1. d = e + 1 /\ At(z, d) # "NUL"
        BY <3>2, <3>9
      <4>2. d + 1 = e + 2
        BY <3>2, <4>1
      <4>3. scanSlash(z, p) = Token("COMMENT", e + 2)
        BY <3>1, <3>7, <4>1, <4>2
      <4> QED
        BY <2>4, <3>9, <4>3, HeardAt
    <3> QED
      BY <3>8, <3>9
  <2> QED
    BY <2>5, <2>6
<1> QED
  BY <1>2, <1>3

LEMMA BracketHeard ==
  ASSUME NEW z \in Texts, NEW p \in 1 .. Len(z), z[p] = "["
  PROVE  Heard(z, p, scanBracket(z, p))
<1> DEFINE e == Until(z, p + 1, {"NUL", "]"})
<1>1. p \in 1 .. Len(z) + 1 /\ p + 1 \in 1 .. Len(z) + 1 /\ At(z, p) = "["
  BY DEF Texts, At
<1>2. At(z, e) \in {"NUL", "]"}
  BY <1>1, UntilIs
<1>3. Beyond(z, p) = After(z, e, 1)
  BY <1>1, BeyondIs
<1>4. scanBracket(z, p) = IF At(z, e) = "]" THEN Token("ID", e + 1) ELSE Token("ILLEGAL", e)
  <2>1. Find(z, p + 1, {"NUL", "]"}) = e
    BY DEF Until, Find
  <2> QED
    BY <2>1 DEF scanBracket
<1> HIDE DEF e
<1>5. Seen(z)[p] = IF At(z, e) = "NUL" THEN {} ELSE Seen(z)[e + 1]
  <2>1. At(z, p) \notin {"NUL", "SC"}
    BY <1>1
  <2> QED
    BY <1>1, <1>3, <2>1, BeyondSeen
<1> QED
  BY <1>2, <1>4, <1>5, HeardAt

LEMMA BlobHeard ==
  ASSUME NEW z \in Texts, NEW p \in 1 .. Len(z), z[p] \in {"x", "X"}, At(z, p + 1) = "'"
  PROVE  Heard(z, p, scanBlob(z, p))
<1> DEFINE n    == Skip(z, p + 2, isHex)
           good == At(z, n) = "'" /\ (n - p) % 2 = 0
           e    == IF good THEN n ELSE Find(z, n, {"NUL", "'"})
<1>1. Len(z) \in Nat /\ p \in Nat /\ p + 1 \in 1 .. Len(z) + 1 /\ p + 2 \in 1 .. Len(z) + 1 /\ At(z, p) = z[p]
      /\ (p + 1) + 1 = p + 2 /\ p \in 1 .. Len(z) + 1
  BY AtEndIsNUL DEF Texts, At
<1>2. n \in p + 2 .. Len(z) + 1 /\ \A m \in p + 2 .. n - 1 : At(z, m) \in isHex
  BY <1>1, NoNUL, SkipIs
<1>3. scanBlob(z, p) = Token(IF good THEN "BLOB" ELSE "ILLEGAL", IF At(z, e) = "NUL" THEN e ELSE e + 1)
  BY DEF scanBlob
<1> HIDE DEF n
<1>4. n \in 1 .. Len(z) + 1
  BY <1>1, <1>2
<1>5. /\ Find(z, n, {"NUL", "'"}) \in n .. Len(z) + 1
      /\ At(z, Find(z, n, {"NUL", "'"})) \in {"NUL", "'"}
      /\ \A m \in n .. Find(z, n, {"NUL", "'"}) - 1 : At(z, m) \notin {"NUL", "'"}
  BY <1>4, FindIs
<1>6. e \in n .. Len(z) + 1 /\ At(z, e) \in {"NUL", "'"} /\ \A m \in n .. e - 1 : At(z, m) \notin {"NUL", "'"}
  <2>1. CASE good
    BY <1>1, <1>2, <1>4, <2>1
  <2>2. CASE ~good
    BY <1>5, <2>2
  <2> QED
    BY <2>1, <2>2
<1> HIDE DEF e, good
<1>7. e \in p + 2 .. Len(z) + 1 /\ \A m \in p + 2 .. e - 1 : At(z, m) \notin {"NUL", "'"}
  <2>1. "NUL" \notin isHex /\ "'" \notin isHex
    BY DEF isHex, isDigit
  <2>2. e \in p + 2 .. Len(z) + 1
    BY <1>1, <1>2, <1>6
  <2>3. ASSUME NEW m \in p + 2 .. e - 1 PROVE At(z, m) \notin {"NUL", "'"}
    <3>1. m \in p + 2 .. n - 1 \/ m \in n .. e - 1
      BY <1>1, <1>2, <2>2
    <3> QED
      BY <1>2, <1>6, <2>1, <3>1
  <2> QED
    BY <2>2, <2>3
<1>8. Until(z, p + 2, {"NUL", "'"}) = e
  BY <1>1, <1>6, <1>7, UntilUnique
<1>9. Seen(z)[p] = Seen(z)[p + 1]
  BY <1>1, OrdinaryStep DEF Marks, Quotes
<1>10. At(z, p + 1) = "'" /\ z[p + 1] = "'"
  <2>1. p + 1 \in 1 .. Len(z)
    BY <1>1, AtEndIsNUL
  <2> QED
    BY <2>1 DEF At
<1>11. Beyond(z, p + 1) = After(z, e, 1)
  <2>1. Beyond(z, p + 1) = After(z, Until(z, (p + 1) + 1, {"NUL", z[p + 1]}), 1)
    BY <1>10, BeyondIs DEF Quotes
  <2> QED
    BY <1>1, <1>8, <1>10, <2>1
<1>12. Seen(z)[p + 1] = IF At(z, e) = "NUL" THEN {} ELSE Seen(z)[e + 1]
  <2>1. At(z, p + 1) \notin {"NUL", "SC"}
    BY <1>10
  <2> QED
    BY <1>1, <1>11, <2>1, BeyondSeen
<1> QED
  BY <1>3, <1>9, <1>12, HeardAt

(* A delimiter that is doubled ends one string of sqlite3_complete's and   *)
(* starts the next.                                                        *)
LEMMA QuoteHeard ==
  ASSUME NEW z \in Texts, NEW p \in 1 .. Len(z), z[p] \in Quotes
  PROVE  Heard(z, p, scanQuote(z, p))
<1> DEFINE S == {"NUL", z[p]}
           Inside(n) == Seen(z)[After(z, Until(z, n, S), 1)]
           hi == Len(z) + 1
<1>1. Len(z) \in Nat /\ p \in Nat /\ p \in 1 .. hi /\ p + 1 \in p + 1 .. hi /\ At(z, p) = z[p]
      /\ z[p] # "NUL"
  BY DEF Texts, At, Quotes
<1>2. PICK f : ClosingLoop(z, p, f) /\ closing(z, p) = f[p + 1]
  BY <1>1, ClosingIs
<1> DEFINE a(n) == CASE At(z, n) = "NUL" -> n
                     [] At(z, n) = z[p]  -> IF At(z, n + 1) = z[p] THEN f[n + 2] ELSE n
                     [] OTHER            -> f[n + 1]
           Good(n) == /\ f[n] \in n .. hi /\ At(z, f[n]) \in S
                      /\ Inside(n) = IF At(z, f[n]) = "NUL" THEN {} ELSE Seen(z)[f[n] + 1]
           N == {n \in p + 1 .. hi : ~Good(n)}
<1>n. ASSUME NEW m \in p + 1 .. hi, m \notin N PROVE Good(m)
  <2> HIDE DEF Good, hi
  <2> QED
    BY <1>n
<1>3. \A n \in p + 1 .. Len(z) + 2 : f[n] = a(n)
  <2>1. f = [n \in p + 1 .. Len(z) + 2 |-> a(n)]
    BY <1>2 DEF ClosingLoop
  <2> HIDE DEF a
  <2> QED
    BY <2>1
<1>4. ASSUME NEW n \in p + 1 .. hi, At(z, n) \in S
      PROVE  Inside(n) = IF At(z, n) = "NUL" THEN {} ELSE Seen(z)[n + 1]
  <2>1. n \in 1 .. Len(z) + 1 /\ n \in n .. Len(z) + 1 /\ \A m \in n .. n - 1 : At(z, m) \notin S
    BY <1>1
  <2>2. Until(z, n, S) = n
    <3>1. "NUL" \in S
      OBVIOUS
    <3> HIDE DEF S
    <3> QED
      BY <1>4, <2>1, <3>1, UntilUnique
  <2> QED
    BY <2>2, AfterSeen
<1>5. N = {}
  <2> SUFFICES ASSUME N # {} PROVE FALSE
    OBVIOUS
  <2>1. PICK n \in N : \A m \in N : m <= n
    <3>1. N \in SUBSET Int /\ hi \in Int /\ \A m \in N : m <= hi
      BY <1>1
    <3> HIDE DEF N, hi
    <3> QED
      BY <3>1, GreatestNumber
  <2>2. n \in p + 1 .. hi /\ ~Good(n) /\ n \in Nat
    BY <1>1, <2>1
  <2>3. f[n] = a(n)
    BY <1>1, <1>3, <2>2
  <2>4. ASSUME NEW m \in n + 1 .. hi PROVE Good(m)
    <3>1. m \in p + 1 .. hi /\ ~(m <= n)
      BY <1>1, <2>2
    <3>2. m \notin N
      <4> HIDE DEF N
      <4> QED
        BY <2>1, <3>1
    <3> HIDE DEF Good, N, hi
    <3> QED
      BY <1>n, <3>1, <3>2
  <2>5. CASE At(z, n) = "NUL" \/ (At(z, n) = z[p] /\ At(z, n + 1) # z[p])
    <3>1. f[n] = n /\ At(z, n) \in S
      <4> HIDE DEF N, Good, Inside
      <4> QED
        BY <1>1, <2>3, <2>5
    <3>2. Inside(n) = IF At(z, n) = "NUL" THEN {} ELSE Seen(z)[n + 1]
      BY <1>4, <2>2, <3>1
    <3> QED
      BY <1>1, <2>2, <3>1, <3>2
  <2>6. CASE At(z, n) # "NUL" /\ At(z, n) = z[p] /\ At(z, n + 1) = z[p]
    <3>1. n + 1 \in 1 .. Len(z) /\ n + 2 \in n + 1 .. hi /\ (n + 1) + 1 = n + 2
      BY <1>1, <2>2, <2>6, AtEndIsNUL
    <3>2. f[n] = f[n + 2]
      BY <1>1, <2>3, <2>6
    <3>3. Good(n + 2)
      BY <2>4, <3>1
    <3>4. Inside(n) = Seen(z)[n + 1]
      BY <1>4, <2>2, <2>6
    <3>5. Seen(z)[n + 1] = Inside(n + 2)
      <4>1. z[n + 1] = z[p] /\ At(z, n + 1) \in Quotes
        BY <2>6, <3>1 DEF At
      <4>2. Beyond(z, n + 1) = After(z, Until(z, (n + 1) + 1, {"NUL", z[n + 1]}), 1)
        BY <4>1, BeyondIs
      <4>3. Beyond(z, n + 1) = After(z, Until(z, n + 2, S), 1)
        BY <3>1, <4>1, <4>2
      <4>4. Seen(z)[n + 1] = Seen(z)[Beyond(z, n + 1)]
        <5>1. At(z, n + 1) # "NUL" /\ At(z, n + 1) # "SC"
          BY <4>1 DEF Quotes
        <5>2. n + 1 \in 1 .. Len(z) + 1
          BY <1>1, <3>1
        <5>3. Seen(z)[n + 1] = (IF At(z, n + 1) = "SC" THEN {n + 1} ELSE {}) \cup Seen(z)[Beyond(z, n + 1)]
          BY <5>1, <5>2, SeenAt
        <5> QED
          BY <5>1, <5>3
      <4> QED
        BY <4>3, <4>4
    <3> HIDE DEF Inside, S, a, N
    <3> QED
      BY <1>1, <2>2, <3>1, <3>2, <3>3, <3>4, <3>5
  <2>7. CASE At(z, n) # "NUL" /\ At(z, n) # z[p]
    <3>1. n + 1 \in n + 1 .. hi
      BY <1>1, <2>2, <2>7, AtEndIsNUL
    <3>2. f[n] = f[n + 1]
      BY <2>3, <2>7
    <3>3. Good(n + 1)
      BY <2>4, <3>1
    <3>4. Until(z, n, S) = Until(z, n + 1, S)
      <4> DEFINE e == Until(z, n + 1, S)
      <4>1. "NUL" \in S /\ At(z, n) \notin S /\ n \in 1 .. Len(z) + 1 /\ n + 1 \in 1 .. Len(z) + 1
        BY <1>1, <2>2, <2>7, <3>1
      <4> HIDE DEF S
      <4>2. e \in n + 1 .. Len(z) + 1 /\ At(z, e) \in S /\ \A m \in n + 1 .. e - 1 : At(z, m) \notin S
        BY <4>1, UntilIs
      <4> HIDE DEF e
      <4>3. e \in n .. Len(z) + 1 /\ \A m \in n .. e - 1 : At(z, m) \notin S
        BY <1>1, <2>2, <4>1, <4>2
      <4>4. Until(z, n, S) = e
        BY <4>1, <4>2, <4>3, UntilUnique
      <4> QED
        BY <4>4 DEF e
    <3>5. Inside(n) = Inside(n + 1)
      BY <3>4
    <3> HIDE DEF Inside, S, a, N
    <3> QED
      BY <1>1, <2>2, <3>1, <3>2, <3>3, <3>5
  <2> QED
    BY <2>5, <2>6, <2>7
<1> DEFINE e == closing(z, p)
<1>6. /\ e \in p + 1 .. hi /\ At(z, e) \in S
      /\ Inside(p + 1) = IF At(z, e) = "NUL" THEN {} ELSE Seen(z)[e + 1]
  <2>1. Good(p + 1)
    <3> HIDE DEF Good
    <3> QED
      BY <1>1, <1>5
  <2> HIDE DEF Inside, S
  <2> QED
    BY <1>2, <2>1
<1>7. Seen(z)[p] = Inside(p + 1)
  <2>1. Beyond(z, p) = After(z, Until(z, p + 1, S), 1)
    BY <1>1, BeyondIs
  <2>2. Seen(z)[p] = Seen(z)[Beyond(z, p)]
    <3>1. At(z, p) # "NUL" /\ At(z, p) # "SC"
      BY <1>1 DEF Quotes
    <3>2. Seen(z)[p] = (IF At(z, p) = "SC" THEN {p} ELSE {}) \cup Seen(z)[Beyond(z, p)]
      BY <1>1, <3>1, SeenAt
    <3> QED
      BY <3>1, <3>2
  <2> QED
    BY <2>1, <2>2
<1>8. scanQuote(z, p) = CASE At(z, e) = "NUL" -> Token("ILLEGAL", e)
                          [] At(z, e) = "'"   -> Token("STRING", e + 1)
                          [] OTHER            -> Token("ID", e + 1)
  BY DEF scanQuote
<1> HIDE DEF e, Inside, N, Good, a
<1>9. CASE At(z, e) = "NUL"
  BY <1>6, <1>7, <1>8, <1>9, HeardAt
<1>10. CASE At(z, e) # "NUL"
  <2>1. Seen(z)[p] \subseteq Seen(z)[e + 1]
    BY <1>6, <1>7, <1>10
  <2>2. scanQuote(z, p) \in {Token("STRING", e + 1), Token("ID", e + 1)}
    BY <1>8, <1>10
  <2> QED
    BY <2>1, <2>2, HeardAt
<1> QED
  BY <1>9, <1>10

LEMMA NumberHeard ==
  ASSUME NEW z \in Texts, NEW p \in 1 .. Len(z), z[p] \in {".", "0"}
  PROVE  Heard(z, p, scanNumber(z, p))
<1> DEFINE Run(j, S) == Skip(z, j, S \cup {"US"})
           hex   == z[p] = "0" /\ At(z, p + 1) \in {"x", "X"} /\ At(z, p + 2) \in isHex
           whole == IF hex THEN Run(p + 3, isHex) ELSE Run(p, isDigit)
           dot   == ~hex /\ At(z, whole) = "."
           frac  == IF dot THEN Run(whole + 1, isDigit) ELSE whole
           exp   == /\ ~hex
                    /\ At(z, frac) \in {"e", "E"}
                    /\ \/ At(z, frac + 1) \in isDigit
                       \/ At(z, frac + 1) \in {"+", "-"} /\ At(z, frac + 2) \in isDigit
           end   == IF exp THEN Run(frac + 2, isDigit) ELSE frac
           stop  == Skip(z, end, isIDChar)
           sep   == \E m \in p .. end - 1 : z[m] = "US"
           kind  == CASE sep -> "QNUMBER"
                      [] ~sep /\ (dot \/ exp) -> "FLOAT"
                      [] OTHER -> "INTEGER"
<1>1. Len(z) \in Nat /\ p \in Nat /\ p \in 1 .. Len(z) + 1 /\ At(z, p) = z[p]
  BY DEF Texts, At
<1>2. scanNumber(z, p) = Token(IF stop > end THEN "ILLEGAL" ELSE kind, stop)
  BY DEF scanNumber
<1> HIDE DEF kind, sep
<1>3. ASSUME NEW j \in 1 .. Len(z) + 1, At(z, j) \in {".", "0", "x", "X", "a", "b", "e", "A", "E"}
      PROVE  Seen(z)[j] = Seen(z)[j + 1] /\ j + 1 \in 1 .. Len(z) + 1
  <2>1. At(z, j) \notin Marks
    BY <1>3 DEF Marks, Quotes
  <2>2. Seen(z)[j] = Seen(z)[j + 1] /\ j \in 1 .. Len(z)
    BY <2>1, OrdinaryStep
  <2> QED
    BY <1>1, <2>2
<1>4. ASSUME NEW j \in 1 .. Len(z) + 1
      PROVE  /\ Seen(z)[j] = Seen(z)[Run(j, isDigit)] /\ Run(j, isDigit) \in 1 .. Len(z) + 1
             /\ Seen(z)[j] = Seen(z)[Run(j, isHex)] /\ Run(j, isHex) \in 1 .. Len(z) + 1
  <2>1. Seen(z)[j] = Seen(z)[Run(j, isDigit)] /\ Run(j, isDigit) \in j .. Len(z) + 1
    BY OrdinaryClasses, OrdinarySkip
  <2>2. Seen(z)[j] = Seen(z)[Run(j, isHex)] /\ Run(j, isHex) \in j .. Len(z) + 1
    BY OrdinaryClasses, OrdinarySkip
  <2> HIDE DEF Run
  <2> QED
    BY <1>1, <2>1, <2>2
<1>5. isDigit = {"0"} /\ isHex = {"0", "a", "b", "e", "A", "E"}
  BY DEF isDigit, isHex
<1> HIDE DEF Run
<1>6. Seen(z)[p] = Seen(z)[whole] /\ whole \in 1 .. Len(z) + 1
  <2>1. CASE hex
    <3>1. Seen(z)[p] = Seen(z)[p + 1] /\ p + 1 \in 1 .. Len(z) + 1
      BY <1>1, <1>3, <2>1
    <3>2. Seen(z)[p + 1] = Seen(z)[(p + 1) + 1] /\ (p + 1) + 1 \in 1 .. Len(z) + 1
      BY <1>3, <2>1, <3>1
    <3>3. (p + 1) + 1 = p + 2 /\ (p + 2) + 1 = p + 3
      BY <1>1
    <3>4. Seen(z)[p + 2] = Seen(z)[(p + 2) + 1] /\ (p + 2) + 1 \in 1 .. Len(z) + 1
      BY <1>3, <1>5, <2>1, <3>2, <3>3
    <3>5. Seen(z)[p + 3] = Seen(z)[Run(p + 3, isHex)] /\ Run(p + 3, isHex) \in 1 .. Len(z) + 1
      BY <1>4, <3>3, <3>4
    <3> QED
      BY <2>1, <3>1, <3>2, <3>3, <3>4, <3>5
  <2>2. CASE ~hex
    BY <1>1, <1>4, <2>2
  <2> QED
    BY <2>1, <2>2
<1> HIDE DEF whole
<1>7. Seen(z)[whole] = Seen(z)[frac] /\ frac \in 1 .. Len(z) + 1
  <2>1. CASE dot
    <3>1. Seen(z)[whole] = Seen(z)[whole + 1] /\ whole + 1 \in 1 .. Len(z) + 1
      BY <1>3, <1>6, <2>1
    <3>2. Seen(z)[whole + 1] = Seen(z)[Run(whole + 1, isDigit)] /\ Run(whole + 1, isDigit) \in 1 .. Len(z) + 1
      BY <1>4, <3>1
    <3> QED
      BY <2>1, <3>1, <3>2
  <2>2. CASE ~dot
    BY <1>6, <2>2
  <2> QED
    BY <2>1, <2>2
<1> HIDE DEF frac, dot, hex
<1>8. Seen(z)[frac] = Seen(z)[end] /\ end \in 1 .. Len(z) + 1
  <2>1. CASE exp
    <3>1. Seen(z)[frac] = Seen(z)[frac + 1] /\ frac + 1 \in 1 .. Len(z) + 1
      BY <1>3, <1>7, <2>1
    <3>2. Seen(z)[frac + 1] = Seen(z)[(frac + 1) + 1] /\ (frac + 1) + 1 \in 1 .. Len(z) + 1
      <4>1. CASE At(z, frac + 1) \in isDigit
        BY <1>3, <1>5, <3>1, <4>1
      <4>2. CASE At(z, frac + 1) \in {"+", "-"} /\ At(z, frac + 2) \in isDigit
        <5>1. At(z, (frac + 1) + 1) = "0"
          BY <1>1, <1>5, <1>7, <4>2
        <5>2. Seen(z)[frac + 1] = Seen(z)[(frac + 1) + 1] /\ frac + 1 \in 1 .. Len(z)
          BY <3>1, <4>2, <5>1, PlainStep DEF Quotes
        <5> QED
          BY <1>1, <5>2
      <4> QED
        BY <2>1, <4>1, <4>2
    <3>3. (frac + 1) + 1 = frac + 2
      BY <1>1, <1>7
    <3>4. Seen(z)[frac + 2] = Seen(z)[Run(frac + 2, isDigit)] /\ Run(frac + 2, isDigit) \in 1 .. Len(z) + 1
      BY <1>4, <3>2, <3>3
    <3> QED
      BY <2>1, <3>1, <3>2, <3>3, <3>4
  <2>2. CASE ~exp
    BY <1>7, <2>2
  <2> QED
    BY <2>1, <2>2
<1> HIDE DEF end, exp
<1>9. Seen(z)[end] = Seen(z)[stop]
  BY <1>8, OrdinaryClasses, OrdinarySkip
<1> HIDE DEF stop
<1> QED
  BY <1>2, <1>6, <1>7, <1>8, <1>9, HeardAt

LEMMA VarnumHeard ==
  ASSUME NEW z \in Texts, NEW p \in 1 .. Len(z), z[p] = "?"
  PROVE  Heard(z, p, scanVarnum(z, p))
<1>1. p \in 1 .. Len(z) + 1 /\ p + 1 \in 1 .. Len(z) + 1 /\ At(z, p) = "?"
  BY DEF Texts, At
<1>2. Seen(z)[p] = Seen(z)[p + 1]
  BY <1>1, OrdinaryStep DEF Marks, Quotes
<1>3. Seen(z)[p + 1] = Seen(z)[Skip(z, p + 1, isDigit)]
  BY <1>1, OrdinaryClasses, OrdinarySkip
<1> QED
  BY <1>2, <1>3, HeardAt DEF scanVarnum

LEMMA ByteHeard ==
  ASSUME NEW z \in Texts, NEW p \in 1 .. Len(z), z[p] \notin Marks \ {"SC"}, NEW kind
  PROVE  Seen(z)[p] \subseteq (IF z[p] = "SC" THEN {p} ELSE {}) \cup Seen(z)[Token(kind, p + 1).stop]
<1>1. p \in 1 .. Len(z) + 1 /\ At(z, p) = z[p]
  BY DEF Texts, At
<1>2. CASE z[p] = "SC"
  BY <1>1, <1>2, SeenSemicolon DEF Token
<1>3. CASE z[p] # "SC"
  BY <1>1, <1>3, OrdinaryStep DEF Token
<1> QED
  BY <1>2, <1>3

LEMMA OperatorHeard ==
  ASSUME NEW z \in Texts, NEW p \in 1 .. Len(z), z[p] \in {"=", "<", ">", "!", "|"}
  PROVE  Heard(z, p, scanOperator(z, p))
<1>1. Len(z) \in Nat /\ p \in Nat /\ p \in 1 .. Len(z) + 1 /\ p + 1 \in 1 .. Len(z) + 1 /\ At(z, p) = z[p]
      /\ (p + 1) + 1 = p + 2
  BY DEF Texts, At
<1>2. Seen(z)[p] = Seen(z)[p + 1]
  BY <1>1, OrdinaryStep DEF Marks, Quotes
<1>3. At(z, p + 1) \in {"=", "<", ">", "|"} => Seen(z)[p] = Seen(z)[p + 2]
  <2> SUFFICES ASSUME At(z, p + 1) \in {"=", "<", ">", "|"} PROVE Seen(z)[p] = Seen(z)[p + 2]
    OBVIOUS
  <2>1. At(z, p + 1) \notin Marks
    BY DEF Marks, Quotes
  <2>2. Seen(z)[p + 1] = Seen(z)[(p + 1) + 1]
    BY <1>1, <2>1, OrdinaryStep
  <2> QED
    BY <1>1, <1>2, <2>2
<1>4. \E k1, k2 : \/ scanOperator(z, p) = Token(k1, p + 1)
                  \/ scanOperator(z, p) = Token(k2, p + 2) /\ At(z, p + 1) \in {"=", "<", ">", "|"}
  <2>1. CASE z[p] = "="
    BY <2>1 DEF scanOperator
  <2>2. CASE z[p] = "<"
    BY <2>2 DEF scanOperator
  <2>3. CASE z[p] = ">"
    BY <2>3 DEF scanOperator
  <2>4. CASE z[p] = "!"
    BY <2>4 DEF scanOperator
  <2>5. CASE z[p] = "|"
    BY <2>5 DEF scanOperator
  <2> QED
    BY <2>1, <2>2, <2>3, <2>4, <2>5
<1> QED
  BY <1>2, <1>3, <1>4, HeardAt

LEMMA WordHeard ==
  ASSUME NEW z \in Texts, NEW p \in 1 .. Len(z), z[p] \in isKeywordChar
  PROVE  Heard(z, p, scanWord(z, p))
<1> DEFINE n == Skip(z, p + 2, isKeywordChar)
<1>1. Len(z) \in Nat /\ p \in Nat /\ p \in 1 .. Len(z) + 1 /\ p + 1 \in 1 .. Len(z) + 1 /\ At(z, p) = z[p]
      /\ (p + 1) + 1 = p + 2
  BY DEF Texts, At
<1>2. Seen(z)[p] = Seen(z)[p + 1]
  <2>1. At(z, p) \notin Marks
    BY <1>1, OrdinaryClasses
  <2> QED
    BY <1>1, <2>1, OrdinaryStep
<1>3. CASE At(z, p + 1) \notin isKeywordChar
  <2>1. scanWord(z, p) = scanIdent(z, p + 1)
    BY <1>3 DEF scanWord
  <2> QED
    BY <1>1, <1>2, <2>1, IdentHeard
<1>4. CASE At(z, p + 1) \in isKeywordChar
  <2>1. Seen(z)[p + 1] = Seen(z)[p + 2] /\ p + 2 \in 1 .. Len(z) + 1
    <3>1. At(z, p + 1) \notin Marks
      BY <1>4, OrdinaryClasses
    <3>2. Seen(z)[p + 1] = Seen(z)[(p + 1) + 1] /\ p + 1 \in 1 .. Len(z)
      BY <1>1, <3>1, OrdinaryStep
    <3> QED
      BY <1>1, <3>2
  <2>2. Seen(z)[p + 2] = Seen(z)[n] /\ n \in p + 2 .. Len(z) + 1
    BY <2>1, OrdinaryClasses, OrdinarySkip
  <2>3. n \in Nat /\ n \in 1 .. Len(z) + 1
    BY <1>1, <2>2
  <2>4. /\ At(z, n) \in isIDChar => scanWord(z, p) = scanIdent(z, n + 1)
        /\ At(z, n) \notin isIDChar => scanWord(z, p) = Token(Lookup(SubSeq(z, p, n - 1)), n)
    BY <1>4, Zenon DEF scanWord
  <2> HIDE DEF n
  <2>5. CASE At(z, n) \in isIDChar
    <3>1. At(z, n) \notin Marks
      BY <2>5, OrdinaryClasses
    <3>2. Seen(z)[n] = Seen(z)[n + 1] /\ n \in 1 .. Len(z)
      BY <2>3, <3>1, OrdinaryStep
    <3>3. n + 1 \in 1 .. Len(z) + 1 /\ Seen(z)[p] = Seen(z)[n + 1]
      BY <1>1, <1>2, <2>1, <2>2, <3>2
    <3> QED
      BY <2>4, <2>5, <3>3, IdentHeard
  <2>6. CASE At(z, n) \notin isIDChar
    <3>1. Seen(z)[p] \subseteq Seen(z)[n]
      BY <1>2, <2>1, <2>2
    <3> QED
      BY <2>4, <2>6, <3>1, HeardAt
  <2> QED
    BY <2>5, <2>6
<1> QED
  BY <1>3, <1>4

LEMMA BOMHeard ==
  ASSUME NEW z \in Texts, NEW p \in 1 .. Len(z), z[p] = "EF"
  PROVE  Heard(z, p, scanBOM(z, p))
<1>1. Len(z) \in Nat /\ p \in Nat /\ p \in 1 .. Len(z) + 1 /\ p + 1 \in 1 .. Len(z) + 1 /\ At(z, p) = "EF"
      /\ (p + 1) + 1 = p + 2 /\ (p + 2) + 1 = p + 3
  BY DEF Texts, At
<1>2. ASSUME NEW j \in 1 .. Len(z) + 1, At(z, j) \in {"EF", "BB", "BF"}
      PROVE  Seen(z)[j] = Seen(z)[j + 1] /\ j + 1 \in 1 .. Len(z) + 1
  <2>1. At(z, j) \notin Marks
    BY <1>2 DEF Marks, Quotes
  <2>2. Seen(z)[j] = Seen(z)[j + 1] /\ j \in 1 .. Len(z)
    BY <2>1, OrdinaryStep
  <2> QED
    BY <1>1, <2>2
<1>3. Seen(z)[p] = Seen(z)[p + 1]
  BY <1>1, <1>2
<1>4. CASE At(z, p + 1) = "BB" /\ At(z, p + 2) = "BF"
  <2>1. Seen(z)[p + 1] = Seen(z)[p + 2] /\ p + 2 \in 1 .. Len(z) + 1
    BY <1>1, <1>2, <1>4
  <2>2. Seen(z)[p + 2] = Seen(z)[p + 3]
    BY <1>1, <1>2, <1>4, <2>1
  <2> QED
    BY <1>3, <1>4, <2>1, <2>2, HeardAt DEF scanBOM
<1>5. CASE ~(At(z, p + 1) = "BB" /\ At(z, p + 2) = "BF")
  BY <1>1, <1>3, <1>5, IdentHeard DEF scanBOM
<1> QED
  BY <1>4, <1>5

(* Variables are the tokens that sqlite3_complete does not know: a byte    *)
(* that means something to it may hide in one.                             *)
Hides(z, p, q) ==
  /\ z[p] \in {"$", "@", ":", "#"}
  /\ \/ \E n \in p .. q - 1 : z[n] \in {"SC", "["} \cup Quotes
     \/ \E n \in p .. q - 2 : <<z[n], z[n + 1]>> \in {<<"-", "-">>, <<"/", "*">>}

LEMMA NameBytes ==
  ASSUME NEW z \in Texts, NEW p \in 1 .. Len(z), NEW f, NameLoop(z, p, f)
  PROVE  \A n \in p + 1 .. Len(z) + 1 : \A m \in n .. f[n] - 1 : At(z, m) \in isIDChar \cup {":"}
<1> DEFINE Good(n) == \A m \in n .. f[n] - 1 : At(z, m) \in isIDChar \cup {":"}
           N == {n \in p + 1 .. Len(z) + 1 : ~Good(n)}
<1> SUFFICES ASSUME N # {} PROVE FALSE
  OBVIOUS
<1>1. Len(z) \in Nat /\ p \in Nat
  BY DEF Texts
<1>2. PICK n \in N : \A m \in N : m <= n
  <2>1. N \in SUBSET Int /\ Len(z) + 1 \in Int /\ \A m \in N : m <= Len(z) + 1
    BY <1>1
  <2> HIDE DEF N
  <2> QED
    BY <2>1, GreatestNumber
<1>3. n \in p + 1 .. Len(z) + 1 /\ ~Good(n)
  BY <1>2
<1>4. f[n] = CASE At(z, n) \in isIDChar                -> f[n + 1]
               [] At(z, n) = ":" /\ At(z, n + 1) = ":" -> f[n + 2]
               [] OTHER                                -> n
  <2> DEFINE a(m) == CASE At(z, m) \in isIDChar                -> f[m + 1]
                       [] At(z, m) = ":" /\ At(z, m + 1) = ":" -> f[m + 2]
                       [] OTHER                                -> m
  <2>1. f = [m \in p + 1 .. Len(z) + 2 |-> a(m)]
    BY DEF NameLoop
  <2> HIDE DEF N, Good, a
  <2>2. f[n] = a(n)
    BY <1>1, <1>3, <2>1
  <2> QED
    BY <2>2 DEF a
<1>5. ":" \notin isIDChar /\ "NUL" \notin isIDChar
  BY DEF isIDChar, isAlpha, isDigit, Lower, Upper
<1>6. \A m \in n + 1 .. Len(z) + 1 : Good(m) /\ f[m] \in m .. Len(z) + 1
  <2> SUFFICES ASSUME NEW m \in n + 1 .. Len(z) + 1 PROVE Good(m) /\ f[m] \in m .. Len(z) + 1
    OBVIOUS
  <2>1. m \in p + 1 .. Len(z) + 1 /\ ~(m <= n)
    BY <1>1, <1>3
  <2>2. Good(m)
    <3> HIDE DEF Good
    <3> QED
      BY <1>2, <2>1
  <2> QED
    BY <2>1, <2>2, NameSteps
<1>7. CASE At(z, n) \in isIDChar
  <2>1. n + 1 \in n + 1 .. Len(z) + 1
    BY <1>1, <1>3, <1>5, <1>7, AtEndIsNUL
  <2>2. Good(n + 1) /\ f[n] = f[n + 1] /\ f[n + 1] \in n + 1 .. Len(z) + 1
    BY <1>4, <1>5, <1>6, <1>7, <2>1
  <2>3. \A m \in n .. f[n] - 1 : m = n \/ m \in n + 1 .. f[n + 1] - 1
    BY <1>1, <1>3, <2>2
  <2> QED
    BY <1>3, <1>7, <2>2, <2>3
<1>8. CASE At(z, n) \notin isIDChar /\ At(z, n) = ":" /\ At(z, n + 1) = ":"
  <2>1. n + 2 \in n + 1 .. Len(z) + 1
    BY <1>1, <1>3, <1>8, AtEndIsNUL
  <2>2. Good(n + 2) /\ f[n] = f[n + 2] /\ f[n + 2] \in n + 2 .. Len(z) + 1
    BY <1>4, <1>6, <1>8, <2>1
  <2>3. \A m \in n .. f[n] - 1 : m = n \/ m = n + 1 \/ m \in n + 2 .. f[n + 2] - 1
    BY <1>1, <1>3, <2>2
  <2> QED
    BY <1>3, <1>8, <2>2, <2>3
<1>9. CASE At(z, n) \notin isIDChar /\ ~(At(z, n) = ":" /\ At(z, n + 1) = ":")
  BY <1>1, <1>3, <1>4, <1>9
<1> QED
  BY <1>7, <1>8, <1>9

LEMMA VariableHeard ==
  ASSUME NEW z \in Texts, NEW p \in 1 .. Len(z), z[p] \in {"$", "@", "#", ":"},
         ~Hides(z, p, scanVariable(z, p).stop)
  PROVE  Heard(z, p, scanVariable(z, p))
<1> DEFINE e     == nameEnd(z, p)
           named == \E m \in p + 1 .. e - 1 : z[m] \in isIDChar
           r     == Find(z, e + 1, {"NUL", ")"} \cup isSpace)
           q     == scanVariable(z, p).stop
<1>1. Len(z) \in Nat /\ p \in Nat /\ p \in 1 .. Len(z) + 1 /\ p + 1 \in p + 1 .. Len(z) + 1 /\ At(z, p) = z[p]
  BY DEF Texts, At
<1>2. e \in p + 1 .. Len(z) + 1 /\ \A m \in p + 1 .. e - 1 : At(z, m) \in isIDChar \cup {":"}
  <2>1. PICK f : NameLoop(z, p, f) /\ e = f[p + 1]
    BY NameIs
  <2> QED
    BY <1>1, <2>1, NameSteps, NameBytes
<1>3. scanVariable(z, p) =
        CASE ~named -> Token("ILLEGAL", e)
          [] named /\ At(z, e) = "(" -> IF At(z, r) = ")" THEN Token("VARIABLE", r + 1) ELSE Token("ILLEGAL", r)
          [] OTHER -> Token("VARIABLE", e)
  BY DEF scanVariable
<1> HIDE DEF e
<1>4. Seen(z)[p] = Seen(z)[e]
  <2>1. \A m \in p .. e - 1 : At(z, m) \notin Marks
    <3> SUFFICES ASSUME NEW m \in p .. e - 1 PROVE At(z, m) \notin Marks
      OBVIOUS
    <3>1. m = p \/ m \in p + 1 .. e - 1
      BY <1>1, <1>2
    <3>2. At(z, m) \in isIDChar \cup {"$", "@", "#", ":"}
      BY <1>1, <1>2, <3>1
    <3>3. {"$", "@", "#", ":"} \cap Marks = {}
      BY DEF Marks, Quotes
    <3> QED
      BY <3>2, <3>3, OrdinaryClasses
  <2>2. e \in p .. Len(z) + 1
    BY <1>1, <1>2
  <2> QED
    BY <1>1, <2>1, <2>2, OrdinaryRun
<1>5. ~(named /\ At(z, e) = "(") => q = e
  BY <1>3 DEF Token
<1>6. CASE named /\ At(z, e) = "("
  <2>1. e \in 1 .. Len(z) + 1 /\ e + 1 \in 1 .. Len(z) + 1
    BY <1>1, <1>2, <1>6, AtEndIsNUL
  <2>2. Seen(z)[e] = Seen(z)[e + 1]
    BY <1>6, <2>1, OrdinaryStep DEF Marks, Quotes
  <2>3. /\ r \in e + 1 .. Len(z) + 1 /\ At(z, r) \in {"NUL", ")"} \cup isSpace
        /\ \A m \in e + 1 .. r - 1 : At(z, m) \notin {"NUL", ")"} \cup isSpace
    <3>1. "NUL" \in {"NUL", ")"} \cup isSpace
      OBVIOUS
    <3> QED
      BY <2>1, <3>1, FindIs
  <2>4. q = IF At(z, r) = ")" THEN r + 1 ELSE r
    BY <1>3, <1>6 DEF Token
  <2> HIDE DEF r, named, q
  <2>5. ~Hides(z, p, q)
    BY DEF q
  <2>6. ASSUME NEW m \in e + 1 .. r - 1 PROVE Seen(z)[m] = Seen(z)[m + 1]
    <3>1. m \in p .. q - 1 /\ m \in 1 .. Len(z) /\ m \in 1 .. Len(z) + 1 /\ m \in Nat
      BY <1>1, <1>2, <2>3, <2>4
    <3>2. At(z, m) = z[m] /\ At(z, m) # "NUL"
      BY <1>1, <2>3, <3>1 DEF At
    <3>3. At(z, m) \notin Quotes \cup {"NUL", "SC", "["}
      BY <2>5, <3>1, <3>2 DEF Hides
    <3>4. CASE m + 1 = q
      <4>1. At(z, r) # ")" /\ m + 1 = r
        BY <1>1, <1>2, <2>3, <2>4, <3>1, <3>4
      <4>2. At(z, m + 1) \notin {"-", "*"}
        BY <2>3, <4>1 DEF isSpace
      <4> QED
        BY <3>1, <3>3, <4>2, PlainStep
    <3>5. CASE m + 1 # q
      <4>1. m \in p .. q - 2 /\ m + 1 <= Len(z) /\ m + 1 \in Nat
        <5>1. At(z, r) = ")" => r <= Len(z)
          BY <1>1, <1>2, <2>3, AtEndIsNUL
        <5>2. r \in Nat /\ m + 1 <= r /\ r <= Len(z) + 1
          BY <1>1, <1>2, <2>3, <3>1
        <5> QED
          BY <1>1, <2>4, <3>1, <3>5, <5>1, <5>2
      <4>2. At(z, m + 1) = z[m + 1]
        BY <4>1 DEF At
      <4>3. <<z[m], z[m + 1]>> \notin {<<"-", "-">>, <<"/", "*">>}
        BY <2>5, <4>1 DEF Hides
      <4>4. ~(At(z, m) = "-" /\ At(z, m + 1) = "-") /\ ~(At(z, m) = "/" /\ At(z, m + 1) = "*")
        BY <3>2, <4>2, <4>3
      <4> QED
        BY <3>1, <3>3, <4>4, PlainStep
    <3> QED
      BY <3>4, <3>5
  <2>7. Seen(z)[e + 1] = Seen(z)[r]
    <3>1. e + 1 \in Int /\ r \in Int /\ e + 1 <= r
      BY <1>1, <2>1, <2>3
    <3> QED
      BY <2>6, <3>1, SameAlong
  <2>8. At(z, r) = ")" => Seen(z)[r] = Seen(z)[r + 1]
    <3>1. r \in 1 .. Len(z) + 1
      BY <1>1, <2>1, <2>3
    <3> QED
      BY <3>1, OrdinaryStep DEF Marks, Quotes
  <2> QED
    BY <1>4, <2>2, <2>4, <2>7, <2>8 DEF Heard, q
<1>7. CASE ~(named /\ At(z, e) = "(")
  BY <1>4, <1>5, <1>7 DEF Heard
<1> QED
  BY <1>6, <1>7

(* Over any token but a variable that hides something, what is seen does   *)
(* not change, but for the semicolon that the token is.                    *)
LEMMA StepSeen ==
  ASSUME NEW z \in Texts, NEW p \in 1 .. Len(z), z[p] # "NUL", ~Hides(z, p, scan(z, p).stop)
  PROVE  Seen(z)[p] \subseteq (IF z[p] = "SC" THEN {p} ELSE {}) \cup Seen(z)[scan(z, p).stop]
<1>s. ASSUME NEW t, scan(z, p) = t, Heard(z, p, t)
      PROVE  Seen(z)[p] \subseteq (IF z[p] = "SC" THEN {p} ELSE {}) \cup Seen(z)[scan(z, p).stop]
  BY <1>s DEF Heard
<1>b. ASSUME NEW kind, scan(z, p) = Token(kind, p + 1), z[p] \notin Marks \ {"SC"}
      PROVE  Seen(z)[p] \subseteq (IF z[p] = "SC" THEN {p} ELSE {}) \cup Seen(z)[scan(z, p).stop]
  BY <1>b, ByteHeard
<1>i. z[p] \notin Marks => Heard(z, p, scanIdent(z, p + 1))
  <2>1. p \in 1 .. Len(z) + 1 /\ p + 1 \in 1 .. Len(z) + 1 /\ At(z, p) = z[p]
    BY DEF Texts, At
  <2> QED
    BY <2>1, OrdinaryStep, IdentHeard
<1>1. CASE z[p] \in {"SP", "NL"}
  <2>1. scan(z, p) = scanSpace(z, p)
    BY <1>1 DEF scan, isSpaceStart, isSpace, Single, isDigit, isKeywordStart, isAlpha, Lower, Upper, Words
  <2>2. Heard(z, p, scanSpace(z, p))
    BY <1>1, SpaceHeard DEF isSpace
  <2> QED
    BY <1>s, <2>1, <2>2
<1>2. CASE z[p] = "-"
  <2>1. scan(z, p) = scanMinus(z, p)
    BY <1>2 DEF scan, isSpaceStart, isSpace, Single, isDigit, isKeywordStart, isAlpha, Lower, Upper, Words
  <2>2. Heard(z, p, scanMinus(z, p))
    BY <1>2, MinusHeard
  <2> QED
    BY <1>s, <2>1, <2>2
<1>3. CASE z[p] = "/"
  <2>1. scan(z, p) = scanSlash(z, p)
    BY <1>3 DEF scan, isSpaceStart, isSpace, Single, isDigit, isKeywordStart, isAlpha, Lower, Upper, Words
  <2>2. Heard(z, p, scanSlash(z, p))
    BY <1>3, SlashHeard
  <2> QED
    BY <1>s, <2>1, <2>2
<1>4. CASE z[p] \in {"(", ")", "SC", "+", "*"}
  <2>1. scan(z, p) = Token(Single[z[p]], p + 1)
    BY <1>4 DEF scan, isSpaceStart, isSpace, Single, isDigit, isKeywordStart, isAlpha, Lower, Upper, Words
  <2>2. z[p] \notin Marks \ {"SC"}
    BY <1>4 DEF Marks, Quotes
  <2> QED
    BY <1>b, <2>1, <2>2
<1>5. CASE z[p] \in {"=", "<", ">", "!", "|"}
  <2>1. scan(z, p) = scanOperator(z, p)
    BY <1>5 DEF scan, isSpaceStart, isSpace, Single, isDigit, isKeywordStart, isAlpha, Lower, Upper, Words
  <2>2. Heard(z, p, scanOperator(z, p))
    BY <1>5, OperatorHeard
  <2> QED
    BY <1>s, <2>1, <2>2
<1>6. CASE z[p] \in {"'", "DQ", "BQ"}
  <2>1. scan(z, p) = scanQuote(z, p)
    BY <1>6 DEF scan, isSpaceStart, isSpace, Single, isDigit, isKeywordStart, isAlpha, Lower, Upper, Words
  <2>2. Heard(z, p, scanQuote(z, p))
    BY <1>6, QuoteHeard DEF Quotes
  <2> QED
    BY <1>s, <2>1, <2>2
<1>7. CASE z[p] = "["
  <2>1. scan(z, p) = scanBracket(z, p)
    BY <1>7 DEF scan, isSpaceStart, isSpace, Single, isDigit, isKeywordStart, isAlpha, Lower, Upper, Words
  <2>2. Heard(z, p, scanBracket(z, p))
    BY <1>7, BracketHeard
  <2> QED
    BY <1>s, <2>1, <2>2
<1>8. CASE z[p] = "." /\ At(z, p + 1) \notin isDigit
  <2>1. scan(z, p) = Token("DOT", p + 1)
    BY <1>8 DEF scan, isSpaceStart, isSpace, Single, isDigit, isKeywordStart, isAlpha, Lower, Upper, Words
  <2>2. z[p] \notin Marks \ {"SC"}
    BY <1>8 DEF Marks, Quotes
  <2> QED
    BY <1>b, <2>1, <2>2
<1>9. CASE z[p] = "." /\ At(z, p + 1) \in isDigit
  <2>1. scan(z, p) = scanNumber(z, p)
    BY <1>9 DEF scan, isSpaceStart, isSpace, Single, isDigit, isKeywordStart, isAlpha, Lower, Upper, Words
  <2>2. Heard(z, p, scanNumber(z, p))
    BY <1>9, NumberHeard
  <2> QED
    BY <1>s, <2>1, <2>2
<1>10. CASE z[p] = "0"
  <2>1. scan(z, p) = scanNumber(z, p)
    BY <1>10 DEF scan, isSpaceStart, isSpace, Single, isDigit, isKeywordStart, isAlpha, Lower, Upper, Words
  <2>2. Heard(z, p, scanNumber(z, p))
    BY <1>10, NumberHeard
  <2> QED
    BY <1>s, <2>1, <2>2
<1>11. CASE z[p] = "?"
  <2>1. scan(z, p) = scanVarnum(z, p)
    BY <1>11 DEF scan, isSpaceStart, isSpace, Single, isDigit, isKeywordStart, isAlpha, Lower, Upper, Words
  <2>2. Heard(z, p, scanVarnum(z, p))
    BY <1>11, VarnumHeard
  <2> QED
    BY <1>s, <2>1, <2>2
<1>12. CASE z[p] \in {"$", "@", "#", ":"}
  <2>1. scan(z, p) = scanVariable(z, p)
    BY <1>12 DEF scan, isSpaceStart, isSpace, Single, isDigit, isKeywordStart, isAlpha, Lower, Upper, Words
  <2>2. Heard(z, p, scanVariable(z, p))
    BY <1>12, <2>1, VariableHeard
  <2> QED
    BY <1>s, <2>1, <2>2
<1>13. CASE z[p] \in {"x", "X"} /\ At(z, p + 1) = "'"
  <2>1. scan(z, p) = scanBlob(z, p)
    BY <1>13 DEF scan, isSpaceStart, isSpace, Single, isDigit, isKeywordStart, isAlpha, Lower, Upper, Words
  <2>2. Heard(z, p, scanBlob(z, p))
    BY <1>13, BlobHeard
  <2> QED
    BY <1>s, <2>1, <2>2
<1>14. CASE \/ z[p] \in {"x", "X"} /\ At(z, p + 1) # "'"
            \/ z[p] \in {"US", "BB", "BF", "HI"}
  <2>1. scan(z, p) = scanIdent(z, p + 1)
    BY <1>14 DEF scan, isSpaceStart, isSpace, Single, isDigit, isKeywordStart, isAlpha, Lower, Upper, Words
  <2>2. z[p] \notin Marks
    BY <1>14 DEF Marks, Quotes
  <2> QED
    BY <1>i, <1>s, <2>1, <2>2
<1>15. CASE z[p] = "EF"
  <2>1. scan(z, p) = scanBOM(z, p)
    BY <1>15 DEF scan, isSpaceStart, isSpace, Single, isDigit, isKeywordStart, isAlpha, Lower, Upper, Words
  <2>2. Heard(z, p, scanBOM(z, p))
    BY <1>15, BOMHeard
  <2> QED
    BY <1>s, <2>1, <2>2
<1>16. CASE z[p] \in isAlpha \ {"x", "X"}
  <2>1. scan(z, p) = scanWord(z, p)
    BY <1>16 DEF scan, isSpaceStart, isSpace, Single, isDigit, isKeywordStart, isAlpha, Lower, Upper, Words
  <2>2. Heard(z, p, scanWord(z, p))
    BY <1>16, WordHeard DEF isKeywordChar
  <2> QED
    BY <1>s, <2>1, <2>2
<1>17. CASE z[p] \notin isIDChar \cup {"SP", "NL", "-", "/", "(", ")", "SC", "+", "*", "=", "<", ">", "!", "|",
                                    "'", "DQ", "BQ", "[", ".", "?", "@", "#", ":", "NUL"}
  <2>1. scan(z, p) = IF z[p] \in Words THEN Token(z[p], p + 1) ELSE Token("ILLEGAL", p + 1)
    BY <1>17 DEF scan, isSpaceStart, isSpace, Single, isDigit, isKeywordStart, isAlpha, Lower, Upper, Words, isIDChar
  <2>2. z[p] \notin Marks \ {"SC"}
    BY <1>17 DEF Marks, Quotes
  <2>3. \E kind : scan(z, p) = Token(kind, p + 1)
    BY <2>1
  <2> QED
    BY <1>b, <2>2, <2>3
<1>18. z[p] \in isIDChar =>
         \/ z[p] = "0" \/ z[p] = "$" \/ z[p] \in {"x", "X"} \/ z[p] = "EF" \/ z[p] \in {"US", "BB", "BF", "HI"}
         \/ z[p] \in isAlpha \ {"x", "X"}
  BY DEF isIDChar, isDigit
<1> QED
  BY <1>1, <1>2, <1>3, <1>4, <1>5, <1>6, <1>7, <1>8, <1>9, <1>10, <1>11, <1>12, <1>13, <1>14, <1>15, <1>16, <1>17,
     <1>18

LEMMA SemicolonScanned ==
  ASSUME NEW z \in Texts, NEW p \in 1 .. Len(z), z[p] = "SC"
  PROVE  scan(z, p) = Token("SEMI", p + 1)
<1>1. scan(z, p) = Token(Single[z[p]], p + 1)
  BY DEF scan, isSpaceStart, isSpace, Single, isDigit, isKeywordStart, isAlpha, Lower, Upper, Words
<1>2. Single["SC"] = "SEMI"
  BY DEF Single
<1> QED
  BY <1>1, <1>2

LEMMA HidingScanned ==
  ASSUME NEW z \in Texts, NEW p \in 1 .. Len(z), z[p] \in {"$", "@", "#", ":"}
  PROVE  scan(z, p).kind \in {"VARIABLE", "ILLEGAL"}
<1>1. scan(z, p) = scanVariable(z, p)
  BY DEF scan, isSpaceStart, isSpace, Single, isDigit, isKeywordStart, isAlpha, Lower, Upper, Words
<1> DEFINE e     == nameEnd(z, p)
           named == \E m \in p + 1 .. e - 1 : z[m] \in isIDChar
           r     == Find(z, e + 1, {"NUL", ")"} \cup isSpace)
<1>2. scanVariable(z, p) =
        CASE ~named -> Token("ILLEGAL", e)
          [] named /\ At(z, e) = "(" -> IF At(z, r) = ")" THEN Token("VARIABLE", r + 1) ELSE Token("ILLEGAL", r)
          [] OTHER -> Token("VARIABLE", e)
  BY DEF scanVariable
<1> HIDE DEF e, named, r
<1> QED
  BY <1>1, <1>2 DEF Token

---------------------------------------------------------------------------
(* What the scanner of sqlite3_complete sees of the source is a semicolon  *)
(* of the tokens so far or behind the position lexed to, unless a token    *)
(* hides something from it.                                                *)
Semis == {n \in 1 .. Len(toks) : toks[n].pos < toks[n].stop /\ src[toks[n].pos] = "SC"}

HeardSoFar ==
  \/ \E n \in 1 .. Len(toks) : Hides(src, toks[n].pos, toks[n].stop)
  \/ Seen(src)[1] \subseteq {toks[n].pos : n \in Semis} \cup Seen(src)[i]

(* Past the first pass, the end of the input is at the position lexed to,  *)
(* and the parser has a mark for it at the end of the slice.               *)
Ended ==
  /\ pc # "lex" => At(src, i) = "NUL"
  /\ pc \in {"parse", "done"} => Len(toks) > 0 /\ toks[Len(toks)].pos = toks[Len(toks)].stop

CutInv == HeardSoFar /\ Ended

LEMMA InitCutInv == Init => CutInv
<1> SUFFICES ASSUME Init PROVE CutInv
  OBVIOUS
<1>1. i = 1 /\ pc = "lex"
  BY Zenon DEF Init
<1> QED
  BY <1>1 DEF CutInv, HeardSoFar, Ended

LEMMA HeardKept ==
  ASSUME HeardSoFar, src' = src, i' = i, Len(toks) \in Nat, Len(toks') \in Nat, Len(toks) <= Len(toks'),
         \A n \in 1 .. Len(toks) : toks'[n].pos = toks[n].pos /\ toks'[n].stop = toks[n].stop
  PROVE  HeardSoFar'
<1>1. \A n \in 1 .. Len(toks) : n \in 1 .. Len(toks')
  OBVIOUS
<1>2. CASE \E n \in 1 .. Len(toks) : Hides(src, toks[n].pos, toks[n].stop)
  BY <1>1, <1>2 DEF HeardSoFar
<1>3. CASE Seen(src)[1] \subseteq {toks[n].pos : n \in Semis} \cup Seen(src)[i]
  <2>1. ASSUME NEW n \in Semis PROVE n \in Semis' /\ toks'[n].pos = toks[n].pos
    BY <1>1, <2>1 DEF Semis
  <2>2. {toks[n].pos : n \in Semis} \subseteq {toks'[n].pos : n \in Semis'}
    BY <2>1
  <2> QED
    BY <1>3, <2>2 DEF HeardSoFar
<1> QED
  BY <1>2, <1>3 DEF HeardSoFar

LEMMA LexOneHeard ==
  ASSUME Tokenizers, Len(keywordTable) < IndexRange, LexInv, CutInv, LexOne
  PROVE  CutInv'
<1> DEFINE t == scan(src, i)
<1>1. /\ i \in 1 .. Len(src) /\ src \in Sources /\ ~AtEnd /\ Len(src) \in Nat /\ i \in Nat
      /\ pc = "lex" /\ pc' = "lex" /\ src' = src /\ src \in Texts
      /\ toks \in Seq(TokenType) /\ Len(toks) \in Nat
  BY ScanMoves, SourcesAssumption DEF LexInv, TypeOK, LexOne, Texts
<1>2. Scan(src, i) = t
  BY <1>1 DEF Tokenizers
<1>3. src[i] # "NUL"
  <2>1. src[i] = "NUL" => t = Token("EOF", i)
    BY <1>1, ScanIsGetToken
  <2> QED
    BY <1>1, <1>2, <2>1 DEF AtEnd, Token
<1>4. t.kind \in ScanKinds /\ t.stop \in i + 1 .. Len(src) + 1
  <2>1. t \in Found(src, i)
    BY <1>1, <1>3, ScanIsGetToken
  <2> QED
    BY <2>1 DEF Found
<1> HIDE DEF t
<1>5. /\ i' = t.stop
      /\ IF t.kind \in Trivial THEN toks' = toks ELSE toks' = Append(toks, Span(t.kind, i, i'))
  <2>1. Stop(i, t) = t.stop
    BY <1>1, <1>4 DEF Stop
  <2> QED
    BY <1>2, <2>1 DEF LexOne
<1>6. ~Hides(src, i, i') =>
        Seen(src)[i] \subseteq (IF src[i] = "SC" THEN {i} ELSE {}) \cup Seen(src)[i']
  BY <1>1, <1>3, <1>5, StepSeen DEF t
<1>7. Ended'
  BY <1>1 DEF Ended
<1>8. CASE t.kind \in Trivial
  <2>1. src[i] # "SC"
    BY <1>1, <1>8, SemicolonScanned DEF t, Token, Trivial
  <2>2. ~Hides(src, i, i')
    BY <1>1, <1>8, HidingScanned DEF t, Trivial, Hides
  <2>3. toks' = toks /\ Semis' = Semis
    BY <1>1, <1>5, <1>8 DEF Semis
  <2>4. HeardSoFar'
    BY <1>1, <1>6, <2>1, <2>2, <2>3 DEF CutInv, HeardSoFar
  <2> QED
    BY <1>7, <2>4 DEF CutInv
<1>9. CASE t.kind \notin Trivial
  <2>1. /\ Len(toks') = Len(toks) + 1 /\ \A n \in 1 .. Len(toks) : toks'[n] = toks[n]
        /\ toks'[Len(toks) + 1].pos = i /\ toks'[Len(toks) + 1].stop = i'
    <3>1. t.kind \in TokenKinds /\ i' \in Nat
      BY <1>1, <1>2, <1>4, <1>5, ScanMoves DEF LexInv
    <3> QED
      BY <1>1, <1>5, <1>9, <3>1, AppendSpan
  <2>2. \A n \in 1 .. Len(toks) : n \in 1 .. Len(toks')
    BY <1>1, <2>1
  <2>3. PICK m \in Nat : m = Len(toks) + 1
    BY <1>1
  <2>4. m \in 1 .. Len(toks') /\ toks'[m].pos = i /\ toks'[m].stop = i'
    BY <1>1, <2>1, <2>3
  <2>5. CASE \E n \in 1 .. Len(toks) : Hides(src, toks[n].pos, toks[n].stop)
    <3>1. PICK n \in 1 .. Len(toks) : Hides(src, toks[n].pos, toks[n].stop)
      BY <2>5
    <3>2. HeardSoFar'
      BY <1>1, <2>1, <2>2, <3>1 DEF HeardSoFar
    <3> QED
      BY <1>7, <3>2 DEF CutInv
  <2>6. CASE Hides(src, i, i')
    <3>1. HeardSoFar'
      BY <1>1, <2>4, <2>6 DEF HeardSoFar
    <3> QED
      BY <1>7, <3>1 DEF CutInv
  <2>7. CASE ~Hides(src, i, i') /\ Seen(src)[1] \subseteq {toks[n].pos : n \in Semis} \cup Seen(src)[i]
    <3>1. ASSUME NEW n \in Semis PROVE n \in Semis' /\ toks'[n].pos = toks[n].pos
      BY <1>1, <2>1, <2>2, <3>1 DEF Semis
    <3>2. {toks[n].pos : n \in Semis} \subseteq {toks'[n].pos : n \in Semis'}
      BY <3>1
    <3>3. src[i] = "SC" => i \in {toks'[n].pos : n \in Semis'}
      <4>1. src[i] = "SC" => m \in Semis'
        BY <1>1, <1>4, <1>5, <2>4 DEF Semis
      <4> QED
        BY <2>4, <4>1
    <3>4. Seen(src)[1] \subseteq {toks'[n].pos : n \in Semis'} \cup Seen(src)[i']
      BY <1>6, <2>7, <3>2, <3>3
    <3>5. HeardSoFar'
      BY <1>1, <3>4 DEF HeardSoFar
    <3> QED
      BY <1>7, <3>5 DEF CutInv
  <2> QED
    BY <2>5, <2>6, <2>7 DEF CutInv, HeardSoFar
<1> QED
  BY <1>8, <1>9

(* The first pass stops at a NUL or behind the last byte.                  *)
LEMMA EndIsNUL ==
  ASSUME Tokenizers, Len(keywordTable) < IndexRange, LexInv, AtEnd
  PROVE  At(src, i) = "NUL"
<1>1. src \in Sources /\ src \in Texts /\ i \in 1 .. Len(src) + 1 /\ Len(src) \in Nat
  BY SourcesAssumption DEF LexInv, TypeOK, Texts
<1>2. CASE i \in 1 .. Len(src)
  <2>1. scan(src, i).kind = "EOF"
    BY <1>1, <1>2 DEF AtEnd, Tokenizers
  <2>2. src[i] # "NUL" => scan(src, i) \in Found(src, i)
    BY <1>1, <1>2, ScanIsGetToken
  <2>3. src[i] = "NUL"
    BY <2>1, <2>2, SomeKinds DEF Found
  <2> QED
    BY <1>2, <2>3 DEF At
<1>3. CASE i \notin 1 .. Len(src)
  BY <1>1, <1>3 DEF At
<1> QED
  BY <1>2, <1>3

(* The mark for the end of the input adds nothing.                         *)
LEMMA EOFHeard ==
  ASSUME LexInv, CutInv, AtEnd, Tokenizers, Len(keywordTable) < IndexRange,
         toks' = WithEOF, pc' = "parse", i' = i, src' = src
  PROVE  CutInv'
<1>1. /\ src \in Sources /\ src \in Texts /\ i \in 1 .. Len(src) + 1 /\ Len(src) \in Nat /\ "EOF" \in TokenKinds
      /\ toks \in Seq(TokenType) /\ Len(toks) \in Nat /\ i \in Nat
  BY SourcesAssumption, TokenKindsAssumption DEF LexInv, TypeOK, Texts
<1>2. /\ Len(toks') = Len(toks) + 1 /\ \A n \in 1 .. Len(toks) : toks'[n] = toks[n]
      /\ toks'[Len(toks) + 1].pos = i /\ toks'[Len(toks) + 1].stop = i
  BY <1>1, AppendSpan DEF WithEOF
<1>3. HeardSoFar'
  BY <1>1, <1>2, HeardKept DEF CutInv
<1>4. At(src, i) = "NUL"
  BY EndIsNUL
<1>5. Ended'
  BY <1>1, <1>2, <1>4 DEF Ended
<1> QED
  BY <1>3, <1>5 DEF CutInv

LEMMA CutInvStep ==
  ASSUME Tokenizers, Len(keywordTable) < IndexRange, LexInv, CutInv, [Next]_vars
  PROVE  CutInv'
<1>1. /\ src \in Sources /\ i \in 1 .. Len(src) + 1 /\ toks \in Seq(TokenType) /\ Len(toks) \in Nat
      /\ src \in Texts /\ Len(src) \in Nat
  BY SourcesAssumption DEF LexInv, TypeOK, Texts
<1>e. pc # "lex" => AtEnd
  <2> SUFFICES ASSUME pc # "lex", i \in 1 .. Len(src) PROVE Scan(src, i).kind = "EOF"
    BY DEF AtEnd
  <2>1. src[i] = "NUL"
    BY <1>1 DEF CutInv, Ended, At
  <2>2. scan(src, i) = Token("EOF", i)
    BY <1>1, <2>1, ScanIsGetToken
  <2> QED
    BY <1>1, <2>2 DEF Tokenizers, Token
<1>k. ASSUME src' = src, i' = i, toks' = toks, pc' = pc PROVE CutInv'
  <2>1. HeardSoFar'
    BY <1>1, <1>k, HeardKept DEF CutInv
  <2> QED
    BY <1>k, <2>1 DEF CutInv, Ended
<1>2. CASE LexOne
  BY <1>2, LexOneHeard
<1>3. CASE LexEnd
  <2>1. AtEnd /\ pc = "lex" /\ UNCHANGED <<src, i>>
    BY <1>3 DEF LexEnd
  <2>2. CASE ambiguous
    <3>1. pc' = "resolve" /\ toks' = toks
      BY <1>3, <2>2 DEF LexEnd
    <3>2. HeardSoFar'
      BY <1>1, <2>1, <3>1, HeardKept DEF CutInv
    <3>3. At(src, i) = "NUL"
      BY <2>1, EndIsNUL
    <3> QED
      BY <2>1, <3>1, <3>2, <3>3 DEF CutInv, Ended
  <2>3. CASE ~ambiguous
    <3>1. pc' = "parse" /\ toks' = WithEOF
      BY <1>3, <2>3 DEF LexEnd
    <3> QED
      BY <2>1, <3>1, EOFHeard
  <2> QED
    BY <2>2, <2>3
<1>4. CASE ResolveOne
  <2>1. /\ pc = "resolve" /\ pc' = pc /\ k \in 0 .. Len(toks) - 1
        /\ toks' = [toks EXCEPT ![k + 1].kind = Resolved(k + 1)]
        /\ UNCHANGED <<src, i>>
    BY <1>1, <1>4 DEF LexInv, TypeOK, ResolveOne
  <2>2. Len(toks') = Len(toks)
    BY <1>1, <2>1
  <2>3. \A n \in 1 .. Len(toks) : toks'[n].pos = toks[n].pos /\ toks'[n].stop = toks[n].stop
    <3> SUFFICES ASSUME NEW n \in 1 .. Len(toks)
                 PROVE  toks'[n].pos = toks[n].pos /\ toks'[n].stop = toks[n].stop
      OBVIOUS
    <3>1. toks[n] \in TokenType
      BY <1>1
    <3>2. toks'[n] = IF n = k + 1 THEN [toks[n] EXCEPT !.kind = Resolved(k + 1)] ELSE toks[n]
      BY <1>1, <2>1
    <3> QED
      BY <3>1, <3>2 DEF TokenType
  <2>4. HeardSoFar'
    BY <1>1, <2>1, <2>2, <2>3, HeardKept DEF CutInv
  <2> QED
    BY <2>1, <2>4 DEF CutInv, Ended
<1>5. CASE ResolveEnd
  <2>1. pc = "resolve" /\ pc' = "parse" /\ toks' = WithEOF /\ UNCHANGED <<src, i>>
    BY <1>5 DEF ResolveEnd
  <2> QED
    BY <1>e, <2>1, EOFHeard
<1>6. CASE ParserReads
  <2>1. pc = "parse" /\ pc' \in {"parse", "done"} /\ UNCHANGED <<src, i, toks>>
    BY <1>6 DEF ParserReads
  <2>2. HeardSoFar'
    BY <1>1, <2>1, HeardKept DEF CutInv
  <2> QED
    BY <2>1, <2>2 DEF CutInv, Ended
<1>7. CASE UNCHANGED vars
  BY <1>7, <1>k DEF vars
<1> QED
  BY <1>2, <1>3, <1>4, <1>5, <1>6, <1>7 DEF Next, Done

---------------------------------------------------------------------------
(* The brackets open before a token, from token to token.                  *)
DepthStep(m, d) ==
  CASE toks[m].kind = "LP" -> d + 1
    [] toks[m].kind = "RP" -> IF d > 0 THEN d - 1 ELSE 0
    [] OTHER               -> d

DepthLoop(h, f) == f = [m \in 0 .. h |-> IF m = 0 THEN 0 ELSE DepthStep(m, f[m - 1])]

LEMMA DepthLoopExists ==
  ASSUME NEW h \in Nat
  PROVE  \E f : DepthLoop(h, f)
<1> DEFINE N == {m \in Nat : ~\E f : DepthLoop(m, f)}
<1> SUFFICES ASSUME N # {} PROVE FALSE
  OBVIOUS
<1>1. PICK m \in N : \A n \in N : m <= n
  <2>1. N \in SUBSET Nat
    OBVIOUS
  <2> HIDE DEF N
  <2> QED
    BY <2>1, LeastNumber
<1>2. m \in Nat /\ ~\E f : DepthLoop(m, f)
  BY <1>1
<1>3. m # 0
  <2>1. DepthLoop(0, [n \in 0 .. 0 |-> 0])
    BY DEF DepthLoop
  <2> QED
    BY <1>2, <2>1
<1>4. PICK f : DepthLoop(m - 1, f)
  <2>1. m - 1 \in Nat /\ ~(m <= m - 1)
    BY <1>2, <1>3
  <2>2. m - 1 \notin N
    <3> HIDE DEF N
    <3> QED
      BY <1>1, <2>1
  <2> QED
    BY <2>1, <2>2
<1> DEFINE g == [n \in 0 .. m |-> IF n = m THEN DepthStep(m, f[m - 1]) ELSE f[n]]
           a(n) == IF n = 0 THEN 0 ELSE DepthStep(n, f[n - 1])
           b(n) == IF n = 0 THEN 0 ELSE DepthStep(n, g[n - 1])
<1>5. ASSUME NEW n \in 0 .. m PROVE g[n] = b(n)
  <2> HIDE DEF DepthStep
  <2>1. n # 0 => n - 1 \in 0 .. m - 1 /\ n - 1 \in 0 .. m /\ n - 1 # m
    BY <1>2
  <2>2. n # 0 => g[n - 1] = f[n - 1]
    BY <2>1
  <2>3. CASE n = m
    BY <1>3, <2>2, <2>3
  <2>4. CASE n # m
    <3>1. n \in 0 .. m - 1
      BY <1>2, <2>4
    <3>2. f[n] = a(n)
      <4>1. f = [q \in 0 .. m - 1 |-> a(q)]
        BY <1>4 DEF DepthLoop
      <4> HIDE DEF a
      <4> QED
        BY <3>1, <4>1
    <3>3. g[n] = f[n]
      BY <2>4
    <3> QED
      BY <2>2, <3>2, <3>3
  <2> QED
    BY <2>3, <2>4
<1>6. DepthLoop(m, g)
  <2>1. g = [n \in 0 .. m |-> g[n]]
    OBVIOUS
  <2> HIDE DEF g, b
  <2>2. g = [n \in 0 .. m |-> b(n)]
    BY <1>5, <2>1
  <2> QED
    BY <2>2 DEF DepthLoop, b
<1> QED
  BY <1>2, <1>6

LEMMA DepthIsNat ==
  ASSUME NEW n \in Nat \ {0}
  PROVE  Depth(n) \in Nat
<1> DEFINE f == CHOOSE f : DepthLoop(n - 1, f)
           N == {m \in 0 .. n - 1 : f[m] \notin Nat}
<1>1. n - 1 \in Nat
  OBVIOUS
<1>2. DepthLoop(n - 1, f)
  BY <1>1, DepthLoopExists
<1>3. Depth(n) = f[n - 1]
  BY DEF Depth, DepthLoop, DepthStep
<1> HIDE DEF f
<1>4. \A m \in 0 .. n - 1 : f[m] = IF m = 0 THEN 0 ELSE DepthStep(m, f[m - 1])
  <2> DEFINE a(m) == IF m = 0 THEN 0 ELSE DepthStep(m, f[m - 1])
  <2>1. f = [m \in 0 .. n - 1 |-> a(m)]
    BY <1>2 DEF DepthLoop
  <2> HIDE DEF a
  <2>2. \A m \in 0 .. n - 1 : f[m] = a(m)
    BY <2>1
  <2> QED
    BY <2>2 DEF a
<1>5. N = {}
  <2> SUFFICES ASSUME N # {} PROVE FALSE
    OBVIOUS
  <2>1. PICK m \in N : \A q \in N : m <= q
    <3>1. N \in SUBSET Nat
      OBVIOUS
    <3> HIDE DEF N
    <3> QED
      BY <3>1, LeastNumber
  <2>2. m \in 0 .. n - 1 /\ f[m] \notin Nat
    BY <2>1
  <2>3. m # 0
    BY <1>4, <2>2
  <2>4. f[m - 1] \in Nat
    <3>1. m - 1 \in 0 .. n - 1 /\ ~(m <= m - 1)
      BY <2>2, <2>3
    <3> QED
      BY <2>1, <3>1
  <2>5. DepthStep(m, f[m - 1]) \in Nat
    <3>1. \A d \in Nat : DepthStep(m, d) \in Nat
      BY DEF DepthStep
    <3> QED
      BY <2>4, <3>1
  <2> QED
    BY <1>4, <2>2, <2>3, <2>5
<1> QED
  BY <1>1, <1>3, <1>5

---------------------------------------------------------------------------
LEMMA PartBytes ==
  ASSUME NEW z \in Texts, NEW a \in 1 .. Len(z), NEW b \in 1 .. Len(z), a <= b, NEW m \in a .. b
  PROVE  m - a + 1 \in DOMAIN SubSeq(z, a, b) /\ SubSeq(z, a, b)[m - a + 1] = z[m]
<1> DEFINE y == SubSeq(z, a, b)
<1>1. /\ y \in Seq(STRING)
      /\ Len(y) = IF a <= b THEN b - a + 1 ELSE 0
      /\ \A q \in 1 .. b - a + 1 : y[q] = z[a + q - 1]
  <2>1. a \in Nat \ {0} /\ b \in Nat /\ b <= Len(z)
    BY DEF Texts
  <2> QED
    BY <2>1, PartIs DEF Texts
<1> HIDE DEF y
<1>2. m - a + 1 \in 1 .. b - a + 1 /\ a + (m - a + 1) - 1 = m
  OBVIOUS
<1> QED
  BY <1>1, <1>2 DEF y

(* A token that hides something is what SplitDiffers and Misread look for. *)
LEMMA HidingIsReported ==
  ASSUME Tokenizers, LexInv, pc = "parse",
         NEW n \in 1 .. Len(toks), toks[n].pos < toks[n].stop,
         Hides(src, toks[n].pos, toks[n].stop)
  PROVE  SplitDiffers \/ Misread(toks[n])
<1> DEFINE t == toks[n]
<1>1. /\ src \in Sources /\ src \in Texts /\ Len(src) \in Nat
      /\ t.pos \in 1 .. Len(src) /\ t.stop \in 1 .. Len(src) + 1 /\ t.pos < t.stop
      /\ n \in DOMAIN toks
  <2>1. src \in Sources /\ src \in Texts /\ Len(src) \in Nat /\ toks \in Seq(TokenType) /\ i \in 1 .. Len(src) + 1
    BY SourcesAssumption DEF LexInv, TypeOK, Texts
  <2>2. t.pos \in Nat /\ t.stop \in Nat /\ 1 <= t.pos /\ t.stop <= i
    BY <2>1, SpanFields DEF LexInv, Behind
  <2> QED
    BY <2>1, <2>2
<1>2. t.kind \in {"VARIABLE", "ILLEGAL"}
  <2>1. RawKind(n) = scan(src, t.pos).kind
    BY <1>1 DEF RawKind, Tokenizers
  <2>2. RawKind(n) \in {"VARIABLE", "ILLEGAL"}
    BY <1>1, <2>1, HidingScanned DEF Hides
  <2>3. t.kind = StreamedKind(n, IF n = 1 THEN "none" ELSE toks[n - 1].kind)
    BY DEF LexInv, ResolvedAsStreamed
  <2> QED
    BY <2>2, <2>3 DEF StreamedKind
<1>3. \A S : (\E m \in t.pos .. t.stop - 1 : src[m] \in S) => Holds(t, S)
  <2> SUFFICES ASSUME NEW S, NEW m \in t.pos .. t.stop - 1, src[m] \in S PROVE Holds(t, S)
    OBVIOUS
  <2>1. t.pos \in 1 .. Len(src) /\ t.stop - 1 \in 1 .. Len(src) /\ t.pos <= t.stop - 1
    BY <1>1
  <2>2. m - t.pos + 1 \in DOMAIN Text(t) /\ Text(t)[m - t.pos + 1] = src[m]
    BY <1>1, <2>1, PartBytes DEF Text
  <2> QED
    BY <2>2 DEF Holds
<1>4. t = toks[n]
  OBVIOUS
<1> HIDE DEF t
<1>5. CASE \E m \in t.pos .. t.stop - 1 : src[m] = "SC"
  <2>1. Holds(t, {"SC"})
    BY <1>3, <1>5
  <2>2. ~completeUnderstands(t) /\ t.kind # "SEMI"
    BY <1>2 DEF completeUnderstands
  <2> QED
    BY <1>1, <1>4, <2>1, <2>2 DEF SplitDiffers
<1>6. CASE ~\E m \in t.pos .. t.stop - 1 : src[m] = "SC"
  <2>1. /\ src[t.pos] \in {"$", "@", ":", "#"}
        /\ \/ \E m \in t.pos .. t.stop - 1 : src[m] \in Quotes \cup {"["}
           \/ \E m \in t.pos .. t.stop - 2 : <<src[m], src[m + 1]>> \in {<<"-", "-">>, <<"/", "*">>}
    BY <1>4, <1>6 DEF Hides
  <2> QED
    BY <1>3, <1>4, <2>1 DEF Misread
<1> QED
  BY <1>5, <1>6

LEMMA CutsFollow ==
  ASSUME Tokenizers, LexInv, CutInv
  PROVE  CutsAtSemicolons
<1> SUFFICES ASSUME pc = "parse", ~SplitDiffers, \A n \in 1 .. Len(toks) - 1 : ~Misread(toks[n]),
                    NEW p \in Cuts(src)
             PROVE  \E n \in DOMAIN toks : toks[n].kind = "SEMI" /\ toks[n].pos = p /\ Depth(n) = 0
  BY DEF CutsAtSemicolons
<1>1. /\ src \in Sources /\ src \in Texts /\ Len(src) \in Nat /\ toks \in Seq(TokenType) /\ Len(toks) \in Nat
      /\ i \in 1 .. Len(src) + 1 /\ DOMAIN toks = 1 .. Len(toks)
      /\ Len(toks) > 0 /\ toks[Len(toks)].pos = toks[Len(toks)].stop /\ At(src, i) = "NUL"
  BY SourcesAssumption DEF LexInv, TypeOK, Texts, CutInv, Ended
<1>2. \A n \in 1 .. Len(toks) : toks[n].pos \in Nat /\ toks[n].stop \in Nat /\ 1 <= toks[n].pos
                                /\ toks[n].stop <= Len(src) + 1
  BY <1>1, SpanFields DEF LexInv, Behind
<1>3. ASSUME NEW n \in 1 .. Len(toks) PROVE ~Hides(src, toks[n].pos, toks[n].stop)
  <2>1. CASE toks[n].pos < toks[n].stop
    <3>1. n \in 1 .. Len(toks) - 1
      BY <1>1, <1>2, <2>1
    <3> QED
      BY <2>1, <3>1, HidingIsReported
  <2>2. CASE ~(toks[n].pos < toks[n].stop)
    BY <1>2, <2>2 DEF Hides
  <2> QED
    BY <2>1, <2>2
<1>4. Seen(src)[1] \subseteq {toks[n].pos : n \in Semis}
  <2>1. Seen(src)[i] = {}
    BY <1>1, SeenAt
  <2> QED
    BY <1>3, <2>1 DEF CutInv, HeardSoFar
<1>5. PICK n \in Semis : toks[n].pos = p
  BY <1>1, <1>4, CutsAreSeen
<1>6. n \in 1 .. Len(toks) /\ toks[n].pos < toks[n].stop /\ src[toks[n].pos] = "SC"
  BY DEF Semis
<1>7. toks[n].kind = "SEMI"
  <2>1. toks[n].pos \in 1 .. Len(src)
    BY <1>1, <1>2, <1>6
  <2>2. RawKind(n) = "SEMI"
    <3>1. RawKind(n) = scan(src, toks[n].pos).kind
      BY <1>1, <1>6, <2>1 DEF RawKind, Tokenizers
    <3> QED
      BY <1>1, <1>6, <2>1, <3>1, SemicolonScanned DEF Token
  <2>3. toks[n].kind = StreamedKind(n, IF n = 1 THEN "none" ELSE toks[n - 1].kind)
    BY <1>6 DEF LexInv, ResolvedAsStreamed
  <2> QED
    BY <2>2, <2>3 DEF StreamedKind
<1>8. Depth(n) = 0
  <2>1. n \in Nat \ {0}
    BY <1>6
  <2>2. Depth(n) \in Nat
    BY <2>1, DepthIsNat
  <2>3. ~(Depth(n) > 0)
    BY <1>1, <1>6, <1>7 DEF SplitDiffers
  <2> QED
    BY <2>2, <2>3
<1> QED
  BY <1>1, <1>5, <1>6, <1>7, <1>8

(* Of a script that SplitDiffers lets pass and in which no variable is     *)
(* misread, the oracle makes a statement only where the tokenizer has a    *)
(* semicolon outside of all brackets.                                      *)
THEOREM CutsAreAtSemicolons ==
  ASSUME Tokenizers, Len(keywordTable) < IndexRange
  PROVE  Spec => []CutsAtSemicolons
<1>1. Init => CutInv
  BY InitCutInv
<1>2. LexInv /\ CutInv /\ [Next]_vars => CutInv'
  BY CutInvStep
<1>3. LexInv /\ CutInv => CutsAtSemicolons
  BY CutsFollow
<1> QED
  BY <1>1, <1>2, <1>3, LexerInvariance, PTL DEF Spec
====
