---- MODULE Scanner ----
(***************************************************************************)
(* scan and its helpers (lexer/lexer.go): the kind of the token at a       *)
(* position of a source and the position after it. A loop that reads on    *)
(* while bytes are in a class is the first position whose byte is not.     *)
(***************************************************************************)
EXTENDS Keywords

Token(k, p) == [kind |-> k, stop |-> p]

isSpace        == {"SP", "NL", "VT"}
isSpaceStart   == isSpace \ {"VT"}
isDigit        == {"0"}
isHex          == isDigit \cup {"a", "b", "e", "A", "E"}
isAlpha        == Lower \cup Upper
isIDChar       == isAlpha \cup isDigit \cup {"US", "$", "EF", "BB", "BF", "HI"}
isKeywordStart == isAlpha \ {"x", "X"}
isKeywordChar  == isAlpha \cup {"US"}

(* The first position from j on with a byte in a set, or outside one.      *)
Find(s, j, S) == CHOOSE k \in j .. j + Len(s) : /\ At(s, k) \in S
                                                /\ \A m \in j .. k - 1 : At(s, m) \notin S
Skip(s, j, S) == CHOOSE k \in j .. j + Len(s) : /\ At(s, k) \notin S
                                                /\ \A m \in j .. k - 1 : At(s, m) \in S

scanSpace(s, i) == Token("SPACE", Skip(s, i + 1, isSpace))

scanMinus(s, i) ==
  CASE At(s, i + 1) = "-" -> Token("COMMENT", Find(s, i + 2, {"NUL", "NL"}))
    [] At(s, i + 1) = ">" -> Token("PTR", IF At(s, i + 2) = ">" THEN i + 3 ELSE i + 2)
    [] OTHER -> Token("MINUS", i + 1)

(* An unterminated comment runs to the end of the input.                   *)
scanSlash(s, i) ==
  IF At(s, i + 1) # "*" \/ At(s, i + 2) = "NUL"
    THEN Token("SLASH", i + 1)
    ELSE LET Ends(k) == At(s, k) = "NUL" \/ (At(s, k - 1) = "*" /\ At(s, k) = "/")
             k == CHOOSE k \in i + 3 .. i + 3 + Len(s) :
                    Ends(k) /\ \A m \in i + 3 .. k - 1 : ~Ends(m)
         IN Token("COMMENT", IF At(s, k) = "NUL" THEN k ELSE k + 1)

(* Operators of one or two bytes: the kinds after a second byte.           *)
scanOperator(s, i) ==
  LET c == s[i]
      d == At(s, i + 1)
  IN CASE c = "=" -> Token("EQ", IF d = "=" THEN i + 2 ELSE i + 1)
       [] c = "<" -> IF d \in {"=", ">", "<"}
                       THEN Token(CASE d = "=" -> "LE" [] d = ">" -> "NE" [] d = "<" -> "LSHIFT", i + 2)
                       ELSE Token("LT", i + 1)
       [] c = ">" -> IF d \in {"=", ">"}
                       THEN Token(IF d = "=" THEN "GE" ELSE "RSHIFT", i + 2)
                       ELSE Token("GT", i + 1)
       [] c = "!" -> IF d = "=" THEN Token("NE", i + 2) ELSE Token("ILLEGAL", i + 1)
       [] c = "|" -> IF d = "|" THEN Token("CONCAT", i + 2) ELSE Token("BITOR", i + 1)

Single == [c \in {"(", ")", "SC", "+", "*"} |->
  CASE c = "(" -> "LP" [] c = ")" -> "RP" [] c = "SC" -> "SEMI" [] c = "+" -> "PLUS" [] c = "*" -> "STAR"]

(* The delimiter that closes a quoted token: one that is not doubled.      *)
closing(s, i) ==
  LET close[k \in i + 1 .. Len(s) + 2] ==
        CASE At(s, k) = "NUL" -> k
          [] At(s, k) = s[i]  -> IF At(s, k + 1) = s[i] THEN close[k + 2] ELSE k
          [] OTHER            -> close[k + 1]
  IN close[i + 1]

scanQuote(s, i) ==
  LET k == closing(s, i)
  IN CASE At(s, k) = "NUL" -> Token("ILLEGAL", k)
       [] At(s, k) = "'"   -> Token("STRING", k + 1)
       [] OTHER            -> Token("ID", k + 1)

scanBracket(s, i) ==
  LET k == Find(s, i + 1, {"NUL", "]"})
  IN IF At(s, k) = "]" THEN Token("ID", k + 1) ELSE Token("ILLEGAL", k)

scanVarnum(s, i) == Token("VARIABLE", Skip(s, i + 1, isDigit))

(* How far the name of a variable goes: identifier bytes and "::".         *)
nameEnd(s, i) ==
  LET end[k \in i + 1 .. Len(s) + 2] ==
        CASE At(s, k) \in isIDChar                       -> end[k + 1]
          [] At(s, k) = ":" /\ At(s, k + 1) = ":"        -> end[k + 2]
          [] OTHER                                       -> k
  IN end[i + 1]

(* Mutant of scanVariable: a name of nothing but "::" is accepted.         *)
scanVariableUncounted(s, i) ==
  LET k == nameEnd(s, i)
      r == Find(s, k + 1, {"NUL", ")"} \cup isSpace)
  IN CASE At(s, k) = "(" /\ k > i + 1 -> IF At(s, r) = ")" THEN Token("VARIABLE", r + 1) ELSE Token("ILLEGAL", r)
       [] OTHER -> Token(IF k > i + 1 THEN "VARIABLE" ELSE "ILLEGAL", k)

scanVariable(s, i) ==
  LET k     == nameEnd(s, i)
      named == \E m \in i + 1 .. k - 1 : s[m] \in isIDChar
      r     == Find(s, k + 1, {"NUL", ")"} \cup isSpace)
  IN CASE ~named -> Token("ILLEGAL", k)
       [] named /\ At(s, k) = "(" -> IF At(s, r) = ")" THEN Token("VARIABLE", r + 1) ELSE Token("ILLEGAL", r)
       [] OTHER -> Token("VARIABLE", k)

(* A number with its separators; an identifier byte behind it spoils it.   *)
scanNumber(s, i) ==
  LET Run(j, S) == Skip(s, j, S \cup {"US"})
      hex   == s[i] = "0" /\ At(s, i + 1) \in {"x", "X"} /\ At(s, i + 2) \in isHex
      whole == IF hex THEN Run(i + 3, isHex) ELSE Run(i, isDigit)
      dot   == ~hex /\ At(s, whole) = "."
      frac  == IF dot THEN Run(whole + 1, isDigit) ELSE whole
      exp   == /\ ~hex
               /\ At(s, frac) \in {"e", "E"}
               /\ \/ At(s, frac + 1) \in isDigit
                  \/ At(s, frac + 1) \in {"+", "-"} /\ At(s, frac + 2) \in isDigit
      end   == IF exp THEN Run(frac + 2, isDigit) ELSE frac
      kind  == CASE \E m \in i .. end - 1 : s[m] = "US" -> "QNUMBER"
                 [] ~(\E m \in i .. end - 1 : s[m] = "US") /\ (dot \/ exp) -> "FLOAT"
                 [] OTHER -> "INTEGER"
      stop  == Skip(s, end, isIDChar)
  IN Token(IF stop > end THEN "ILLEGAL" ELSE kind, stop)

scanIdent(s, j) == Token("ID", Skip(s, j, isIDChar))

(* x'...': an even number of digits, or the rest up to the quote is lost.  *)
scanBlob(s, i) ==
  LET n    == Skip(s, i + 2, isHex)
      good == At(s, n) = "'" /\ (n - i) % 2 = 0
      k    == IF good THEN n ELSE Find(s, n, {"NUL", "'"})
  IN Token(IF good THEN "BLOB" ELSE "ILLEGAL", IF At(s, k) = "NUL" THEN k ELSE k + 1)

scanBOM(s, i) ==
  IF At(s, i + 1) = "BB" /\ At(s, i + 2) = "BF" THEN Token("SPACE", i + 3) ELSE scanIdent(s, i + 1)

scanWord(s, i) ==
  LET n == Skip(s, i + 2, isKeywordChar)
  IN CASE At(s, i + 1) \notin isKeywordChar -> scanIdent(s, i + 1)
       [] At(s, i + 1) \in isKeywordChar /\ At(s, n) \in isIDChar -> scanIdent(s, n + 1)
       [] OTHER -> Token(Lookup(SubSeq(s, i, n - 1)), n)

scan(s, i) ==
  LET c == s[i]
  IN CASE c = "NUL"                              -> Token("EOF", i)
       [] c \in isSpaceStart                     -> scanSpace(s, i)
       [] c = "-"                                -> scanMinus(s, i)
       [] c = "/"                                -> scanSlash(s, i)
       [] c \in DOMAIN Single                    -> Token(Single[c], i + 1)
       [] c \in {"=", "<", ">", "!", "|"}        -> scanOperator(s, i)
       [] c \in {"'", "DQ", "BQ"}                -> scanQuote(s, i)
       [] c = "." /\ At(s, i + 1) \notin isDigit -> Token("DOT", i + 1)
       [] c = "." /\ At(s, i + 1) \in isDigit    -> scanNumber(s, i)
       [] c \in isDigit                          -> scanNumber(s, i)
       [] c = "["                                -> scanBracket(s, i)
       [] c = "?"                                -> scanVarnum(s, i)
       [] c \in {"$", "@", "#", ":"}             -> scanVariable(s, i)
       [] c = "x" /\ At(s, i + 1) = "'"          -> scanBlob(s, i)
       [] c = "X" /\ At(s, i + 1) = "'"          -> scanBlob(s, i)
       [] c = "EF"                               -> scanBOM(s, i)
       [] c \in isKeywordStart                   -> scanWord(s, i)
       [] c \in {"x", "X", "US", "BB", "BF", "HI"} /\ ~(c \in {"x", "X"} /\ At(s, i + 1) = "'")
                                                 -> scanIdent(s, i + 1)
       [] c \in Words                            -> Token(c, i + 1)
       [] OTHER                                  -> Token("ILLEGAL", i + 1)
====
