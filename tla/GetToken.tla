---- MODULE GetToken ----
(***************************************************************************)
(* sqlite3GetToken (internal/reference/tokenize.c): the switch on the      *)
(* character class of the first byte. Its loops are recursive functions of *)
(* the position, one application per round.                                *)
(***************************************************************************)
EXTENDS Characters

(* aiClass, by the name of the class.                                      *)
aiClass(c) ==
  CASE c \in {"x", "X"}                         -> "X"
    [] c \in (Lower \cup Upper) \ {"x", "X", "y"} -> "KYWD0"
    [] c \in {"y", "US"}                        -> "KYWD"
    [] c = "0"                                  -> "DIGIT"
    [] c = "$"                                  -> "DOLLAR"
    [] c \in {"@", "#", ":"}                    -> "VARALPHA"
    [] c = "?"                                  -> "VARNUM"
    [] c \in {"SP", "NL"}                       -> "SPACE"
    [] c \in {"'", "DQ", "BQ"}                  -> "QUOTE"
    [] c = "["                                  -> "QUOTE2"
    [] c = "EF"                                 -> "BOM"
    [] c \in {"BB", "BF", "HI"}                 -> "ID"
    [] c = "NUL"                                -> "NUL"
    [] c \in Words                              -> "WORD"
    [] c \in {"-", "/", "(", ")", "SC", "+", "*", ".", "=", "<", ">", "!", "|"} -> c
    [] OTHER                                    -> "ILLEGAL"

(* The classes up to CC_KYWD.                                              *)
KeywordClass == {"X", "KYWD0", "KYWD"}

(* sqlite3CtypeMap.                                                        *)
Isspace(c)  == c \in {"SP", "NL", "VT"}
Isdigit(c)  == c = "0"
Isxdigit(c) == c \in {"0", "a", "b", "e", "A", "E"}
IdChar(c)   == aiClass(c) \in KeywordClass \cup {"DIGIT", "DOLLAR", "ID", "BOM"}

Tk(t, p) == [kind |-> t, stop |-> p]

(* while( P(z[i]) ) i++;  and the same while also accepting a separator,   *)
(* which makes the number a QNUMBER.                                       *)
While(z, i, P(_)) ==
  LET f[k \in i .. Len(z) + 2] == IF P(At(z, k)) THEN f[k + 1] ELSE k IN f[i]

Digits(z, n, P(_)) ==
  LET f[k \in n.stop .. Len(z) + 2] ==
        [t \in {"INTEGER", "FLOAT", "QNUMBER"} |->
          CASE P(At(z, k))     -> f[k + 1][t]
            [] At(z, k) = "US" -> f[k + 1]["QNUMBER"]
            [] OTHER           -> Tk(t, k)]
  IN f[n.stop][n.kind]

AsFloat(t) == IF t = "INTEGER" THEN "FLOAT" ELSE t

(* "while( IdChar(z[i]) ){ i++; }" behind the switch.                      *)
identifier(z, i) == Tk("ID", While(z, i, IdChar))

number(z, i) ==
  LET IsHex  == z[i] = "0" /\ At(z, i + 1) \in {"x", "X"} /\ Isxdigit(At(z, i + 2))
      hex    == Digits(z, Tk("INTEGER", i + 3), Isxdigit)
      whole  == Digits(z, Tk("INTEGER", i), Isdigit)
      point  == IF At(z, whole.stop) = "."
                  THEN Digits(z, Tk(AsFloat(whole.kind), whole.stop + 1), Isdigit)
                  ELSE whole
      e      == point.stop
      power  == IF /\ At(z, e) \in {"e", "E"}
                   /\ \/ Isdigit(At(z, e + 1))
                      \/ At(z, e + 1) \in {"+", "-"} /\ Isdigit(At(z, e + 2))
                  THEN Digits(z, Tk(AsFloat(point.kind), e + 2), Isdigit)
                  ELSE point
      n      == IF IsHex THEN hex ELSE power
  IN IF IdChar(At(z, n.stop)) THEN Tk("ILLEGAL", While(z, n.stop, IdChar)) ELSE n

quoted(z, i) ==
  LET f[k \in i + 1 .. Len(z) + 2] ==
        IF At(z, k) = "NUL" THEN Tk("ILLEGAL", k)
        ELSE IF At(z, k) # z[i] THEN f[k + 1]
        ELSE IF At(z, k + 1) = z[i] THEN f[k + 2]
        ELSE Tk(IF z[i] = "'" THEN "STRING" ELSE "ID", k + 1)
  IN f[i + 1]

bracketed(z, i) ==
  LET f[k \in i + 1 .. Len(z) + 1] ==
        IF At(z, k) = "NUL" THEN Tk("ILLEGAL", k)
        ELSE IF At(z, k) = "]" THEN Tk("ID", k + 1) ELSE f[k + 1]
  IN f[i + 1]

(* The loop of CC_DOLLAR and CC_VARALPHA, with n, the bytes of the name.   *)
variable(z, i) ==
  LET Argument(k) == LET r == While(z, k + 1, LAMBDA c : c # "NUL" /\ ~Isspace(c) /\ c # ")")
                     IN IF At(z, r) = ")" THEN Tk("VARIABLE", r + 1) ELSE Tk("ILLEGAL", r)
      f[k \in i + 1 .. Len(z) + 2] ==
        [n \in Nat |->
          IF IdChar(At(z, k)) THEN f[k + 1][n + 1]
          ELSE IF At(z, k) = "(" /\ n > 0 THEN Argument(k)
          ELSE IF At(z, k) = ":" /\ At(z, k + 1) = ":" THEN f[k + 2][n]
          ELSE Tk(IF n = 0 THEN "ILLEGAL" ELSE "VARIABLE", k)]
  IN f[i + 1][0]

blob(z, i) ==
  LET n    == While(z, i + 2, Isxdigit)
      odd  == At(z, n) # "'" \/ (n - i) % 2 = 1
      k    == IF odd THEN While(z, n, LAMBDA c : c # "NUL" /\ c # "'") ELSE n
  IN Tk(IF odd THEN "ILLEGAL" ELSE "BLOB", IF At(z, k) # "NUL" THEN k + 1 ELSE k)

(* keywordCode, over the keywords n, o and t can spell.                    *)
keywordCode(w) ==
  LET u == [n \in 1 .. Len(w) |-> ToUpper(w[n])]
  IN CASE u = <<"N", "O">>      -> "NO"
       [] u = <<"N", "O", "T">> -> "NOT"
       [] u = <<"O", "N">>      -> "ON"
       [] u = <<"T", "O">>      -> "TO"
       [] OTHER                 -> "ID"

keyword(z, i) ==
  LET n == While(z, i + 2, LAMBDA c : aiClass(c) \in KeywordClass)
  IN IF aiClass(At(z, i + 1)) \notin KeywordClass THEN identifier(z, i + 1)
     ELSE IF IdChar(At(z, n)) THEN identifier(z, n + 1)
     ELSE Tk(keywordCode(SubSeq(z, i, n - 1)), n)

comment(z, i) ==
  LET f[k \in i + 3 .. Len(z) + 1] ==
        IF At(z, k - 1) = "*" /\ At(z, k) = "/" THEN k + 1
        ELSE IF At(z, k) = "NUL" THEN k ELSE f[k + 1]
  IN f[i + 3]

GetToken(z, i) ==
  LET b == At(z, i + 1)
  IN CASE aiClass(z[i]) = "SPACE"   -> Tk("SPACE", While(z, i + 1, Isspace))
       [] aiClass(z[i]) = "-"       ->
            IF b = "-" THEN Tk("COMMENT", While(z, i + 2, LAMBDA c : c # "NUL" /\ c # "NL"))
            ELSE IF b = ">" THEN Tk("PTR", IF At(z, i + 2) = ">" THEN i + 3 ELSE i + 2)
            ELSE Tk("MINUS", i + 1)
       [] aiClass(z[i]) = "("       -> Tk("LP", i + 1)
       [] aiClass(z[i]) = ")"       -> Tk("RP", i + 1)
       [] aiClass(z[i]) = "SC"      -> Tk("SEMI", i + 1)
       [] aiClass(z[i]) = "+"       -> Tk("PLUS", i + 1)
       [] aiClass(z[i]) = "*"       -> Tk("STAR", i + 1)
       [] aiClass(z[i]) = "/"       ->
            IF b # "*" \/ At(z, i + 2) = "NUL" THEN Tk("SLASH", i + 1)
            ELSE Tk("COMMENT", comment(z, i))
       [] aiClass(z[i]) = "="       -> Tk("EQ", IF b = "=" THEN i + 2 ELSE i + 1)
       [] aiClass(z[i]) = "<"       ->
            IF b = "=" THEN Tk("LE", i + 2) ELSE IF b = ">" THEN Tk("NE", i + 2)
            ELSE IF b = "<" THEN Tk("LSHIFT", i + 2) ELSE Tk("LT", i + 1)
       [] aiClass(z[i]) = ">"       ->
            IF b = "=" THEN Tk("GE", i + 2) ELSE IF b = ">" THEN Tk("RSHIFT", i + 2)
            ELSE Tk("GT", i + 1)
       [] aiClass(z[i]) = "!"       -> IF b # "=" THEN Tk("ILLEGAL", i + 1) ELSE Tk("NE", i + 2)
       [] aiClass(z[i]) = "|"       -> IF b # "|" THEN Tk("BITOR", i + 1) ELSE Tk("CONCAT", i + 2)
       [] aiClass(z[i]) = "QUOTE"   -> quoted(z, i)
       [] aiClass(z[i]) = "."       -> IF ~Isdigit(b) THEN Tk("DOT", i + 1) ELSE number(z, i)
       [] aiClass(z[i]) = "DIGIT"   -> number(z, i)
       [] aiClass(z[i]) = "QUOTE2"  -> bracketed(z, i)
       [] aiClass(z[i]) = "VARNUM"  -> Tk("VARIABLE", While(z, i + 1, Isdigit))
       [] aiClass(z[i]) \in {"DOLLAR", "VARALPHA"} -> variable(z, i)
       [] aiClass(z[i]) = "KYWD0"   -> keyword(z, i)
       [] aiClass(z[i]) = "X"       -> IF b = "'" THEN blob(z, i) ELSE identifier(z, i + 1)
       [] aiClass(z[i]) \in {"KYWD", "ID"} -> identifier(z, i + 1)
       [] aiClass(z[i]) = "BOM"     ->
            IF b = "BB" /\ At(z, i + 2) = "BF" THEN Tk("SPACE", i + 3) ELSE identifier(z, i + 1)
       [] aiClass(z[i]) = "NUL"     -> Tk("ILLEGAL", i)
       [] aiClass(z[i]) = "WORD"    -> Tk(z[i], i + 1)
       [] OTHER                     -> Tk("ILLEGAL", i + 1)
====
