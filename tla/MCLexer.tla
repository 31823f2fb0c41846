---- MODULE MCLexer ----
(***************************************************************************)
(* The lexer on every short source over an alphabet of bytes for each      *)
(* family of tokens, and over whole words for the keywords whose kind      *)
(* depends on their neighbours. Three alphabets have a semicolon, for the  *)
(* statements the oracle would make of the source.                         *)
(***************************************************************************)
EXTENDS Scanner, SplitDiffers

SQ == INSTANCE GetToken
MCGetToken(z, p) == SQ!GetToken(z, p)

(* What the proofs about the scanners assume of the keyword table: its     *)
(* indexes are not narrowed (keywordShape).                                *)
ASSUME KeywordTableFits == Len(keywordTable) < IndexRange

MCKinds ==
  Words \cup
  { "none", "EOF", "ILLEGAL", "SPACE", "COMMENT", "MINUS", "PTR", "SLASH", "LP", "RP",
    "SEMI", "PLUS", "STAR", "EQ", "LT", "LE", "LSHIFT", "GT", "GE", "RSHIFT", "NE", "BITOR",
    "CONCAT", "DOT", "BLOB", "VARIABLE", "INTEGER", "FLOAT", "QNUMBER", "NO", "NOT", "ON", "TO" }

Over(alphabet, n) == UNION {[1 .. m -> alphabet] : m \in 0 .. n}

MCSources ==
  Over({"0", "x", "e", "US", ".", "+"}, 5) \cup
  Over({"'", "DQ", "[", "]", "x", "0", "NUL"}, 4) \cup
  Over({"x", "'", "0"}, 5) \cup
  Over({"-", ">", "/", "*", "NL", "a"}, 4) \cup
  Over({"$", ":", "(", ")", "a", "SP"}, 4) \cup
  Over({"<", ">", "=", "!", "|", ".", "?"}, 3) \cup
  Over({"$", "(", ")", "SC", "'"}, 5) \cup
  Over({"-", "/", "*", "SC", "NL"}, 5) \cup
  Over({"'", "DQ", "BQ", "[", "]", "SC", "x"}, 4) \cup
  Over({"n", "O", "t", "y", "US", "HI"}, 4) \cup
  Over({"EF", "BB", "BF", "SP", "VT", "BELL"}, 4) \cup
  Over({"WINDOW", "OVER", "FILTER", "AS", "ID", "SP", "(", ")"}, 4) \cup
  Over({"WINDOW", "OVER", "FILTER", "INDEXED", "JOIN_KW", "ABORT", "SELECT", "STRING", "SC", "BELL"}, 3)
====
