---- MODULE Characters ----
(***************************************************************************)
(* The bytes of a source, as far as either tokenizer tells them apart. A   *)
(* byte is a one character string; the others have a name: "NUL", "NL",    *)
(* "VT", "SP" for a space, "DQ" and "BQ" for the double and the back       *)
(* quote, "SC" for the semicolon, "US" for the underscore, the bytes "EF", *)
(* "BB", "BF" of a byte order mark, "HI" for any other byte above 7F, and  *)
(* "BELL" for one that no token can start with. A position past the end of *)
(* a source reads as "NUL", like the terminator of a C string.             *)
(***************************************************************************)
EXTENDS Integers, Sequences, FiniteSets

At(s, j) == IF j <= Len(s) THEN s[j] ELSE "NUL"

(* A word that is one element of a source, for the sources in which only   *)
(* the kinds of the tokens matter: it scans as one token of that kind.     *)
Words == {"WINDOW", "OVER", "FILTER", "AS", "SELECT", "ABORT", "JOIN_KW",
          "INDEXED", "ID", "STRING"}

Lower == {"a", "b", "e", "n", "o", "t", "x", "y"}
Upper == {"A", "E", "N", "O", "T", "X"}

(* byte &^ 0x20, for a letter                                              *)
ToUpper(c) == CASE c = "a" -> "A" [] c = "e" -> "E" [] c = "n" -> "N"
                [] c = "o" -> "O" [] c = "t" -> "T" [] c = "x" -> "X"
                [] OTHER -> c
====
