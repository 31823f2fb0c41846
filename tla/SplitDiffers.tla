---- MODULE SplitDiffers ----
(***************************************************************************)
(* Where the oracle cuts a script into statements, and what SplitDiffers   *)
(* (internal/sqlitesrc) says of it from the tokens. oracle.c asks          *)
(* sqlite3_complete at each semicolon. Its scanner knows strings, the      *)
(* quoting styles and comments, and no other token. Its automaton for      *)
(* trigger bodies is left out: it takes cuts away and adds none.           *)
(***************************************************************************)
EXTENDS Characters, Lexer

Quotes == {"'", "DQ", "BQ"}

(* The first position from j on with a byte of S.                          *)
Until(z, j, S) == CHOOSE n \in j .. j + Len(z) : At(z, n) \in S /\ \A m \in j .. n - 1 : At(z, m) \notin S

(* The first position from j on where a comment ends.                      *)
UntilEnd(z, j) ==
  LET Ends(n) == At(z, n) = "NUL" \/ (At(z, n) = "*" /\ At(z, n + 1) = "/")
  IN CHOOSE n \in j .. j + Len(z) : Ends(n) /\ \A m \in j .. n - 1 : ~Ends(m)

(* sqlite3_complete: where its scanner is after what it finds at p. What   *)
(* is not closed hides the rest of the text.                               *)
Beyond(z, p) ==
  LET After(n, len) == IF At(z, n) = "NUL" THEN Len(z) + 1 ELSE n + len
  IN CASE At(z, p) \in Quotes                       -> After(Until(z, p + 1, {"NUL", z[p]}), 1)
       [] At(z, p) = "["                            -> After(Until(z, p + 1, {"NUL", "]"}), 1)
       [] At(z, p) = "-" /\ At(z, p + 1) = "-"      -> After(Until(z, p + 2, {"NUL", "NL"}), 1)
       [] At(z, p) = "/" /\ At(z, p + 1) = "*"      -> After(UntilEnd(z, p + 2), 2)
       [] OTHER                                     -> p + 1

(* The semicolons it sees.                                                 *)
Semicolons(z) ==
  LET seen[p \in 1 .. Len(z) + 1] ==
        IF At(z, p) = "NUL" THEN {}
        ELSE (IF At(z, p) = "SC" THEN {p} ELSE {}) \cup seen[Beyond(z, p)]
  IN seen[1]

(* The loop of runScript: a statement ends behind the first semicolon at   *)
(* which the text since the last one is complete; the scanner starts anew  *)
(* there, and has nothing to carry over.                                   *)
Cuts(z) ==
  LET Rest(p)          == SubSeq(z, p, Len(z))
      from[p \in 1 .. Len(z) + 1] ==
        IF Semicolons(Rest(p)) = {} THEN {}
        ELSE LET end == p - 1 + CHOOSE n \in Semicolons(Rest(p)) : \A m \in Semicolons(Rest(p)) : n <= m
             IN {end} \cup from[end + 1]
  IN from[1]

Text(t) == SubSeq(src, t.pos, t.stop - 1)
Holds(t, S) == \E n \in DOMAIN Text(t) : Text(t)[n] \in S

(* Mutant of completeUnderstands: the variables are taken for understood.  *)
completeUnderstandsVariable(t) ==
  \/ t.kind \in {"STRING", "BLOB", "VARIABLE"}
  \/ t.kind = "ID" /\ src[t.pos] \in {"DQ", "BQ", "["}

completeUnderstands(t) ==
  \/ t.kind \in {"STRING", "BLOB"}
  \/ t.kind = "ID" /\ src[t.pos] \in {"DQ", "BQ", "["}

(* The brackets open before token n, never less than none.                 *)
Depth(n) ==
  LET depth[m \in 0 .. n - 1] ==
        IF m = 0 THEN 0
        ELSE CASE toks[m].kind = "LP" -> depth[m - 1] + 1
               [] toks[m].kind = "RP" -> IF depth[m - 1] > 0 THEN depth[m - 1] - 1 ELSE 0
               [] OTHER               -> depth[m - 1]
  IN depth[n - 1]

SplitDiffers ==
  \E n \in DOMAIN toks :
    \/ toks[n].kind = "SEMI" /\ Depth(n) > 0
    \/ toks[n].kind # "SEMI" /\ Holds(toks[n], {"SC"}) /\ ~completeUnderstands(toks[n])

---------------------------------------------------------------------------
(* Properties.                                                             *)

(* A variable (or a broken one) whose argument has a quote or the start of *)
(* a comment in it: sqlite3_complete reads on from there in a string or    *)
(* comment of its own, and takes the end of it for a start.                *)
Misread(t) ==
  /\ src[t.pos] \in {"$", "@", ":", "#"}
  /\ \/ Holds(t, Quotes \cup {"["})
     \/ \E n \in t.pos .. t.stop - 2 : <<src[n], src[n + 1]>> \in {<<"-", "-">>, <<"/", "*">>}

(* SplitDiffers "reports whether Run would cut a script into statements    *)
(* somewhere the tokenizer would not": of any script it lets pass, every   *)
(* cut is at a semicolon of the tokenizer's outside brackets, unless a     *)
(* variable is misread.                                                    *)
CutsAtSemicolons ==
  pc = "parse" /\ read = 0 /\ ~SplitDiffers /\ (\A n \in 1 .. Len(toks) - 1 : ~Misread(toks[n])) =>
    \A p \in Cuts(src) : \E n \in DOMAIN toks :
      toks[n].kind = "SEMI" /\ toks[n].pos = p /\ Depth(n) = 0
====
