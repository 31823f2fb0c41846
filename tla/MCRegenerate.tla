---- MODULE MCRegenerate ----
(***************************************************************************)
(* Two test scripts, two cases and one; a third release of one script only *)
(* yields nothing. The name of a case says what the oracle answers to it.  *)
(***************************************************************************)
EXTENDS Regenerate

MCScripts == <<"s1", "s2">>
MCContents == [amalgamation |-> <<"sqlite3.c", "sqlite3.h">>, src |-> <<"s1", "fuzzdata1.db", "s2">>]

MCKinds(c) ==
  CASE c = "spans"   -> <<"result", "text">>
    [] c = "fails"   -> <<"result", "stmtbad">>
    [] c = "ends"    -> <<"result", "eqeq", "text">>
    [] c = "phantom" -> <<"result", "eqeq", "stmtgood">>
    [] c = "closes"  -> <<"result", "eqeq">>
    [] c = "list"    -> <<"result", "stmtgood">>
    [] c = "two"     -> <<"result", "result">>
    [] OTHER         -> <<"result">>

Release(first, second) == [s1 |-> first, s2 |-> second]

MCReleases ==
  { Release(<<"a", "spans">>, <<"two">>),
    Release(<<"fails", "a">>, <<>>),
    Release(<<"spans">>, <<"collides", "list">>),
    Release(<<"ends">>, <<"a">>),
    Release(<<"phantom">>, <<"a">>),
    Release(<<"closes">>, <<"a">>) }
====
