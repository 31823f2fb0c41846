---- MODULE MCParser ----
(***************************************************************************)
(* Every token stream of up to MaxLen legal tokens before its end or its   *)
(* first illegal token, up to two symmetries of the cursor: nothing behind *)
(* an illegal token is ever looked at, and QUERY (PLAN) is told from any   *)
(* other word only right after EXPLAIN (QUERY). None of their words is a   *)
(* bind parameter; the scripts of two statements behind them have nothing  *)
(* else, up to MaxParams of them.                                          *)
(***************************************************************************)
EXTENDS BindParams

CONSTANTS MaxLen, MaxParams

Words == UNION { [1 .. n -> Kind \ {"EOF", "ILLEGAL"}] : n \in 0 .. MaxLen }

Follows(s, k, before) ==
  \A j \in DOMAIN s : s[j] = k => j > 1 /\ s[j - 1] = before

Legal == { s \in Words : Follows(s, "QUERY", "EXPLAIN") /\ Follows(s, "PLAN", "QUERY") }

Run(n) == [k \in 1 .. n |-> "WORD"]

Scripts ==
  { <<"CMD">> \o Run(m) \o <<"SEMI", "CMD">> \o Run(n) \o <<"EOF">> :
      m \in 1 .. MaxParams - 1, n \in 1 .. MaxParams }

MCStreams ==
  { s \o end : s \in Legal, end \in { <<"EOF">>, <<"ILLEGAL", "EOF">> } }
  \cup { s \in Scripts : Len(s) <= MaxParams + 4 }

M(kind, id) == [kind |-> kind, id |-> id]

(* An int ends at 3 here: ?3 is the largest marker there is, and ?4 is one *)
(* Atoi refuses.                                                           *)
MCMarkers ==
  { M("anon", 0), M("number", 0), M("number", 2), M("number", 3), M("number", 4),
    M("colon", 1), M("colon", 2), M("at", 1), M("register", 1) }

Registers(s) == { j \in DOMAIN s : s[j] = "REG" }

MCVariables(s) ==
  IF s \in Scripts
    THEN [{ j \in DOMAIN s : s[j] = "WORD" } -> MCMarkers \ { M("register", 1) }]
    ELSE { [j \in Registers(s) |-> M("register", 1)] }
====
