---- MODULE MCDifftest ----
(***************************************************************************)
(* One worker and every script of up to two statements in four bytes,      *)
(* with everything the oracle may observe of it and every answer of the    *)
(* parser; and two workers on a few of them, with mutations, from an empty *)
(* cache and from one with a torn binary.                                  *)
(***************************************************************************)
EXTENDS Difftest

L == 4

MCContents == [amalgamation |-> <<"sqlite3.c", "sqlite3.h">>, src |-> <<"fuzzdata1.db">>]
MCKinds(input) == input.lines

Statement(start, stop, last) ==
  {[start |-> start, stop |-> stop, bad |-> b] : b \in {-1} \cup start .. (IF last THEN stop ELSE stop - 1)}

Texts ==
  {<<s>> : s \in Statement(0, L, TRUE)} \cup
  UNION {{<<s, t>> : s \in Statement(0, k, FALSE), t \in Statement(k, L, TRUE)} : k \in 1 .. L - 1}

(* What prepare says of the piece that begins with statement s and ends at *)
(* stop: an error that is not about syntax anywhere before its syntax      *)
(* error, the syntax error, or that all is well.                           *)
Result(s, ok, message, offset, tail) ==
  [offset |-> s.start, ok |-> ok, message |-> message, errOffset |-> offset, tail |-> tail]

Seen(s, stop) ==
  {Result(s, FALSE, "semantic", -1, t) : t \in {t \in s.start + 1 .. s.stop : s.bad = -1 \/ s.bad >= t}} \cup
  IF s.bad = -1 THEN {Result(s, TRUE, "", -1, IF s.stop < stop THEN s.stop ELSE 0)}
  ELSE {Result(s, FALSE, IF s.bad = L THEN "incomplete" ELSE "near", o, s.stop) : o \in {s.bad, -1}}

(* The two statements are prepared one by one, in one piece, or the second *)
(* is a comment, for which there is no result.                             *)
Observations(text) ==
  IF Len(text) = 1 THEN {<<r>> : r \in Seen(text[1], L)}
  ELSE {<<r, q>> : r \in Seen(text[1], text[1].stop), q \in Seen(text[2], L)} \cup
       {<<r>> : r \in Seen(text[1], L)} \cup
       IF text[2].bad = -1 THEN {<<r>> : r \in Seen(text[1], text[1].stop)} ELSE {}

Got ==
  {Accepted} \cup {[ok |-> FALSE, message |-> m, offset |-> o] : m \in {"near", "incomplete"}, o \in 0 .. L}

Input(text, results, got) ==
  [len |-> L, splits |-> FALSE, long |-> FALSE, results |-> results, got |-> got, statements |-> text,
   lines |-> [n \in DOMAIN results |-> "result"],
   forged |-> Result([start |-> 0], TRUE, "", -1, 0)]

AllInputs == UNION {UNION {{Input(t, r, g) : g \in Got} : r \in Observations(t)} : t \in Texts}

Fine == Input(<<[start |-> 0, stop |-> L, bad |-> -1]>>,
              <<Result([start |-> 0], TRUE, "", -1, 0)>>, Accepted)
Wrong(o) == [Fine EXCEPT !.got = [ok |-> FALSE, message |-> "near", offset |-> o]]

Right == Input(<<[start |-> 0, stop |-> L, bad |-> L]>>,
               <<Result([start |-> 0], FALSE, "incomplete", L, L)>>,
               [ok |-> FALSE, message |-> "incomplete", offset |-> L])

Plan(jobs, inputs, mutations, per, fuzzdata, cached) ==
  [jobs |-> jobs, inputs |-> inputs, mutations |-> mutations, per |-> per, fuzzdata |-> fuzzdata,
   cached |-> cached]

MCPlans ==
  {Plan(1, <<x>>, {}, 0, FALSE, "good") : x \in AllInputs} \cup
  {Plan(n, <<[Fine EXCEPT !.long = TRUE], Wrong(1), [Fine EXCEPT !.lines = <<"result", "text">>]>>,
        {Wrong(2), [Fine EXCEPT !.splits = TRUE]}, 1, f, c) :
     n \in {0, 2}, f \in BOOLEAN, c \in {"none", "torn"}} \cup
  {Plan(1, <<[Fine EXCEPT !.lines = <<"result">> \o more], Right>>, {}, 0, FALSE, "good") :
     more \in {<<"eqeq">>, <<"eqeq", "text">>, <<"stmtgood">>}} \cup
  {Plan(2, <<Fine, [Fine EXCEPT !.lines = <<"result", "stmtbad">>]>>, {Fine}, 1, TRUE, "good")}
====
