---- MODULE Expectation ----
(***************************************************************************)
(* What the oracle's results for a script demand of the parser (Expected   *)
(* in internal/testfile), and how the differential tester compares the     *)
(* parser's answer with it (check in cmd/difftest).                        *)
(* Offsets are byte offsets from 0; -1 is an unknown one.                  *)
(*                                                                         *)
(* A result is [offset, ok, message, errOffset, tail], its message is one  *)
(* of SyntaxFamily or "semantic". An answer of the parser is [ok, message, *)
(* offset].                                                                *)
(***************************************************************************)
EXTENDS Integers, Sequences

SyntaxFamily == {"near", "token", "incomplete"}
IsSyntaxError(r) == ~r.ok /\ r.message \in SyntaxFamily

(* Number of the first result with a syntax error, or one too many.        *)
FirstSyntax(results) ==
  CHOOSE n \in 1 .. Len(results) + 1 :
    /\ n <= Len(results) => IsSyntaxError(results[n])
    /\ \A m \in 1 .. n - 1 : ~IsSyntaxError(results[m])

(* A statement runs to the start of the next one, or to the end.           *)
StatementEnd(results, len, n) == IF n < Len(results) THEN results[n + 1].offset ELSE len

(* Mutant of Unread: the offset past the end is left out.                  *)
UnreadNoEnd(results, len, n) ==
  LET r == results[n]
      end == StatementEnd(results, len, n)
  IN IF (r.ok /\ r.tail = 0) \/ r.tail >= end THEN {} ELSE r.tail .. end - 1

Unread(results, len, n) ==
  LET r == results[n]
      end == StatementEnd(results, len, n)
  IN IF (r.ok /\ r.tail = 0) \/ r.tail >= end THEN {}
     ELSE r.tail .. (IF end = len THEN end ELSE end - 1)

Truncated(results, len) ==
  /\ results # <<>>
  /\ LET last == results[Len(results)]
     IN ~last.ok /\ ~IsSyntaxError(last) /\ last.tail >= len

Expected(results, len) ==
  LET n == FirstSyntax(results)
      unreached == UNION {Unread(results, len, m) : m \in 1 .. n - 1}
  IN IF n <= Len(results)
       THEN [ok |-> FALSE, message |-> results[n].message, offset |-> results[n].errOffset,
             unreached |-> unreached, truncated |-> FALSE]
       ELSE [ok |-> TRUE, message |-> "", offset |-> -1,
             unreached |-> unreached, truncated |-> Truncated(results, len)]

(* Mutant of Compared: only acceptance is compared.                        *)
ComparedLoosely(exp, got) ==
  IF \/ exp.ok /\ exp.truncated
     \/ ~got.ok /\ got.offset \in exp.unreached THEN "skipped"
  ELSE IF exp.ok THEN IF got.ok THEN "agree" ELSE "meyer rejects"
  ELSE IF got.ok THEN "meyer accepts" ELSE "agree"

Compared(exp, got) ==
  IF \/ exp.ok /\ exp.truncated
     \/ ~got.ok /\ got.offset \in exp.unreached THEN "skipped"
  ELSE IF exp.ok THEN IF got.ok THEN "agree" ELSE "meyer rejects"
  ELSE IF got.ok THEN "meyer accepts"
  ELSE IF got.message # exp.message THEN "message"
  ELSE IF exp.offset >= 0 /\ got.offset # exp.offset THEN "offset"
  ELSE "agree"

Disagreements == {"meyer rejects", "meyer accepts", "message", "offset"}
====
