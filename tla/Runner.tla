---- MODULE Runner ----
(***************************************************************************)
(* A Runner (internal/sqlitesrc) and the oracle process at the other end   *)
(* of its pipes (oracle.c -batch). A record goes in, and the result lines  *)
(* of its statements and a line "==" come out. A line is known to Run by   *)
(* its text only:                                                          *)
(*   "result"    one the oracle wrote for a statement                      *)
(*   "text"      the rest of a message that spans lines                    *)
(*   "eqeq"      the rest of a message, and it reads "=="                  *)
(*   "stmtgood"  the rest of a message, and it reads like a result line    *)
(*   "stmtbad"   the rest of a message, it begins "stmt " and is none      *)
(*   "end"       the "==" that ends the reply                              *)
(***************************************************************************)
EXTENDS Integers, Sequences

CONSTANTS Runners,
          Kinds(_)  \* the kinds of the lines the oracle writes for a record

VARIABLE oracle     \* runner -> its process and what is in the pipes

LineKinds    == {"result", "text", "eqeq", "stmtgood", "stmtbad"}
Has(c, kind) == \E n \in DOMAIN Kinds(c) : Kinds(c)[n] = kind

(* A record that leaves something for the next one: a line of a message    *)
(* reads "==", and Run accepts what follows it.                            *)
Spills(c) ==
  \E n \in DOMAIN Kinds(c) :
    Kinds(c)[n] = "eqeq" /\ (n = Len(Kinds(c)) \/ Kinds(c)[n + 1] \notin {"text", "stmtbad"})

Lines(c) == [n \in DOMAIN Kinds(c) |-> [of |-> c, n |-> n, kind |-> Kinds(c)[n]]]
Reply(c) == Append(Lines(c), [of |-> c, n |-> 0, kind |-> "end"])

NoProcess == [state |-> "none", asked |-> <<>>, pipe |-> <<>>]
Process(state) == [NoProcess EXCEPT !.state = state]

(* Run writes its record.                                                  *)
Ask(r, c) == oracle' = [oracle EXCEPT ![r].asked = Append(@, c)]

(* The process reads a record, classifies it and flushes the reply.        *)
Answer(r) ==
  /\ oracle[r].state = "alive"
  /\ oracle[r].asked # <<>>
  /\ oracle' = [oracle EXCEPT ![r].asked = Tail(@),
                              ![r].pipe = @ \o Reply(Head(oracle[r].asked))]

(* It exits with status 2: it cannot open a database, or is out of memory  *)
(* after some of the lines.                                                *)
Exit(r) ==
  /\ oracle[r].state = "alive"
  /\ oracle[r].asked # <<>>
  /\ \E n \in 0 .. Len(Lines(Head(oracle[r].asked))) :
       oracle' = [oracle EXCEPT ![r] = [state |-> "dead", asked |-> <<>>,
                   pipe |-> oracle[r].pipe \o SubSeq(Lines(Head(oracle[r].asked)), 1, n)]]

(* Run returns at the first line that reads "==", and with an error at one *)
(* that is neither a result nor the rest of a message: with results before *)
(* it, any line that does not begin "stmt " is the rest of a message.      *)
Stops(pipe) ==
  {p \in DOMAIN pipe : pipe[p].kind \in {"end", "eqeq", "stmtbad"} \/ (p = 1 /\ pipe[p].kind = "text")}

(* Mutant of EndOfPipe: the end of the pipe is not noticed.                *)
EndOfPipeMissed(r) == FALSE

Answered(r) == Stops(oracle[r].pipe) # {}
StopAt(r)   == CHOOSE p \in Stops(oracle[r].pipe) : \A q \in Stops(oracle[r].pipe) : p <= q
EndOfPipe(r) == oracle[r].state = "dead" /\ ~Answered(r)

Succeeds(r)   == Answered(r) /\ oracle[r].pipe[StopAt(r)].kind \in {"end", "eqeq"}
Returned(r)   == SubSeq(oracle[r].pipe, 1, StopAt(r) - 1)

(* What Run has read is gone from the pipe, and the rest is not.           *)
Read(r) ==
  IF Answered(r)
    THEN oracle' = [oracle EXCEPT ![r].pipe = SubSeq(@, StopAt(r) + 1, Len(@))]
    ELSE oracle' = [oracle EXCEPT ![r].pipe = <<>>]

MultiLine(lines) == \E n \in DOMAIN lines : lines[n].kind = "text"

(* Each line is a result of a statement.                                   *)
Genuine(lines) == \A n \in DOMAIN lines : lines[n].kind = "result"
====
