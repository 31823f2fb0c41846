---- MODULE RunnerProofs ----
(***************************************************************************)
(* What Run returns for a record, given what is in the pipe of its runner: *)
(* lemmas for both programs that keep runners (cmd/regenerate-parse and    *)
(* cmd/difftest).                                                          *)
(***************************************************************************)
EXTENDS Runner, NumberProofs, SequenceTheorems

(* The lines that may come out of a runner that is asked about C.          *)
LinesOf(C) == [of : C, n : Nat, kind : LineKinds \cup {"end"}]

PipesOf(C) == [state : {"none", "alive", "dead"}, asked : Seq(C), pipe : Seq(LinesOf(C))]

(* A pipe whose next line Run rejects.                                     *)
Rejected(pipe) == pipe # <<>> /\ pipe[1].kind \in {"text", "stmtbad"}

Quiet(r) == oracle[r].asked = <<>> /\ oracle[r].pipe = <<>>

(* What is under way for the case a worker has asked about.                *)
UnderWay(r, c) ==
  \/ oracle[r].asked = <<c>> /\ oracle[r].pipe = <<>>
  \/ oracle[r].asked = <<>> /\ oracle[r].pipe = Reply(c)
  \/ /\ oracle[r].asked = <<>>
     /\ \E n \in 0 .. Len(Lines(c)) : oracle[r].pipe = SubSeq(Lines(c), 1, n)

(* What Run returns is what the oracle said, without a line that it would  *)
(* reject, or cut at a line "==".                                          *)
Known(c, lines) == (lines = Lines(c) /\ ~Has(c, "stmtbad")) \/ Has(c, "eqeq")

---------------------------------------------------------------------------
(* The lines the oracle writes for a case, and its whole reply.            *)
LEMMA RepliesOf ==
  ASSUME NEW C, NEW c \in C, Kinds(c) \in Seq(LineKinds)
  PROVE  /\ Lines(c) \in Seq(LinesOf(C)) /\ Reply(c) \in Seq(LinesOf(C))
         /\ Len(Lines(c)) \in Nat /\ DOMAIN Lines(c) = 1 .. Len(Lines(c))
         /\ DOMAIN Kinds(c) = DOMAIN Lines(c) /\ Len(Kinds(c)) = Len(Lines(c))
         /\ \A n \in DOMAIN Lines(c) : Lines(c)[n].kind = Kinds(c)[n] /\ Kinds(c)[n] \in LineKinds
         /\ Len(Reply(c)) = Len(Lines(c)) + 1 /\ DOMAIN Reply(c) = 1 .. Len(Lines(c)) + 1
         /\ \A n \in DOMAIN Lines(c) : Reply(c)[n] = Lines(c)[n]
         /\ Reply(c)[Len(Lines(c)) + 1].kind = "end"
<1>2. Len(Kinds(c)) \in Nat /\ DOMAIN Kinds(c) = 1 .. Len(Kinds(c))
        /\ \A n \in DOMAIN Kinds(c) : Kinds(c)[n] \in LineKinds
  BY LenProperties, ElementOfSeq
<1>3. Lines(c) \in [1 .. Len(Kinds(c)) -> LinesOf(C)]
  BY <1>2 DEF Lines, LinesOf
<1>4. Lines(c) \in Seq(LinesOf(C)) /\ Len(Lines(c)) = Len(Kinds(c))
  BY <1>2, <1>3
<1>5. \A n \in DOMAIN Lines(c) : Lines(c)[n].kind = Kinds(c)[n]
  BY DEF Lines
<1>6. [of |-> c, n |-> 0, kind |-> "end"] \in LinesOf(C)
  BY DEF LinesOf
<1>7. /\ Reply(c) \in Seq(LinesOf(C)) /\ Len(Reply(c)) = Len(Lines(c)) + 1
      /\ \A n \in 1 .. Len(Lines(c)) : Reply(c)[n] = Lines(c)[n]
      /\ Reply(c)[Len(Lines(c)) + 1] = [of |-> c, n |-> 0, kind |-> "end"]
  BY <1>4, <1>6, AppendProperties DEF Reply
<1> QED
  BY <1>2, <1>3, <1>4, <1>5, <1>7, LenProperties

(* Run reads up to the first line at which it stops.                       *)
LEMMA FirstStop ==
  ASSUME NEW r, NEW S, oracle[r].pipe \in Seq(S), Answered(r)
  PROVE  /\ StopAt(r) \in Stops(oracle[r].pipe)
         /\ StopAt(r) \in 1 .. Len(oracle[r].pipe)
         /\ \A q \in Stops(oracle[r].pipe) : StopAt(r) <= q
<1>1. DOMAIN oracle[r].pipe = 1 .. Len(oracle[r].pipe) /\ Len(oracle[r].pipe) \in Nat
  BY LenProperties
<1>2. Stops(oracle[r].pipe) \subseteq 1 .. Len(oracle[r].pipe)
  BY <1>1 DEF Stops
<1>3. \E p \in Stops(oracle[r].pipe) : \A q \in Stops(oracle[r].pipe) : p <= q
  BY <1>1, <1>2, LeastNumber DEF Answered
<1> QED
  BY <1>2, <1>3 DEF StopAt

---------------------------------------------------------------------------
LEMMA RejectedFails ==
  ASSUME NEW r, NEW S, oracle[r].pipe \in Seq(S), Rejected(oracle[r].pipe)
  PROVE  ~Succeeds(r)
<1> SUFFICES ASSUME Answered(r) PROVE oracle[r].pipe[StopAt(r)].kind \notin {"end", "eqeq"}
  BY DEF Succeeds
<1>1. DOMAIN oracle[r].pipe = 1 .. Len(oracle[r].pipe) /\ Len(oracle[r].pipe) \in Nat
  BY LenProperties
<1>2. Len(oracle[r].pipe) # 0
  BY EmptySeq DEF Rejected
<1>3. 1 \in Stops(oracle[r].pipe)
  BY <1>1, <1>2 DEF Stops, Rejected
<1>4. StopAt(r) \in 1 .. Len(oracle[r].pipe) /\ StopAt(r) <= 1
  BY <1>3, FirstStop
<1>5. StopAt(r) = 1
  BY <1>1, <1>4
<1> QED
  BY <1>5 DEF Rejected

(* Where Run stops in the reply to a case, or in what was written of one.  *)
LEMMA StopInReply ==
  ASSUME NEW r, NEW C, NEW c \in C, Kinds(c) \in Seq(LineKinds), UnderWay(r, c), oracle[r].pipe \in Seq(LinesOf(C)), Succeeds(r)
  PROVE  /\ oracle[r].asked = <<>>
         /\ \/ oracle[r].pipe = Reply(c) /\ StopAt(r) = Len(Lines(c)) + 1
            \/ /\ StopAt(r) \in DOMAIN Kinds(c) /\ Kinds(c)[StopAt(r)] = "eqeq"
               /\ \/ Len(oracle[r].pipe) = StopAt(r)
                  \/ StopAt(r) = Len(Kinds(c))
                  \/ /\ StopAt(r) + 1 \in DOMAIN Kinds(c) /\ StopAt(r) + 1 \in DOMAIN oracle[r].pipe
                     /\ oracle[r].pipe[StopAt(r) + 1].kind = Kinds(c)[StopAt(r) + 1]
<1> DEFINE pipe == oracle[r].pipe
           p == StopAt(r)
<1>0. Answered(r) /\ pipe[p].kind \in {"end", "eqeq"}
  BY DEF Succeeds
<1>1. /\ Len(Lines(c)) \in Nat /\ DOMAIN Lines(c) = 1 .. Len(Lines(c)) /\ DOMAIN Kinds(c) = DOMAIN Lines(c)
      /\ Len(Kinds(c)) = Len(Lines(c)) /\ Lines(c) \in Seq(LinesOf(C))
      /\ \A n \in DOMAIN Lines(c) : Lines(c)[n].kind = Kinds(c)[n] /\ Kinds(c)[n] \in LineKinds
  BY RepliesOf
<1>2. /\ DOMAIN Reply(c) = 1 .. Len(Lines(c)) + 1 /\ Len(Reply(c)) = Len(Lines(c)) + 1
      /\ \A n \in DOMAIN Lines(c) : Reply(c)[n] = Lines(c)[n]
  BY RepliesOf
<1>3. p \in 1 .. Len(pipe) /\ DOMAIN pipe = 1 .. Len(pipe) /\ Len(pipe) \in Nat
  BY <1>0, FirstStop, LenProperties
<1>4. CASE oracle[r].asked = <<c>> /\ pipe = <<>>
  BY <1>3, <1>4, EmptySeq
<1>5. CASE oracle[r].asked = <<>> /\ pipe = Reply(c)
  <2>1. CASE p = Len(Lines(c)) + 1
    BY <1>5, <2>1
  <2>2. CASE p # Len(Lines(c)) + 1
    <3>1. p \in DOMAIN Lines(c) /\ pipe[p] = Lines(c)[p]
      BY <1>1, <1>2, <1>3, <1>5, <2>2
    <3>2. Kinds(c)[p] = "eqeq" /\ p \in DOMAIN Kinds(c)
      BY <1>0, <1>1, <3>1 DEF LineKinds
    <3>3. ASSUME p # Len(Kinds(c))
          PROVE  p + 1 \in DOMAIN Kinds(c) /\ p + 1 \in DOMAIN pipe /\ pipe[p + 1].kind = Kinds(c)[p + 1]
      BY <1>1, <1>2, <1>5, <3>1, <3>3
    <3> QED
      BY <1>5, <3>2, <3>3
  <2> QED
    BY <2>1, <2>2
<1>6. ASSUME oracle[r].asked = <<>>, NEW k \in 0 .. Len(Lines(c)), pipe = SubSeq(Lines(c), 1, k)
      PROVE  /\ p \in DOMAIN Kinds(c) /\ Kinds(c)[p] = "eqeq"
             /\ \/ Len(pipe) = p
                \/ p + 1 \in DOMAIN Kinds(c) /\ p + 1 \in DOMAIN pipe /\ pipe[p + 1].kind = Kinds(c)[p + 1]
  <2>1. Len(pipe) = k /\ \A n \in 1 .. k : pipe[n] = Lines(c)[n]
    <3>1. \A n \in 1 .. k : Lines(c)[n] \in LinesOf(C)
      BY <1>1, ElementOfSeq
    <3> QED
      BY <1>1, <1>6, <3>1, SubSeqProperties
  <2>2. p \in DOMAIN Lines(c) /\ pipe[p] = Lines(c)[p]
    BY <1>1, <1>3, <2>1
  <2>3. Kinds(c)[p] = "eqeq" /\ p \in DOMAIN Kinds(c)
    BY <1>0, <1>1, <2>2 DEF LineKinds
  <2>4. ASSUME Len(pipe) # p
        PROVE  p + 1 \in DOMAIN Kinds(c) /\ p + 1 \in DOMAIN pipe /\ pipe[p + 1].kind = Kinds(c)[p + 1]
    BY <1>1, <1>3, <2>1, <2>2, <2>4
  <2> QED
    BY <2>3, <2>4
<1> QED
  BY <1>4, <1>5, <1>6 DEF UnderWay

(* What is left of a sequence behind its first p elements.                 *)
LEMMA RestOf ==
  ASSUME NEW S, NEW s, NEW p, Len(s) \in Nat, p \in 1 .. Len(s), \A n \in 1 .. Len(s) : s[n] \in S
  PROVE  /\ Len(SubSeq(s, p + 1, Len(s))) = IF p + 1 <= Len(s) THEN Len(s) - p ELSE 0
         /\ SubSeq(s, p + 1, Len(s)) \in Seq(S)
         /\ p + 1 <= Len(s) => SubSeq(s, p + 1, Len(s))[1] = s[p + 1]
<1>1. p + 1 \in Int /\ Len(s) \in Int /\ \A i \in p + 1 .. Len(s) : s[i] \in S
  OBVIOUS
<1>2. /\ SubSeq(s, p + 1, Len(s)) \in Seq(S)
      /\ Len(SubSeq(s, p + 1, Len(s))) = IF p + 1 <= Len(s) THEN Len(s) - (p + 1) + 1 ELSE 0
      /\ \A i \in 1 .. Len(s) - (p + 1) + 1 : SubSeq(s, p + 1, Len(s))[i] = s[(p + 1) + i - 1]
  BY <1>1, SubSeqProperties
<1> QED
  BY <1>1, <1>2

(* A Run that succeeds on what is under way for its case returns what the  *)
(* oracle said, or the part before a line "==", and leaves nothing in the  *)
(* pipe that a later Run accepts.                                          *)
LEMMA RunFacts ==
  ASSUME NEW r, NEW C, NEW c \in C, Kinds(c) \in Seq(LineKinds), ~Spills(c),
         UnderWay(r, c), oracle[r].pipe \in Seq(LinesOf(C)), Succeeds(r)
  PROVE  /\ Known(c, Returned(r))
         /\ oracle[r].asked = <<>>
         /\ \/ SubSeq(oracle[r].pipe, StopAt(r) + 1, Len(oracle[r].pipe)) = <<>>
            \/ Rejected(SubSeq(oracle[r].pipe, StopAt(r) + 1, Len(oracle[r].pipe)))
<1> DEFINE pipe == oracle[r].pipe
           p == StopAt(r)
           left == SubSeq(pipe, p + 1, Len(pipe))
<1>1. Answered(r)
  BY DEF Succeeds
<1>2. p \in 1 .. Len(pipe) /\ DOMAIN pipe = 1 .. Len(pipe) /\ Len(pipe) \in Nat
        /\ \A n \in 1 .. Len(pipe) : pipe[n] \in LinesOf(C)
  BY <1>1, FirstStop, LenProperties, ElementOfSeq
<1>3. /\ Len(left) = IF p + 1 <= Len(pipe) THEN Len(pipe) - p ELSE 0
      /\ left \in Seq(LinesOf(C))
      /\ p + 1 <= Len(pipe) => left[1] = pipe[p + 1]
  <2> HIDE DEF pipe, p
  <2> QED
    BY <1>2, RestOf
<1>4. Len(pipe) = p => left = <<>>
  BY <1>2, <1>3, EmptySeq
<1>5. CASE pipe = Reply(c) /\ p = Len(Lines(c)) + 1
  <2>1. Len(Lines(c)) \in Nat /\ Lines(c) \in Seq(LinesOf(C)) /\ Len(pipe) = p
          /\ \A n \in 1 .. Len(Lines(c)) : pipe[n] = Lines(c)[n]
    BY <1>5, RepliesOf
  <2>2. /\ Returned(r) \in Seq(LinesOf(C)) /\ Len(Returned(r)) = Len(Lines(c))
        /\ \A n \in 1 .. Len(Lines(c)) : Returned(r)[n] = pipe[n]
    <3>1. Returned(r) = SubSeq(pipe, 1, Len(Lines(c)))
      BY <1>5, <2>1 DEF Returned
    <3>2. \A n \in 1 .. Len(Lines(c)) : pipe[n] \in LinesOf(C)
      BY <1>2, <2>1, <1>5
    <3> QED
      BY <2>1, <3>1, <3>2, SubSeqProperties
  <2>3. Returned(r) = Lines(c)
    BY <2>1, <2>2, SeqEqual
  <2>4. ~Has(c, "stmtbad")
    <3> SUFFICES ASSUME NEW n \in DOMAIN Kinds(c), Kinds(c)[n] = "stmtbad" PROVE FALSE
      BY DEF Has
    <3>1. n \in 1 .. Len(Lines(c)) /\ Lines(c)[n].kind = "stmtbad"
      BY RepliesOf
    <3>2. n \in DOMAIN pipe /\ pipe[n].kind = "stmtbad"
      BY <1>2, <1>5, <2>1, <3>1
    <3>3. n \in Stops(pipe)
      BY <3>2 DEF Stops
    <3>4. p <= n
      BY <1>1, <3>3, FirstStop
    <3> QED
      BY <1>5, <2>1, <3>1, <3>4
  <2> QED
    BY <1>4, <2>1, <2>3, <2>4, StopInReply DEF Known
<1>6. CASE ~(pipe = Reply(c) /\ p = Len(Lines(c)) + 1)
  <2>1. /\ p \in DOMAIN Kinds(c) /\ Kinds(c)[p] = "eqeq" /\ oracle[r].asked = <<>>
        /\ \/ Len(pipe) = p
           \/ p = Len(Kinds(c))
           \/ p + 1 \in DOMAIN Kinds(c) /\ p + 1 \in DOMAIN pipe /\ pipe[p + 1].kind = Kinds(c)[p + 1]
    BY <1>6, StopInReply
  <2>2. Has(c, "eqeq")
    BY <2>1 DEF Has
  <2>3. p # Len(Kinds(c)) /\ Kinds(c)[p + 1] \in {"text", "stmtbad"}
    BY <2>1 DEF Spills
  <2>4. CASE Len(pipe) = p
    BY <1>4, <2>1, <2>2, <2>4 DEF Known
  <2>5. CASE p + 1 \in DOMAIN pipe /\ pipe[p + 1].kind = Kinds(c)[p + 1]
    <3>1. p + 1 <= Len(pipe) /\ left[1] = pipe[p + 1] /\ Len(left) # 0
      BY <1>2, <1>3, <2>5
    <3>2. left # <<>>
      BY <3>1, EmptySeq
    <3>3. Rejected(left)
      BY <2>3, <2>5, <3>1, <3>2 DEF Rejected
    <3> QED
      BY <2>1, <2>2, <3>3 DEF Known
  <2> QED
    BY <2>1, <2>3, <2>4, <2>5
<1> QED
  BY <1>5, <1>6

(* Reading more into a pipe does not make Run accept its first line.       *)
LEMMA StaysRejected ==
  ASSUME NEW S, NEW s \in Seq(S), NEW t \in Seq(S), Rejected(s)
  PROVE  Rejected(s \o t)
<1>1. Len(s) \in Nat \ {0} /\ Len(t) \in Nat
  BY EmptySeq, LenProperties DEF Rejected
<1>2. s \o t \in Seq(S) /\ Len(s \o t) = Len(s) + Len(t) /\ \A n \in 1 .. Len(s) : (s \o t)[n] = s[n]
  BY ConcatProperties
<1>3. s \o t # <<>> /\ (s \o t)[1] = s[1]
  BY <1>1, <1>2, EmptySeq
<1> QED
  BY <1>3 DEF Rejected

---------------------------------------------------------------------------
LEMMA PartsOf ==
  ASSUME NEW S, NEW s \in Seq(S), NEW m \in Nat \ {0}
  PROVE  /\ SubSeq(s, m, Len(s)) \in Seq(S)
         /\ \A n \in 0 .. Len(s) : SubSeq(s, 1, n) \in Seq(S)
<1>1. Len(s) \in Nat /\ \A n \in 1 .. Len(s) : s[n] \in S
  BY LenProperties, ElementOfSeq
<1>2. SubSeq(s, m, Len(s)) \in Seq(S)
  BY <1>1, SubSeqProperties
<1>3. ASSUME NEW n \in 0 .. Len(s) PROVE SubSeq(s, 1, n) \in Seq(S)
  BY <1>1, SubSeqProperties
<1> QED
  BY <1>2, <1>3

(* What a step does to the pipes of one runner and to no other's.          *)
Pipe(r, state, asked, pipe) ==
  oracle' = [oracle EXCEPT ![r] = [state |-> state, asked |-> asked, pipe |-> pipe]]

LEMMA PipeStepsOf ==
  ASSUME NEW C, oracle \in [Runners -> PipesOf(C)], NEW r \in Runners
  PROVE  /\ \A c : Ask(r, c) => Pipe(r, oracle[r].state, Append(oracle[r].asked, c), oracle[r].pipe)
         /\ Answer(r) => Pipe(r, "alive", Tail(oracle[r].asked),
                              oracle[r].pipe \o Reply(Head(oracle[r].asked)))
         /\ Exit(r) => \E n \in 0 .. Len(Lines(Head(oracle[r].asked))) :
                         Pipe(r, "dead", <<>>,
                              oracle[r].pipe \o SubSeq(Lines(Head(oracle[r].asked)), 1, n))
         /\ Read(r) => Pipe(r, oracle[r].state, oracle[r].asked,
                            IF Answered(r) THEN SubSeq(oracle[r].pipe, StopAt(r) + 1, Len(oracle[r].pipe))
                                           ELSE <<>>)
<1>0. oracle[r] \in PipesOf(C) /\ oracle \in [Runners -> PipesOf(C)]
  OBVIOUS
<1>1. ASSUME NEW asked PROVE [oracle EXCEPT ![r].asked = asked]
        = [oracle EXCEPT ![r] = [state |-> oracle[r].state, asked |-> asked, pipe |-> oracle[r].pipe]]
  <2>1. [oracle[r] EXCEPT !.asked = asked]
          = [state |-> oracle[r].state, asked |-> asked, pipe |-> oracle[r].pipe]
    BY <1>0 DEF PipesOf
  <2> QED
    BY <1>0, <2>1
<1>2. ASSUME NEW pipe PROVE [oracle EXCEPT ![r].pipe = pipe]
        = [oracle EXCEPT ![r] = [state |-> oracle[r].state, asked |-> oracle[r].asked, pipe |-> pipe]]
  <2>1. [oracle[r] EXCEPT !.pipe = pipe]
          = [state |-> oracle[r].state, asked |-> oracle[r].asked, pipe |-> pipe]
    BY <1>0 DEF PipesOf
  <2> QED
    BY <1>0, <2>1
<1>3. ASSUME NEW asked, NEW pipe PROVE [oracle EXCEPT ![r].asked = asked, ![r].pipe = pipe]
        = [oracle EXCEPT ![r] = [state |-> oracle[r].state, asked |-> asked, pipe |-> pipe]]
  <2> DEFINE first == [oracle EXCEPT ![r].asked = asked]
  <2>1. first = [oracle EXCEPT ![r] = [state |-> oracle[r].state, asked |-> asked, pipe |-> oracle[r].pipe]]
    BY <1>1
  <2>2. first[r] = [state |-> oracle[r].state, asked |-> asked, pipe |-> oracle[r].pipe]
    BY <1>0, <2>1
  <2>3. [first[r] EXCEPT !.pipe = pipe] = [state |-> oracle[r].state, asked |-> asked, pipe |-> pipe]
    <3> HIDE DEF first
    <3> QED
      BY <2>2
  <2>4. [first EXCEPT ![r].pipe = pipe] = [oracle EXCEPT ![r] = [first[r] EXCEPT !.pipe = pipe]]
    BY <1>0, <2>1
  <2> QED
    BY <2>3, <2>4
<1>4. ASSUME NEW c, Ask(r, c)
      PROVE  Pipe(r, oracle[r].state, Append(oracle[r].asked, c), oracle[r].pipe)
  BY <1>1, <1>4 DEF Ask, Pipe
<1>5. ASSUME Answer(r)
      PROVE  Pipe(r, "alive", Tail(oracle[r].asked), oracle[r].pipe \o Reply(Head(oracle[r].asked)))
  BY <1>3, <1>5 DEF Answer, Pipe
<1>6. ASSUME Exit(r)
      PROVE  \E n \in 0 .. Len(Lines(Head(oracle[r].asked))) :
                Pipe(r, "dead", <<>>, oracle[r].pipe \o SubSeq(Lines(Head(oracle[r].asked)), 1, n))
  BY <1>6 DEF Exit, Pipe
<1>7. ASSUME Read(r)
      PROVE  Pipe(r, oracle[r].state, oracle[r].asked,
                  IF Answered(r) THEN SubSeq(oracle[r].pipe, StopAt(r) + 1, Len(oracle[r].pipe))
                                 ELSE <<>>)
  BY <1>2, <1>7 DEF Read, Pipe
<1> QED
  BY <1>4, <1>5, <1>6, <1>7

(* The pipes hold records and lines after every step.                      *)
LEMMA PipesStayTyped ==
  ASSUME NEW C, oracle \in [Runners -> PipesOf(C)], NEW r \in Runners,
         \A c \in C : Kinds(c) \in Seq(LineKinds),
         (\E c \in C : Ask(r, c)) \/ Answer(r) \/ Exit(r) \/ Read(r)
  PROVE  oracle' \in [Runners -> PipesOf(C)]
<1>0. /\ oracle[r].state \in {"none", "alive", "dead"}
      /\ oracle[r].asked \in Seq(C) /\ oracle[r].pipe \in Seq(LinesOf(C))
  BY DEF PipesOf
<1>1. ASSUME NEW state \in {"none", "alive", "dead"}, NEW asked \in Seq(C), NEW pipe \in Seq(LinesOf(C)),
             Pipe(r, state, asked, pipe)
      PROVE  oracle' \in [Runners -> PipesOf(C)]
  <2>1. [state |-> state, asked |-> asked, pipe |-> pipe] \in PipesOf(C)
    BY DEF PipesOf
  <2> QED
    BY <1>1, <2>1 DEF Pipe
<1> DEFINE first == Head(oracle[r].asked)
<1>2. oracle[r].asked # <<>> => first \in C /\ Tail(oracle[r].asked) \in Seq(C)
  BY <1>0, HeadTailProperties
<1> HIDE DEF first
<1>3. CASE \E c \in C : Ask(r, c)
  <2>1. PICK c \in C : Pipe(r, oracle[r].state, Append(oracle[r].asked, c), oracle[r].pipe)
    BY <1>3, PipeStepsOf
  <2>2. Append(oracle[r].asked, c) \in Seq(C)
    BY <1>0, AppendProperties
  <2> QED
    BY <1>0, <1>1, <2>1, <2>2
<1>4. CASE Answer(r)
  <2>1. Pipe(r, "alive", Tail(oracle[r].asked), oracle[r].pipe \o Reply(first))
    BY <1>4, PipeStepsOf DEF first
  <2>2. first \in C /\ Tail(oracle[r].asked) \in Seq(C)
    BY <1>2, <1>4 DEF Answer
  <2>3. Reply(first) \in Seq(LinesOf(C))
    BY <2>2, RepliesOf
  <2>4. oracle[r].pipe \o Reply(first) \in Seq(LinesOf(C))
    BY <1>0, <2>3, ConcatProperties
  <2> QED
    BY <1>1, <2>1, <2>2, <2>4
<1>5. CASE Exit(r)
  <2>1. PICK n \in 0 .. Len(Lines(first)) :
          Pipe(r, "dead", <<>>, oracle[r].pipe \o SubSeq(Lines(first), 1, n))
    BY <1>5, PipeStepsOf DEF first
  <2>2. Lines(first) \in Seq(LinesOf(C)) /\ 1 \in Nat \ {0}
    BY <1>2, <1>5, RepliesOf DEF Exit
  <2>3. SubSeq(Lines(first), 1, n) \in Seq(LinesOf(C))
    BY <2>2, PartsOf
  <2>4. oracle[r].pipe \o SubSeq(Lines(first), 1, n) \in Seq(LinesOf(C))
    BY <1>0, <2>3, ConcatProperties
  <2>5. <<>> \in Seq(C)
    OBVIOUS
  <2> QED
    BY <1>1, <2>1, <2>4, <2>5
<1>6. CASE Read(r)
  <2> DEFINE left == SubSeq(oracle[r].pipe, StopAt(r) + 1, Len(oracle[r].pipe))
  <2>1. Pipe(r, oracle[r].state, oracle[r].asked, IF Answered(r) THEN left ELSE <<>>)
    BY <1>6, PipeStepsOf
  <2>2. ASSUME Answered(r) PROVE left \in Seq(LinesOf(C))
    <3>1. StopAt(r) \in 1 .. Len(oracle[r].pipe) /\ Len(oracle[r].pipe) \in Nat
      BY <1>0, <2>2, FirstStop, LenProperties
    <3>2. StopAt(r) + 1 \in Nat \ {0}
      BY <3>1
    <3> QED
      BY <1>0, <3>2, PartsOf
  <2>3. (IF Answered(r) THEN left ELSE <<>>) \in Seq(LinesOf(C))
    <3> HIDE DEF left
    <3> QED
      BY <2>2
  <2> HIDE DEF left
  <2> QED
    BY <1>0, <1>1, <2>1, <2>3
<1> QED
  BY <1>3, <1>4, <1>5, <1>6

(* What is under way for a record stays so while the process works at it.  *)
LEMMA WayGoesOn ==
  ASSUME NEW C, NEW c \in C, Kinds(c) \in Seq(LineKinds), oracle \in [Runners -> PipesOf(C)],
         NEW r \in Runners, Answer(r) \/ Exit(r), UnderWay(r, c)
  PROVE  UnderWay(r, c)' /\ \A q \in Runners \ {r} : oracle'[q] = oracle[q]
<1>1. oracle[r].asked = <<c>> /\ oracle[r].pipe = <<>>
  BY DEF UnderWay, Answer, Exit
<1> DEFINE first == Head(oracle[r].asked)
<1>2. first = c /\ Tail(oracle[r].asked) = <<>>
  BY <1>1
<1> HIDE DEF first
<1>3. /\ Reply(c) \in Seq(LinesOf(C)) /\ Lines(c) \in Seq(LinesOf(C)) /\ 1 \in Nat \ {0}
  BY RepliesOf
<1>4. CASE Answer(r)
  <2>1. Pipe(r, "alive", Tail(oracle[r].asked), oracle[r].pipe \o Reply(first))
    BY <1>4, PipeStepsOf DEF first
  <2>2. Pipe(r, "alive", <<>>, Reply(c))
    BY <1>1, <1>2, <1>3, <2>1, ConcatEmptySeq
  <2> QED
    BY <2>2 DEF Pipe, UnderWay, Reply, Lines
<1>5. CASE Exit(r)
  <2>1. PICK n \in 0 .. Len(Lines(first)) :
          Pipe(r, "dead", <<>>, oracle[r].pipe \o SubSeq(Lines(first), 1, n))
    BY <1>5, PipeStepsOf DEF first
  <2>2. n \in 0 .. Len(Lines(c)) /\ SubSeq(Lines(c), 1, n) \in Seq(LinesOf(C))
    BY <1>2, <1>3, PartsOf
  <2>3. Pipe(r, "dead", <<>>, SubSeq(Lines(c), 1, n))
    BY <1>1, <1>2, <2>1, <2>2, ConcatEmptySeq
  <2> QED
    BY <2>2, <2>3 DEF Pipe, UnderWay, Reply, Lines
<1> QED
  BY <1>4, <1>5
====
