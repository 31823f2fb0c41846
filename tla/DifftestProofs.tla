---- MODULE DifftestProofs ----
(***************************************************************************)
(* Proofs about cmd/difftest: what its verdict on an input is worth, its   *)
(* report, and the oracle that is built once.                              *)
(***************************************************************************)
EXTENDS Difftest, RunnerProofs

End(x, n) == StatementEnd(x.results, x.len, n)

(* An answer that departs from the right one in text that SQLite has read. *)
Missable(x) ==
  /\ x.got # Perfect(x)
  /\ Departs(x) \in ReadText(x)
  /\ ~Truncated(x.results, x.len)
  /\ \A n \in DOMAIN x.results : x.results[n].errOffset = -1 => x.results[n].message # x.got.message

---------------------------------------------------------------------------
(* The inductive invariant, in parts.                                      *)

HasInput  == {"check", "read", "judged", "bucket"}
WorkerRec == [pc : {"off", "start", "receive", "done"} \cup HasInput, input : Inputs \cup {NoInput},
              left : Int, outcome : {"none", "agree", "skipped"} \cup Disagreements]

Workers ==
  /\ plan \in Plans
  /\ pc \in {"oracle", "scripts", "send", "wait", "off"}
  /\ sent \in 0 .. Len(plan.inputs)
  /\ worker \in [Runners -> WorkerRec]
  /\ \A w \in Runners :
       /\ w \notin Jobs => worker[w] = Away
       /\ pc \notin {"send", "wait"} => worker[w].pc \in {"off", "done"}
       /\ worker[w].pc \in HasInput => worker[w].input \in Given(plan)
       /\ worker[w].pc = "bucket" => worker[w].outcome \in Disagreements

(* The counter is ahead of the buckets by the workers between the two.     *)
Adding == {w \in Jobs : worker[w].pc = "bucket"}

Counted ==
  /\ disagreements \in Nat /\ buckets \in [Disagreements -> Nat]
  /\ exit \in {"none", "ok", "disagree", "fatal", "killed"}
  /\ pc = "off" <=> exit # "none"
  /\ exit \notin {"fatal", "killed"} => disagreements = SumOf(buckets) + Cardinality(Adding)
  /\ exit \in {"ok", "disagree"} =>
       (exit = "ok" <=> disagreements = 0) /\ \A w \in Jobs : worker[w].pc = "done"

(* Main is alone with the cache until the oracle is there.                 *)
Alone == \A p \in Procs \ {Main} : at[p].stage = "idle"

Places ==
  /\ DOMAIN at = Procs
  /\ \A p \in Procs : DOMAIN at[p] = {"stage", "archive", "n"}
  /\ pc = "oracle" =>
       /\ Alone
       /\ at[Main].stage \in {"oracle", "download", "unzip", "compile", "link", "ready", "failed"}
       /\ at[Main].stage \in {"download", "unzip"} => at[Main].archive = "amalgamation"
       /\ at[Main].stage = "ready" => bin # "none"
  /\ pc = "scripts" =>
       /\ Alone /\ bin # "none"
       /\ at[Main].stage \in {"scripts", "download", "unzip", "ready", "failed"}
       /\ at[Main].stage \in {"download", "unzip"} => at[Main].archive = "src"
  /\ pc \in {"send", "wait"} => bin # "none"
  /\ pc \in {"send", "wait", "off"} => \A p \in Procs : at[p].stage \in {"idle", "oracle", "ready"}

(* Nothing is in the pipes of a worker that does not read, and its outcome *)
(* is the verdict on what the oracle has observed.                         *)
InStep(w) ==
  /\ worker[w].pc = "read" => UnderWay(w, worker[w].input)
  /\ worker[w].pc # "read" => Quiet(w)
  /\ worker[w].pc = "judged" => worker[w].outcome =
       Compared(Expected(worker[w].input.results, worker[w].input.len), worker[w].input.got)

Framed ==
  /\ oracle \in [Runners -> PipesOf(Inputs)]
  /\ ~Forged => \A w \in Jobs : InStep(w)

---------------------------------------------------------------------------
(* The verdict. First what the operators of Expectation yield.             *)

LEMMA FirstSyntaxIs ==
  ASSUME NEW S, NEW results \in Seq(S)
  PROVE  /\ FirstSyntax(results) \in 1 .. Len(results) + 1
         /\ FirstSyntax(results) <= Len(results) => IsSyntaxError(results[FirstSyntax(results)])
         /\ \A m \in 1 .. FirstSyntax(results) - 1 : ~IsSyntaxError(results[m])
<1>0. Len(results) \in Nat
  BY LenProperties
<1> DEFINE N == {k \in 1 .. Len(results) + 1 : k <= Len(results) => IsSyntaxError(results[k])}
<1>1. N \in SUBSET Nat /\ Len(results) + 1 \in N
  BY <1>0
<1>2. PICK k \in N : \A m \in N : k <= m
  <2> HIDE DEF N
  <2> QED
    BY <1>1, LeastNumber
<1>3. \A m \in 1 .. k - 1 : ~IsSyntaxError(results[m])
  BY <1>0, <1>2
<1> QED
  BY <1>2, <1>3 DEF FirstSyntax

(* The texts in play: their statements and results are records of numbers. *)
LEMMA TextFacts ==
  ASSUME NEW x, Legible(x), Plausible(x)
  PROVE  /\ x.len \in Nat
         /\ Len(x.statements) \in Nat /\ DOMAIN x.statements = 1 .. Len(x.statements)
         /\ \A k \in DOMAIN x.statements :
              /\ x.statements[k].start \in 0 .. x.len /\ x.statements[k].stop \in 0 .. x.len
              /\ x.statements[k].bad \in -1 .. x.len
              /\ x.statements[k].start < x.statements[k].stop
              /\ \/ x.statements[k].bad = -1
                 \/ /\ x.statements[k].start <= x.statements[k].bad
                    /\ \/ x.statements[k].bad < x.statements[k].stop
                       \/ x.statements[k].stop = x.len /\ x.statements[k].bad = x.len
         /\ Len(x.results) \in Nat /\ DOMAIN x.results = 1 .. Len(x.results)
         /\ \A n \in DOMAIN x.results :
              /\ x.results[n].offset \in 0 .. x.len /\ x.results[n].ok \in BOOLEAN
              /\ x.results[n].tail \in 0 .. x.len /\ x.results[n].errOffset \in -1 .. x.len
<1>1. /\ x.len \in Nat
      /\ x.statements \in Seq([start : 0 .. x.len, stop : 0 .. x.len, bad : -1 .. x.len])
      /\ x.results \in Seq([offset : 0 .. x.len, ok : BOOLEAN, message : SyntaxFamily \cup {"semantic", ""},
                            errOffset : -1 .. x.len, tail : 0 .. x.len])
  BY DEF Legible, Plausible
<1>2. /\ Len(x.statements) \in Nat /\ DOMAIN x.statements = 1 .. Len(x.statements)
      /\ \A k \in DOMAIN x.statements :
           /\ x.statements[k].start \in 0 .. x.len /\ x.statements[k].stop \in 0 .. x.len
           /\ x.statements[k].bad \in -1 .. x.len
  <2> DEFINE R == [start : 0 .. x.len, stop : 0 .. x.len, bad : -1 .. x.len]
  <2>1. \A r \in R : r.start \in 0 .. x.len /\ r.stop \in 0 .. x.len /\ r.bad \in -1 .. x.len
    OBVIOUS
  <2>2. x.statements \in Seq(R)
    BY <1>1
  <2> HIDE DEF R
  <2>3. \A n \in 1 .. Len(x.statements) : x.statements[n] \in R
    BY <2>2, ElementOfSeq
  <2> QED
    BY <2>1, <2>2, <2>3, LenProperties
<1>3. /\ Len(x.results) \in Nat /\ DOMAIN x.results = 1 .. Len(x.results)
      /\ \A n \in DOMAIN x.results :
           /\ x.results[n].offset \in 0 .. x.len /\ x.results[n].ok \in BOOLEAN
           /\ x.results[n].tail \in 0 .. x.len /\ x.results[n].errOffset \in -1 .. x.len
  <2> DEFINE R == [offset : 0 .. x.len, ok : BOOLEAN, message : SyntaxFamily \cup {"semantic", ""},
                   errOffset : -1 .. x.len, tail : 0 .. x.len]
  <2>1. \A r \in R : /\ r.offset \in 0 .. x.len /\ r.ok \in BOOLEAN
                     /\ r.tail \in 0 .. x.len /\ r.errOffset \in -1 .. x.len
    OBVIOUS
  <2>2. x.results \in Seq(R)
    BY <1>1
  <2> HIDE DEF R
  <2>3. \A n \in 1 .. Len(x.results) : x.results[n] \in R
    BY <2>2, ElementOfSeq
  <2> QED
    BY <2>1, <2>2, <2>3, LenProperties
<1>4. ASSUME NEW k \in DOMAIN x.statements
      PROVE  /\ x.statements[k].start < x.statements[k].stop
             /\ \/ x.statements[k].bad = -1
                \/ /\ x.statements[k].start <= x.statements[k].bad
                   /\ \/ x.statements[k].bad < x.statements[k].stop
                      \/ x.statements[k].stop = x.len /\ x.statements[k].bad = x.len
  <2>1. /\ x.statements[k].start < x.statements[k].stop
        /\ x.statements[k].bad \in {-1} \cup x.statements[k].start ..
             (IF x.statements[k].stop = x.len THEN x.len ELSE x.statements[k].stop - 1)
    <3>1. \A n \in DOMAIN x.statements : /\ x.statements[n].start < x.statements[n].stop
            /\ x.statements[n].bad \in {-1} \cup x.statements[n].start ..
                 (IF x.statements[n].stop = x.len THEN x.len ELSE x.statements[n].stop - 1)
      BY ZenonT(30) DEF Legible
    <3> QED
      BY <3>1
  <2>2. x.len \in Nat
    BY <1>1
  <2>3. x.statements[k].stop \in Nat /\ x.statements[k].start \in Nat
    BY <1>2, <2>2
  <2> QED
    BY <2>1, <2>2, <2>3
<1> QED
  BY <1>1, <1>2, <1>3, <1>4

(* Where the first syntax error of a text is.                              *)
LEMMA FirstBad ==
  ASSUME NEW x, Legible(x), Plausible(x)
  PROVE  \/ Bad(x) = -1 /\ \A k \in DOMAIN x.statements : x.statements[k].bad = -1
         \/ \E k \in DOMAIN x.statements :
              /\ x.statements[k].bad # -1 /\ Bad(x) = x.statements[k].bad
              /\ \A m \in 1 .. k - 1 : x.statements[m].bad = -1
<1> DEFINE s == x.statements
           N == {k \in DOMAIN s : s[k].bad # -1}
<1>0. Len(s) \in Nat /\ DOMAIN s = 1 .. Len(s)
  BY TextFacts
<1>1. CASE N = {}
  BY <1>1 DEF Bad
<1>2. CASE N # {}
  <2>1. N \in SUBSET Nat
    BY <1>0
  <2>2. PICK k \in N : \A m \in N : k <= m
    <3> HIDE DEF N
    <3> QED
      BY <1>2, <2>1, LeastNumber
  <2>3. k \in DOMAIN s /\ s[k].bad # -1 /\ \A m \in 1 .. k - 1 : s[m].bad = -1
    BY <1>0, <2>2
  <2> DEFINE c == CHOOSE n \in DOMAIN s : s[n].bad # -1 /\ \A m \in 1 .. n - 1 : s[m].bad = -1
  <2>4. c \in DOMAIN s /\ s[c].bad # -1 /\ \A m \in 1 .. c - 1 : s[m].bad = -1
    BY <2>3
  <2>5. Bad(x) = s[c].bad
    BY <2>3 DEF Bad
  <2> QED
    BY <2>4, <2>5
<1> QED
  BY <1>1, <1>2

(* A result's piece of the text ends where the next one begins.            *)
LEMMA Pieces ==
  ASSUME NEW x, Legible(x), Plausible(x), NEW n \in DOMAIN x.results
  PROVE  /\ End(x, n) \in 0 .. x.len
         /\ \A m \in DOMAIN x.results : n < m => End(x, n) <= x.results[m].offset
         /\ n < Len(x.results) => End(x, n) = x.results[n + 1].offset /\ n + 1 \in DOMAIN x.results
         /\ ~(n < Len(x.results)) => End(x, n) = x.len
<1>0. /\ x.len \in Nat /\ Len(x.results) \in Nat /\ DOMAIN x.results = 1 .. Len(x.results)
      /\ \A m \in DOMAIN x.results : x.results[m].offset \in 0 .. x.len
  BY TextFacts
<1>1. \A k, m \in DOMAIN x.results : k < m => x.results[k].offset < x.results[m].offset
  BY DEF Plausible
<1>2. CASE n < Len(x.results)
  <2>1. End(x, n) = x.results[n + 1].offset /\ n + 1 \in DOMAIN x.results
    BY <1>0, <1>2 DEF End, StatementEnd
  <2>2. ASSUME NEW m \in DOMAIN x.results, n < m PROVE End(x, n) <= x.results[m].offset
    <3>1. m = n + 1 \/ n + 1 < m
      BY <1>0, <2>2
    <3> QED
      BY <1>0, <1>1, <2>1, <3>1
  <2> QED
    BY <1>0, <1>2, <2>1, <2>2
<1>3. CASE ~(n < Len(x.results))
  BY <1>0, <1>3 DEF End, StatementEnd
<1> QED
  BY <1>2, <1>3

LEMMA UnreadIs ==
  ASSUME NEW x, Legible(x), Plausible(x), NEW n \in DOMAIN x.results, NEW o \in Int
  PROVE  o \in Unread(x.results, x.len, n) <=>
           /\ ~(x.results[n].ok /\ x.results[n].tail = 0)
           /\ x.results[n].tail < End(x, n) /\ x.results[n].tail <= o
           /\ o < End(x, n) \/ (o = End(x, n) /\ o = x.len)
<1>1. End(x, n) \in Nat /\ x.results[n].tail \in Nat
  BY Pieces, TextFacts
<1>2. Unread(x.results, x.len, n) =
        IF (x.results[n].ok /\ x.results[n].tail = 0) \/ x.results[n].tail >= End(x, n) THEN {}
        ELSE x.results[n].tail .. (IF End(x, n) = x.len THEN End(x, n) ELSE End(x, n) - 1)
  BY DEF Unread, End
<1> QED
  BY <1>1, <1>2

(* A syntax error lies in the piece of some result.                        *)
LEMMA Owner ==
  ASSUME NEW x, Legible(x), Plausible(x), NEW k \in DOMAIN x.statements, x.statements[k].bad # -1
  PROVE  \E n \in DOMAIN x.results :
           x.results[n].offset <= x.statements[k].start /\ x.statements[k].start < End(x, n)
<1> DEFINE s == x.statements
           r == x.results
           N == {n \in 1 .. Len(r) + 1 : n <= Len(r) => r[n].offset > s[k].start}
<1>0. /\ Len(r) \in Nat /\ DOMAIN r = 1 .. Len(r) /\ s[k].start \in Nat /\ s[k].start < x.len
      /\ \A n \in DOMAIN r : r[n].offset \in Nat
  BY TextFacts
<1>1. PICK f \in DOMAIN r : r[f].offset <= s[k].start
  BY DEF Plausible
<1>2. N \in SUBSET Nat /\ Len(r) + 1 \in N
  BY <1>0
<1>3. PICK n \in N : \A m \in N : n <= m
  <2> HIDE DEF N
  <2> QED
    BY <1>2, LeastNumber
<1>4. n > f
  <2>1. \A a, b \in DOMAIN r : a < b => r[a].offset < r[b].offset
    BY DEF Plausible
  <2>2. SUFFICES ASSUME n <= f PROVE FALSE
    BY <1>0, <1>3
  <2>3. n \in DOMAIN r /\ r[n].offset > s[k].start
    BY <1>0, <1>3, <2>2
  <2>4. r[n].offset <= r[f].offset
    BY <1>0, <2>1, <2>2, <2>3
  <2> QED
    BY <1>0, <1>1, <2>3, <2>4
<1>5. n - 1 \in DOMAIN r /\ r[n - 1].offset <= s[k].start
  <2>1. n - 1 \in 1 .. Len(r) /\ n - 1 \notin N
    BY <1>0, <1>3, <1>4
  <2> QED
    BY <1>0, <2>1
<1>6. s[k].start < End(x, n - 1)
  <2>1. CASE n - 1 < Len(r)
    BY <1>0, <1>3, <1>5, <2>1, Pieces
  <2>2. CASE ~(n - 1 < Len(r))
    BY <1>0, <1>5, <2>2, Pieces
  <2> QED
    BY <2>1, <2>2
<1> QED
  BY <1>5, <1>6

(* A statement that begins in a piece ends in it, and so does its error,   *)
(* but for an error at the end of the text.                                *)
LEMMA Within ==
  ASSUME NEW x, Legible(x), Plausible(x), NEW n \in DOMAIN x.results, NEW k \in DOMAIN x.statements,
         x.statements[k].start < End(x, n)
  PROVE  /\ x.statements[k].stop <= End(x, n)
         /\ \/ x.statements[k].bad < End(x, n)
            \/ End(x, n) = x.len /\ x.statements[k].bad = x.len /\ ~(n < Len(x.results))
<1> DEFINE s == x.statements
<1>0. /\ x.len \in Nat /\ DOMAIN s = 1 .. Len(s) /\ Len(s) \in Nat
      /\ \A m \in DOMAIN s : /\ s[m].start \in Nat /\ s[m].stop \in 0 .. x.len /\ s[m].start < s[m].stop
                             /\ s[m].bad \in -1 .. x.len
                             /\ s[m].bad < s[m].stop \/ (s[m].stop = x.len /\ s[m].bad = x.len)
  BY TextFacts
<1>1. CASE n < Len(x.results)
  <2>1. n + 1 \in DOMAIN x.results /\ End(x, n) = x.results[n + 1].offset
    BY <1>1, Pieces
  <2>2. PICK j \in DOMAIN s : s[j].start = End(x, n)
    BY <2>1 DEF Plausible, Observed
  <2>3. \A a, b \in DOMAIN s : a < b => s[a].stop <= s[b].start
    BY DEF Legible
  <2>4. ~(j < k) /\ j # k
    BY <1>0, <2>2, <2>3
  <2>5. s[k].stop <= s[j].start
    BY <1>0, <2>3, <2>4
  <2>6. s[j].start < x.len /\ s[k].stop < x.len
    BY <1>0, <2>5
  <2>7. s[k].bad < s[k].stop
    BY <1>0, <2>6
  <2> QED
    BY <1>0, <2>2, <2>5, <2>7
<1>2. CASE ~(n < Len(x.results))
  <2>1. End(x, n) = x.len
    BY <1>2, Pieces
  <2> QED
    BY <1>0, <1>2, <2>1
<1> QED
  BY <1>1, <1>2

(* The syntax error of a statement that SQLite did not report is in text   *)
(* that it did not read, or the text was cut short before it.              *)
LEMMA BadIsUnread ==
  ASSUME NEW x, Legible(x), Plausible(x), NEW n \in DOMAIN x.results, NEW k \in DOMAIN x.statements,
         x.statements[k].bad # -1, ~IsSyntaxError(x.results[n]),
         x.results[n].offset <= x.statements[k].start, x.statements[k].start < End(x, n)
  PROVE  \/ x.statements[k].bad \in Unread(x.results, x.len, n)
         \/ ~(n < Len(x.results)) /\ Truncated(x.results, x.len)
<1> DEFINE s == x.statements
           r == x.results[n]
           end == End(x, n)
<1>0. /\ x.len \in Nat /\ DOMAIN s = 1 .. Len(s) /\ Len(s) \in Nat /\ end \in 0 .. x.len
      /\ \A m \in DOMAIN s : /\ s[m].start \in Nat /\ s[m].stop \in 0 .. x.len /\ s[m].start < s[m].stop
                             /\ s[m].bad \in -1 .. x.len
                             /\ s[m].bad = -1 \/ s[m].start <= s[m].bad
      /\ r.tail \in 0 .. x.len
  BY TextFacts, Pieces
<1>1. PICK m \in DOMAIN s : Observed(x, n, s[m])
  BY DEF Plausible
<1>2. s[m].start = r.offset /\ s[m].stop <= end
  BY <1>1 DEF Observed, End
<1>3. \A a, b \in DOMAIN s : a < b => s[a].stop <= s[b].start
  BY DEF Legible
<1>4. ~(k < m) /\ (m # k => s[m].stop <= s[k].start)
  <2>1. k \in Nat /\ m \in Nat
    BY <1>0
  <2>2. ASSUME k < m PROVE FALSE
    <3>1. s[k].stop <= s[m].start
      BY <1>3, <2>2
    <3>2. s[m].start <= s[k].start
      BY <1>2
    <3> QED
      BY <1>0, <3>1, <3>2
  <2>3. m < k => s[m].stop <= s[k].start
    BY <1>3
  <2> QED
    BY <2>1, <2>2, <2>3
<1>5. /\ s[k].stop <= end
      /\ s[k].bad < end \/ (end = x.len /\ s[k].bad = x.len /\ ~(n < Len(x.results)))
  BY Within
<1>6. s[k].bad \in Unread(x.results, x.len, n) <=>
        /\ ~(r.ok /\ r.tail = 0) /\ r.tail < end /\ r.tail <= s[k].bad
        /\ s[k].bad < end \/ (s[k].bad = end /\ s[k].bad = x.len)
  BY <1>0, UnreadIs
<1>7. CASE r.ok /\ s[m].bad = -1
  <2>1. \/ r.tail = s[m].stop
        \/ r.tail = 0 /\ \A j \in DOMAIN s : s[m].stop <= s[j].start /\ s[j].start < end => s[j].bad = -1
    BY <1>1, <1>7 DEF Observed, End
  <2>2. m # k
    BY <1>7
  <2>3. r.tail = s[m].stop
    BY <1>4, <2>1, <2>2
  <2>4. r.tail <= s[k].start /\ s[k].start <= s[k].bad /\ r.tail # 0
    BY <1>0, <1>4, <2>2, <2>3
  <2>5. r.tail < end
    BY <1>0, <2>4
  <2>6. r.tail <= s[k].bad
    BY <1>0, <2>4
  <2> QED
    BY <1>0, <1>5, <1>6, <2>4, <2>5, <2>6
<1>8. CASE ~r.ok /\ r.tail \in s[m].start + 1 .. s[m].stop /\ (s[m].bad = -1 \/ s[m].bad >= r.tail)
  <2>1. r.tail <= s[k].bad
    <3>1. s[m].bad = -1 \/ s[m].bad >= r.tail
      BY <1>8
    <3>2. r.tail <= s[m].stop
      BY <1>0, <1>8
    <3>3. CASE m = k
      BY <3>1, <3>3
    <3>4. CASE m # k
      <4>1. s[m].stop <= s[k].start
        BY <1>4, <3>4
      <4>2. s[k].start <= s[k].bad /\ s[k].start \in Int /\ s[k].bad \in Int
        BY <1>0
      <4>3. s[m].stop \in Int /\ r.tail \in Int
        BY <1>0
      <4> QED
        BY <3>2, <4>1, <4>2, <4>3
    <3> QED
      BY <3>3, <3>4
  <2>2. CASE r.tail < end
    BY <1>0, <1>5, <1>6, <1>8, <2>1, <2>2
  <2>3. CASE ~(r.tail < end)
    <3>1. r.tail = end
      BY <1>0, <1>2, <1>8, <2>3
    <3>2. ~(n < Len(x.results)) /\ end = x.len
      BY <1>0, <1>5, <2>1, <3>1
    <3>3. n = Len(x.results) /\ x.results # <<>>
      <4>1. Len(x.results) \in Nat /\ n \in 1 .. Len(x.results)
        BY TextFacts
      <4>2. Len(<<>>) = 0
        OBVIOUS
      <4>3. n = Len(x.results) /\ Len(x.results) # 0
        BY <3>2, <4>1
      <4> QED
        BY <4>2, <4>3
    <3>4. Truncated(x.results, x.len)
      BY <1>0, <1>8, <3>1, <3>2, <3>3 DEF Truncated
    <3> QED
      BY <3>2, <3>4
  <2> QED
    BY <2>2, <2>3
<1>9. CASE ~r.ok /\ r.message = Message(x, s[m].bad)
  BY <1>9 DEF Message, IsSyntaxError, SyntaxFamily
<1> QED
  BY <1>1, <1>7, <1>8, <1>9 DEF Observed

(* What a result that is a syntax error says.                              *)
LEMMA SyntaxResult ==
  ASSUME NEW x, NEW n \in DOMAIN x.results, IsSyntaxError(x.results[n]), NEW s, Observed(x, n, s)
  PROVE  /\ s.bad # -1 /\ s.start = x.results[n].offset
         /\ x.results[n].message = Message(x, s.bad) /\ x.results[n].errOffset \in {s.bad, -1}
  BY DEF Observed, IsSyntaxError, SyntaxFamily

(* The first statement with a syntax error, when SQLite reports one: it is *)
(* that one, or its error is in text that SQLite did not read.             *)
LEMMA FirstReported ==
  ASSUME NEW x, Legible(x), Plausible(x), NEW n \in DOMAIN x.results, IsSyntaxError(x.results[n]),
         \A m \in 1 .. n - 1 : ~IsSyntaxError(x.results[m]),
         NEW k \in DOMAIN x.statements, x.statements[k].bad # -1,
         \A m \in 1 .. k - 1 : x.statements[m].bad = -1
  PROVE  \/ Observed(x, n, x.statements[k])
         \/ \E m \in 1 .. n - 1 : x.statements[k].bad \in Unread(x.results, x.len, m)
<1> DEFINE s == x.statements
           r == x.results
<1>0. /\ x.len \in Nat /\ DOMAIN s = 1 .. Len(s) /\ Len(s) \in Nat /\ DOMAIN r = 1 .. Len(r) /\ Len(r) \in Nat
      /\ \A m \in DOMAIN s : /\ s[m].start \in Nat /\ s[m].stop \in 0 .. x.len /\ s[m].start < s[m].stop
      /\ \A m \in DOMAIN r : r[m].offset \in Nat
  BY TextFacts
<1>1. PICK j \in DOMAIN s : Observed(x, n, s[j])
  BY DEF Plausible
<1>2. s[j].bad # -1 /\ s[j].start = r[n].offset
  BY <1>1, SyntaxResult
<1>3. CASE j = k
  BY <1>1, <1>3
<1>4. CASE j # k
  <2>1. k < j
    BY <1>0, <1>2, <1>4
  <2>2. s[k].start < r[n].offset
    <3>1. s[k].stop <= s[j].start
      BY <2>1 DEF Legible
    <3> QED
      BY <1>0, <1>2, <3>1
  <2>3. PICK m \in DOMAIN r : r[m].offset <= s[k].start /\ s[k].start < End(x, m)
    BY Owner
  <2>4. m < n
    <3>1. SUFFICES ASSUME ~(m < n) PROVE FALSE
      OBVIOUS
    <3>2. CASE m = n
      BY <1>0, <2>2, <2>3, <3>2
    <3>3. CASE n < m
      <4>1. r[n].offset < r[m].offset
        BY <3>3 DEF Plausible
      <4>2. r[n].offset \in Int /\ r[m].offset \in Int /\ s[k].start \in Int
        BY <1>0
      <4> QED
        BY <2>2, <2>3, <4>1, <4>2
    <3> QED
      BY <1>0, <3>1, <3>2, <3>3
  <2>5. m \in 1 .. n - 1 /\ m < Len(r)
    BY <1>0, <2>4
  <2>6. s[k].bad \in Unread(x.results, x.len, m)
    BY <2>3, <2>5, BadIsUnread
  <2> QED
    BY <2>5, <2>6
<1> QED
  BY <1>3, <1>4

LEMMA ExpectedIs ==
  ASSUME NEW x, NEW n, n = FirstSyntax(x.results)
  PROVE  LET exp == Expected(x.results, x.len)
         IN /\ exp.unreached = UNION {Unread(x.results, x.len, m) : m \in 1 .. n - 1}
            /\ n <= Len(x.results) => /\ exp.ok = FALSE /\ exp.truncated = FALSE
                                      /\ exp.message = x.results[n].message
                                      /\ exp.offset = x.results[n].errOffset
            /\ ~(n <= Len(x.results)) => /\ exp.ok = TRUE
                                         /\ exp.truncated = Truncated(x.results, x.len)
  BY DEF Expected

LEMMA PerfectIsNoFalseAlarm ==
  ASSUME NEW x, Legible(x), Plausible(x), x.got = Perfect(x)
  PROVE  Compared(Expected(x.results, x.len), x.got) \notin Disagreements
<1> DEFINE s == x.statements
           r == x.results
           n == FirstSyntax(r)
           exp == Expected(r, x.len)
<1>0. /\ DOMAIN s = 1 .. Len(s) /\ Len(s) \in Nat /\ DOMAIN r = 1 .. Len(r) /\ Len(r) \in Nat
  BY TextFacts
<1>1. /\ n \in 1 .. Len(r) + 1
      /\ n <= Len(r) => IsSyntaxError(r[n])
      /\ \A m \in 1 .. n - 1 : ~IsSyntaxError(r[m])
  BY FirstSyntaxIs DEF Plausible
<1>2. /\ exp.unreached = UNION {Unread(r, x.len, m) : m \in 1 .. n - 1}
      /\ n <= Len(r) => /\ exp.ok = FALSE /\ exp.truncated = FALSE
                        /\ exp.message = r[n].message /\ exp.offset = r[n].errOffset
      /\ ~(n <= Len(r)) => exp.ok = TRUE /\ exp.truncated = Truncated(r, x.len)
  BY ExpectedIs
<1> HIDE DEF exp, n
<1>3. CASE Bad(x) = -1 /\ \A k \in DOMAIN s : s[k].bad = -1
  <2>1. ~(n <= Len(r))
    <3>1. SUFFICES ASSUME n <= Len(r) PROVE FALSE
      OBVIOUS
    <3>2. n \in DOMAIN r /\ IsSyntaxError(r[n])
      BY <1>0, <1>1, <3>1
    <3>3. PICK j \in DOMAIN s : Observed(x, n, s[j])
      BY <3>2 DEF Plausible
    <3> QED
      BY <1>3, <3>2, <3>3, SyntaxResult
  <2>2. x.got.ok = TRUE /\ exp.ok = TRUE
    <3>1. x.got = Accepted
      BY <1>3 DEF Perfect
    <3>2. Accepted.ok = TRUE
      BY DEF Accepted
    <3> QED
      BY <1>2, <2>1, <3>1, <3>2
  <2> QED
    BY <2>2 DEF Compared, Disagreements, exp
<1>4. ASSUME NEW k \in DOMAIN s, s[k].bad # -1, Bad(x) = s[k].bad, \A m \in 1 .. k - 1 : s[m].bad = -1
      PROVE  Compared(Expected(x.results, x.len), x.got) \notin Disagreements
  <2>1. x.got.ok = FALSE /\ x.got.message = Message(x, s[k].bad) /\ x.got.offset = s[k].bad
    BY <1>4 DEF Perfect
  <2>2. CASE s[k].bad \in exp.unreached
    BY <2>1, <2>2 DEF Compared, Disagreements, exp
  <2>3. CASE n <= Len(r) /\ s[k].bad \notin exp.unreached
    <3>1. n \in DOMAIN r /\ IsSyntaxError(r[n])
      BY <1>0, <1>1, <2>3
    <3>2. Observed(x, n, s[k])
      BY <1>1, <1>2, <1>4, <2>3, <3>1, FirstReported
    <3>3. r[n].message = Message(x, s[k].bad) /\ r[n].errOffset \in {s[k].bad, -1}
      BY <3>1, <3>2, SyntaxResult
    <3>4. /\ exp.ok = FALSE /\ x.got.message = exp.message
          /\ exp.offset = x.got.offset \/ exp.offset = -1
      BY <1>2, <2>1, <2>3, <3>3
    <3> QED
      BY <2>1, <2>3, <3>4 DEF Compared, Disagreements, exp
  <2>4. CASE ~(n <= Len(r)) /\ s[k].bad \notin exp.unreached
    <3>1. n = Len(r) + 1
      BY <1>0, <1>1, <2>4
    <3>2. PICK m \in DOMAIN r : r[m].offset <= s[k].start /\ s[k].start < End(x, m)
      BY <1>4, Owner
    <3>3. m \in 1 .. n - 1 /\ ~IsSyntaxError(r[m])
      BY <1>0, <1>1, <3>1
    <3>4. s[k].bad \notin Unread(r, x.len, m)
      BY <1>2, <2>4, <3>3
    <3>5. Truncated(r, x.len)
      BY <1>4, <3>2, <3>3, <3>4, BadIsUnread
    <3>6. exp.ok = TRUE /\ exp.truncated
      BY <1>2, <2>4, <3>5
    <3> QED
      BY <3>6 DEF Compared, Disagreements, exp
  <2> QED
    BY <2>2, <2>3, <2>4
<1> QED
  BY <1>3, <1>4, FirstBad

(* What SQLite has read, result by result.                                 *)
LEMMA ReadIs ==
  ASSUME NEW x, Legible(x), Plausible(x), NEW o \in ReadText(x)
  PROVE  /\ o \in Int
         /\ \E n \in DOMAIN x.results : \E j \in DOMAIN x.statements :
              /\ Observed(x, n, x.statements[j]) /\ x.results[n].offset <= o
              /\ IF x.results[n].ok \/ IsSyntaxError(x.results[n])
                   THEN o < x.statements[j].stop \/ (x.statements[j].stop = x.len /\ o = x.len)
                   ELSE o < x.results[n].tail
<1> DEFINE s == x.statements
           Part(r, stop) == IF r.ok \/ IsSyntaxError(r)
                              THEN r.offset .. (IF stop = x.len THEN stop ELSE stop - 1)
                              ELSE r.offset .. r.tail - 1
<1>0. /\ x.len \in Nat /\ DOMAIN s = 1 .. Len(s) /\ Len(s) \in Nat
      /\ \A m \in DOMAIN s : s[m].start \in Nat /\ s[m].stop \in Nat /\ s[m].start < s[m].stop
      /\ \A n \in DOMAIN x.results : x.results[n].offset \in Nat /\ x.results[n].tail \in Nat
  BY TextFacts
<1>1. PICK n \in DOMAIN x.results :
        o \in Part(x.results[n], s[CHOOSE m \in DOMAIN s : s[m].start = x.results[n].offset].stop)
  BY DEF ReadText
<1>2. PICK j \in DOMAIN s : Observed(x, n, s[j])
  BY DEF Plausible
<1>3. s[j].start = x.results[n].offset
  BY <1>2 DEF Observed
<1>4. ASSUME NEW m \in DOMAIN s, s[m].start = x.results[n].offset PROVE m = j
  <2>1. \A a, b \in DOMAIN s : a < b => s[a].stop <= s[b].start
    BY DEF Legible
  <2>2. ~(m < j) /\ ~(j < m)
    BY <1>0, <1>3, <1>4, <2>1
  <2> QED
    BY <1>0, <2>2
<1>5. (CHOOSE m \in DOMAIN s : s[m].start = x.results[n].offset) = j
  BY <1>3, <1>4
<1>6. o \in Part(x.results[n], s[j].stop)
  BY <1>1, <1>5
<1>7. CASE x.results[n].ok \/ IsSyntaxError(x.results[n])
  <2>1. o \in x.results[n].offset .. (IF s[j].stop = x.len THEN s[j].stop ELSE s[j].stop - 1)
    BY <1>6, <1>7
  <2>2. /\ o \in Int /\ x.results[n].offset <= o
        /\ o < s[j].stop \/ (s[j].stop = x.len /\ o = x.len)
    BY <1>0, <2>1
  <2> QED
    BY <1>2, <1>7, <2>2
<1>8. CASE ~(x.results[n].ok \/ IsSyntaxError(x.results[n]))
  <2>1. o \in x.results[n].offset .. x.results[n].tail - 1
    BY <1>6, <1>8
  <2>2. o \in Int /\ x.results[n].offset <= o /\ o < x.results[n].tail
    BY <1>0, <2>1
  <2> QED
    BY <1>2, <1>8, <2>2
<1> QED
  BY <1>7, <1>8

(* Text that SQLite has read is in no gap.                                 *)
LEMMA ReadIsNotUnread ==
  ASSUME NEW x, Legible(x), Plausible(x), NEW o \in ReadText(x), NEW g \in DOMAIN x.results,
         ~IsSyntaxError(x.results[g])
  PROVE  o \notin Unread(x.results, x.len, g)
<1> DEFINE s == x.statements
           r == x.results
<1>0. /\ x.len \in Nat /\ DOMAIN s = 1 .. Len(s) /\ Len(s) \in Nat /\ DOMAIN r = 1 .. Len(r) /\ Len(r) \in Nat
      /\ \A m \in DOMAIN s : /\ s[m].start \in Nat /\ s[m].stop \in 0 .. x.len /\ s[m].start < s[m].stop
      /\ \A n \in DOMAIN r : r[n].offset \in 0 .. x.len /\ r[n].tail \in 0 .. x.len
  BY TextFacts
<1>1. PICK n \in DOMAIN r, j \in DOMAIN s :
        /\ Observed(x, n, s[j]) /\ r[n].offset <= o
        /\ IF r[n].ok \/ IsSyntaxError(r[n])
             THEN o < s[j].stop \/ (s[j].stop = x.len /\ o = x.len)
             ELSE o < r[n].tail
  BY ReadIs
<1>2. o \in Int /\ s[j].start = r[n].offset /\ s[j].stop <= End(x, n)
  BY <1>1, ReadIs DEF Observed, End
<1>3. SUFFICES ASSUME o \in Unread(r, x.len, g) PROVE FALSE
  OBVIOUS
<1>3a. ~(r[g].ok /\ r[g].tail = 0)
  BY <1>2, <1>3, UnreadIs
<1>4. /\ r[g].tail < End(x, g) /\ r[g].tail <= o
      /\ o < End(x, g) \/ (o = End(x, g) /\ o = x.len)
  BY <1>2, <1>3, UnreadIs
<1>5. End(x, n) \in 0 .. x.len /\ End(x, g) \in 0 .. x.len
  BY Pieces
<1>6. o < End(x, n) \/ (o = x.len /\ End(x, n) = x.len)
  <2>1. CASE r[n].ok \/ IsSyntaxError(r[n])
    BY <1>0, <1>1, <1>2, <1>5, <2>1
  <2>2. CASE ~(r[n].ok \/ IsSyntaxError(r[n]))
    <3>1. o < r[n].tail /\ r[n].tail <= s[j].stop
      BY <1>0, <1>1, <2>2 DEF Observed, IsSyntaxError, SyntaxFamily, Message
    <3> QED
      BY <1>0, <1>2, <1>5, <3>1
  <2> QED
    BY <2>1, <2>2
<1>7. CASE n < g
  <2>1. End(x, n) <= r[g].offset /\ r[g].offset <= r[g].tail
    <3>1. End(x, n) <= r[g].offset
      BY <1>7, Pieces
    <3>2. PICK i \in DOMAIN s : Observed(x, g, s[i])
      BY DEF Plausible
    <3>3. r[g].tail = s[i].stop \/ r[g].tail \in s[i].start + 1 .. s[i].stop
      BY <1>3a, <3>2 DEF Observed, IsSyntaxError, SyntaxFamily, Message
    <3>4. r[g].offset = s[i].start
      BY <3>2 DEF Observed
    <3>5. r[g].tail >= s[i].start
      BY <1>0, <3>3
    <3> QED
      BY <3>1, <3>4, <3>5
  <2>2. s[j].start < x.len /\ r[g].offset < x.len
    <3>1. PICK i \in DOMAIN s : Observed(x, g, s[i])
      BY DEF Plausible
    <3>2. r[g].offset = s[i].start
      BY <3>1 DEF Observed
    <3>3. \A m \in DOMAIN s : s[m].start < x.len
      BY <1>0
    <3> QED
      BY <3>2, <3>3
  <2> QED
    BY <1>0, <1>2, <1>4, <1>5, <1>6, <2>1, <2>2
<1>8. CASE g < n
  <2>1. End(x, g) <= r[n].offset
    BY <1>8, Pieces
  <2>2. r[n].offset < x.len /\ r[n].offset \in Nat
    BY <1>0, <1>2
  <2>3. r[n].offset <= o
    BY <1>1
  <2> QED
    BY <1>0, <1>2, <1>4, <1>5, <2>1, <2>2, <2>3
<1>9. CASE g = n
  <2>1. CASE r[n].ok
    <3>1. r[n].tail = s[j].stop \/ r[n].tail = 0
      BY <1>1, <2>1 DEF Observed
    <3>2. r[n].tail = s[j].stop
      BY <1>3a, <1>9, <2>1, <3>1
    <3>3. o < s[j].stop \/ (s[j].stop = x.len /\ o = x.len)
      BY <1>1, <2>1
    <3> QED
      BY <1>0, <1>2, <1>4, <1>5, <1>9, <3>2, <3>3
  <2>2. CASE ~r[n].ok
    <3>1. o < r[n].tail
      BY <1>1, <1>9, <2>2
    <3> QED
      BY <1>0, <1>2, <1>4, <1>9, <3>1
  <2> QED
    BY <2>1, <2>2
<1> QED
  BY <1>0, <1>7, <1>8, <1>9


LEMMA UnreadBefore ==
  ASSUME NEW x, Legible(x), Plausible(x), NEW m \in DOMAIN x.results, NEW n \in DOMAIN x.results, m < n,
         NEW o \in Int, o \in Unread(x.results, x.len, m)
  PROVE  o < x.results[n].offset
<1>1. o < End(x, m) \/ (o = End(x, m) /\ o = x.len)
  BY UnreadIs
<1>2. End(x, m) <= x.results[n].offset /\ End(x, m) \in Nat /\ x.results[n].offset \in Nat
  BY Pieces, TextFacts
<1>3. x.results[n].offset < x.len
  <2>1. PICK j \in DOMAIN x.statements : x.statements[j].start = x.results[n].offset
    BY DEF Plausible, Observed
  <2>2. x.statements[j].start < x.statements[j].stop /\ x.statements[j].stop \in 0 .. x.len /\ x.len \in Nat
          /\ x.statements[j].start \in 0 .. x.len
    BY TextFacts
  <2> QED
    BY <2>1, <2>2
<1> QED
  BY <1>1, <1>2, <1>3

(* A syntax error that SQLite has read is one it reports.                  *)
LEMMA ReadBad ==
  ASSUME NEW x, Legible(x), Plausible(x), NEW k \in DOMAIN x.statements,
         x.statements[k].bad # -1, x.statements[k].bad \in ReadText(x)
  PROVE  \E n \in DOMAIN x.results : IsSyntaxError(x.results[n]) /\ Observed(x, n, x.statements[k])
<1> DEFINE s == x.statements
           r == x.results
           b == s[k].bad
<1>0. /\ x.len \in Nat /\ DOMAIN s = 1 .. Len(s) /\ Len(s) \in Nat
      /\ \A m \in DOMAIN s : /\ s[m].start \in Nat /\ s[m].stop \in 0 .. x.len /\ s[m].start < s[m].stop
                             /\ s[m].bad \in -1 .. x.len
                             /\ \/ s[m].bad = -1
                                \/ /\ s[m].start <= s[m].bad
                                   /\ s[m].bad < s[m].stop \/ (s[m].stop = x.len /\ s[m].bad = x.len)
      /\ \A n \in DOMAIN r : r[n].tail \in Nat
  BY TextFacts
<1>1. PICK n \in DOMAIN r, j \in DOMAIN s :
        /\ Observed(x, n, s[j]) /\ r[n].offset <= b
        /\ IF r[n].ok \/ IsSyntaxError(r[n])
             THEN b < s[j].stop \/ (s[j].stop = x.len /\ b = x.len)
             ELSE b < r[n].tail
  BY ReadIs
<1>2. s[j].start = r[n].offset /\ s[j].start <= b
  BY <1>1 DEF Observed
<1>3. b < s[j].stop \/ (s[j].stop = x.len /\ b = x.len)
  <2>1. CASE r[n].ok \/ IsSyntaxError(r[n])
    BY <1>1, <2>1
  <2>2. CASE ~(r[n].ok \/ IsSyntaxError(r[n]))
    <3>1. b < r[n].tail /\ r[n].tail <= s[j].stop
      BY <1>0, <1>1, <2>2 DEF Observed, IsSyntaxError, SyntaxFamily, Message
    <3> QED
      BY <1>0, <3>1
  <2> QED
    BY <2>1, <2>2
<1>4. j = k
  <2>1. \A m \in DOMAIN s : s[m].start < x.len
    BY <1>0
  <2>2. ASSUME j < k PROVE FALSE
    <3>1. s[j].stop <= s[k].start
      BY <2>2 DEF Legible
    <3>2. s[k].start <= b
      BY <1>0
    <3> QED
      BY <1>0, <1>3, <2>1, <3>1, <3>2
  <2>3. ASSUME k < j PROVE FALSE
    <3>1. s[k].stop <= s[j].start
      BY <2>3 DEF Legible
    <3>2. b < s[k].stop \/ s[k].stop = x.len
      BY <1>0
    <3> QED
      BY <1>0, <1>2, <2>1, <3>1, <3>2
  <2> QED
    BY <1>0, <2>2, <2>3
<1>5. ~r[n].ok
  <2>1. r[n].ok => s[j].bad = -1
    BY <1>1 DEF Observed
  <2> QED
    BY <1>4, <2>1
<1>6. IsSyntaxError(r[n])
  <2>1. SUFFICES ASSUME ~IsSyntaxError(r[n]) PROVE FALSE
    OBVIOUS
  <2>2. b < r[n].tail
    BY <1>1, <1>5, <2>1
  <2>3. s[j].bad = -1 \/ s[j].bad >= r[n].tail
    BY <1>1, <1>5, <2>1 DEF Observed, IsSyntaxError, SyntaxFamily, Message
  <2> QED
    BY <1>0, <1>4, <2>2, <2>3
<1> QED
  BY <1>1, <1>4, <1>6

(* No answer of this kind is excused by text that was not read.            *)
LEMMA NoExcuse ==
  ASSUME NEW x, Legible(x), Plausible(x), Missable(x), x.got.ok = FALSE, x.got.offset \in 0 .. x.len,
         NEW n, n = FirstSyntax(x.results), NEW m \in 1 .. n - 1
  PROVE  x.got.offset \notin Unread(x.results, x.len, m)
<1> DEFINE s == x.statements
           r == x.results
           g == x.got.offset
<1>0. /\ DOMAIN s = 1 .. Len(s) /\ Len(s) \in Nat /\ DOMAIN r = 1 .. Len(r) /\ Len(r) \in Nat
      /\ x.len \in Nat /\ g \in Int /\ g # -1
  BY TextFacts
<1>1. /\ n \in 1 .. Len(r) + 1
      /\ n <= Len(r) => IsSyntaxError(r[n])
      /\ \A k \in 1 .. n - 1 : ~IsSyntaxError(r[k])
  BY FirstSyntaxIs DEF Plausible
<1>2. m \in DOMAIN r /\ ~IsSyntaxError(r[m])
  BY <1>0, <1>1
<1>3. CASE Departs(x) = g
  BY <1>2, <1>3, ReadIsNotUnread DEF Missable
<1>4. CASE Departs(x) # g
  <2>1. Bad(x) # -1 /\ Departs(x) = Bad(x) /\ Bad(x) < g
    BY <1>0, <1>4 DEF Departs
  <2>2. PICK k \in DOMAIN s : /\ s[k].bad # -1 /\ Bad(x) = s[k].bad
                              /\ \A i \in 1 .. k - 1 : s[i].bad = -1
    BY <2>1, FirstBad
  <2>3. s[k].bad \in ReadText(x)
    BY <2>1, <2>2 DEF Missable
  <2>4. PICK f \in DOMAIN r : IsSyntaxError(r[f]) /\ Observed(x, f, s[k])
    BY <2>2, <2>3, ReadBad
  <2>5. n \in DOMAIN r /\ IsSyntaxError(r[n])
    BY <1>0, <1>1, <2>4
  <2>6. Observed(x, n, s[k])
    <3>1. \A i \in 1 .. n - 1 : s[k].bad \notin Unread(r, x.len, i)
      BY <1>0, <1>1, <2>3, ReadIsNotUnread
    <3> QED
      BY <1>1, <2>2, <2>5, <3>1, FirstReported
  <2>7. r[n].offset <= s[k].bad
    <3>1. r[n].offset = s[k].start
      BY <2>6 DEF Observed
    <3>2. s[k].start <= s[k].bad
      BY <2>2, TextFacts
    <3> QED
      BY <3>1, <3>2
  <2>8. SUFFICES ASSUME g \in Unread(r, x.len, m) PROVE FALSE
    OBVIOUS
  <2>9. g < r[n].offset
    <3>1. m < n
      BY <1>0, <1>1
    <3> HIDE DEF g, r
    <3> QED
      BY <1>0, <1>2, <2>5, <2>8, <3>1, UnreadBefore DEF r
  <2>10. s[k].bad \in Int /\ r[n].offset \in Int
    BY <2>5, TextFacts
  <2>11. s[k].bad < g
    BY <2>1, <2>2
  <2>12. g \in Int
    BY <1>0
  <2> QED
    BY <2>7, <2>9, <2>10, <2>11, <2>12
<1> QED
  BY <1>3, <1>4

LEMMA WrongIsReported ==
  ASSUME NEW x, Legible(x), Plausible(x), Answerable(x), Missable(x)
  PROVE  Compared(Expected(x.results, x.len), x.got) \in Disagreements
<1> DEFINE s == x.statements
           r == x.results
           n == FirstSyntax(r)
           exp == Expected(r, x.len)
<1>0. /\ DOMAIN s = 1 .. Len(s) /\ Len(s) \in Nat /\ DOMAIN r = 1 .. Len(r) /\ Len(r) \in Nat
      /\ x.len \in Nat
  BY TextFacts
<1>1. /\ n \in 1 .. Len(r) + 1
      /\ n <= Len(r) => IsSyntaxError(r[n])
      /\ \A m \in 1 .. n - 1 : ~IsSyntaxError(r[m])
  BY FirstSyntaxIs DEF Plausible
<1>2. /\ exp.unreached = UNION {Unread(r, x.len, m) : m \in 1 .. n - 1}
      /\ n <= Len(r) => /\ exp.ok = FALSE /\ exp.truncated = FALSE
                        /\ exp.message = r[n].message /\ exp.offset = r[n].errOffset
      /\ ~(n <= Len(r)) => exp.ok = TRUE /\ exp.truncated = Truncated(r, x.len)
  BY ExpectedIs
<1>3. ~Truncated(r, x.len)
  BY DEF Missable
<1>4. CASE x.got = Accepted
  <2>1. x.got.ok = TRUE
    <3>1. Accepted.ok = TRUE
      BY DEF Accepted
    <3> QED
      BY <1>4, <3>1
  <2>2. Bad(x) # -1
    BY <1>4 DEF Missable, Perfect
  <2>3. PICK k \in DOMAIN s : s[k].bad # -1 /\ Bad(x) = s[k].bad
    BY <2>2, FirstBad
  <2>4. s[k].bad \in ReadText(x)
    BY <2>1, <2>2, <2>3 DEF Missable, Departs
  <2>5. n <= Len(r)
    <3>1. PICK f \in DOMAIN r : IsSyntaxError(r[f])
      BY <2>3, <2>4, ReadBad
    <3> HIDE DEF n
    <3> QED
      BY <1>0, <1>1, <3>1
  <2>6. exp.ok = FALSE
    BY <1>2, <2>5
  <2> HIDE DEF exp
  <2> QED
    BY <2>1, <2>6 DEF Compared, Disagreements, exp
<1>5. CASE x.got \in [ok : {FALSE}, message : SyntaxFamily, offset : 0 .. x.len]
  <2>1. x.got.ok = FALSE /\ x.got.offset \in 0 .. x.len
    BY <1>5
  <2>2. x.got.offset \notin exp.unreached
    BY <1>2, <2>1, NoExcuse
  <2>3. CASE ~(n <= Len(r))
    <3>1. exp.ok = TRUE /\ ~exp.truncated
      BY <1>2, <1>3, <2>3
    <3> HIDE DEF exp
    <3> QED
      BY <2>1, <2>2, <3>1 DEF Compared, Disagreements, exp
  <2>4. CASE n <= Len(r)
    <3>1. n \in DOMAIN r /\ IsSyntaxError(r[n])
      BY <1>0, <1>1, <2>4
    <3>2. PICK j \in DOMAIN s : Observed(x, n, s[j])
      BY <3>1 DEF Plausible
    <3>3. /\ s[j].bad # -1 /\ s[j].start = r[n].offset
          /\ r[n].message = Message(x, s[j].bad) /\ r[n].errOffset \in {s[j].bad, -1}
      BY <3>1, <3>2, SyntaxResult
    <3>4. s[j].bad \in 0 .. x.len /\ s[j].start <= s[j].bad /\ s[j].start \in Nat
      BY <1>0, <3>3, TextFacts
    <3>5. ASSUME x.got.message = r[n].message, x.got.offset = r[n].errOffset PROVE FALSE
      <4>1. r[n].errOffset # -1
        BY <3>1, <3>5 DEF Missable
      <4>2. x.got = [ok |-> FALSE, message |-> Message(x, s[j].bad), offset |-> s[j].bad]
        BY <1>5, <3>3, <3>5, <4>1
      <4>3. PICK k \in DOMAIN s : /\ s[k].bad # -1 /\ Bad(x) = s[k].bad
                                  /\ \A i \in 1 .. k - 1 : s[i].bad = -1
        BY <3>3, FirstBad
      <4>4. s[j].bad # s[k].bad
        BY <4>2, <4>3 DEF Missable, Perfect
      <4>5. ~Observed(x, n, s[k])
        BY <3>1, <3>3, <3>5, <4>1, <4>4, SyntaxResult
      <4>6. PICK m \in 1 .. n - 1 : s[k].bad \in Unread(r, x.len, m)
        <5> HIDE DEF n
        <5> QED
          BY <1>1, <3>1, <4>3, <4>5, FirstReported
      <4>7. m \in DOMAIN r /\ ~IsSyntaxError(r[m]) /\ m < n
        <5> HIDE DEF n
        <5> QED
          BY <1>0, <1>1
      <4>8. s[k].bad < r[n].offset
        <5>1. s[k].bad \in Int
          BY TextFacts
        <5> HIDE DEF n
        <5> QED
          BY <3>1, <4>6, <4>7, <5>1, UnreadBefore
      <4>9. s[k].bad \in ReadText(x)
        <5>1. x.got.ok = FALSE /\ x.got.offset = s[j].bad
          BY <4>2
        <5>2. s[k].bad < s[j].bad /\ s[j].bad # -1
          <6>1. s[k].bad \in Int /\ s[j].bad \in Int
            BY TextFacts
          <6> HIDE DEF n
          <6> QED
            BY <3>3, <3>4, <4>8, <6>1
        <5>3. Departs(x) = s[k].bad
          BY <4>3, <5>1, <5>2 DEF Departs
        <5> QED
          BY <5>3 DEF Missable
      <4> QED
        BY <4>6, <4>7, <4>9, ReadIsNotUnread
    <3>6. exp.ok = FALSE /\ exp.message = r[n].message /\ exp.offset = r[n].errOffset
      BY <1>2, <2>4
    <3>7. CASE x.got.message # exp.message
      <4> HIDE DEF exp, n
      <4> QED
        BY <2>1, <2>2, <3>6, <3>7 DEF Compared, Disagreements, exp
    <3>8. CASE x.got.message = exp.message
      <4>1. exp.offset # -1
        BY <3>1, <3>6, <3>8 DEF Missable
      <4>2. exp.offset >= 0 /\ x.got.offset # exp.offset
        BY <3>3, <3>4, <3>5, <3>6, <3>8, <4>1
      <4> HIDE DEF exp, n
      <4> QED
        BY <2>1, <2>2, <3>6, <3>8, <4>2 DEF Compared, Disagreements, exp
    <3> QED
      BY <3>7, <3>8
  <2> QED
    BY <2>3, <2>4
<1> QED
  BY <1>4, <1>5 DEF Answerable

---------------------------------------------------------------------------
(* The steps of the program.                                               *)

LEMMA PlanFacts ==
  ASSUME plan \in Plans
  PROVE  /\ plan.jobs \in Nat /\ Jobs \subseteq Runners \cap Procs /\ IsFiniteSet(Jobs)
         /\ Main \in Procs /\ Main \notin Jobs
         /\ Len(plan.inputs) \in Nat /\ plan.per \in Nat
         /\ \A n \in 1 .. Len(plan.inputs) : plan.inputs[n] \in Given(plan)
         /\ Given(plan) \subseteq Inputs /\ plan.mutations \subseteq Given(plan)
<1>1. /\ plan.jobs \in Nat /\ 1 .. plan.jobs \subseteq Runners \cap Procs
      /\ plan.inputs \in Seq(Inputs) /\ plan.per \in Nat /\ Main \in Procs
  BY PlansAssumption
<1>2. Len(plan.inputs) \in Nat /\ DOMAIN plan.inputs = 1 .. Len(plan.inputs)
  BY <1>1, LenProperties
<1>3. IsFiniteSet(Jobs)
  <2>1. 1 \in Int /\ plan.jobs \in Int
    BY <1>1
  <2>2. IsFiniteSet(1 .. plan.jobs)
    BY <2>1, FS_Interval
  <2> QED
    BY <2>2 DEF Jobs
<1>4. Given(plan) \subseteq Inputs
  BY DEF Inputs
<1>5. Main \notin Jobs
  BY <1>1 DEF Jobs, Main
<1>6. /\ \A n \in 1 .. Len(plan.inputs) : plan.inputs[n] \in Given(plan)
      /\ plan.mutations \subseteq Given(plan)
  BY <1>2 DEF Given
<1>7. Jobs \subseteq Runners \cap Procs
  BY <1>1 DEF Jobs
<1> QED
  BY <1>1, <1>2, <1>3, <1>4, <1>5, <1>6, <1>7

(* What may happen in a step.                                              *)
Turn(w) ==
  \/ Send(w) \/ NewRunner(w) \/ Close(w) \/ Split(w) \/ RunWrites(w)
  \/ Judge(w) \/ Agreed(w) \/ AddCount(w) \/ AddBucket(w)

LEMMA StepKinds ==
  ASSUME [Next]_vars
  PROVE  \/ UNCHANGED vars
         \/ \E how \in {"fatal", "killed"} : Ends(how)
         \/ \E p \in {Main} \cup Jobs : Artifact(p)
         \/ OracleBuilt \/ SeedsRead \/ TooLong \/ CloseWork \/ PrintReport
         \/ \E w \in Jobs : Turn(w)
         \/ \E r \in Jobs : OracleAnswers(r) \/ OracleExits(r)
<1>1. Fatal => Ends("fatal")
  BY DEF Fatal
<1>2. Killed => Ends("killed")
  BY DEF Killed
<1>4. ArtifactError(Main) \/ SeedsError \/ AllAsleep => Fatal
  BY DEF ArtifactError, SeedsError, AllAsleep
<1>5. \A w : ArtifactError(w) \/ NotExecutable(w) \/ RunFails(w) => Fatal
  BY DEF ArtifactError, NotExecutable, RunFails
<1>6. CASE MainStep
  BY <1>1, <1>4, <1>6 DEF MainStep
<1>7. ASSUME NEW w \in Jobs, Send(w) \/ WorkerStep(w)
      PROVE  Artifact(w) \/ Fatal \/ Turn(w)
  BY <1>5, <1>7 DEF WorkerStep, Turn
<1> QED
  BY <1>1, <1>2, <1>6, <1>7 DEF Next, Rest

---------------------------------------------------------------------------
(* The workers.                                                            *)

(* What a step makes of one worker and of no other.                        *)
Becomes(w, where, input, left, outcome) ==
  worker' = [worker EXCEPT ![w] = [pc |-> where, input |-> input, left |-> left, outcome |-> outcome]]

LEMMA WorkerMoves ==
  ASSUME Workers, NEW w \in Jobs
  PROVE  LET now == worker[w]
             goes(where, outcome) == Becomes(w, where, now.input, now.left, outcome)
         IN /\ Send(w) => Becomes(w, "check", plan.inputs[sent + 1], plan.per, "none")
            /\ NewRunner(w) => goes("receive", now.outcome)
            /\ Close(w) => Becomes(w, "done", NoInput, 0, "none")
            /\ Checked(w) => \/ Becomes(w, "receive", NoInput, 0, "none")
                             \/ \E m \in plan.mutations : Becomes(w, "check", m, now.left - 1, "none")
            /\ RunWrites(w) => goes("read", now.outcome)
            /\ Judge(w) => goes("judged", Compared(Expected(Results(Returned(w)), now.input.len), now.input.got))
            /\ AddCount(w) => goes("bucket", now.outcome)
<1>1. worker \in [Runners -> WorkerRec] /\ w \in Runners
  BY PlanFacts DEF Workers
<1>2. worker[w] = [pc |-> worker[w].pc, input |-> worker[w].input, left |-> worker[w].left,
                   outcome |-> worker[w].outcome]
  BY <1>1 DEF WorkerRec
<1>3. ASSUME NEW where, worker' = [worker EXCEPT ![w].pc = where]
      PROVE  Becomes(w, where, worker[w].input, worker[w].left, worker[w].outcome)
  <2>1. [worker[w] EXCEPT !.pc = where]
          = [pc |-> where, input |-> worker[w].input, left |-> worker[w].left, outcome |-> worker[w].outcome]
    BY <1>2
  <2> QED
    BY <1>1, <1>3, <2>1 DEF Becomes
<1>4. ASSUME NEW where, NEW outcome,
             worker' = [worker EXCEPT ![w].pc = where, ![w].outcome = outcome]
      PROVE  Becomes(w, where, worker[w].input, worker[w].left, outcome)
  <2> DEFINE mid == [worker[w] EXCEPT !.pc = where]
  <2>0. mid = [pc |-> where, input |-> worker[w].input, left |-> worker[w].left,
               outcome |-> worker[w].outcome]
    BY <1>2
  <2>1. [mid EXCEPT !.outcome = outcome]
          = [pc |-> where, input |-> worker[w].input, left |-> worker[w].left, outcome |-> outcome]
    <3> HIDE DEF mid
    <3> QED
      BY <2>0
  <2>2. worker' = [worker EXCEPT ![w] = [mid EXCEPT !.outcome = outcome]]
    BY <1>1, <1>4
  <2> QED
    BY <2>1, <2>2 DEF Becomes
<1>5. /\ [Away EXCEPT !.pc = "receive"] = [pc |-> "receive", input |-> NoInput, left |-> 0, outcome |-> "none"]
      /\ [Away EXCEPT !.pc = "done"] = [pc |-> "done", input |-> NoInput, left |-> 0, outcome |-> "none"]
  BY DEF Away
<1>6. Send(w) => Becomes(w, "check", plan.inputs[sent + 1], plan.per, "none")
  BY DEF Send, Checking, Becomes
<1>7. Close(w) => Becomes(w, "done", NoInput, 0, "none")
  BY <1>5 DEF Close, Becomes
<1>8. Checked(w) => \/ Becomes(w, "receive", NoInput, 0, "none")
                    \/ \E m \in plan.mutations : Becomes(w, "check", m, worker[w].left - 1, "none")
  BY <1>5 DEF Checked, Checking, Becomes
<1>9. NewRunner(w) => Becomes(w, "receive", worker[w].input, worker[w].left, worker[w].outcome)
  BY <1>3 DEF NewRunner
<1>10. RunWrites(w) => Becomes(w, "read", worker[w].input, worker[w].left, worker[w].outcome)
  BY <1>3 DEF RunWrites
<1>11. AddCount(w) => Becomes(w, "bucket", worker[w].input, worker[w].left, worker[w].outcome)
  BY <1>3 DEF AddCount
<1>12. Judge(w) => Becomes(w, "judged", worker[w].input, worker[w].left,
                Compared(Expected(Results(Returned(w)), worker[w].input.len), worker[w].input.got))
  BY <1>4 DEF Judge
<1> QED
  BY <1>6, <1>7, <1>8, <1>9, <1>10, <1>11, <1>12

LEMMA PlanStays ==
  ASSUME [Next]_vars
  PROVE  plan' = plan /\ Jobs' = Jobs /\ Given(plan)' = Given(plan) /\ (Forged' <=> Forged)
<1>1. \A w : Turn(w) => plan' = plan
  BY DEF Turn, Send, NewRunner, Close, Split, RunWrites, Judge, Agreed, AddCount, AddBucket, others
<1>2. \A r : OracleAnswers(r) \/ OracleExits(r) => plan' = plan
  BY DEF OracleAnswers, OracleExits, others
<1>3. plan' = plan
  BY <1>1, <1>2, StepKinds DEF vars, Ends, Artifact, OracleBuilt, SeedsRead, TooLong, CloseWork, PrintReport
<1> QED
  BY <1>3 DEF Jobs, Forged, Given

LEMMA WorkersInit == Init => Workers
<1> SUFFICES ASSUME Init PROVE Workers
  OBVIOUS
<1>1. plan \in Plans /\ pc = "oracle" /\ sent = 0 /\ worker = [w \in Runners |-> Away]
  BY DEF Init
<1>2. Len(plan.inputs) \in Nat
  BY <1>1, PlanFacts
<1>3. Away \in WorkerRec
  BY DEF Away, WorkerRec
<1>4. Away.pc = "off"
  BY DEF Away
<1> QED
  BY <1>1, <1>2, <1>3, <1>4 DEF Workers, HasInput

(* The step of one worker, whatever it does otherwise.                     *)
LEMMA MoveKeepsWorkers ==
  ASSUME Workers, NEW w \in Jobs, plan' = plan, pc' = pc, sent' \in 0 .. Len(plan.inputs),
         NEW where, NEW input, NEW left, NEW outcome,
         [pc |-> where, input |-> input, left |-> left, outcome |-> outcome] \in WorkerRec,
         pc \in {"send", "wait"} \/ where = "done",
         where \in HasInput => input \in Given(plan),
         where = "bucket" => outcome \in Disagreements,
         Becomes(w, where, input, left, outcome)
  PROVE  Workers'
<1> DEFINE new == [pc |-> where, input |-> input, left |-> left, outcome |-> outcome]
<1>1. worker \in [Runners -> WorkerRec] /\ w \in Runners
  BY PlanFacts DEF Workers
<1>2. Jobs' = Jobs /\ Given(plan)' = Given(plan)
  BY DEF Jobs, Given
<1>3. new.pc = where /\ new.input = input /\ new.outcome = outcome /\ new \in WorkerRec
  OBVIOUS
<1>4. worker' = [worker EXCEPT ![w] = new]
  BY DEF Becomes
<1> HIDE DEF new
<1>5. worker' \in [Runners -> WorkerRec] /\ worker'[w] = new
        /\ \A v \in Runners \ {w} : worker'[v] = worker[v]
  BY <1>1, <1>3, <1>4
<1>6. ASSUME NEW v \in Runners
      PROVE  /\ v \notin Jobs' => worker'[v] = Away
             /\ pc' \notin {"send", "wait"} => worker'[v].pc \in {"off", "done"}
             /\ worker'[v].pc \in HasInput => worker'[v].input \in Given(plan)'
             /\ worker'[v].pc = "bucket" => worker'[v].outcome \in Disagreements
  <2>1. CASE v = w
    BY <1>2, <1>3, <1>5, <2>1
  <2>2. CASE v # w
    BY <1>2, <1>5, <2>2 DEF Workers
  <2> QED
    BY <2>1, <2>2
<1>7. plan' \in Plans /\ pc' \in {"oracle", "scripts", "send", "wait", "off"} /\ sent' \in 0 .. Len(plan'.inputs)
  BY DEF Workers
<1> QED
  BY <1>5, <1>6, <1>7 DEF Workers, Away

LEMMA ComparedIs ==
  ASSUME NEW e, NEW g
  PROVE  Compared(e, g) \in {"agree", "skipped"} \cup Disagreements
BY DEF Compared, Disagreements

LEMMA TurnKeepsWorkers ==
  ASSUME Workers, NEW w \in Jobs, Turn(w)
  PROVE  Workers'
<1> DEFINE now == worker[w]
<1>1. /\ worker \in [Runners -> WorkerRec] /\ w \in Runners /\ plan \in Plans
      /\ sent \in 0 .. Len(plan.inputs)
  BY PlanFacts DEF Workers
<1>2. now.input \in Inputs \cup {NoInput} /\ now.left \in Int
        /\ now.outcome \in {"none", "agree", "skipped"} \cup Disagreements
  BY <1>1 DEF WorkerRec
<1>3. /\ now.pc \in HasInput => now.input \in Given(plan)
      /\ now.pc \notin {"off", "done"} => pc \in {"send", "wait"}
  BY <1>1 DEF Workers
<1>4. Len(plan.inputs) \in Nat /\ plan.per \in Nat /\ Given(plan) \subseteq Inputs
        /\ plan.mutations \subseteq Given(plan)
        /\ \A n \in 1 .. Len(plan.inputs) : plan.inputs[n] \in Given(plan)
  BY <1>1, PlanFacts
<1>5. ASSUME NEW where \in {"receive", "read", "judged", "done"} \cup {"check", "bucket"},
             NEW input \in Inputs \cup {NoInput}, NEW left \in Int,
             NEW outcome \in {"none", "agree", "skipped"} \cup Disagreements
      PROVE  [pc |-> where, input |-> input, left |-> left, outcome |-> outcome] \in WorkerRec
  BY DEF WorkerRec, HasInput
<1>6. CASE Send(w)
  <2>1. /\ plan' = plan /\ pc' = pc /\ pc = "send" /\ sent' = sent + 1 /\ sent < Len(plan.inputs)
        /\ Becomes(w, "check", plan.inputs[sent + 1], plan.per, "none")
    BY <1>6, WorkerMoves DEF Send
  <2>2. sent + 1 \in 1 .. Len(plan.inputs) /\ sent' \in 0 .. Len(plan.inputs)
    BY <1>1, <1>4, <2>1
  <2>3. plan.inputs[sent + 1] \in Given(plan) /\ plan.inputs[sent + 1] \in Inputs /\ plan.per \in Int
    BY <1>4, <2>2
  <2>4. [pc |-> "check", input |-> plan.inputs[sent + 1], left |-> plan.per, outcome |-> "none"] \in WorkerRec
    BY <1>5, <2>3
  <2> QED
    BY <2>1, <2>2, <2>3, <2>4, MoveKeepsWorkers
<1>7. ASSUME Checked(w), UNCHANGED others, now.pc \in HasInput PROVE Workers'
  <2>1. plan' = plan /\ pc' = pc /\ pc \in {"send", "wait"} /\ sent' \in 0 .. Len(plan.inputs)
    BY <1>1, <1>3, <1>7 DEF others, HasInput
  <2>2. CASE Becomes(w, "receive", NoInput, 0, "none")
    <3>1. [pc |-> "receive", input |-> NoInput, left |-> 0, outcome |-> "none"] \in WorkerRec
      BY <1>5
    <3>2. "receive" \notin HasInput
      BY DEF HasInput
    <3> QED
      BY <2>1, <2>2, <3>1, <3>2, MoveKeepsWorkers
  <2>3. ASSUME NEW m \in plan.mutations, Becomes(w, "check", m, now.left - 1, "none") PROVE Workers'
    <3>1. m \in Given(plan) /\ m \in Inputs /\ now.left - 1 \in Int
      BY <1>2, <1>4
    <3>2. [pc |-> "check", input |-> m, left |-> now.left - 1, outcome |-> "none"] \in WorkerRec
      BY <1>5, <3>1
    <3> QED
      BY <2>1, <2>3, <3>1, <3>2, MoveKeepsWorkers
  <2> QED
    BY <1>7, <2>2, <2>3, WorkerMoves
<1>8. CASE Close(w)
  <2>1. /\ plan' = plan /\ pc' = pc /\ pc = "wait" /\ sent' \in 0 .. Len(plan.inputs)
        /\ Becomes(w, "done", NoInput, 0, "none")
    BY <1>1, <1>8, WorkerMoves DEF Close, others
  <2>2. [pc |-> "done", input |-> NoInput, left |-> 0, outcome |-> "none"] \in WorkerRec /\ "done" \notin HasInput
    BY <1>5 DEF HasInput
  <2> QED
    BY <2>1, <2>2, MoveKeepsWorkers
<1>9. ASSUME NEW where \in {"receive", "read", "judged", "bucket"}, UNCHANGED others,
             now.pc \notin {"off", "done"}, NEW outcome \in {"none", "agree", "skipped"} \cup Disagreements,
             where # "receive" => now.pc \in HasInput,
             where = "bucket" => outcome \in Disagreements,
             Becomes(w, where, now.input, now.left, outcome)
      PROVE  Workers'
  <2>1. plan' = plan /\ pc' = pc /\ pc \in {"send", "wait"} /\ sent' \in 0 .. Len(plan.inputs)
    BY <1>1, <1>3, <1>9 DEF others
  <2>2. [pc |-> where, input |-> now.input, left |-> now.left, outcome |-> outcome] \in WorkerRec
    BY <1>2, <1>5
  <2>3. where \in HasInput => now.input \in Given(plan)
    BY <1>3, <1>9 DEF HasInput
  <2> QED
    BY <1>9, <2>1, <2>2, <2>3, MoveKeepsWorkers
<1>10. CASE NewRunner(w)
  <2>1. now.pc = "start" /\ UNCHANGED others /\ Becomes(w, "receive", now.input, now.left, now.outcome)
    BY <1>10, WorkerMoves DEF NewRunner
  <2> QED
    BY <1>2, <1>9, <2>1
<1>11. CASE RunWrites(w)
  <2>1. now.pc = "check" /\ UNCHANGED others /\ Becomes(w, "read", now.input, now.left, now.outcome)
    BY <1>11, WorkerMoves DEF RunWrites
  <2> QED
    BY <1>2, <1>9, <2>1 DEF HasInput
<1>12. CASE Judge(w)
  <2> DEFINE outcome == Compared(Expected(Results(Returned(w)), now.input.len), now.input.got)
  <2>1. now.pc = "read" /\ UNCHANGED others /\ Becomes(w, "judged", now.input, now.left, outcome)
    BY <1>12, WorkerMoves DEF Judge
  <2>2. outcome \in {"none", "agree", "skipped"} \cup Disagreements
    BY ComparedIs
  <2> HIDE DEF outcome
  <2> QED
    BY <1>9, <2>1, <2>2 DEF HasInput
<1>13. CASE AddCount(w)
  <2>1. /\ now.pc = "judged" /\ UNCHANGED others /\ now.outcome \in Disagreements
        /\ Becomes(w, "bucket", now.input, now.left, now.outcome)
    BY <1>13, WorkerMoves DEF AddCount
  <2> QED
    BY <1>2, <1>9, <2>1 DEF HasInput
<1>14. CASE Split(w) \/ Agreed(w) \/ AddBucket(w)
  BY <1>7, <1>14 DEF Split, Agreed, AddBucket, HasInput
<1> QED
  BY <1>6, <1>8, <1>10, <1>11, <1>12, <1>13, <1>14 DEF Turn

LEMMA WorkersStep == Workers /\ [Next]_vars => Workers'
<1> SUFFICES ASSUME Workers, [Next]_vars PROVE Workers'
  OBVIOUS
<1>1. /\ plan' = plan /\ Jobs' = Jobs /\ Given(plan)' = Given(plan) /\ plan \in Plans
      /\ sent \in 0 .. Len(plan.inputs) /\ Len(plan.inputs) \in Nat /\ Jobs \subseteq Runners
  BY PlanStays, PlanFacts DEF Workers
<1>2. Away \in WorkerRec /\ Away.pc = "off" /\ Away' = Away
  BY DEF Away, WorkerRec
<1>3. ASSUME worker' = worker, sent' \in 0 .. Len(plan.inputs),
             pc' = pc \/ pc' \in {"send", "wait", "off", "scripts"},
             pc' \notin {"send", "wait"} => \A w \in Runners : worker[w].pc \in {"off", "done"}
      PROVE  Workers'
  BY <1>1, <1>2, <1>3 DEF Workers
<1>4. ASSUME NEW how \in {"fatal", "killed"}, Ends(how) PROVE Workers'
  <2>1. worker' = [w \in Runners |-> Away] /\ pc' = "off" /\ sent' = sent
    BY <1>4 DEF Ends
  <2> QED
    BY <1>1, <1>2, <2>1 DEF Workers, HasInput
<1>5. CASE StartWorkers /\ sent' = sent
  <2> DEFINE ready == [Away EXCEPT !.pc = "start"]
  <2>1. worker' = [w \in Runners |-> IF w \in Jobs THEN ready ELSE Away] /\ pc' = "send"
    BY <1>5 DEF StartWorkers
  <2>2. ready \in WorkerRec /\ ready.pc = "start"
    BY DEF Away, WorkerRec
  <2> HIDE DEF ready
  <2>3. \A w \in Runners : worker'[w] \in WorkerRec /\ worker'[w].pc \in {"off", "start"}
          /\ (w \notin Jobs => worker'[w] = Away)
    BY <1>2, <2>1, <2>2
  <2>4. worker' \in [Runners -> WorkerRec]
    BY <1>2, <2>1, <2>2
  <2> QED
    BY <1>1, <1>2, <1>5, <2>1, <2>3, <2>4 DEF Workers, HasInput
<1>6. CASE OracleBuilt \/ SeedsRead
  <2>1. /\ sent' = sent
        /\ StartWorkers \/ (pc = "oracle" /\ pc' = "scripts" /\ worker' = worker)
    BY <1>6 DEF OracleBuilt, SeedsRead
  <2> QED
    BY <1>1, <1>3, <1>5, <2>1 DEF Workers
<1>7. CASE UNCHANGED vars \/ \E p \in {Main} \cup Jobs : Artifact(p)
  BY <1>1, <1>3, <1>7 DEF Workers, vars, Artifact
<1>8. CASE \E r \in Jobs : OracleAnswers(r) \/ OracleExits(r)
  BY <1>1, <1>3, <1>8 DEF Workers, OracleAnswers, OracleExits, others
<1>9. CASE TooLong
  <2>1. worker' = worker /\ pc' = pc /\ sent' = sent + 1 /\ sent < Len(plan.inputs)
    BY <1>9 DEF TooLong
  <2>2. sent' \in 0 .. Len(plan.inputs)
    BY <1>1, <2>1
  <2> QED
    BY <1>3, <2>1, <2>2 DEF Workers
<1>10. CASE CloseWork
  BY <1>1, <1>3, <1>10 DEF CloseWork
<1>11. CASE PrintReport
  <2>1. worker' = worker /\ pc' = "off" /\ sent' = sent /\ \A w \in Jobs : worker[w].pc = "done"
    BY <1>11 DEF PrintReport
  <2>2. \A w \in Runners : worker[w].pc \in {"off", "done"}
    BY <1>2, <2>1 DEF Workers
  <2> QED
    BY <1>1, <1>3, <2>1, <2>2
<1> QED
  BY <1>4, <1>6, <1>7, <1>8, <1>9, <1>10, <1>11, StepKinds, TurnKeepsWorkers

---------------------------------------------------------------------------
(* The cache.                                                              *)

LEMMA PlacesInit == Init => Places
<1> SUFFICES ASSUME Init PROVE Places
  OBVIOUS
<1>1. pc = "oracle" /\ at = [p \in Procs |-> IF p = Main THEN Stage("oracle") ELSE Idle]
  BY DEF Init
<1>2. Main \in Procs
  BY PlansAssumption
<1> QED
  BY <1>1, <1>2 DEF Places, Alone, Stage, Idle

(* Only Main has work in the cache before there are workers.               *)
LEMMA AtWork ==
  ASSUME Workers, Places, NEW p \in {Main} \cup Jobs, Artifact(p)
  PROVE  /\ p \in Procs
         /\ pc \in {"oracle", "scripts"} => p = Main
         /\ pc \in {"oracle", "scripts"} \/ StatOracle(p)
<1>1. p \in Procs /\ pc # "off" /\ ArtifactStep(p)
  BY PlanFacts DEF Workers, Artifact
<1>2. at[p].stage \notin {"idle", "ready"}
  BY <1>1 DEF ArtifactStep, StatOracle, StatScripts, Download, DownloadFails, UnzipOne, UnzipEnd,
              Compile, Compiled, CompileFails
<1>3. pc \in {"oracle", "scripts"} => p = Main
  BY <1>1, <1>2 DEF Places, Alone
<1>4. ASSUME pc \notin {"oracle", "scripts"} PROVE at[p].stage = "oracle"
  BY <1>1, <1>2, <1>4 DEF Places, Workers
<1>5. at[p].stage = "oracle" => StatOracle(p)
  BY <1>1 DEF ArtifactStep, StatScripts, Download, DownloadFails, UnzipOne, UnzipEnd,
              Compile, Compiled, CompileFails
<1> QED
  BY <1>1, <1>3, <1>4, <1>5

(* Where main is after a step in the cache.                                *)
LEMMA MainInCache ==
  ASSUME Places, Main \in Procs, ArtifactStep(Main), pc \in {"oracle", "scripts"}
  PROVE  /\ \E where : at' = [at EXCEPT ![Main] = where] /\ DOMAIN where = {"stage", "archive", "n"}
         /\ pc = "oracle" =>
              /\ at'[Main].stage \in {"oracle", "download", "unzip", "compile", "link", "ready", "failed"}
              /\ at'[Main].stage \in {"download", "unzip"} => at'[Main].archive = "amalgamation"
              /\ at'[Main].stage = "ready" => bin' # "none"
         /\ pc = "scripts" =>
              /\ bin' # "none"
              /\ at'[Main].stage \in {"scripts", "download", "unzip", "ready", "failed"}
              /\ at'[Main].stage \in {"download", "unzip"} => at'[Main].archive = "src"
<1> DEFINE now == at[Main]
<1>1. DOMAIN at = Procs /\ DOMAIN now = {"stage", "archive", "n"}
  BY DEF Places
<1>2. \A s : /\ DOMAIN Stage(s) = {"stage", "archive", "n"} /\ Stage(s).stage = s
             /\ DOMAIN Fetching(s) = {"stage", "archive", "n"}
             /\ Fetching(s).stage = "download" /\ Fetching(s).archive = s
  BY DEF Stage, Fetching
<1>3. Ready = Stage("ready") /\ Failed = Stage("failed")
  BY DEF Ready, Failed
<1>4. \A where : Go(Main, where) => at'[Main] = where
  BY <1>1 DEF Go
<1>5. CASE StatOracle(Main)
  <2>1. now.stage = "oracle" /\ UNCHANGED bin
    BY <1>5 DEF StatOracle, disk
  <2>2. \/ bin # "none" /\ Go(Main, Stage("ready"))
        \/ Go(Main, Stage("compile")) \/ Go(Main, Fetching("amalgamation"))
    BY <1>3, <1>5 DEF StatOracle
  <2> QED
    BY <1>2, <1>4, <2>1, <2>2 DEF Places, Go
<1>6. CASE StatScripts(Main)
  <2>1. now.stage = "scripts" /\ UNCHANGED bin
    BY <1>6 DEF StatScripts, disk
  <2>2. Go(Main, Stage("ready")) \/ Go(Main, Fetching("src"))
    BY <1>3, <1>6 DEF StatScripts
  <2> QED
    BY <1>2, <1>4, <2>1, <2>2 DEF Places, Go
<1>7. CASE Download(Main)
  <2> DEFINE where == [now EXCEPT !.stage = "unzip"]
  <2>1. now.stage = "download" /\ UNCHANGED bin /\ Go(Main, where)
    BY <1>7 DEF Download
  <2>2. DOMAIN where = {"stage", "archive", "n"} /\ where.stage = "unzip" /\ where.archive = now.archive
    BY <1>1
  <2> HIDE DEF where
  <2> QED
    BY <1>4, <2>1, <2>2 DEF Places, Go
<1>8. CASE DownloadFails(Main)
  <2>1. now.stage = "download" /\ UNCHANGED bin /\ Go(Main, Stage("failed"))
    BY <1>3, <1>8 DEF DownloadFails, disk
  <2> QED
    BY <1>2, <1>4, <2>1 DEF Places, Go
<1>9. CASE UnzipOne(Main)
  <2> DEFINE where == [now EXCEPT !.n = @ + 1]
  <2>1. now.stage = "unzip" /\ UNCHANGED bin
    BY <1>9 DEF UnzipOne
  <2>2. Go(Main, where)
    BY <1>9 DEF UnzipOne
  <2>3. DOMAIN where = {"stage", "archive", "n"} /\ where.stage = "unzip" /\ where.archive = now.archive
    BY <1>1, <2>1
  <2> HIDE DEF where
  <2> QED
    BY <1>4, <2>1, <2>2, <2>3 DEF Places, Go
<1>10. CASE UnzipEnd(Main)
  <2>1. now.stage = "unzip" /\ UNCHANGED bin
    BY <1>10 DEF UnzipEnd, disk
  <2>2. Go(Main, IF now.archive = "amalgamation" THEN Stage("compile") ELSE Stage("ready"))
    BY <1>3, <1>10 DEF UnzipEnd
  <2> QED
    BY <1>2, <1>4, <2>1, <2>2 DEF Places, Go
<1>11. CASE Compile(Main)
  <2>1. now.stage = "compile" /\ Go(Main, Stage("link"))
    BY <1>11 DEF Compile
  <2> QED
    BY <1>2, <1>4, <2>1 DEF Places, Go
<1>12. CASE Compiled(Main)
  <2>1. now.stage = "link" /\ bin' = "good" /\ Go(Main, Stage("ready"))
    BY <1>3, <1>12 DEF Compiled
  <2> QED
    BY <1>2, <1>4, <2>1 DEF Places, Go
<1>13. CASE CompileFails(Main)
  <2>1. now.stage = "link" /\ Go(Main, Stage("failed"))
    BY <1>3, <1>13 DEF CompileFails
  <2> QED
    BY <1>2, <1>4, <2>1 DEF Places, Go
<1> QED
  BY <1>5, <1>6, <1>7, <1>8, <1>9, <1>10, <1>11, <1>12, <1>13 DEF ArtifactStep

LEMMA PlacesStep == Workers /\ Places /\ [Next]_vars => Places'
<1> SUFFICES ASSUME Workers, Places, [Next]_vars PROVE Places'
  OBVIOUS
<1>1. Main \in Procs /\ Jobs \subseteq Procs
  BY PlanFacts DEF Workers
<1>2. DOMAIN at = Procs /\ \A p \in Procs : DOMAIN at[p] = {"stage", "archive", "n"}
  BY DEF Places
<1>3. \A s : DOMAIN Stage(s) = {"stage", "archive", "n"} /\ Stage(s).stage = s
  BY DEF Stage
<1>4. Ready = Stage("ready") /\ Idle = Stage("idle")
  BY DEF Ready, Idle
<1>5. pc \in {"oracle", "scripts", "send", "wait", "off"}
  BY DEF Workers
<1>6. CASE UNCHANGED <<at, bin, pc>>
  BY <1>6 DEF Places, Alone
<1>7. ASSUME UNCHANGED <<at, bin>>, pc \in {"send", "wait"}, pc' \in {"send", "wait", "off"} PROVE Places'
  BY <1>7 DEF Places, Alone
<1>8. ASSUME NEW how \in {"fatal", "killed"}, Ends(how) PROVE Places'
  <2>1. at' = [p \in Procs |-> Stage("idle")] /\ pc' = "off"
    BY <1>4, <1>8 DEF Ends
  <2>2. DOMAIN at' = Procs /\ \A p \in Procs : at'[p] = Stage("idle")
    BY <2>1
  <2> QED
    BY <1>3, <2>1, <2>2 DEF Places
<1>9. ASSUME StartWorkers, bin # "none", UNCHANGED bin PROVE Places'
  <2>1. /\ at' = [p \in Procs |-> IF p \in Jobs THEN Stage("oracle") ELSE Stage("idle")]
        /\ pc' = "send"
    BY <1>4, <1>9 DEF StartWorkers
  <2>2. DOMAIN at' = Procs /\ \A p \in Procs : at'[p] \in {Stage("oracle"), Stage("idle")}
    BY <2>1
  <2> QED
    BY <1>3, <1>9, <2>1, <2>2 DEF Places
<1>10. CASE OracleBuilt
  <2>1. pc = "oracle" /\ at[Main] = Stage("ready") /\ UNCHANGED bin
    BY <1>4, <1>10 DEF OracleBuilt, disk
  <2>2. bin # "none" /\ Alone
    BY <1>3, <2>1 DEF Places
  <2>3. CASE StartWorkers
    BY <1>9, <2>1, <2>2, <2>3
  <2>4. CASE pc' = "scripts" /\ CallTestScripts(Main)
    <3>1. at' = [at EXCEPT ![Main] = Stage("scripts")]
      BY <2>4 DEF CallTestScripts, Go
    <3>2. at'[Main] = Stage("scripts") /\ DOMAIN at' = Procs /\ \A p \in Procs \ {Main} : at'[p] = at[p]
      BY <1>1, <1>2, <3>1
    <3> QED
      BY <1>2, <1>3, <2>1, <2>2, <2>4, <3>2 DEF Places, Alone
  <2> QED
    BY <1>10, <2>3, <2>4 DEF OracleBuilt
<1>11. CASE SeedsRead
  BY <1>9, <1>11 DEF SeedsRead, disk
<1>12. ASSUME NEW p \in {Main} \cup Jobs, Artifact(p) PROVE Places'
  <2>1. pc' = pc /\ ArtifactStep(p)
    BY <1>12 DEF Artifact
  <2>2. p \in Procs /\ (pc \in {"oracle", "scripts"} => p = Main)
          /\ (pc \in {"oracle", "scripts"} \/ StatOracle(p))
    BY <1>12, AtWork
  <2>3. CASE pc \in {"oracle", "scripts"}
    <3>1. PICK where : at' = [at EXCEPT ![Main] = where] /\ DOMAIN where = {"stage", "archive", "n"}
      BY <1>1, <2>1, <2>2, <2>3, MainInCache
    <3>2. at'[Main] = where /\ DOMAIN at' = Procs /\ \A q \in Procs \ {Main} : at'[q] = at[q]
      BY <1>1, <1>2, <3>1
    <3>3. Alone'
      BY <2>3, <3>2 DEF Places, Alone
    <3>4. \A q \in Procs : DOMAIN at'[q] = {"stage", "archive", "n"}
      BY <1>2, <3>1, <3>2
    <3>5. /\ pc' = "oracle" =>
               /\ at'[Main].stage \in {"oracle", "download", "unzip", "compile", "link", "ready", "failed"}
               /\ at'[Main].stage \in {"download", "unzip"} => at'[Main].archive = "amalgamation"
               /\ at'[Main].stage = "ready" => bin' # "none"
          /\ pc' = "scripts" =>
               /\ bin' # "none"
               /\ at'[Main].stage \in {"scripts", "download", "unzip", "ready", "failed"}
               /\ at'[Main].stage \in {"download", "unzip"} => at'[Main].archive = "src"
      BY <1>1, <2>1, <2>2, <2>3, MainInCache
    <3>6. pc' \notin {"send", "wait", "off"} /\ Main' = Main
      BY <2>1, <2>3 DEF Main
    <3> QED
      BY <3>2, <3>3, <3>4, <3>5, <3>6 DEF Places
  <2>4. CASE pc \notin {"oracle", "scripts"}
    <3>1. pc \in {"send", "wait"}
      BY <1>5, <1>12, <2>4 DEF Artifact
    <3>2. StatOracle(p) /\ bin # "none"
      BY <2>2, <2>4, <3>1 DEF Places
    <3>3. at' = [at EXCEPT ![p] = Stage("ready")] /\ bin' = bin
      BY <1>4, <3>2 DEF StatOracle, Go, disk
    <3>4. at'[p] = Stage("ready") /\ DOMAIN at' = Procs /\ \A q \in Procs \ {p} : at'[q] = at[q]
      BY <1>2, <2>2, <3>3
    <3> QED
      BY <1>2, <1>3, <2>1, <3>1, <3>2, <3>3, <3>4 DEF Places
  <2> QED
    BY <2>3, <2>4
<1>13. CASE \E w \in Jobs : Turn(w)
  <2>1. UNCHANGED <<at, bin, pc>>
    BY <1>13 DEF Turn, Send, NewRunner, Close, Split, RunWrites, Judge, Agreed, AddCount, AddBucket, others, disk
  <2> QED
    BY <1>6, <2>1
<1>14. CASE \E r \in Jobs : OracleAnswers(r) \/ OracleExits(r)
  BY <1>6, <1>14 DEF OracleAnswers, OracleExits, others, disk
<1>15. CASE UNCHANGED vars \/ TooLong
  BY <1>6, <1>15 DEF vars, TooLong, disk
<1>16. CASE CloseWork \/ PrintReport
  BY <1>7, <1>16 DEF CloseWork, PrintReport, disk
<1> QED
  BY <1>8, <1>10, <1>11, <1>12, <1>13, <1>14, <1>15, <1>16, StepKinds

(* At most one goroutine is about to link the oracle, and no other         *)
(* compiles it, links it or starts it then, in every call of the program   *)
(* whatever is in the cache: OracleBuilt waits for the oracle before the   *)
(* workers start.                                                          *)
THEOREM OracleIsBuiltOnce == Spec => []BuiltOnce
<1>1. Workers /\ Places => BuiltOnce
  <2> SUFFICES ASSUME Workers, Places, NEW p \in Procs, NEW q \in Procs, p # q, at[p].stage = "link"
               PROVE  at[q].stage \notin {"compile", "link", "ready"}
    BY DEF BuiltOnce
  <2>1. pc \in {"oracle", "scripts"}
    BY DEF Workers, Places
  <2>2. p = Main /\ Alone
    BY <2>1 DEF Places, Alone
  <2> QED
    BY <2>2 DEF Alone
<1>2. Init => Workers /\ Places
  BY WorkersInit, PlacesInit
<1>3. Workers /\ Places /\ [Next]_vars => (Workers /\ Places)'
  BY WorkersStep, PlacesStep
<1> QED
  BY <1>1, <1>2, <1>3, PTL DEF Spec

---------------------------------------------------------------------------
(* The report.                                                             *)

LEMMA SumFacts ==
  ASSUME NEW f, NEW g, f \in [Disagreements -> Nat]
  PROVE  /\ SumOf(f) \in Nat
         /\ (\A k \in Disagreements : f[k] = 0) => SumOf(f) = 0
         /\ \A k \in Disagreements :
              g[k] = f[k] + 1 /\ (\A j \in Disagreements \ {k} : g[j] = f[j]) => SumOf(g) = SumOf(f) + 1
<1> DEFINE a == f["meyer rejects"]
           b == f["meyer accepts"]
           c == f["message"]
           d == f["offset"]
<1>1. Disagreements = {"meyer rejects", "meyer accepts", "message", "offset"}
  BY DEF Disagreements
<1>2. a \in Nat /\ b \in Nat /\ c \in Nat /\ d \in Nat
  BY <1>1
<1>3. SumOf(f) = a + b + c + d
  BY DEF SumOf
<1>4. ASSUME \A k \in Disagreements : f[k] = 0 PROVE a = 0 /\ b = 0 /\ c = 0 /\ d = 0
  BY <1>1, <1>4
<1>5. ASSUME NEW k \in Disagreements, g[k] = f[k] + 1, \A j \in Disagreements \ {k} : g[j] = f[j]
      PROVE  SumOf(g) \in {(a + 1) + b + c + d, a + (b + 1) + c + d, a + b + (c + 1) + d, a + b + c + (d + 1)}
  <2>1. SumOf(g) = g["meyer rejects"] + g["meyer accepts"] + g["message"] + g["offset"]
    BY DEF SumOf
  <2>2. \/ /\ g["meyer rejects"] = a + 1 /\ g["meyer accepts"] = b /\ g["message"] = c /\ g["offset"] = d
        \/ /\ g["meyer rejects"] = a /\ g["meyer accepts"] = b + 1 /\ g["message"] = c /\ g["offset"] = d
        \/ /\ g["meyer rejects"] = a /\ g["meyer accepts"] = b /\ g["message"] = c + 1 /\ g["offset"] = d
        \/ /\ g["meyer rejects"] = a /\ g["meyer accepts"] = b /\ g["message"] = c /\ g["offset"] = d + 1
    BY <1>1, <1>5
  <2> HIDE DEF a, b, c, d
  <2> QED
    BY <2>1, <2>2
<1> HIDE DEF a, b, c, d
<1> QED
  BY <1>2, <1>3, <1>4, <1>5

LEMMA CountedInit == Init => Counted
<1> SUFFICES ASSUME Init PROVE Counted
  OBVIOUS
<1>1. /\ pc = "oracle" /\ exit = "none" /\ disagreements = 0
      /\ buckets = [k \in Disagreements |-> 0] /\ worker = [w \in Runners |-> Away]
      /\ Jobs \subseteq Runners
  BY PlanFacts DEF Init
<1>2. Adding = {}
  BY <1>1 DEF Adding, Away
<1>3. Cardinality(Adding) = 0
  BY <1>2, FS_EmptySet
<1>4. buckets \in [Disagreements -> Nat] /\ SumOf(buckets) = 0
  <2>1. buckets \in [Disagreements -> Nat] /\ \A k \in Disagreements : buckets[k] = 0
    BY <1>1
  <2> QED
    BY <2>1, SumFacts
<1> QED
  BY <1>1, <1>3, <1>4 DEF Counted

LEMMA AddingIsFinite ==
  ASSUME plan \in Plans
  PROVE  IsFiniteSet(Adding) /\ Cardinality(Adding) \in Nat
<1>1. Adding \subseteq Jobs /\ IsFiniteSet(Jobs)
  BY PlanFacts DEF Adding
<1>2. IsFiniteSet(Adding)
  BY <1>1, FS_Subset
<1> QED
  BY <1>2, FS_CardinalityType

(* One more in a bucket is one more in all.                                *)
LEMMA OneMore ==
  ASSUME buckets \in [Disagreements -> Nat], NEW k \in Disagreements,
         buckets' = [buckets EXCEPT ![k] = @ + 1]
  PROVE  buckets' \in [Disagreements -> Nat] /\ SumOf(buckets') = SumOf(buckets) + 1
<1>1. /\ buckets' \in [Disagreements -> Nat] /\ buckets'[k] = buckets[k] + 1
      /\ \A j \in Disagreements \ {k} : buckets'[j] = buckets[j]
  OBVIOUS
<1> QED
  BY <1>1, SumFacts

LEMMA CountedStep == Workers /\ Counted /\ [Next]_vars => Counted'
<1> SUFFICES ASSUME Workers, Counted, [Next]_vars PROVE Counted'
  OBVIOUS
<1>1. /\ worker \in [Runners -> WorkerRec] /\ plan \in Plans /\ Jobs \subseteq Runners /\ Jobs' = Jobs
      /\ Cardinality(Adding) \in Nat /\ IsFiniteSet(Adding)
  BY PlanStays, PlanFacts, AddingIsFinite DEF Workers
<1>2. /\ disagreements \in Nat /\ buckets \in [Disagreements -> Nat] /\ SumOf(buckets) \in Nat
  BY SumFacts DEF Counted
(* A step that adds nothing and does not end the program.                  *)
<1>3. ASSUME UNCHANGED <<disagreements, buckets, exit>>, Adding' = Adding, pc' = "off" <=> pc = "off",
             exit \in {"ok", "disagree"} => worker' = worker
      PROVE  Counted'
  BY <1>1, <1>3 DEF Counted
<1>4. ASSUME worker' = worker PROVE Adding' = Adding
  BY <1>1, <1>4 DEF Adding
<1>5. ASSUME NEW how \in {"fatal", "killed"}, Ends(how) PROVE Counted'
  <2>1. pc' = "off" /\ exit' = how /\ UNCHANGED <<disagreements, buckets>>
    BY <1>5 DEF Ends, report
  <2> QED
    BY <1>2, <1>5, <2>1 DEF Counted
<1>6. CASE StartWorkers /\ UNCHANGED <<disagreements, buckets, exit>> /\ pc \in {"oracle", "scripts"}
  <2>1. worker' = [w \in Runners |-> IF w \in Jobs THEN [Away EXCEPT !.pc = "start"] ELSE Away]
    BY <1>6 DEF StartWorkers
  <2>2. Adding' = {}
    BY <1>1, <2>1 DEF Adding, Away
  <2>3. Adding = {}
    BY <1>1, <1>6 DEF Adding, Workers
  <2>4. pc' = "send" /\ exit = "none"
    BY <1>6 DEF StartWorkers, Counted
  <2> QED
    BY <1>3, <1>6, <2>2, <2>3, <2>4
<1>7. CASE OracleBuilt \/ SeedsRead
  <2>1. /\ pc \in {"oracle", "scripts"} /\ UNCHANGED <<disagreements, buckets, exit>>
        /\ StartWorkers \/ (pc' = "scripts" /\ worker' = worker)
    BY <1>7 DEF OracleBuilt, SeedsRead, report
  <2> QED
    BY <1>3, <1>4, <1>6, <2>1
<1>8. CASE UNCHANGED vars \/ TooLong \/ CloseWork \/ \E p \in {Main} \cup Jobs : Artifact(p)
  <2>1. UNCHANGED <<disagreements, buckets, exit, worker>> /\ (pc' = pc \/ (pc = "send" /\ pc' = "wait"))
    BY <1>8 DEF vars, TooLong, CloseWork, Artifact, report
  <2> QED
    BY <1>3, <1>4, <2>1
<1>9. CASE \E r \in Jobs : OracleAnswers(r) \/ OracleExits(r)
  <2>1. UNCHANGED <<disagreements, buckets, exit, worker, pc>>
    BY <1>9 DEF OracleAnswers, OracleExits, others, report
  <2> QED
    BY <1>3, <1>4, <2>1
<1>10. CASE PrintReport
  <2>1. /\ pc = "wait" /\ pc' = "off" /\ UNCHANGED <<disagreements, buckets, worker>>
        /\ exit' = (IF disagreements > 0 THEN "disagree" ELSE "ok")
        /\ \A w \in Jobs : worker[w].pc = "done"
    BY <1>10 DEF PrintReport, report
  <2>2. Adding = {} /\ Adding' = {}
    BY <1>4, <2>1 DEF Adding
  <2>3. Cardinality(Adding) = 0 /\ Cardinality(Adding') = 0
    BY <2>2, FS_EmptySet
  <2>4. disagreements = SumOf(buckets) + Cardinality(Adding)
    BY <2>1 DEF Counted
  <2>5. exit' \in {"ok", "disagree"} /\ (exit' = "ok" <=> disagreements = 0)
    BY <1>2, <2>1
  <2> QED
    BY <1>1, <1>2, <2>1, <2>3, <2>4, <2>5 DEF Counted
<1>11. ASSUME NEW w \in Jobs, Turn(w) PROVE Counted'
  <2>1. /\ worker[w].pc \notin {"off", "done"} /\ UNCHANGED <<pc, exit>>
    BY <1>11 DEF Turn, Send, NewRunner, Close, Split, RunWrites, Judge, Agreed, AddCount, AddBucket, others
  <2>2. pc \in {"send", "wait"} /\ exit = "none" /\ w \in Runners
    BY <1>1, <2>1 DEF Workers, Counted
  <2>3. ASSUME NEW where, NEW input, NEW left, NEW outcome, Becomes(w, where, input, left, outcome)
        PROVE  Adding' = IF where = "bucket" THEN Adding \cup {w} ELSE Adding \ {w}
    <3> DEFINE new == [pc |-> where, input |-> input, left |-> left, outcome |-> outcome]
    <3>1. new.pc = where /\ worker' = [worker EXCEPT ![w] = new]
      BY <2>3 DEF Becomes
    <3> HIDE DEF new
    <3>2. worker'[w].pc = where /\ \A v \in Runners \ {w} : worker'[v] = worker[v]
      BY <1>1, <2>2, <3>1
    <3> QED
      BY <1>1, <3>2 DEF Adding
  <2>4. ASSUME Checked(w) PROVE Adding' = Adding \ {w}
    <3>1. \E where, input, left : where # "bucket" /\ Becomes(w, where, input, left, "none")
      BY <2>4, WorkerMoves
    <3> QED
      BY <2>3, <3>1
  <2>5. CASE AddCount(w)
    <3>1. /\ disagreements' = disagreements + 1 /\ UNCHANGED buckets /\ worker[w].pc = "judged"
      BY <1>11, <2>5 DEF AddCount
    <3>2. \E input, left, outcome : Becomes(w, "bucket", input, left, outcome)
      BY <2>5, WorkerMoves
    <3>3. Adding' = Adding \cup {w} /\ w \notin Adding
      BY <2>3, <3>1, <3>2 DEF Adding
    <3>4. Cardinality(Adding') = Cardinality(Adding) + 1
      BY <1>1, <3>3, FS_AddElement
    <3>5. disagreements = SumOf(buckets) + Cardinality(Adding)
      BY <2>2 DEF Counted
    <3>6. disagreements' = SumOf(buckets') + Cardinality(Adding')
      BY <1>1, <1>2, <3>1, <3>4, <3>5
    <3> QED
      BY <1>2, <2>1, <2>2, <3>1, <3>6 DEF Counted
  <2>6. CASE AddBucket(w)
    <3> DEFINE k == worker[w].outcome
    <3>1. /\ worker[w].pc = "bucket" /\ UNCHANGED disagreements /\ Checked(w)
          /\ buckets' = [buckets EXCEPT ![k] = @ + 1]
      BY <2>6 DEF AddBucket
    <3>2. k \in Disagreements
      BY <2>2, <3>1 DEF Workers
    <3>3. Adding' = Adding \ {w} /\ w \in Adding
      BY <2>4, <3>1 DEF Adding
    <3>4. Cardinality(Adding') = Cardinality(Adding) - 1
      BY <1>1, <3>3, FS_RemoveElement
    <3>5. buckets' \in [Disagreements -> Nat] /\ SumOf(buckets') = SumOf(buckets) + 1
      <4> HIDE DEF k
      <4> QED
        BY <1>2, <3>1, <3>2, OneMore
    <3>6. disagreements = SumOf(buckets) + Cardinality(Adding)
      BY <2>2 DEF Counted
    <3>7. disagreements' = SumOf(buckets') + Cardinality(Adding')
      BY <1>1, <1>2, <3>1, <3>4, <3>5, <3>6
    <3>8. disagreements' \in Nat
      BY <1>2, <3>1
    <3> QED
      BY <2>1, <2>2, <3>5, <3>7, <3>8 DEF Counted
  <2>7. CASE ~AddCount(w) /\ ~AddBucket(w)
    <3>1. /\ UNCHANGED <<disagreements, buckets>> /\ worker[w].pc # "bucket"
      BY <1>11, <2>7 DEF Turn, Send, NewRunner, Close, Split, RunWrites, Judge, Agreed, report
    <3>2. \/ Checked(w)
          \/ \E where, input, left, outcome : where # "bucket" /\ Becomes(w, where, input, left, outcome)
      BY <1>11, <2>7, WorkerMoves DEF Turn, Split, Agreed
    <3>3. Adding' = Adding \ {w}
      BY <2>3, <2>4, <3>2
    <3>4. Adding' = Adding
      BY <3>1, <3>3 DEF Adding
    <3> QED
      BY <1>3, <2>1, <2>2, <3>1, <3>4
  <2> QED
    BY <2>5, <2>6, <2>7
<1> QED
  BY <1>5, <1>7, <1>8, <1>9, <1>10, <1>11, StepKinds

(* The report that is printed is complete: its total is the sum of its     *)
(* parts, with any number of workers between the counter and the buckets   *)
(* of report.add, and nobody is left who adds to it.                       *)
THEOREM ReportIsComplete == Spec => []ReportAddsUp
<1>1. Workers /\ Counted => ReportAddsUp
  <2> SUFFICES ASSUME Workers, Counted, exit \in {"ok", "disagree"}
               PROVE  /\ disagreements = SumOf(buckets)
                      /\ exit = "ok" <=> disagreements = 0
                      /\ \A w \in Jobs : worker[w].pc = "done"
    BY DEF ReportAddsUp
  <2>1. disagreements = SumOf(buckets) + Cardinality(Adding)
    BY DEF Counted
  <2>2. (exit = "ok" <=> disagreements = 0) /\ \A w \in Jobs : worker[w].pc = "done"
    BY DEF Counted
  <2>3. Adding = {}
    BY <2>2 DEF Adding
  <2>4. Cardinality(Adding) = 0 /\ SumOf(buckets) \in Nat
    BY <2>3, FS_EmptySet, SumFacts DEF Counted
  <2> QED
    BY <2>1, <2>2, <2>4
<1>2. Init => Workers /\ Counted
  BY WorkersInit, CountedInit
<1>3. Workers /\ Counted /\ [Next]_vars => (Workers /\ Counted)'
  BY WorkersStep, CountedStep
<1> QED
  BY <1>1, <1>2, <1>3, PTL DEF Spec

---------------------------------------------------------------------------
(* The pipes.                                                              *)

LEMMA NothingAsked ==
  /\ NoProcess \in PipesOf(Inputs) /\ NoProcess.asked = <<>> /\ NoProcess.pipe = <<>>
  /\ \A state \in {"none", "alive", "dead"} :
       Process(state) \in PipesOf(Inputs) /\ Process(state).asked = <<>> /\ Process(state).pipe = <<>>
<1>1. <<>> \in Seq(Inputs) /\ <<>> \in Seq(LinesOf(Inputs))
  OBVIOUS
<1>2. NoProcess \in PipesOf(Inputs) /\ NoProcess.asked = <<>> /\ NoProcess.pipe = <<>>
  BY <1>1 DEF NoProcess, PipesOf
<1>3. ASSUME NEW state \in {"none", "alive", "dead"}
      PROVE  Process(state) = [state |-> state, asked |-> <<>>, pipe |-> <<>>]
  BY DEF Process, NoProcess
<1>4. \A state \in {"none", "alive", "dead"} :
        [state |-> state, asked |-> <<>>, pipe |-> <<>>] \in PipesOf(Inputs)
  BY <1>1 DEF PipesOf
<1> QED
  BY <1>2, <1>3, <1>4

LEMMA FramedInit == Init => Framed
<1> SUFFICES ASSUME Init PROVE Framed
  OBVIOUS
<1>1. oracle = [r \in Runners |-> NoProcess] /\ worker = [w \in Runners |-> Away] /\ Jobs \subseteq Runners
  BY PlanFacts DEF Init
<1>2. Away.pc = "off"
  BY DEF Away
<1> QED
  BY <1>1, <1>2, NothingAsked DEF Framed, InStep, Quiet

(* A worker whose pipes no step touches.                                   *)
LEMMA InStepStays ==
  ASSUME NEW v, InStep(v), worker'[v] = worker[v], oracle'[v] = oracle[v]
  PROVE  InStep(v)'
<1>1. \A c : UnderWay(v, c) => UnderWay(v, c)'
  BY DEF UnderWay, Reply, Lines
<1>2. Quiet(v) => Quiet(v)'
  BY DEF Quiet
<1> DEFINE verdict(w) == Compared(Expected(w.input.results, w.input.len), w.input.got)
<1>3. worker[v].pc = "judged" => worker[v].outcome = verdict(worker[v])
  BY DEF InStep
<1>4. worker'[v].pc = "judged" => worker'[v].outcome = verdict(worker'[v])
  BY <1>3
<1>5. UnderWay(v, worker[v].input) => UnderWay(v, worker[v].input)'
  BY DEF UnderWay, Reply, Lines
<1> HIDE DEF verdict
<1> QED
  BY <1>2, <1>4, <1>5 DEF InStep, verdict

(* What Run returns of a reply in which no line is forged.                 *)
LEMMA WholeReply ==
  ASSUME NEW w, NEW c \in Inputs, ~Has(c, "eqeq"), ~Has(c, "stmtgood"),
         oracle[w].pipe \in Seq(LinesOf(Inputs)), UnderWay(w, c), Succeeds(w)
  PROVE  /\ Results(Returned(w)) = c.results
         /\ oracle[w].asked = <<>>
         /\ SubSeq(oracle[w].pipe, StopAt(w) + 1, Len(oracle[w].pipe)) = <<>>
<1>1. Kinds(c) \in Seq(LineKinds) /\ Results(Lines(c)) = c.results
  BY InputsAssumption
<1>2. /\ oracle[w].asked = <<>>
      /\ oracle[w].pipe = Reply(c) /\ StopAt(w) = Len(Lines(c)) + 1
  BY <1>1, StopInReply DEF Has
<1>3. ~Spills(c)
  BY DEF Spills, Has
<1>4. Returned(w) = Lines(c)
  BY <1>1, <1>3, RunFacts DEF Known
<1>5. Len(oracle[w].pipe) \in Nat /\ StopAt(w) = Len(oracle[w].pipe)
        /\ \A n \in 1 .. Len(oracle[w].pipe) : oracle[w].pipe[n] \in LinesOf(Inputs)
  BY <1>1, <1>2, RepliesOf, LenProperties, ElementOfSeq
<1>6. SubSeq(oracle[w].pipe, StopAt(w) + 1, Len(oracle[w].pipe)) = <<>>
  BY <1>5, SubSeqProperties, EmptySeq
<1> QED
  BY <1>1, <1>2, <1>4, <1>6

LEMMA TurnKeepsFramed ==
  ASSUME Workers, Framed, NEW w \in Jobs, Turn(w), Jobs' = Jobs, Forged' <=> Forged
  PROVE  Framed'
<1> DEFINE now == worker[w]
           r   == oracle[w]
<1>1. /\ worker \in [Runners -> WorkerRec] /\ oracle \in [Runners -> PipesOf(Inputs)]
      /\ w \in Runners /\ Jobs \subseteq Runners /\ Given(plan) \subseteq Inputs
  BY PlanFacts DEF Workers, Framed
<1>2. r.asked \in Seq(Inputs) /\ r.pipe \in Seq(LinesOf(Inputs)) /\ r.state \in {"none", "alive", "dead"}
  BY <1>1 DEF PipesOf
<1>3. \A c \in Inputs : Kinds(c) \in Seq(LineKinds)
  BY InputsAssumption
<1>4. now.pc \in HasInput => now.input \in Given(plan)
  BY <1>1 DEF Workers
(* The others are where they were.                                         *)
<1>5. ASSUME NEW where, NEW input, NEW left, NEW outcome, Becomes(w, where, input, left, outcome),
             oracle' \in [Runners -> PipesOf(Inputs)],
             \A v \in Jobs \ {w} : oracle'[v] = oracle[v],
             ~Forged => InStep(w)'
      PROVE  Framed'
  <2>1. ASSUME ~Forged, NEW v \in Jobs \ {w} PROVE InStep(v)'
    <3>1. worker'[v] = worker[v]
      BY <1>1, <1>5 DEF Becomes
    <3> QED
      BY <1>5, <2>1, <3>1, InStepStays DEF Framed
  <2>2. ~Forged' => \A v \in Jobs' : InStep(v)'
    BY <1>5, <2>1
  <2> QED
    BY <1>5, <2>2 DEF Framed
<1>6. ASSUME NEW where, NEW input, NEW left, NEW outcome, Becomes(w, where, input, left, outcome)
      PROVE  worker'[w].pc = where /\ worker'[w].input = input /\ worker'[w].outcome = outcome
  <2> DEFINE new == [pc |-> where, input |-> input, left |-> left, outcome |-> outcome]
  <2>1. new.pc = where /\ new.input = input /\ new.outcome = outcome
    OBVIOUS
  <2>2. worker'[w] = new
    BY <1>1, <1>6 DEF Becomes
  <2> HIDE DEF new
  <2> QED
    BY <2>1, <2>2
(* Nothing was asked and nothing is.                                       *)
<1>7. ASSUME NEW where \in {"receive", "check", "bucket", "done"}, NEW input, NEW left, NEW outcome,
             Becomes(w, where, input, left, outcome), UNCHANGED oracle, now.pc # "read"
      PROVE  Framed'
  <2>1. ~Forged => Quiet(w)'
    BY <1>7 DEF Framed, InStep, Quiet
  <2>2. ~Forged => InStep(w)'
    BY <1>6, <1>7, <2>1 DEF InStep
  <2> QED
    BY <1>1, <1>5, <1>7, <2>2
<1>8. ASSUME Checked(w), UNCHANGED oracle, now.pc # "read" PROVE Framed'
  <2>1. PICK where \in {"receive", "check"} : \E input, left : Becomes(w, where, input, left, "none")
    BY <1>8, WorkerMoves
  <2> QED
    BY <1>7, <1>8, <2>1
<1>9. ASSUME NEW where \in {"receive", "check", "bucket", "done"}, NEW input, NEW left, NEW outcome, NEW process \in PipesOf(Inputs),
             Becomes(w, where, input, left, outcome), oracle' = [oracle EXCEPT ![w] = process],
             process.asked = <<>>, process.pipe = <<>>
      PROVE  Framed'
  <2>1. oracle'[w] = process /\ oracle' \in [Runners -> PipesOf(Inputs)] /\ \A v \in Jobs \ {w} : oracle'[v] = oracle[v]
    BY <1>1, <1>9
  <2>2. InStep(w)'
    BY <1>6, <1>9, <2>1 DEF InStep, Quiet
  <2> QED
    BY <1>5, <1>9, <2>1, <2>2
<1>10. CASE Send(w)
  <2>1. now.pc = "receive" /\ UNCHANGED oracle /\ Becomes(w, "check", plan.inputs[sent + 1], plan.per, "none")
    BY <1>10, WorkerMoves DEF Send
  <2> QED
    BY <1>7, <2>1
<1>11. CASE NewRunner(w)
  <2> DEFINE process == Process(IF bin = "good" THEN "alive" ELSE "dead")
  <2>1. oracle' = [oracle EXCEPT ![w] = process] /\ Becomes(w, "receive", now.input, now.left, now.outcome)
    BY <1>11, WorkerMoves DEF NewRunner
  <2>2. process \in PipesOf(Inputs) /\ process.asked = <<>> /\ process.pipe = <<>>
    BY NothingAsked
  <2> HIDE DEF process
  <2> QED
    BY <1>9, <2>1, <2>2
<1>12. CASE Close(w)
  <2>1. oracle' = [oracle EXCEPT ![w] = NoProcess] /\ Becomes(w, "done", NoInput, 0, "none")
    BY <1>12, WorkerMoves DEF Close
  <2> QED
    BY <1>9, <2>1, NothingAsked
<1>13. CASE Split(w) \/ Agreed(w) \/ AddBucket(w)
  BY <1>8, <1>13 DEF Split, Agreed, AddBucket
<1>14. CASE AddCount(w)
  <2>1. now.pc = "judged" /\ UNCHANGED oracle /\ Becomes(w, "bucket", now.input, now.left, now.outcome)
    BY <1>14, WorkerMoves DEF AddCount
  <2> QED
    BY <1>7, <2>1
<1>15. CASE RunWrites(w)
  <2> DEFINE c == now.input
  <2>1. now.pc = "check" /\ Ask(w, c) /\ Becomes(w, "read", c, now.left, now.outcome)
    BY <1>15, WorkerMoves DEF RunWrites
  <2>2. c \in Inputs
    BY <1>1, <1>4, <2>1 DEF HasInput
  <2>3. oracle' \in [Runners -> PipesOf(Inputs)]
    BY <1>1, <1>3, <2>1, <2>2, PipesStayTyped
  <2>4. Pipe(w, r.state, Append(r.asked, c), r.pipe)
    BY <1>1, <2>1, PipeStepsOf
  <2>5. oracle'[w].asked = Append(r.asked, c) /\ oracle'[w].pipe = r.pipe /\ \A v \in Jobs \ {w} : oracle'[v] = oracle[v]
    BY <1>1, <2>4 DEF Pipe
  <2>6. ASSUME ~Forged PROVE InStep(w)'
    <3>1. r.asked = <<>> /\ r.pipe = <<>>
      BY <2>1, <2>6 DEF Framed, InStep, Quiet
    <3>2. Append(r.asked, c) = <<c>>
      BY <2>2, <3>1
    <3>3. worker'[w].pc = "read" /\ worker'[w].input = c
      BY <1>6, <2>1
    <3>4. oracle'[w].asked = <<worker'[w].input>> /\ oracle'[w].pipe = <<>>
      BY <2>5, <3>1, <3>2, <3>3
    <3> QED
      BY <3>3, <3>4 DEF InStep, UnderWay
  <2> HIDE DEF c
  <2> QED
    BY <1>5, <2>1, <2>3, <2>5, <2>6
<1>16. CASE Judge(w)
  <2> DEFINE c == now.input
             verdict == Compared(Expected(Results(Returned(w)), c.len), c.got)
             left == SubSeq(r.pipe, StopAt(w) + 1, Len(r.pipe))
  <2>1. now.pc = "read" /\ Succeeds(w) /\ Read(w) /\ Answered(w) /\ Becomes(w, "judged", c, now.left, verdict)
    BY <1>16, WorkerMoves DEF Judge, Succeeds
  <2>2. c \in Given(plan) /\ c \in Inputs
    BY <1>1, <1>4, <2>1 DEF HasInput
  <2>3. oracle' \in [Runners -> PipesOf(Inputs)]
    BY <1>1, <1>3, <2>1, PipesStayTyped
  <2>4. Pipe(w, r.state, r.asked, left)
    BY <1>1, <2>1, PipeStepsOf
  <2>5. oracle'[w].asked = r.asked /\ oracle'[w].pipe = left /\ \A v \in Jobs \ {w} : oracle'[v] = oracle[v]
    BY <1>1, <2>4 DEF Pipe
  <2>6. ASSUME ~Forged PROVE InStep(w)'
    <3>1. ~Has(c, "eqeq") /\ ~Has(c, "stmtgood")
      BY <2>2, <2>6 DEF Forged
    <3>2. UnderWay(w, c)
      BY <2>1, <2>6 DEF Framed, InStep
    <3>3. Results(Returned(w)) = c.results /\ r.asked = <<>> /\ left = <<>>
      BY <1>2, <2>1, <2>2, <3>1, <3>2, WholeReply
    <3>4. Quiet(w)'
      BY <2>5, <3>3 DEF Quiet
    <3>5. worker'[w].pc = "judged" /\ worker'[w].input = c /\ worker'[w].outcome = verdict
      BY <1>6, <2>1
    <3>6. verdict = Compared(Expected(c.results, c.len), c.got)
      BY <3>3
    <3> HIDE DEF verdict, c
    <3> QED
      BY <3>4, <3>5, <3>6 DEF InStep
  <2> HIDE DEF c, verdict
  <2> QED
    BY <1>5, <2>1, <2>3, <2>5, <2>6
<1> QED
  BY <1>10, <1>11, <1>12, <1>13, <1>14, <1>15, <1>16 DEF Turn

LEMMA FramedStep == Workers /\ Framed /\ [Next]_vars => Framed'
<1> SUFFICES ASSUME Workers, Framed, [Next]_vars PROVE Framed'
  OBVIOUS
<1>1. /\ Jobs' = Jobs /\ (Forged' <=> Forged) /\ Jobs \subseteq Runners /\ Given(plan) \subseteq Inputs
      /\ oracle \in [Runners -> PipesOf(Inputs)]
  BY PlanStays, PlanFacts DEF Workers, Framed
<1>2. Away.pc = "off"
  BY DEF Away
<1>3. CASE UNCHANGED <<worker, oracle>>
  <2>1. ~Forged => \A w \in Jobs : InStep(w)'
    BY <1>3, InStepStays DEF Framed
  <2> QED
    BY <1>1, <1>3, <2>1 DEF Framed
<1>4. ASSUME NEW how \in {"fatal", "killed"}, Ends(how) PROVE Framed'
  <2>1. oracle' = [r \in Runners |-> NoProcess] /\ worker' = [w \in Runners |-> Away]
    BY <1>4 DEF Ends
  <2>2. \A w \in Jobs : InStep(w)'
    BY <1>1, <1>2, <2>1, NothingAsked DEF InStep, Quiet
  <2>3. oracle' \in [Runners -> PipesOf(Inputs)]
    BY <2>1, NothingAsked
  <2> QED
    BY <1>1, <2>2, <2>3 DEF Framed
<1>5. CASE StartWorkers /\ UNCHANGED oracle /\ pc \in {"oracle", "scripts"}
  <2> DEFINE ready == [Away EXCEPT !.pc = "start"]
  <2>1. worker' = [w \in Runners |-> IF w \in Jobs THEN ready ELSE Away]
    BY <1>5 DEF StartWorkers
  <2>2. ready.pc = "start"
    BY DEF Away
  <2> HIDE DEF ready
  <2>3. ASSUME NEW w \in Jobs, ~Forged PROVE InStep(w)'
    <3>1. worker'[w].pc = "start"
      BY <1>1, <2>1, <2>2
    <3>2. worker[w].pc # "read"
      BY <1>1, <1>5 DEF Workers
    <3>3. Quiet(w)'
      BY <1>5, <2>3, <3>2 DEF Framed, InStep, Quiet
    <3> QED
      BY <3>1, <3>3 DEF InStep
  <2> QED
    BY <1>1, <1>5, <2>3 DEF Framed
<1>6. CASE OracleBuilt \/ SeedsRead
  <2>1. /\ pc \in {"oracle", "scripts"} /\ UNCHANGED oracle
        /\ StartWorkers \/ UNCHANGED worker
    BY <1>6 DEF OracleBuilt, SeedsRead
  <2> QED
    BY <1>3, <1>5, <2>1
<1>7. CASE UNCHANGED vars \/ TooLong \/ CloseWork \/ PrintReport \/ \E p \in {Main} \cup Jobs : Artifact(p)
  BY <1>3, <1>7 DEF vars, TooLong, CloseWork, PrintReport, Artifact
<1>8. ASSUME NEW r \in Jobs, OracleAnswers(r) \/ OracleExits(r) PROVE Framed'
  <2>1. UNCHANGED worker /\ (Answer(r) \/ Exit(r)) /\ oracle[r].asked # <<>> /\ r \in Runners
    BY <1>1, <1>8 DEF OracleAnswers, OracleExits, Answer, Exit
  <2>2. \A c \in Inputs : Kinds(c) \in Seq(LineKinds)
    BY InputsAssumption
  <2>3. oracle' \in [Runners -> PipesOf(Inputs)]
    BY <1>1, <2>1, <2>2, PipesStayTyped
  <2>4. ASSUME ~Forged PROVE \A w \in Jobs : InStep(w)'
    <3> DEFINE c == worker[r].input
    <3>1. worker[r].pc = "read" /\ UnderWay(r, c)
      BY <2>1, <2>4 DEF Framed, InStep, Quiet
    <3>2. c \in Inputs
      BY <1>1, <2>1, <3>1 DEF Workers, HasInput
    <3>3. UnderWay(r, c)' /\ \A q \in Runners \ {r} : oracle'[q] = oracle[q]
      <4>1. Kinds(c) \in Seq(LineKinds)
        BY <2>2, <3>2
      <4>2. \A d \in Inputs : Kinds(d) \in Seq(LineKinds) /\ UnderWay(r, d) =>
              UnderWay(r, d)' /\ \A q \in Runners \ {r} : oracle'[q] = oracle[q]
        BY <1>1, <2>1, WayGoesOn
      <4>3. ASSUME NEW d \in Inputs, d = worker[r].input, UnderWay(r, d)' PROVE UnderWay(r, worker[r].input)'
        BY <2>1, <4>3 DEF UnderWay, Reply, Lines
      <4>4. UnderWay(r, c)
        BY <3>1
      <4> QED
        BY <3>2, <4>1, <4>2, <4>3, <4>4
    <3>4. InStep(r)'
      BY <2>1, <3>1, <3>3 DEF InStep
    <3>5. ASSUME NEW w \in Jobs \ {r} PROVE InStep(w)'
      BY <1>1, <2>1, <2>4, <3>3, InStepStays DEF Framed
    <3> QED
      BY <3>4, <3>5
  <2> QED
    BY <1>1, <2>3, <2>4 DEF Framed
<1> QED
  BY <1>1, <1>4, <1>6, <1>7, <1>8, StepKinds, TurnKeepsFramed

---------------------------------------------------------------------------
(* The verdicts of the program.                                            *)

InductiveInvariant == Workers /\ Framed

LEMMA FramedHolds == Spec => []InductiveInvariant
<1>1. Init => InductiveInvariant
  BY WorkersInit, FramedInit DEF InductiveInvariant
<1>2. InductiveInvariant /\ [Next]_vars => InductiveInvariant'
  BY WorkersStep, FramedStep DEF InductiveInvariant
<1> QED
  BY <1>1, <1>2, PTL DEF Spec

(* The outcome of a check is the verdict on what the oracle observed of    *)
(* the input that the worker has.                                          *)
LEMMA JudgedIs ==
  ASSUME InductiveInvariant, ~Forged, NEW w \in Jobs, Judged(w)
  PROVE  /\ worker[w].input \in Inputs
         /\ worker[w].outcome =
              Compared(Expected(worker[w].input.results, worker[w].input.len), worker[w].input.got)
<1>1. Jobs \subseteq Runners /\ Given(plan) \subseteq Inputs
  BY PlanFacts DEF InductiveInvariant, Workers
<1>2. worker[w].input \in Inputs
  BY <1>1 DEF InductiveInvariant, Workers, Judged, HasInput
<1> QED
  BY <1>2 DEF InductiveInvariant, Framed, InStep, Judged

(* A parser that answers as SQLite's parser would is never reported: not   *)
(* for text that SQLite left unread, nor for input that was cut short, nor *)
(* because a runner is out of step with its worker, as long as no message  *)
(* has a line that reads like one of the oracle's own.                     *)
THEOREM PerfectIsNotReported == Spec => []NoFalseAlarm
<1>1. InductiveInvariant => NoFalseAlarm
  <2> SUFFICES ASSUME InductiveInvariant, ~Forged, NEW w \in Jobs, Judged(w),
                      worker[w].input.got = Perfect(worker[w].input)
               PROVE  worker[w].outcome \notin Disagreements
    BY DEF NoFalseAlarm
  <2> DEFINE x == worker[w].input
  <2>1. x \in Inputs /\ worker[w].outcome = Compared(Expected(x.results, x.len), x.got)
    BY JudgedIs
  <2>2. Legible(x) /\ Plausible(x) /\ x.got = Perfect(x)
    BY <2>1, InputsAssumption
  <2> HIDE DEF x
  <2> QED
    BY <2>1, <2>2, PerfectIsNoFalseAlarm
<1> QED
  BY <1>1, FramedHolds, PTL

(* A wrong answer is reported if SQLite has read the text where it departs *)
(* from the right one and knows the place of its error.                    *)
THEOREM DepartureIsReported == Spec => []NothingMissed
<1>1. InductiveInvariant => NothingMissed
  <2> SUFFICES ASSUME InductiveInvariant, ~Forged, NEW w \in Jobs, Judged(w), Missable(worker[w].input)
               PROVE  worker[w].outcome \in Disagreements
    BY DEF NothingMissed, Missable
  <2> DEFINE x == worker[w].input
  <2>1. x \in Inputs /\ worker[w].outcome = Compared(Expected(x.results, x.len), x.got)
    BY JudgedIs
  <2>2. Legible(x) /\ Plausible(x) /\ Answerable(x) /\ Missable(x)
    BY <2>1, InputsAssumption
  <2> HIDE DEF x
  <2> QED
    BY <2>1, <2>2, WrongIsReported
<1> QED
  BY <1>1, FramedHolds, PTL
====
