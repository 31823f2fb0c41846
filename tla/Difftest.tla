---- MODULE Difftest ----
(***************************************************************************)
(* cmd/difftest: main builds the oracle, sends the inputs to its workers   *)
(* and prints the report; every worker has a runner of its own and checks  *)
(* each input and mutations of it.                                         *)
(*                                                                         *)
(* An input is [len, splits, long, results, got, statements, lines,        *)
(* forged]: its length, whether SplitDiffers or maxlen excludes it, what   *)
(* the oracle observes, what meyer answers, what its statements really     *)
(* are, the kinds of the lines of the oracle's reply, and the result that  *)
(* a line of a message reads like, if one does. A statement is [start,     *)
(* stop, bad]: bad is the offset of its syntax error, -1 if it has none.   *)
(***************************************************************************)
EXTENDS Artifacts, Runner, Expectation, FiniteSets

CONSTANTS Plans    \* ways to call the program: [jobs, inputs, mutations, per, fuzzdata, cached]

Main     == 0
Given(p) == {p.inputs[n] : n \in DOMAIN p.inputs} \cup p.mutations
Inputs   == UNION {Given(p) : p \in Plans}

(* What the lines that Run has read are taken for: a result of the input   *)
(* they are about, the n-th result line the n-th of them, or a forged one. *)
Number(l) == Cardinality({m \in 1 .. l.n : Kinds(l.of)[m] = "result"})
Results(lines) ==
  LET own == SelectSeq(lines, LAMBDA l : l.kind \in {"result", "stmtgood"})
  IN [n \in DOMAIN own |-> IF own[n].kind = "result" THEN own[n].of.results[Number(own[n])]
                           ELSE own[n].of.forged]

Accepted == [ok |-> TRUE, message |-> "", offset |-> -1]

(* The message of a syntax error at bad.                                   *)
Message(input, bad) == IF bad = input.len THEN "incomplete" ELSE "near"

(* The statements of a text, one after the other. A syntax error is at a   *)
(* byte of its statement, or at the end of the text.                       *)
Legible(input) ==
  LET s == input.statements IN
  /\ input.len \in Nat
  /\ s \in Seq([start : 0 .. input.len, stop : 0 .. input.len, bad : -1 .. input.len])
  /\ \A n \in DOMAIN s : s[n].start < s[n].stop /\ s[n].bad \in
       {-1} \cup s[n].start .. (IF s[n].stop = input.len THEN input.len ELSE s[n].stop - 1)
  /\ \A m, n \in DOMAIN s : m < n => s[m].stop <= s[n].start

(* What SQLite may say of a piece of text, result n, that begins with the  *)
(* statement s. It stops at the end of the statement; the rest of the      *)
(* piece is not read, unless there is nothing in it but comments. It stops *)
(* at a syntax error, whose place it may not know; or before it, at an     *)
(* error that is not about syntax.                                         *)
Observed(input, n, s) ==
  LET r   == input.results[n]
      end == StatementEnd(input.results, input.len, n)
  IN /\ s.start = r.offset /\ s.stop <= end
     /\ \/ /\ r.ok /\ s.bad = -1
           /\ \/ r.tail = s.stop
              \/ /\ r.tail = 0
                 /\ \A m \in DOMAIN input.statements : LET t == input.statements[m] IN
                      s.stop <= t.start /\ t.start < end => t.bad = -1
        \/ /\ ~r.ok /\ r.message = "semantic"
           /\ r.tail \in s.start + 1 .. s.stop
           /\ s.bad = -1 \/ s.bad >= r.tail
        \/ /\ ~r.ok /\ s.bad # -1
           /\ r.message = Message(input, s.bad) /\ r.errOffset \in {s.bad, -1}

(* The results are in the order of the text, and what comes before the     *)
(* first of them is in order.                                              *)
Plausible(input) ==
  LET r == input.results
      s == input.statements
  IN /\ r \in Seq([offset : 0 .. input.len, ok : BOOLEAN, message : SyntaxFamily \cup {"semantic", ""},
                   errOffset : -1 .. input.len, tail : 0 .. input.len])
     /\ \A m, n \in DOMAIN r : m < n => r[m].offset < r[n].offset
     /\ \A n \in DOMAIN r : \E m \in DOMAIN s : Observed(input, n, s[m])
     /\ \A m \in DOMAIN s : s[m].bad # -1 => \E n \in DOMAIN r : r[n].offset <= s[m].start

Answerable(input) ==
  \/ input.got = Accepted
  \/ input.got \in [ok : {FALSE}, message : SyntaxFamily, offset : 0 .. input.len]

ASSUME PlansAssumption ==
  /\ Main \in Procs
  /\ \A p \in Plans : /\ p.jobs \in Nat /\ 1 .. p.jobs \subseteq Runners \cap Procs
                      /\ p.inputs \in Seq(Inputs) /\ p.per \in Nat

ASSUME InputsAssumption ==
  \A x \in Inputs :
    /\ Legible(x) /\ Plausible(x) /\ Answerable(x)
    /\ Kinds(x) \in Seq(LineKinds)
    /\ ~Has(x, "stmtgood") => Results(Lines(x)) = x.results

VARIABLES
  plan,
  pc,            \* where main is
  sent,          \* inputs done with by main
  worker,        \* worker -> where it is, its input, mutations left, the outcome
  checked, skipped, disagreements, \* the counters of the report
  buckets,       \* kind of disagreement -> how many
  exit

report == <<checked, skipped, disagreements, buckets>>
vars == <<zip, file, bin, at, oracle, plan, pc, sent, worker, report, exit>>

Jobs == 1 .. plan.jobs
NoInput == [len |-> 0, splits |-> FALSE, long |-> FALSE, results |-> <<>>, got |-> Accepted,
            statements |-> <<>>, lines |-> <<>>, forged |-> "none"]
Away == [pc |-> "off", input |-> NoInput, left |-> 0, outcome |-> "none"]

Init ==
  /\ plan \in Plans
  /\ zip = [a \in Archives |-> plan.cached]
  /\ file = [f \in Unpacked |-> plan.cached]
  /\ bin = plan.cached
  /\ at = [p \in Procs |-> IF p = Main THEN Stage("oracle") ELSE Idle]
  /\ oracle = [r \in Runners |-> NoProcess]
  /\ pc = "oracle"
  /\ sent = 0
  /\ worker = [w \in Runners |-> Away]
  /\ checked = 0 /\ skipped = 0 /\ disagreements = 0
  /\ buckets = [k \in Disagreements |-> 0]
  /\ exit = "none"

Ends(how) ==
  /\ pc' = "off"
  /\ exit' = how
  /\ at' = [p \in Procs |-> Idle]
  /\ oracle' = [r \in Runners |-> NoProcess]
  /\ worker' = [w \in Runners |-> Away]
  /\ UNCHANGED <<plan, sent, report>>

(* os.Exit(1) in any goroutine ends all of them.                           *)
Fatal == Ends("fatal") /\ UNCHANGED disk

(* The user interrupts the program.                                        *)
Killed == pc # "off" /\ Ends("killed") /\ \E p \in Procs : Torn(p)

Artifact(p) ==
  /\ pc # "off"
  /\ ArtifactStep(p)
  /\ UNCHANGED <<oracle, plan, pc, sent, worker, report, exit>>

ArtifactError(p) == pc # "off" /\ at[p] = Failed /\ Fatal

StartWorkers ==
  /\ pc' = "send"
  /\ worker' = [w \in Runners |-> IF w \in Jobs THEN [Away EXCEPT !.pc = "start"] ELSE Away]
  /\ at' = [p \in Procs |-> IF p \in Jobs THEN Stage("oracle") ELSE Idle]

(* Mutant of OracleBuilt: main does not wait for the oracle.               *)
OracleNotBuilt ==
  /\ pc = "oracle"
  /\ IF plan.fuzzdata
       THEN pc' = "scripts" /\ CallTestScripts(Main) /\ UNCHANGED worker
       ELSE StartWorkers
  /\ UNCHANGED <<disk, oracle, plan, sent, report, exit>>

(* With -fuzzdata, FuzzSeeds comes next: it calls TestScripts.             *)
OracleBuilt ==
  /\ pc = "oracle"
  /\ at[Main] = Ready
  /\ IF plan.fuzzdata
       THEN pc' = "scripts" /\ CallTestScripts(Main) /\ UNCHANGED worker
       ELSE StartWorkers
  /\ UNCHANGED <<disk, oracle, plan, sent, report, exit>>

(* The oracle reads the seeds from the databases.                          *)
SeedsRead ==
  /\ pc = "scripts"
  /\ at[Main] = Ready
  /\ bin = "good" /\ file["fuzzdata1.db"] = "good"
  /\ StartWorkers
  /\ UNCHANGED <<disk, oracle, plan, sent, report, exit>>

SeedsError ==
  /\ pc = "scripts"
  /\ at[Main] = Ready
  /\ bin # "good" \/ file["fuzzdata1.db"] # "good"
  /\ Fatal

TooLong ==
  /\ pc = "send"
  /\ sent < Len(plan.inputs)
  /\ plan.inputs[sent + 1].long
  /\ sent' = sent + 1
  /\ UNCHANGED <<disk, at, oracle, plan, pc, worker, report, exit>>

Checking(input, left) == [pc |-> "check", input |-> input, left |-> left, outcome |-> "none"]

Send(w) ==
  /\ pc = "send"
  /\ sent < Len(plan.inputs)
  /\ ~plan.inputs[sent + 1].long
  /\ worker[w].pc = "receive"
  /\ sent' = sent + 1
  /\ worker' = [worker EXCEPT ![w] = Checking(plan.inputs[sent + 1], plan.per)]
  /\ UNCHANGED <<disk, at, oracle, plan, pc, report, exit>>

(* Without workers the runtime finds every goroutine asleep.               *)
AllAsleep ==
  /\ pc = "send"
  /\ Jobs = {}
  /\ sent < Len(plan.inputs)
  /\ ~plan.inputs[sent + 1].long
  /\ Fatal

CloseWork ==
  /\ pc = "send"
  /\ sent = Len(plan.inputs)
  /\ pc' = "wait"
  /\ UNCHANGED <<disk, at, oracle, plan, sent, worker, report, exit>>

(* Mutant of PrintReport: the workers are not waited for.                  *)
ReportEarly ==
  /\ pc = "wait"
  /\ pc' = "off"
  /\ exit' = IF disagreements > 0 THEN "disagree" ELSE "ok"
  /\ UNCHANGED <<disk, at, oracle, plan, sent, worker, report>>

PrintReport ==
  /\ pc = "wait"
  /\ \A w \in Jobs : worker[w].pc = "done"
  /\ pc' = "off"
  /\ exit' = IF disagreements > 0 THEN "disagree" ELSE "ok"
  /\ UNCHANGED <<disk, at, oracle, plan, sent, worker, report>>

---------------------------------------------------------------------------
(* A worker.                                                               *)

others == <<disk, at, plan, pc, sent, exit>>

NewRunner(w) ==
  /\ worker[w].pc = "start"
  /\ at[w] = Ready
  /\ oracle' = [oracle EXCEPT ![w] = Process(IF bin = "good" THEN "alive" ELSE "dead")]
  /\ worker' = [worker EXCEPT ![w].pc = "receive"]
  /\ UNCHANGED <<others, report>>

(* A torn binary does not start.                                           *)
NotExecutable(w) == worker[w].pc = "start" /\ at[w] = Ready /\ bin # "good" /\ Fatal

Close(w) ==
  /\ worker[w].pc = "receive"
  /\ pc = "wait"
  /\ worker' = [worker EXCEPT ![w] = [Away EXCEPT !.pc = "done"]]
  /\ oracle' = [oracle EXCEPT ![w] = NoProcess]
  /\ UNCHANGED <<others, report>>

(* What comes after a check: a mutation, or the next input. There may be   *)
(* fewer mutations than were asked for.                                    *)
Checked(w) ==
  \/ worker' = [worker EXCEPT ![w] = [Away EXCEPT !.pc = "receive"]]
  \/ /\ worker[w].left > 0
     /\ \E m \in plan.mutations :
          worker' = [worker EXCEPT ![w] = Checking(m, worker[w].left - 1)]

Split(w) ==
  /\ worker[w].pc = "check"
  /\ worker[w].input.splits
  /\ skipped' = skipped + 1
  /\ Checked(w)
  /\ UNCHANGED <<others, oracle, checked, disagreements, buckets>>

RunWrites(w) ==
  /\ worker[w].pc = "check"
  /\ ~worker[w].input.splits
  /\ oracle[w].state = "alive"
  /\ Ask(w, worker[w].input)
  /\ worker' = [worker EXCEPT ![w].pc = "read"]
  /\ UNCHANGED <<others, report>>

(* The record goes to a process that is gone, or the reply is no good.     *)
RunFails(w) ==
  /\ \/ worker[w].pc = "check" /\ ~worker[w].input.splits /\ oracle[w].state = "dead"
     \/ worker[w].pc = "read" /\ ((Answered(w) /\ ~Succeeds(w)) \/ EndOfPipe(w))
  /\ Fatal

Judge(w) ==
  /\ worker[w].pc = "read"
  /\ Succeeds(w)
  /\ worker' = [worker EXCEPT ![w].pc = "judged",
                  ![w].outcome = Compared(Expected(Results(Returned(w)), worker[w].input.len),
                                          worker[w].input.got)]
  /\ checked' = checked + 1
  /\ Read(w)
  /\ UNCHANGED <<others, skipped, disagreements, buckets>>

Agreed(w) ==
  /\ worker[w].pc = "judged"
  /\ worker[w].outcome \in {"agree", "skipped"}
  /\ skipped' = IF worker[w].outcome = "skipped" THEN skipped + 1 ELSE skipped
  /\ Checked(w)
  /\ UNCHANGED <<others, oracle, checked, disagreements, buckets>>

(* report.add: the counter first, then the bucket under the lock.          *)
AddCount(w) ==
  /\ worker[w].pc = "judged"
  /\ worker[w].outcome \in Disagreements
  /\ disagreements' = disagreements + 1
  /\ worker' = [worker EXCEPT ![w].pc = "bucket"]
  /\ UNCHANGED <<others, oracle, checked, skipped, buckets>>

AddBucket(w) ==
  /\ worker[w].pc = "bucket"
  /\ buckets' = [buckets EXCEPT ![worker[w].outcome] = @ + 1]
  /\ Checked(w)
  /\ UNCHANGED <<others, oracle, checked, skipped, disagreements>>

OracleAnswers(r) == Answer(r) /\ UNCHANGED <<others, worker, report>>
OracleExits(r)   == Exit(r) /\ UNCHANGED <<others, worker, report>>

Rest == pc = "off" /\ UNCHANGED vars

MainStep ==
  \/ Artifact(Main) \/ ArtifactError(Main)
  \/ OracleBuilt \/ SeedsRead \/ SeedsError
  \/ TooLong \/ AllAsleep \/ CloseWork \/ PrintReport

WorkerStep(w) ==
  \/ Artifact(w) \/ ArtifactError(w) \/ NewRunner(w) \/ NotExecutable(w) \/ Close(w)
  \/ Split(w) \/ RunWrites(w) \/ RunFails(w) \/ Judge(w) \/ Agreed(w) \/ AddCount(w) \/ AddBucket(w)

Next ==
  \/ MainStep \/ Killed \/ Rest
  \/ \E w \in Jobs : Send(w) \/ WorkerStep(w)
  \/ \E r \in Jobs : OracleAnswers(r) \/ OracleExits(r)

(* As in Regenerate: the goroutines and the processes are scheduled.       *)
Fairness ==
  /\ WF_vars(MainStep)
  /\ WF_vars(\E w \in Jobs : Send(w))
  /\ \A w \in Runners : WF_vars(w \in Jobs /\ WorkerStep(w))
  /\ \A r \in Runners : WF_vars(r \in Jobs /\ OracleAnswers(r))

Spec == Init /\ [][Next]_vars /\ Fairness

---------------------------------------------------------------------------
(* Properties.                                                             *)

(* What a parser that makes no mistake answers: the error of the first     *)
(* statement that has one.                                                 *)
Bad(input) ==
  LET s == input.statements
  IN IF \A n \in DOMAIN s : s[n].bad = -1 THEN -1
     ELSE s[CHOOSE n \in DOMAIN s : s[n].bad # -1 /\ \A m \in 1 .. n - 1 : s[m].bad = -1].bad

Perfect(input) ==
  IF Bad(input) = -1 THEN Accepted
  ELSE [ok |-> FALSE, message |-> Message(input, Bad(input)), offset |-> Bad(input)]

Judged(w) == worker[w].pc = "judged"

(* A message can have a line that reads like one of the oracle's own, and  *)
(* then nothing more can be said of the inputs of the runner.              *)
Forged == \E x \in Given(plan) : Has(x, "eqeq") \/ Has(x, "stmtgood")

(* A parser that answers as SQLite's parser would, if nothing but syntax   *)
(* mattered to it, is never reported: not for text that SQLite left        *)
(* unread, nor for input that was cut short behind a semantic error, nor   *)
(* because a runner is out of step, unless a message is forged.            *)
NoFalseAlarm ==
  ~Forged =>
    \A w \in Jobs : Judged(w) /\ worker[w].input.got = Perfect(worker[w].input) =>
      worker[w].outcome \notin Disagreements

(* A wrong answer is reported if SQLite read the text where it first       *)
(* departs from the right one, and knows the place of its error.           *)
ReadText(input) ==
  UNION {LET r == input.results[n]
             s == CHOOSE m \in DOMAIN input.statements : input.statements[m].start = r.offset
             stop == input.statements[s].stop
         IN IF r.ok \/ IsSyntaxError(r) THEN r.offset .. (IF stop = input.len THEN stop ELSE stop - 1)
            ELSE r.offset .. r.tail - 1 : n \in DOMAIN input.results}

Departs(input) ==
  LET b == Bad(input)
      g == IF input.got.ok THEN -1 ELSE input.got.offset
  IN IF b = -1 THEN g ELSE IF g = -1 \/ b < g THEN b ELSE g

NothingMissed ==
  ~Forged => \A w \in Jobs : LET input == worker[w].input IN
    /\ Judged(w)
    /\ input.got # Perfect(input)
    /\ Departs(input) \in ReadText(input)
    /\ ~Truncated(input.results, input.len)
    /\ \A n \in DOMAIN input.results :
         input.results[n].errOffset = -1 => input.results[n].message # input.got.message
    => worker[w].outcome \in Disagreements

(* The report that is printed is about all the checks made: its total is   *)
(* the sum of its parts, and nobody is still adding to it.                 *)
SumOf(f) ==
  f["meyer rejects"] + f["meyer accepts"] + f["message"] + f["offset"]

ReportAddsUp ==
  exit \in {"ok", "disagree"} =>
    /\ disagreements = SumOf(buckets)
    /\ exit = "ok" <=> disagreements = 0
    /\ \A w \in Jobs : worker[w].pc = "done"

(* No goroutine starts an oracle while another one is writing it: "Build   *)
(* the oracle once, before the workers race for it."                       *)
BuiltOnce ==
  \A p, q \in Procs : p # q /\ at[p].stage = "link" =>
    at[q].stage \notin {"compile", "link", "ready"}

(* The program ends, whatever its oracles do.                              *)
ProgramEnds == <>(pc = "off")
====
